---------------------------------- MODULE KCP ----------------------------------
(***************************************************************************)
(* kcp_socket.go, kcp_server.go and kcp_client.go.  What goes on in a      *)
(* connection is the subject of KCPMux: here a read loop may end at any    *)
(* time, mux.init may succeed or fail, and mux.close takes a while.        *)
(* SendMsg stands for the built-in messages too.                           *)
(***************************************************************************)
EXTENDS Stream

(* readLoop: after closeCh the result of a Read is thrown away; a closed   *)
(* session still returns what it has received.                             *)
KCPReceive(s) == ~closeCh[s] /\ Read(s, "read", "handle")

KCPReadEnd(s) == Read(s, "read", "disconnect") \/ Read(s, "handle", "disconnect")

(* The deferred function: onDisconnect, releaseFn and closeOnce, where the *)
(* server's releaseFn is deleteSocket: Close, then the map.                *)
KCPReleased(s) == reader[s] \in {"close", "done"}

KCPReadLoop(s) ==
  \/ /\ \/ Read(s, "connect", "read")
        \/ Read(s, "handle", "read")
        \/ Read(s, "disconnect", IF role = "server" THEN "release" ELSE "close")
        \/ ReadStep(s, "release", "join") /\ CloseChan(s)
        \/ Joined(s) /\ Read(s, "join", "delete")
        \/ ReadStep(s, "close", "done") /\ CloseChan(s)
     /\ UNCHANGED <<handler, sockets, closeVars>>
  \/ Read(s, "delete", "close") /\ DelSocket(s)

-----------------------------------------------------------------------------
(* writeLoop: as TCP's, but it writes whatever waitMsg returns.            *)
KCPWriteLoop(s) ==
  \/ writeCh[s] # <<>> /\ TakeAll(s, "write") /\ UNCHANGED broken
  \/ closeCh[s] /\ TakeAll(s, "last") /\ UNCHANGED broken
  \/ Write(s, "write", "wait") \/ Write(s, "last", "exit")
  \/ ConnClose(s, "done")

-----------------------------------------------------------------------------
(* Close: mux.close, closeOnce, and then wg.Wait.                          *)
KCPClose(s) == CloseChan(s) /\ UNCHANGED <<reader, writer>>

(* accept, or a client: newKCPSocket starts the loops and waits in         *)
(* mux.init; if that fails, in closeForce.                                 *)
KCPNewSocket(s) ==
  /\ ~ServerClosed
  /\ HandlerStep(s, "accepted", "init")
  /\ StartLoops(s)
  /\ UNCHANGED <<sockets, closeVars>>

KCPInit(s, to) ==
  /\ HandlerStep(s, "init", to)
  /\ UNCHANGED loopVars

KCPInitFails(s) ==
  /\ HandlerStep(s, "init", "failed")
  /\ KCPClose(s)
  /\ UNCHANGED <<sockets, closeVars>>

(* KCPServer.Close after the sockets, without an unlock before its return  *)
KCPServerClose ==
  \/ AllClosed /\ CloseStep("sockets", "listener")
  \/ CloseStep("listener", "wait")
  \/ ~accept /\ CloseStep("wait", "returned")
=============================================================================
