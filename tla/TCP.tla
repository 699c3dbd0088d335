---------------------------------- MODULE TCP ----------------------------------
(***************************************************************************)
(* tcp_socket.go, tcp_server.go and tcp_client.go.                         *)
(***************************************************************************)
EXTENDS Stream

(* readLoop: conn.Read and onMsg.                                          *)
TCPReceive(s) == conn[s] # "closed" /\ Read(s, "read", "handle")

(* One of them fails, or the peer is done: wg.Done first.                  *)
TCPReadEnd(s) == Read(s, "read", "close") \/ Read(s, "handle", "close")

MutTCPReadLoop(s) ==   \* does not close closeCh
  \/ Read(s, "connect", "read")
  \/ Read(s, "handle", "read")
  \/ Read(s, "close", "disconnect")
  \/ Read(s, "disconnect", "done")

TCPReadLoop(s) ==
  \/ Read(s, "connect", "read")
  \/ Read(s, "handle", "read")
  \/ ReadStep(s, "close", "disconnect") /\ CloseChan(s)
  \/ Read(s, "disconnect", "done")

-----------------------------------------------------------------------------
(* writeLoop: waitMsg chose a message, or closeCh; a batch without a byte  *)
(* ends the loop.                                                          *)
TCPTake(s) ==
  /\ writeCh[s] # <<>>
  /\ TakeAll(s, IF HasData(writeCh[s]) THEN "write" ELSE "exit")
  /\ broken' = [broken EXCEPT ![s] = ~HasData(writeCh[s])]

TCPTakeLast(s) ==
  /\ closeCh[s]
  /\ TakeAll(s, IF HasData(writeCh[s]) THEN "last" ELSE "exit")
  /\ UNCHANGED broken

TCPWrite(s) == Write(s, "write", "wait") \/ Write(s, "last", "exit")

(* releaseFn, the server's delSocket; nothing for a client                 *)
TCPReleased(s) == writer[s] = "done"

MutTCPRelease(s) ==   \* does not delete the socket
  Write(s, "release", "done") /\ UNCHANGED <<handler, sockets, closeVars>>

TCPRelease(s) == Write(s, "release", "done") /\ DelSocket(s)

TCPWriteLoop(s) ==
  \/ (TCPTake(s) \/ TCPTakeLast(s) \/ TCPWrite(s) \/ ConnClose(s, "release"))
     /\ UNCHANGED <<handler, sockets, closeVars>>
  \/ TCPRelease(s)

-----------------------------------------------------------------------------
(* Close up to wg.Wait: CloseRead                                          *)
TCPClose(s) ==
  /\ conn' = [conn EXCEPT ![s] = IF @ = "open" THEN "shut" ELSE @]
  /\ UNCHANGED <<reader, writer, writeCh, closeCh, broken>>

(* accept: newTCPSocket                                                    *)
TCPNewSocket(s) ==
  /\ ~ServerClosed
  /\ HandlerStep(s, "accepted", "add")
  /\ StartLoops(s)
  /\ UNCHANGED <<sockets, closeVars>>

(* TCPServer.Close after the sockets: unlock, close(closeCh),              *)
(* listener.Close, wg.Wait.                                                *)
TCPServerClose ==
  \/ AllClosed /\ CloseStep("sockets", "unlocked")
  \/ CloseStep("unlocked", "listener") \/ CloseStep("listener", "wait")
  \/ ~accept /\ CloseStep("wait", "returned")
=============================================================================
