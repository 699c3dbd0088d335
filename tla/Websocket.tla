------------------------------- MODULE Websocket -------------------------------
(***************************************************************************)
(* websocket.go, websocket_server.go and websocket_client.go.              *)
(***************************************************************************)
EXTENDS Stream

(* readLoop: ReadMessage and onMsg.                                        *)
WSReceive(s) == conn[s] # "closed" /\ Read(s, "read", "handle")

WSReadEnd(s) == Read(s, "read", "disconnect") \/ Read(s, "handle", "disconnect")

(* onDisconnect runs before wg.Done, forceClose after it.                  *)
MutWSReadLoop(s) ==   \* without forceClose
  \/ Read(s, "connect", "read")
  \/ Read(s, "handle", "read")
  \/ Read(s, "disconnect", "close")
  \/ Read(s, "close", "done")

WSReadLoop(s) ==
  \/ Read(s, "connect", "read")
  \/ Read(s, "handle", "read")
  \/ Read(s, "disconnect", "close")
  \/ ReadStep(s, "close", "done") /\ CloseChan(s)

-----------------------------------------------------------------------------
(* writeLoop: one message at a time; a nil one ends the loop.  After       *)
(* closeCh it writes what is left ("drain", "last").                       *)
WSTake(s, from, to) ==
  /\ writeCh[s] # <<>>
  /\ LET empty == Head(writeCh[s]) = "empty"
     IN  /\ WriteStep(s, from, IF empty THEN "exit" ELSE to)
         /\ broken' = [broken EXCEPT ![s] = empty]
  /\ writeCh' = [writeCh EXCEPT ![s] = Tail(@)]
  /\ UNCHANGED conn

MutWSDrain(s) ==   \* ends without writing what is left
  closeCh[s] /\ Write(s, "wait", "exit")

WSDrain(s) == closeCh[s] /\ Write(s, "wait", "drain")

WSWriteLoop(s) ==
  \/ WSTake(s, "wait", "write") \/ WSTake(s, "drain", "last") \/ WSDrain(s)
  \/ writeCh[s] = <<>> /\ Write(s, "drain", "exit")
  \/ Write(s, "write", "wait") \/ Write(s, "last", "drain")
  \/ ConnClose(s, "done")

-----------------------------------------------------------------------------
(* Close: forceClose, and then wg.Wait.                                    *)
WSClose(s) == CloseChan(s) /\ UNCHANGED <<reader, writer>>

(* The HTTP handler: Upgrade, until http.Server.Close, which leaves what   *)
(* has been upgraded alone; NewWebsocket, addSocket.                       *)
Upgrade(s) ==
  /\ accept /\ NextSock(s)
  /\ HandlerStep(s, "none", "accepted")
  /\ UNCHANGED <<loopVars, sockets, closeVars>>

WSNewSocket(s) ==
  /\ HandlerStep(s, "accepted", "add")
  /\ StartLoops(s)
  /\ UNCHANGED <<sockets, closeVars>>

(* WaitUntilClose, delSocket, and the deferred conn.Close                  *)
WSHandlerEnd(s) ==
  /\ Joined(s)
  /\ HandlerStep(s, "added", "done")
  /\ MuFree
  /\ sockets' = sockets \ {s}
  /\ conn' = [conn EXCEPT ![s] = "closed"]
  /\ UNCHANGED <<reader, writer, writeCh, closeCh, broken, closeVars>>

(* WSServer.Close after the sockets: httpSrv.Close; svr.wg is at zero.     *)
WSServerClose ==
  \/ AllClosed /\ CloseStep("sockets", "unlocked")
  \/ SvrStep("unlocked", "returned") /\ accept' = FALSE /\ UNCHANGED <<loopVars, cur>>
=============================================================================
