----------------------------- MODULE StreamSystem -----------------------------
(***************************************************************************)
(* The TCP, KCP and websocket servers and clients of xnet: a server with   *)
(* its connections, or a client with the sockets it makes one after the    *)
(* other, while callbacks and application send, peers come and go, writes  *)
(* fail and the owner calls Close or Reconnect.                            *)
(***************************************************************************)
EXTENDS TCP, KCP, Websocket

Init == StreamInit

-----------------------------------------------------------------------------
(* The loops of a socket, whatever its transport                           *)

Released(s) ==
  CASE kind = "tcp" -> TCPReleased(s)
    [] kind = "kcp" -> KCPReleased(s)
    [] kind = "ws" -> handler[s] = "done"

Alone == UNCHANGED <<config, handler, sockets, closeVars>>

Receive(s) ==
  /\ s \in Busy
  /\ \/ kind = "tcp" /\ TCPReceive(s)
     \/ kind = "kcp" /\ KCPReceive(s)
     \/ kind = "ws" /\ WSReceive(s)
  /\ Alone

ReadEnd(s) ==
  /\ \/ kind = "tcp" /\ TCPReadEnd(s)
     \/ kind = "kcp" /\ KCPReadEnd(s)
     \/ kind = "ws" /\ WSReadEnd(s)
  /\ Alone

ReadLoop(s) ==
  /\ \/ kind = "tcp" /\ TCPReadLoop(s) /\ Alone
     \/ kind = "kcp" /\ KCPReadLoop(s)
     \/ kind = "ws" /\ WSReadLoop(s) /\ Alone
  /\ UNCHANGED config

WriteLoop(s) ==
  /\ \/ kind = "tcp" /\ TCPWriteLoop(s)
     \/ kind = "kcp" /\ KCPWriteLoop(s) /\ Alone
     \/ kind = "ws" /\ WSWriteLoop(s) /\ Alone
  /\ UNCHANGED config

Send(s) == s \in Busy /\ SendMsg(s) /\ Alone

WriteFail(s) == WriteFails(s) /\ Alone

SockClose(s) ==
  \/ kind = "tcp" /\ TCPClose(s)
  \/ kind = "kcp" /\ KCPClose(s)
  \/ kind = "ws" /\ WSClose(s)

-----------------------------------------------------------------------------
(* The server                                                              *)

NewConn(s) ==
  /\ role = "server"
  /\ IF kind = "ws" THEN Upgrade(s) ELSE Accept(s)
  /\ UNCHANGED config

Handler(s) ==
  /\ role = "server"
  /\ \/ kind = "tcp" /\ TCPNewSocket(s)
     \/ kind = "kcp" /\ (KCPNewSocket(s) \/ KCPInitFails(s))
     \/ kind = "kcp" /\ KCPInit(s, "add") /\ UNCHANGED <<sockets, closeVars>>
     \/ kind = "ws" /\ (WSNewSocket(s) \/ WSHandlerEnd(s))
     \/ kind # "ws" /\ Drop(s)
     \/ AddSocket(s, Released(s))
  /\ UNCHANGED config

ServerCall ==
  /\ role = "server"
  /\ CloseStep("run", "sockets")
  /\ UNCHANGED config

ServerClose ==
  /\ role = "server"
  /\ \/ \E s \in sockets \ gone :
          /\ svr = "sockets" /\ cur = 0
          /\ SockClose(s)
          /\ cur' = s
          /\ UNCHANGED <<handler, sockets, accept, svr, gone>>
     \/ CloseJoin
     \/ kind = "tcp" /\ TCPServerClose
     \/ kind = "kcp" /\ KCPServerClose
     \/ kind = "ws" /\ WSServerClose
     \/ kind # "ws" /\ AcceptEnd
  /\ UNCHANGED config

-----------------------------------------------------------------------------
(* The client: newSocket, from NewTCPClient and the like or from Reconnect *)

Dial(s) ==
  /\ role = "client" /\ svr = "dial"
  /\ \A t \in Socks : handler[t] \notin {"init", "failed"}
  /\ NextSock(s)
  /\ StartLoops(s)
  /\ IF kind = "kcp"
       THEN handler' = [handler EXCEPT ![s] = "init"] /\ UNCHANGED <<svr, cur>>
       ELSE handler' = [handler EXCEPT ![s] = "added"] /\ svr' = "run" /\ cur' = s
  /\ UNCHANGED <<config, sockets, accept, gone>>

(* An error leaves cli.sock alone; there is no client after the first.     *)
DialFails ==
  /\ role = "client"
  /\ \A t \in Socks : handler[t] \notin {"init", "failed"}
  /\ SvrStep("dial", IF cur = 0 THEN "returned" ELSE "run")
  /\ UNCHANGED <<config, loopVars, accept, cur>>

(* newKCPSocket has returned, with an error a nil socket.                  *)
KCPDialed(s) ==
  /\ role = "client" /\ kind = "kcp"
  /\ \/ KCPInit(s, "added") /\ svr' = "run" /\ cur' = s /\ UNCHANGED <<sockets, accept, gone>>
     \/ KCPInitFails(s)
  /\ UNCHANGED config

KCPDialFailed(s) ==
  /\ role = "client" /\ Joined(s)
  /\ HandlerStep(s, "failed", "dropped")
  /\ svr' = (IF cur = 0 THEN "returned" ELSE "run") /\ cur' = 0
  /\ UNCHANGED <<config, loopVars, sockets, accept, gone>>

(* Close or Reconnect; a nil socket is dereferenced.                       *)
ClientCall ==
  /\ role = "client" /\ svr = "run"
  /\ IF cur = 0 THEN svr' = "panic" /\ UNCHANGED loopVars
                ELSE svr' = "sockets" /\ SockClose(cur)
  /\ UNCHANGED <<config, handler, sockets, accept, cur, gone>>

ClientJoin ==
  /\ role = "client" /\ svr = "sockets" /\ Joined(cur)
  /\ SvrStep("sockets", "run") \/ SvrStep("sockets", "dial")
  /\ UNCHANGED <<config, loopVars, accept, cur>>

-----------------------------------------------------------------------------
Next ==
  /\ svr # "panic"
  /\ \/ \E s \in Socks :
          \/ Receive(s) \/ ReadEnd(s) \/ ReadLoop(s)
          \/ WriteLoop(s) \/ WriteFail(s) \/ Send(s)
          \/ NewConn(s) \/ Handler(s)
          \/ Dial(s) \/ KCPDialed(s) \/ KCPDialFailed(s)
     \/ ServerCall \/ ServerClose
     \/ DialFails \/ ClientCall \/ ClientJoin

Spec == Init /\ [][Next]_vars

(* Every goroutine goes on when it can: a Read or Write returns, the read  *)
(* deadline sees to it; closeCh in the select of a write loop is ready     *)
(* for ever and Go chooses at random, hence strong fairness.  Nobody has   *)
(* to connect, to send or to close, no write has to fail, and no read has  *)
(* to end while data arrives.                                              *)
Fairness ==
  /\ \A s \in Socks :
       /\ WF_vars(Receive(s) \/ (reader[s] = "read" /\ ReadEnd(s)))
       /\ WF_vars(ReadLoop(s)) /\ WF_vars(WriteLoop(s))
       /\ SF_vars(closeCh[s] /\ writer[s] = "wait" /\ WriteLoop(s) /\ writer'[s] # "write")
       /\ WF_vars(Handler(s)) /\ WF_vars(KCPDialed(s) \/ KCPDialFailed(s))
  /\ WF_vars(ServerClose) /\ WF_vars(ClientJoin)
  /\ WF_vars(DialFails)

FairSpec == Spec /\ Fairness

-----------------------------------------------------------------------------
TypeOK ==
  /\ kind \in {"tcp", "kcp", "ws"} /\ role \in {"server", "client"}
  /\ reader \in [Socks -> ReaderStates] /\ writer \in [Socks -> WriterStates]
  /\ writeCh \in [Socks -> Seq({"early", "late", "empty"})]
  /\ \A s \in Socks : Len(writeCh[s]) <= WriteMax
  /\ closeCh \in [Socks -> BOOLEAN] /\ broken \in [Socks -> BOOLEAN]
  /\ conn \in [Socks -> {"none", "open", "shut", "closed"}]
  /\ handler \in [Socks -> HandlerStates]
  /\ sockets \subseteq Socks /\ accept \in BOOLEAN
  /\ svr \in SvrStates /\ cur \in Socks \cup {0} /\ gone \subseteq Socks

(* The server's map is exactly the sockets that addSocket has put there    *)
(* and that are not released, and those that were released too early:      *)
(* these, and no others, it keeps for ever.                                *)
SocketsExact ==
  role = "server" =>
    sockets = {s \in Socks : \/ handler[s] = "added" /\ ~Released(s)
                             \/ handler[s] = "stale"}

(* A write loop that no failed write and no empty message has ended ends   *)
(* because of closeCh, with everything written that SendMsg took before.   *)
FlushedOnClose ==
  \A s \in Socks :
    WriterOut(s) /\ ~broken[s] =>
      closeCh[s] /\ \A i \in 1..Len(writeCh[s]) : writeCh[s][i] # "early"

(* What Close has closed is over.  When a server's Close has returned,     *)
(* every socket it found is, nothing accepts any more, and for KCP, whose  *)
(* Close keeps the mutex, there is no other socket.  A client runs the     *)
(* loops of one socket at a time: Reconnect leaves none behind.            *)
CloseIsFinal ==
  /\ role = "server" /\ svr = "returned" =>
       /\ ~accept
       /\ \A s \in gone : Joined(s)
       /\ kind = "kcp" => \A s \in Socks : reader[s] # "none" => Joined(s)
  /\ role = "client" =>
       \A s, t \in Socks : s < t /\ reader[t] # "none" => Joined(s)

(* Every socket runs the callbacks as SessionCallbacks has it: onConnect,  *)
(* onMsg for one message after the other, onDisconnect, each connection    *)
(* once.  Those of a websocket client, whose wg counts onDisconnect, keep  *)
(* it together: a connection's callbacks come after those of the one       *)
(* before, which Reconnect does not do for TCP and KCP.                    *)
InCallbacks(s) ==
  \/ reader[s] \in {"connect", "read", "handle", "disconnect"}
  \/ reader[s] = "close" /\ kind = "tcp"

Callback(s) ==
  CASE reader[s] = "connect" -> "connect"
    [] reader[s] = "read" -> "select"
    [] reader[s] = "handle" -> "onMsg"
    [] OTHER -> "disconnect"

Peer(s) == IF kind = "ws" /\ role = "client" THEN 1 ELSE s

Begun == {s \in Socks : reader[s] # "none"}
RunningAt(a) == {<<s, Callback(s)>> : s \in {t \in Socks : InCallbacks(t) /\ Peer(t) = a}}

Callbacks == INSTANCE SessionCallbacks
  WITH Addrs <- Socks, Sessions <- Socks,
       begun <- Begun, running <- [a \in Socks |-> RunningAt(a)]
CallbacksSpec == Callbacks!Spec

(* KCPServer.Close waits for accept, which waits in addSocket for the      *)
(* mutex that Close holds.                                                 *)
Deadlocked == kind = "kcp" /\ svr = "wait" /\ \E s \in Socks : handler[s] = "add"

(* The premise of liveness: a websocket's write loop drains writeCh until  *)
(* it is empty, so senders have to pause; CloseRead does not stop a peer   *)
(* whose data is on the way, so peers have to.                             *)
Quiet ==
  \A s \in Socks :
    <>[][~(kind = "ws" /\ Send(s)) /\ ~(kind # "ws" /\ Receive(s))]_vars

(* Once one loop of a socket is out, or closeCh closed, both loops, what   *)
(* they have deferred and the connection come to an end.                   *)
SocketStops ==
  Quiet =>
    \A s \in Socks :
      (closeCh[s] \/ ReaderOut(s) \/ WriterOut(s)) ~>
         (reader[s] = "done" /\ writer[s] = "done" /\ conn[s] = "closed") \/ Deadlocked

(* Close and Reconnect return, unless they are deadlocked with accept.     *)
CloseReturns ==
  Quiet => (svr = "sockets" ~> svr \in {"run", "dial", "returned"} \/ Deadlocked)
=============================================================================
