------------------------------ MODULE UDPClient ------------------------------
(***************************************************************************)
(* udp_client.go over UDPSocket and UDPSession: a client with its built-in *)
(* connection, a socket and a session under one number, which Reconnect    *)
(* closes and replaces.  closeOnce of a connection is shared by the check  *)
(* loop, on timeout, and by the goroutine that owns the client.  That one  *)
(* makes its calls one after the other; SendMsg may come from any.         *)
(***************************************************************************)
EXTENDS UDPSocket, UDPSession

CONSTANTS
  MaxConns,  \* bound: connections, numbered from 1
  Busy       \* bound on the traffic: the connections that carry data

Conns == 1..MaxConns

ASSUME ClientAssumption == MaxConns \in Nat /\ Socks = Conns /\ Sessions = Conns /\ Busy \subseteq Conns

VARIABLES
  cli,    \* the number of cli.biudp; 0 before NewUDPClient
  app,    \* the owner: "dial" and "session" in newBuiltInUDP
  check,  \* checkLoop of each connection
  once    \* closeOnce of each: what the goroutine inside waits for

clientVars == <<cli, app, check, once>>
vars == <<socketVars, sessionVars, clientVars>>

Init ==
  /\ SocketInit /\ SessionInit
  /\ cli = 0 /\ app = "dial"
  /\ check = [k \in Conns |-> "none"]
  /\ once = [k \in Conns |-> "new"]

(* biudp.closeCh is closed last inside closeOnce.                          *)
Closed(k) == once[k] = "done"

-----------------------------------------------------------------------------
(* newBuiltInUDP: the socket, whose read loop starts at once, then the     *)
(* session and the check loop.  It fails when DialUDP does.                *)
Dial ==
  /\ app = "dial" /\ cli < MaxConns
  /\ NewUDPSocket(cli + 1)
  /\ app' = "session"
  /\ UNCHANGED <<sessionVars, cli, check, once>>

DialFails ==
  /\ app = "dial" /\ cli > 0
  /\ app' = "idle"
  /\ UNCHANGED <<socketVars, sessionVars, cli, check, once>>

NewSession ==
  /\ app = "session"
  /\ NewUDPSession(cli + 1)
  /\ check' = [check EXCEPT ![cli + 1] = "select"]
  /\ cli' = cli + 1 /\ app' = "idle"
  /\ UNCHANGED <<socketVars, once>>

(* udpOnMsg uses biudp.session, which the read loop can find nil.          *)
RecvDatagram(k) ==
  /\ reader[k] = "onMsg" /\ loop[k] # "none"
  /\ RecvMsg(k)
  /\ OnMsgReturns(k)
  /\ UNCHANGED <<conn, sockClosed, writer, writeCh, writeErr, clientVars>>

NilSessionPanics(k) ==
  /\ reader[k] = "onMsg" /\ loop[k] = "none"
  /\ reader' = [reader EXCEPT ![k] = "panic"]
  /\ UNCHANGED <<conn, sockClosed, writer, writeCh, writeErr, sessionVars, clientVars>>

-----------------------------------------------------------------------------
(* checkLoop: on a tick the timeout, or the end once closeCh is closed.    *)
Timeout(k) ==
  /\ check[k] = "select" /\ ~active[k]
  /\ check' = [check EXCEPT ![k] = "close"]
  /\ UNCHANGED <<socketVars, sessionVars, cli, app, once>>

CheckEnd(k) ==
  /\ check[k] \in {"select", "close"} /\ Closed(k)
  /\ check' = [check EXCEPT ![k] = "done"]
  /\ UNCHANGED <<socketVars, sessionVars, cli, app, once>>

-----------------------------------------------------------------------------
(* The owner: Close and Reconnect begin with biudp.close.                  *)
CloseCall ==
  /\ app = "idle"
  /\ app' = "close"
  /\ UNCHANGED <<socketVars, sessionVars, cli, check, once>>

MutCloseReturn ==   \* the check loop is not waited for
  /\ app = "close" /\ once[cli] # "new"
  /\ app' \in {"dial", "idle"}
  /\ UNCHANGED <<socketVars, sessionVars, cli, check, once>>

(* forceClose has returned, and wg.Wait.  Reconnect goes on to dial.       *)
CloseReturn ==
  /\ app = "close" /\ Closed(cli) /\ check[cli] = "done"
  /\ app' \in {"dial", "idle"}
  /\ UNCHANGED <<socketVars, sessionVars, cli, check, once>>

-----------------------------------------------------------------------------
(* forceClose, by the first that comes: session.Close, sock.close,         *)
(* close(closeCh).  Others wait for it to be over.                         *)
Closing(k) == check[k] = "close" \/ (app = "close" /\ cli = k)

OnceEnter(k) ==
  /\ Closing(k) /\ once[k] = "new"
  /\ SessForceClose(k)
  /\ once' = [once EXCEPT ![k] = "session"]
  /\ UNCHANGED <<socketVars, cli, app, check>>

MutOnceSock(k) ==   \* session.Close does not wait for the handler loop
  /\ once[k] = "session"
  /\ SockForceClose(k)
  /\ once' = [once EXCEPT ![k] = "sock"]
  /\ UNCHANGED <<sessionVars, cli, app, check>>

OnceSock(k) ==
  /\ once[k] = "session" /\ SessJoined(k)
  /\ SockForceClose(k)
  /\ once' = [once EXCEPT ![k] = "sock"]
  /\ UNCHANGED <<sessionVars, cli, app, check>>

OnceDone(k) ==
  /\ once[k] = "sock" /\ SockJoined(k)
  /\ once' = [once EXCEPT ![k] = "done"]
  /\ UNCHANGED <<socketVars, sessionVars, cli, app, check>>

-----------------------------------------------------------------------------
(* cli.SendMsg.                                                            *)
SendMsg ==
  /\ cli > 0 /\ cli \in Busy
  /\ SockSendMsg(cli)
  /\ UNCHANGED <<sessionVars, clientVars>>

Receive(k) ==
  /\ k \in Busy
  /\ ReadFromUDP(k)
  /\ UNCHANGED <<sessionVars, clientVars>>

Socket(k) ==
  /\ SocketLoops(k)
  /\ UNCHANGED <<sessionVars, clientVars>>

Session(k) ==
  /\ HandlerLoop(k)
  /\ UNCHANGED <<socketVars, clientVars>>

Clock(k) ==
  /\ GoesStale(k)
  /\ UNCHANGED <<socketVars, clientVars>>

CheckLoop(k) == Timeout(k) \/ CheckEnd(k)

Once(k) == OnceEnter(k) \/ OnceSock(k) \/ OnceDone(k)

(* A panic ends the program.                                               *)
Running == \A k \in Conns : reader[k] # "panic"

Next ==
  /\ Running
  /\ \/ Dial \/ DialFails \/ NewSession \/ CloseCall \/ CloseReturn \/ SendMsg
     \/ \E k \in Conns :
          \/ Receive(k) \/ RecvDatagram(k) \/ NilSessionPanics(k)
          \/ CheckLoop(k) \/ Once(k) \/ Socket(k) \/ Session(k) \/ Clock(k)

Spec == Init /\ [][Next]_vars

(* As in UDPServer: goroutines that can run do run, and the clock does.    *)
Fairness ==
  /\ WF_vars(Running /\ CloseReturn)
  /\ \A k \in Conns :
       /\ WF_vars(Running /\ RecvDatagram(k)) /\ WF_vars(Running /\ Once(k))
       /\ WF_vars(Running /\ CheckLoop(k)) /\ WF_vars(Running /\ Clock(k))
       /\ WF_vars(Running /\ ReaderRuns(k) /\ UNCHANGED <<sessionVars, clientVars>>)
       /\ WF_vars(Running /\ WriterRuns(k) /\ UNCHANGED <<sessionVars, clientVars>>)
       /\ WF_vars(Running /\ Session(k))
       /\ SF_vars(Running /\ BreakLoop(k) /\ UNCHANGED <<socketVars, clientVars>>)

FairSpec == Spec /\ Fairness

-----------------------------------------------------------------------------
TypeOK ==
  /\ SocketTypeOK /\ SessionTypeOK
  /\ cli \in 0..MaxConns /\ app \in {"dial", "session", "idle", "close"}
  /\ check \in [Conns -> {"none", "select", "close", "done"}]
  /\ once \in [Conns -> {"new", "session", "sock", "done"}]

(* All that runs for a connection is over.                                 *)
Gone(k) == loop[k] = "done" /\ SockJoined(k) /\ check[k] = "done" /\ Closed(k)

(* To its handler the client is a server of one address, whose sessions    *)
(* are its connections: it keeps the promise of SessionCallbacks.          *)
Begun == {k \in Conns : loop[k] # "none"}
RunningNow == {<<k, loop[k]>> : k \in {j \in Conns : Live(j)}}

Callbacks == INSTANCE SessionCallbacks
  WITH Addrs <- {"peer"}, begun <- Begun, running <- [a \in {"peer"} |-> RunningNow]
CallbacksSpec == Callbacks!Spec

(* Reconnect has closed the old connection when it dials: its callbacks,   *)
(* loops and timeout are over, whoever closed it and however it failed, so *)
(* the callbacks of two connections of one client never overlap.           *)
OldIsGone ==
  \A j, k \in Conns :
    j < k /\ reader[k] # "none" => Gone(j)

SendsStop == <>[][~SendMsg]_vars

(* A connection whose Close, Reconnect or timeout has begun, or that has   *)
(* lost any of its goroutines to a handler, a read or a write error, is    *)
(* torn down as a whole, whoever else closes it, and biudp.close returns,  *)
(* once nobody sends any more: until then writeLoop may find something in  *)
(* writeCh for ever.                                                       *)
TornDown ==
  SendsStop =>
    \A k \in Conns :
      /\ check[k] # "none"
      /\ Closing(k) \/ loop[k] = "done" \/ reader[k] = "done" \/ writer[k] = "done"
      ~> (Gone(k) /\ ~(app = "close" /\ cli = k)) \/ ~Running
=============================================================================
