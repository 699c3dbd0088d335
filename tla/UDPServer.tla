------------------------------ MODULE UDPServer ------------------------------
(***************************************************************************)
(* udp_server.go over UDPSocket and UDPSession: datagrams create sessions  *)
(* by address, the check loop closes the ones that have been quiet for the *)
(* timeout, Close closes all.  svr.mu is held by Close while it closes the *)
(* sessions; everyone else holds it within one step.  Close is called once *)
(* (by main, deferred), after NewUDPServer has returned.  Sessions bounds  *)
(* the model: a datagram that would need one more is dropped.              *)
(***************************************************************************)
EXTENDS UDPSocket, UDPSession

CONSTANTS
  Sock,   \* the server's socket
  Addrs,  \* remote addresses
  Nil     \* no session, no address

ASSUME ServerAssumption == Socks = {Sock} /\ Nil \notin Sessions \cup Addrs

VARIABLES
  stored,    \* whether svr.sock holds the socket
  sessions,  \* svr.sessions
  addrOf,    \* session.addr
  rcv,       \* udpOnMsg, in the goroutine of readLoop
  from, got, \* its address and its session
  check,     \* checkLoop
  expires,   \* its expires, the ones still to close
  expiring,  \* the one it is closing
  svr,       \* the goroutine that calls Close; svr.closeCh is closed from "wait"
  toClose,   \* the sessions its loop has still to close
  closing    \* the one it is closing

rcvVars == <<rcv, from, got>>
checkVars == <<check, expires, expiring>>
closeVars == <<svr, toClose, closing>>
serverVars == <<stored, sessions, addrOf, rcvVars, checkVars, closeVars>>
vars == <<socketVars, sessionVars, serverVars>>

MaybeSession == Sessions \cup {Nil}

Init ==
  /\ SocketInit /\ SessionInit
  /\ stored = FALSE
  /\ sessions = [a \in Addrs |-> Nil] /\ addrOf = [s \in Sessions |-> Nil]
  /\ rcv = "idle" /\ from = Nil /\ got = Nil
  /\ check = "none" /\ expires = {} /\ expiring = Nil
  /\ svr = "new" /\ toClose = {} /\ closing = Nil

InMap(s) == \E a \in Addrs : sessions[a] = s

(* svr.mu can be taken.                                                    *)
MuFree == svr \notin {"sessions", "join"}

-----------------------------------------------------------------------------
(* NewUDPServer: the socket's loops run before svr.sock.Store.             *)
Listen ==
  /\ svr = "new"
  /\ NewUDPSocket(Sock)
  /\ svr' = "listen"
  /\ UNCHANGED <<sessionVars, stored, sessions, addrOf, rcvVars, checkVars, toClose, closing>>

Store ==
  /\ svr = "listen"
  /\ stored' = TRUE
  /\ check' = "select"
  /\ svr' = "run"
  /\ UNCHANGED <<socketVars, sessionVars, sessions, addrOf, rcvVars, expires, expiring, toClose, closing>>

-----------------------------------------------------------------------------
(* udpOnMsg: getSession, NewUDPSession and addSession, recvMsg.            *)
Receive(a) ==
  /\ ReadFromUDP(Sock)
  /\ rcv' = "get" /\ from' = a
  /\ UNCHANGED <<sessionVars, got, stored, sessions, addrOf, checkVars, closeVars>>

Unused == {s \in Sessions : loop[s] = "none"}

GetSession ==
  /\ rcv = "get" /\ sessions[from] # Nil /\ MuFree
  /\ rcv' = "recv" /\ got' = sessions[from]
  /\ UNCHANGED <<socketVars, sessionVars, from, stored, sessions, addrOf, checkVars, closeVars>>

NewSession ==
  /\ rcv = "get" /\ sessions[from] = Nil /\ MuFree
  /\ stored
  /\ \E s \in Unused :
       /\ s = CHOOSE t \in Unused : TRUE
       /\ NewUDPSession(s)
       /\ addrOf' = [addrOf EXCEPT ![s] = from]
       /\ got' = s
  /\ rcv' = "add"
  /\ UNCHANGED <<socketVars, from, stored, sessions, checkVars, closeVars>>

(* svr.sock.Load().( *UDPSocket ) of a nil interface.                      *)
LoadPanics ==
  /\ rcv = "get" /\ sessions[from] = Nil /\ MuFree
  /\ ~stored
  /\ reader' = [reader EXCEPT ![Sock] = "panic"]
  /\ UNCHANGED <<conn, sockClosed, writer, writeCh, writeErr, sessionVars, serverVars>>

AddSession ==
  /\ rcv = "add" /\ MuFree
  /\ sessions' = [sessions EXCEPT ![from] = got]
  /\ rcv' = "recv"
  /\ UNCHANGED <<socketVars, sessionVars, from, got, stored, addrOf, checkVars, closeVars>>

OnMsgDone ==
  /\ OnMsgReturns(Sock)
  /\ rcv' = "idle" /\ from' = Nil /\ got' = Nil
  /\ UNCHANGED <<conn, sockClosed, writer, writeCh, writeErr>>
  /\ UNCHANGED <<stored, sessions, addrOf, checkVars, closeVars>>

Recv ==
  /\ rcv = "recv"
  /\ RecvMsg(got)
  /\ OnMsgDone

(* The bound on sessions.                                                  *)
DropDatagram ==
  /\ rcv = "get" /\ sessions[from] = Nil /\ MuFree
  /\ stored /\ Unused = {}
  /\ OnMsgDone
  /\ UNCHANGED sessionVars

-----------------------------------------------------------------------------
(* checkLoop: the scan under svr.mu, then for each expired session Close   *)
(* (forceClose, wg.Wait) and delSession.                                   *)
Scan ==
  /\ check = "select" /\ MuFree
  /\ expires' = {s \in Sessions : InMap(s) /\ ~active[s]}
  /\ check' = "expire"
  /\ UNCHANGED <<socketVars, sessionVars, expiring, stored, sessions, addrOf, rcvVars, closeVars>>

CloseExpired(s) ==
  /\ check = "expire" /\ s \in expires
  /\ SessForceClose(s)
  /\ check' = "join" /\ expiring' = s
  /\ expires' = expires \ {s}
  /\ UNCHANGED <<socketVars, stored, sessions, addrOf, rcvVars, closeVars>>

MutDelSession ==   \* the session is only told to close
  /\ check = "join" /\ MuFree
  /\ sessions' = [sessions EXCEPT ![addrOf[expiring]] = Nil]
  /\ check' = "expire" /\ expiring' = Nil
  /\ UNCHANGED <<socketVars, sessionVars, expires, stored, addrOf, rcvVars, closeVars>>

DelSession ==
  /\ check = "join" /\ SessJoined(expiring) /\ MuFree
  /\ sessions' = [sessions EXCEPT ![addrOf[expiring]] = Nil]
  /\ check' = "expire" /\ expiring' = Nil
  /\ UNCHANGED <<socketVars, sessionVars, expires, stored, addrOf, rcvVars, closeVars>>

ScanDone ==
  /\ check = "expire" /\ expires = {}
  /\ check' = "select"
  /\ UNCHANGED <<socketVars, sessionVars, expires, expiring, stored, sessions, addrOf, rcvVars, closeVars>>

CheckEnd ==
  /\ check = "select" /\ svr \in {"wait", "done"}
  /\ check' = "done"
  /\ UNCHANGED <<socketVars, sessionVars, expires, expiring, stored, sessions, addrOf, rcvVars, closeVars>>

-----------------------------------------------------------------------------
(* Close: the sessions under svr.mu, one after the other, then the socket, *)
(* then svr.closeCh and the check loop.                                    *)
CloseCall ==
  /\ svr = "run" /\ MuFree
  /\ svr' = "sessions"
  /\ toClose' = {s \in Sessions : InMap(s)}
  /\ UNCHANGED <<socketVars, sessionVars, closing, stored, sessions, addrOf, rcvVars, checkVars>>

CloseSession(s) ==
  /\ svr = "sessions" /\ s \in toClose
  /\ SessForceClose(s)
  /\ svr' = "join" /\ closing' = s
  /\ toClose' = toClose \ {s}
  /\ UNCHANGED <<socketVars, stored, sessions, addrOf, rcvVars, checkVars>>

MutCloseJoin ==   \* Close does not wait for the sessions
  /\ svr = "join"
  /\ svr' = "sessions" /\ closing' = Nil
  /\ UNCHANGED <<socketVars, sessionVars, toClose, stored, sessions, addrOf, rcvVars, checkVars>>

CloseJoin ==
  /\ svr = "join" /\ SessJoined(closing)
  /\ svr' = "sessions" /\ closing' = Nil
  /\ UNCHANGED <<socketVars, sessionVars, toClose, stored, sessions, addrOf, rcvVars, checkVars>>

MutCloseUnlock ==   \* svr.mu is kept until the socket is closed
  /\ svr = "sessions" /\ toClose = {}
  /\ \/ SockForceClose(Sock) /\ UNCHANGED svr
     \/ SockJoined(Sock) /\ svr' = "unlocked" /\ UNCHANGED socketVars
  /\ UNCHANGED <<sessionVars, toClose, closing, stored, sessions, addrOf, rcvVars, checkVars>>

CloseUnlock ==
  /\ svr = "sessions" /\ toClose = {}
  /\ svr' = "unlocked"
  /\ UNCHANGED <<socketVars, sessionVars, toClose, closing, stored, sessions, addrOf, rcvVars, checkVars>>

CloseSock ==
  /\ svr = "unlocked"
  /\ SockForceClose(Sock)
  /\ svr' = "sock"
  /\ UNCHANGED <<sessionVars, toClose, closing, stored, sessions, addrOf, rcvVars, checkVars>>

CloseSockJoin ==
  /\ svr = "sock" /\ SockJoined(Sock)
  /\ svr' = "wait"
  /\ UNCHANGED <<socketVars, sessionVars, toClose, closing, stored, sessions, addrOf, rcvVars, checkVars>>

CloseReturn ==
  /\ svr = "wait" /\ check = "done"
  /\ svr' = "done"
  /\ UNCHANGED <<socketVars, sessionVars, toClose, closing, stored, sessions, addrOf, rcvVars, checkVars>>

-----------------------------------------------------------------------------
(* session.SendMsg, by a handler or by a goroutine that holds the session. *)
SendMsg(s) ==
  /\ loop[s] # "none"
  /\ SockSendMsg(Sock)
  /\ UNCHANGED <<sessionVars, serverVars>>

Socket ==
  /\ SocketLoops(Sock)
  /\ UNCHANGED <<sessionVars, serverVars>>

Session(s) ==
  /\ HandlerLoop(s)
  /\ UNCHANGED <<socketVars, serverVars>>

Clock(s) ==
  /\ GoesStale(s)
  /\ UNCHANGED <<socketVars, serverVars>>

UDPOnMsg == GetSession \/ NewSession \/ LoadPanics \/ AddSession \/ Recv \/ DropDatagram

CheckLoop == Scan \/ (\E s \in Sessions : CloseExpired(s)) \/ DelSession \/ ScanDone \/ CheckEnd

CloseNext ==
  \/ \E s \in Sessions : CloseSession(s)
  \/ CloseJoin \/ CloseUnlock \/ CloseSock \/ CloseSockJoin \/ CloseReturn

(* A panic ends the program.                                               *)
Running == reader[Sock] # "panic"

Next ==
  /\ Running
  /\ \/ Listen \/ Store \/ CloseCall
     \/ \E a \in Addrs : Receive(a)
     \/ UDPOnMsg \/ CheckLoop \/ CloseNext \/ Socket
     \/ \E s \in Sessions : SendMsg(s) \/ Session(s) \/ Clock(s)

Spec == Init /\ [][Next]_vars

(* Goroutines that can run do run, and the clock does.  The closed closeCh *)
(* among the branches of a select is strongly fair, since Go chooses at    *)
(* random.  No handler and no write has to fail.                           *)
Fairness ==
  /\ WF_vars(Running /\ UDPOnMsg) /\ WF_vars(Running /\ CloseNext)
  /\ WF_vars(Running /\ CheckLoop) /\ SF_vars(Running /\ CheckEnd)
  /\ WF_vars(Running /\ ReaderRuns(Sock) /\ UNCHANGED <<sessionVars, serverVars>>)
  /\ WF_vars(Running /\ WriterRuns(Sock) /\ UNCHANGED <<sessionVars, serverVars>>)
  /\ \A s \in Sessions :
       /\ WF_vars(Running /\ Session(s)) /\ WF_vars(Running /\ Clock(s))
       /\ SF_vars(Running /\ BreakLoop(s) /\ UNCHANGED <<socketVars, serverVars>>)

FairSpec == Spec /\ Fairness

-----------------------------------------------------------------------------
ServerTypeOK ==
  /\ stored \in BOOLEAN
  /\ sessions \in [Addrs -> MaybeSession] /\ addrOf \in [Sessions -> Addrs \cup {Nil}]
  /\ rcv \in {"idle", "get", "add", "recv"} /\ from \in Addrs \cup {Nil} /\ got \in MaybeSession
  /\ check \in {"none", "select", "expire", "join", "done"}
  /\ expires \subseteq Sessions /\ expiring \in MaybeSession
  /\ svr \in {"new", "listen", "run", "sessions", "join", "unlocked", "sock", "wait", "done"}
  /\ toClose \subseteq Sessions /\ closing \in MaybeSession

TypeOK == SocketTypeOK /\ SessionTypeOK /\ ServerTypeOK

(* The callbacks of one address never run side by side: a new session's    *)
(* onConnect comes after the old one's onDisconnect, although datagrams,   *)
(* the timeout, handler errors and Close meet in the map.                  *)
OneSessionPerAddress ==
  \A s, t \in Sessions : Live(s) /\ Live(t) /\ addrOf[s] = addrOf[t] => s = t

(* The server keeps the promise of SessionCallbacks to its handler.        *)
begun == {s \in Sessions : loop[s] # "none"}

RunningAt(a) == {<<s, loop[s]>> : s \in {t \in Sessions : Live(t) /\ addrOf[t] = a}}

Callbacks == INSTANCE SessionCallbacks WITH running <- [a \in Addrs |-> RunningAt(a)]
CallbacksSpec == Callbacks!Spec

(* No goroutine is lost sight of: a session that runs is in the map, where *)
(* the check loop and Close look for it, or on its way into it.            *)
Tracked ==
  \A s \in Sessions : Live(s) => sessions[addrOf[s]] = s \/ (rcv = "add" /\ got = s)

(* When Close returns nothing it was responsible for goes on: no loop of   *)
(* the socket, no datagram halfway through udpOnMsg, no check loop, and no *)
(* callback of a session that Close or the timeout has closed.  (A session *)
(* created after Close went over the map is not closed by anyone.)         *)
CloseIsFinal ==
  svr = "done" =>
    /\ SockJoined(Sock) /\ rcv = "idle" /\ check = "done"
    /\ \A s \in Sessions : sessClosed[s] => ~Live(s)

(* Close returns, although it keeps svr.mu while handlers finish and the   *)
(* read loop and the check loop wait for svr.mu; provided that goroutines  *)
(* which hold a session stop sending, for writeLoop only ends when it      *)
(* finds writeCh empty and sendMsg may still put something in.             *)
CloseReturns ==
  <>[][\A s \in Sessions : ~SendMsg(s)]_vars => (svr = "sessions" ~> svr = "done")

(* A session whose handler has failed stays in the map and swallows what   *)
(* its address sends.  It does not for ever: msgCh fills up, nothing       *)
(* refreshes activeAt any more, and the check loop frees the address.      *)
DeadSessionExpires ==
  \A s \in Sessions : loop[s] = "done" /\ InMap(s) ~> ~InMap(s) \/ svr # "run"
=============================================================================
