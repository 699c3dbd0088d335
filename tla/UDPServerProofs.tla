--------------------------- MODULE UDPServerProofs ---------------------------
(***************************************************************************)
(* Proofs about UDPServer, for any sessions, addresses and capacities:     *)
(* state types, running sessions are in the map, one per address, the      *)
(* callbacks of an address come as SessionCallbacks has it, the socket's   *)
(* close writes what was accepted before it, and Close leaves nothing      *)
(* behind that it has closed.                                              *)
(*                                                                         *)
(* The argument: the map sends an address only to a session of that        *)
(* address; the read loop, alone in creating sessions, does so for an      *)
(* address that is free and stays free until addSession; and the check     *)
(* loop frees an address only after its session's wg.Wait.  Whoever tells  *)
(* a session to close waits for it next, and the loops of a socket that    *)
(* has been waited for do not run again.                                   *)
(***************************************************************************)
EXTENDS UDPServer, UDPProofs

(* The map and the sessions agree on addresses.                            *)
MapAgrees ==
  \A a \in Addrs : sessions[a] # Nil =>
    addrOf[sessions[a]] = a /\ loop[sessions[a]] # "none"

Addressed == \A s \in Sessions : loop[s] # "none" => addrOf[s] \in Addrs

(* udpOnMsg: the address it is adding to is free, its session is created.  *)
Adding ==
  /\ rcv # "idle" => from \in Addrs /\ reader[Sock] \in {"onMsg", "panic"}
  /\ rcv \in {"add", "recv"} => got \in Sessions /\ loop[got] # "none"
  /\ rcv = "add" => addrOf[got] = from /\ sessions[from] = Nil

(* checkLoop: what it has still to close is in the map, at its address.    *)
ExpiresInMap ==
  \A s \in Sessions : s \in expires => addrOf[s] \in Addrs /\ sessions[addrOf[s]] = s

ExpiringInMap ==
  check = "join" =>
    /\ expiring \in Sessions /\ expiring \notin expires
    /\ addrOf[expiring] \in Addrs /\ sessions[addrOf[expiring]] = expiring

IInv == TypeOK /\ MapAgrees /\ Addressed /\ Adding /\ ExpiresInMap /\ ExpiringInMap /\ Tracked

(* writeLoop drains after closeCh, and only then ends without an error.    *)
Draining ==
  /\ writer[Sock] = "drain" => sockClosed[Sock]
  /\ writer[Sock] \in {"exit", "done"} /\ ~writeErr[Sock] => sockClosed[Sock]

-----------------------------------------------------------------------------
LEMMA InitTyped == ASSUME Init PROVE TypeOK
<1>1. <<>> \in Seq(BOOLEAN) /\ Len(<<>>) <= WriteMax
  BY SocketAssumption
<1>2. SocketTypeOK
  BY <1>1 DEF Init, SocketInit, SocketTypeOK, ReaderStates, WriterStates
<1>3. SessionTypeOK
  BY SessionAssumption DEF Init, SessionInit, SessionTypeOK, LoopStates
<1>4. ServerTypeOK
  BY DEF Init, ServerTypeOK, MaybeSession
<1> QED
  BY <1>2, <1>3, <1>4 DEF TypeOK

-----------------------------------------------------------------------------
LEMMA SockIn == Sock \in Socks
  BY ServerAssumption

(* udpOnMsg's end, in the socket's variables.                              *)
LEMMA OnMsgTyped == ASSUME SocketTypeOK, OnMsgDone PROVE SocketTypeOK'
  BY SockIn DEF OnMsgDone, OnMsgReturns, SocketTypeOK, ReaderStates

LEMMA OnMsgNextTyped == ASSUME TypeOK, Adding, UDPOnMsg PROVE TypeOK'
<1> USE DEF TypeOK
<1> USE SockIn
<1>1. CASE GetSession
  <2>1. got' \in MaybeSession
    BY <1>1 DEF GetSession, ServerTypeOK, Adding
  <2> QED
    BY <1>1, <2>1 DEF GetSession, ServerTypeOK, SocketTypeOK, SessionTypeOK, socketVars,
       sessionVars, checkVars, closeVars
<1>2. CASE NewSession
  <2>1. PICK s \in Sessions :
          NewUDPSession(s) /\ addrOf' = [addrOf EXCEPT ![s] = from] /\ got' = s
    BY <1>2 DEF NewSession, Unused
  <2>2. SessionTypeOK'
    BY <2>1, SessionTyped
  <2>3. ServerTypeOK'
    BY <1>2, <2>1 DEF NewSession, ServerTypeOK, MaybeSession, checkVars, closeVars
  <2> QED
    BY <1>2, <2>2, <2>3 DEF NewSession, SocketTypeOK, socketVars
<1>3. CASE LoadPanics
  BY <1>3 DEF LoadPanics, ServerTypeOK, SocketTypeOK, SessionTypeOK, ReaderStates,
     sessionVars, serverVars, rcvVars, checkVars, closeVars
<1>4. CASE AddSession
  BY <1>4 DEF AddSession, ServerTypeOK, SocketTypeOK, SessionTypeOK, socketVars,
     sessionVars, checkVars, closeVars
<1>5. CASE Recv
  <2>1. SessionTypeOK'
    BY <1>5, SessionTyped DEF Recv, Adding
  <2>2. SocketTypeOK' /\ ServerTypeOK'
    BY <1>5, OnMsgTyped DEF Recv, OnMsgDone, ServerTypeOK, MaybeSession, checkVars, closeVars
  <2> QED
    BY <2>1, <2>2
<1>6. CASE DropDatagram
  <2>1. SocketTypeOK' /\ ServerTypeOK'
    BY <1>6, OnMsgTyped DEF DropDatagram, OnMsgDone, ServerTypeOK, MaybeSession, checkVars,
       closeVars
  <2> QED
    BY <1>6, <2>1 DEF DropDatagram, SessionTypeOK, sessionVars
<1> QED
  BY <1>1, <1>2, <1>3, <1>4, <1>5, <1>6 DEF UDPOnMsg

LEMMA CheckTyped == ASSUME TypeOK, CheckLoop PROVE TypeOK'
<1> USE DEF TypeOK
<1>1. CASE \E s \in Sessions : CloseExpired(s)
  <2>1. PICK s \in Sessions : CloseExpired(s)
    BY <1>1
  <2>2. SessionTypeOK'
    BY <2>1, SessionTyped DEF CloseExpired
  <2> QED
    BY <2>1, <2>2 DEF CloseExpired, ServerTypeOK, MaybeSession, SocketTypeOK, socketVars,
       rcvVars, closeVars
<1>2. CASE DelSession
  BY <1>2 DEF DelSession, ServerTypeOK, MaybeSession, SocketTypeOK, SessionTypeOK,
     socketVars, sessionVars, rcvVars, closeVars
<1>3. CASE Scan \/ ScanDone \/ CheckEnd
  BY <1>3 DEF Scan, ScanDone, CheckEnd, ServerTypeOK, MaybeSession, SocketTypeOK,
     SessionTypeOK, socketVars, sessionVars, rcvVars, closeVars
<1> QED
  BY <1>1, <1>2, <1>3 DEF CheckLoop

LEMMA CloseTyped == ASSUME TypeOK, CloseNext \/ CloseCall PROVE TypeOK'
<1> USE DEF TypeOK
<1>1. CASE \E s \in Sessions : CloseSession(s)
  <2>1. PICK s \in Sessions : CloseSession(s)
    BY <1>1
  <2>2. SessionTypeOK'
    BY <2>1, SessionTyped DEF CloseSession
  <2> QED
    BY <2>1, <2>2 DEF CloseSession, ServerTypeOK, MaybeSession, SocketTypeOK, socketVars,
       rcvVars, checkVars
<1>2. CASE CloseSock
  <2>1. SocketTypeOK'
    BY <1>2, SockIn, SocketTyped DEF CloseSock
  <2> QED
    BY <1>2, <2>1 DEF CloseSock, ServerTypeOK, SessionTypeOK, sessionVars, rcvVars, checkVars
<1>3. CASE CloseCall \/ CloseJoin \/ CloseUnlock \/ CloseSockJoin \/ CloseReturn
  BY <1>3 DEF CloseCall, CloseJoin, CloseUnlock, CloseSockJoin, CloseReturn, ServerTypeOK,
     MaybeSession, SocketTypeOK, SessionTypeOK, socketVars, sessionVars, rcvVars, checkVars
<1> QED
  BY <1>1, <1>2, <1>3 DEF CloseNext

(* The steps that change nothing but the socket or nothing but sessions.   *)
LEMMA PartsTyped ==
  ASSUME TypeOK, Socket \/ \E s \in Sessions : SendMsg(s) \/ Session(s) \/ Clock(s)
  PROVE  TypeOK'
<1>1. ASSUME UNCHANGED serverVars PROVE ServerTypeOK'
  BY <1>1 DEF TypeOK, ServerTypeOK, serverVars, rcvVars, checkVars, closeVars
<1>2. ASSUME Socket \/ \E s \in Sessions : SendMsg(s) PROVE TypeOK'
  <2>1. SocketTypeOK'
    BY <1>2, SockIn, SocketTyped DEF Socket, SendMsg, TypeOK
  <2> QED
    BY <1>1, <1>2, <2>1 DEF Socket, SendMsg, TypeOK, SessionTypeOK, sessionVars
<1>3. ASSUME NEW s \in Sessions, Session(s) \/ Clock(s) PROVE TypeOK'
  <2>1. SessionTypeOK'
    BY <1>3, SessionTyped DEF Session, Clock, TypeOK
  <2> QED
    BY <1>1, <1>3, <2>1 DEF Session, Clock, TypeOK, SocketTypeOK, socketVars
<1> QED
  BY <1>2, <1>3

LEMMA StartTyped ==
  ASSUME TypeOK, Listen \/ Store \/ (\E a \in Addrs : Receive(a)) PROVE TypeOK'
<1> USE DEF TypeOK
<1>1. CASE Listen
  <2>1. SocketTypeOK'
    BY <1>1, SockIn, SocketTyped DEF Listen
  <2> QED
    BY <1>1, <2>1 DEF Listen, ServerTypeOK, SessionTypeOK, sessionVars, rcvVars, checkVars
<1>2. CASE Store
  BY <1>2 DEF Store, ServerTypeOK, SocketTypeOK, SessionTypeOK, socketVars, sessionVars,
     rcvVars
<1>3. ASSUME NEW a \in Addrs, Receive(a) PROVE TypeOK'
  <2>1. SocketTypeOK'
    BY <1>3, SockIn, SocketTyped DEF Receive
  <2> QED
    BY <1>3, <2>1 DEF Receive, ServerTypeOK, SessionTypeOK, sessionVars, checkVars, closeVars
<1> QED
  BY <1>1, <1>2, <1>3

LEMMA NextTyped == ASSUME TypeOK, Adding, [Next]_vars PROVE TypeOK'
<1>1. CASE UNCHANGED vars
  BY <1>1 DEF vars, socketVars, sessionVars, serverVars, rcvVars, checkVars, closeVars,
     TypeOK, SocketTypeOK, SessionTypeOK, ServerTypeOK
<1>2. CASE Socket \/ \E s \in Sessions : SendMsg(s) \/ Session(s) \/ Clock(s)
  BY <1>2, PartsTyped
<1>3. CASE UDPOnMsg \/ CheckLoop \/ CloseNext \/ CloseCall
  BY <1>3, OnMsgNextTyped, CheckTyped, CloseTyped
<1>4. CASE Listen \/ Store \/ \E a \in Addrs : Receive(a)
  BY <1>4, StartTyped
<1> QED
  BY <1>1, <1>2, <1>3, <1>4 DEF Next

-----------------------------------------------------------------------------
(* Steps that touch neither the map nor udpOnMsg nor checkLoop; sessions   *)
(* neither start nor come back to life.                                    *)
Quiet ==
  /\ UNCHANGED <<sessions, addrOf, rcvVars, checkVars>>
  /\ reader[Sock] \in {"onMsg", "panic"} => reader'[Sock] = reader[Sock]
  /\ \A s \in Sessions :
       /\ loop'[s] = "none" <=> loop[s] = "none"
       /\ loop'[s] \notin {"none", "done"} => loop[s] \notin {"none", "done"}

LEMMA QuietKeeps == ASSUME IInv, TypeOK', Quiet PROVE IInv'
<1> USE DEF IInv, Quiet
<1>0. UNCHANGED <<sessions, addrOf, rcv, from, got, check, expires, expiring>>
  BY DEF rcvVars, checkVars
<1>1. MapAgrees'
  <2>1. \A a \in Addrs : sessions[a] \in Sessions \cup {Nil}
    BY DEF TypeOK, ServerTypeOK, MaybeSession
  <2> QED
    BY <1>0, <2>1 DEF MapAgrees
<1>2. Addressed'
  BY <1>0 DEF Addressed
<1>3. Adding'
  BY <1>0 DEF Adding
<1>4. ExpiresInMap' /\ ExpiringInMap'
  BY <1>0 DEF ExpiresInMap, ExpiringInMap
<1>5. Tracked'
  BY <1>0 DEF Tracked, Live
<1> QED
  BY <1>1, <1>2, <1>3, <1>4, <1>5

LEMMA SameLoops ==
  ASSUME UNCHANGED loop, UNCHANGED reader, UNCHANGED <<sessions, addrOf, rcvVars, checkVars>>
  PROVE  Quiet
BY DEF Quiet

LEMMA SessionQuiet == ASSUME SessionTypeOK, NEW s \in Sessions, Session(s) PROVE Quiet
<1>1. PICK st \in {"select", "onMsg", "disconnect", "done"} :
        loop[s] \notin {"none", "done"} /\ loop' = [loop EXCEPT ![s] = st]
  BY DEF Session, HandlerLoop, OnConnect, TakeMsg, OnMsg, OnMsgFails, BreakLoop, OnDisconnect,
     LoopStep
<1>2. \A t \in Sessions : loop'[t] = IF t = s THEN st ELSE loop[t]
  BY <1>1 DEF SessionTypeOK
<1>3. UNCHANGED <<sessions, addrOf, rcvVars, checkVars, reader>>
  BY DEF Session, serverVars, socketVars
<1> QED
  BY <1>1, <1>2, <1>3 DEF Quiet

LEMMA SocketQuiet == ASSUME SocketTypeOK, Socket PROVE Quiet
<1>1. UNCHANGED <<sessions, addrOf, rcvVars, checkVars, loop>>
  BY DEF Socket, serverVars, sessionVars
<1>2. \/ UNCHANGED reader
      \/ /\ reader[Sock] \in {"read", "exit"}
         /\ \E r \in ReaderStates : reader' = [reader EXCEPT ![Sock] = r]
  BY DEF Socket, SocketLoops, ReadFail, ReadLoopClose, Write, StartDrain, DrainEnd, ConnClose,
     ReaderStates
<1> QED
  BY <1>1, <1>2 DEF Quiet

LEMMA CloseQuiet == ASSUME CloseCall \/ CloseNext PROVE Quiet
<1>1. UNCHANGED <<loop, reader, sessions, addrOf, rcvVars, checkVars>>
  BY DEF CloseCall, CloseNext, CloseSession, CloseJoin, CloseUnlock, CloseSock, CloseSockJoin,
     CloseReturn, SessForceClose, SockForceClose, socketVars, sessionVars
<1> QED
  BY <1>1, SameLoops

LEMMA OtherQuiet ==
  ASSUME \/ Listen \/ UNCHANGED vars \/ \E s \in Sessions : SendMsg(s) \/ Clock(s)
  PROVE  Quiet
<1>1. CASE Listen
  <2>1. UNCHANGED <<sessions, addrOf, rcvVars, checkVars, loop>> /\ reader[Sock] = "none"
    BY <1>1 DEF Listen, NewUDPSocket, sessionVars
  <2> QED
    BY <2>1 DEF Quiet
<1>2. CASE UNCHANGED vars \/ \E s \in Sessions : SendMsg(s) \/ Clock(s)
  <2>1. UNCHANGED <<loop, reader, sessions, addrOf, rcvVars, checkVars>>
    BY <1>2 DEF vars, SendMsg, Clock, SockSendMsg, GoesStale, socketVars, sessionVars, serverVars
  <2> QED
    BY <2>1, SameLoops
<1> QED
  BY <1>1, <1>2

-----------------------------------------------------------------------------
(* udpOnMsg: only its own variables, or a new session, or the map.         *)
LEMMA ReceiveKeeps == ASSUME IInv, NEW a \in Addrs, Receive(a) PROVE IInv'
<1>1. TypeOK'
  BY StartTyped DEF IInv
<1>2. /\ UNCHANGED <<sessions, addrOf, loop, got, expires, check, expiring>>
      /\ rcv' = "get" /\ from' \in Addrs /\ reader'[Sock] = "onMsg" /\ rcv = "idle"
  BY SockIn DEF Receive, ReadFromUDP, sessionVars, checkVars, IInv, Adding, TypeOK, SocketTypeOK
<1>3. MapAgrees' /\ Addressed' /\ ExpiresInMap' /\ ExpiringInMap'
  BY <1>2 DEF IInv, MapAgrees, Addressed, ExpiresInMap, ExpiringInMap
<1>4. Adding' /\ Tracked'
  BY <1>2 DEF IInv, Adding, Tracked, Live
<1> QED
  BY <1>1, <1>3, <1>4 DEF IInv

LEMMA NewSessionKeeps == ASSUME IInv, NewSession PROVE IInv'
<1>1. TypeOK'
  BY OnMsgNextTyped DEF IInv, UDPOnMsg
<1>2. PICK s \in Sessions :
        loop[s] = "none" /\ NewUDPSession(s) /\ addrOf' = [addrOf EXCEPT ![s] = from] /\ got' = s
  BY DEF NewSession, Unused
<1>3. /\ \A t \in Sessions : loop'[t] = IF t = s THEN "connect" ELSE loop[t]
      /\ \A t \in Sessions : addrOf'[t] = IF t = s THEN from ELSE addrOf[t]
  BY <1>2 DEF NewUDPSession, IInv, TypeOK, SessionTypeOK, ServerTypeOK
<1>4. /\ UNCHANGED <<sessions, from, reader, check, expires, expiring>>
      /\ rcv = "get" /\ rcv' = "add" /\ sessions[from] = Nil /\ from \in Addrs
  BY DEF NewSession, socketVars, checkVars, IInv, Adding
<1>5. \A a \in Addrs : sessions[a] \in Sessions \cup {Nil} /\ sessions[a] # s
  BY <1>2, ServerAssumption DEF IInv, TypeOK, ServerTypeOK, MaybeSession, MapAgrees
<1>6. MapAgrees' /\ Addressed'
  BY <1>3, <1>4, <1>5 DEF IInv, MapAgrees, Addressed
<1>7. Adding'
  BY <1>2, <1>3, <1>4 DEF IInv, Adding
<1>8. ExpiresInMap' /\ ExpiringInMap'
  BY <1>3, <1>4, <1>5 DEF IInv, ExpiresInMap, ExpiringInMap
<1>9. Tracked'
  BY <1>2, <1>3, <1>4 DEF IInv, Tracked, Live
<1> QED
  BY <1>1, <1>6, <1>7, <1>8, <1>9 DEF IInv

LEMMA AddSessionKeeps == ASSUME IInv, AddSession PROVE IInv'
<1>1. TypeOK'
  BY OnMsgNextTyped DEF IInv, UDPOnMsg
<1>2. /\ UNCHANGED <<loop, addrOf, from, got, reader, check, expires, expiring>>
      /\ rcv = "add" /\ rcv' = "recv" /\ from \in Addrs /\ got \in Sessions
      /\ addrOf[got] = from /\ sessions[from] = Nil /\ loop[got] # "none"
  BY DEF AddSession, socketVars, sessionVars, checkVars, IInv, Adding
<1>3. \A a \in Addrs : sessions'[a] = IF a = from THEN got ELSE sessions[a]
  BY DEF AddSession, IInv, TypeOK, ServerTypeOK
<1>4. MapAgrees' /\ Addressed' /\ Adding'
  BY <1>2, <1>3 DEF IInv, MapAgrees, Addressed, Adding
<1>5. Nil \notin Sessions
  BY ServerAssumption
<1>6. ExpiresInMap' /\ ExpiringInMap'
  BY <1>2, <1>3, <1>5 DEF IInv, ExpiresInMap, ExpiringInMap
<1>7. Tracked'
  <2> SUFFICES ASSUME NEW s \in Sessions, loop[s] \notin {"none", "done"}
               PROVE  sessions'[addrOf[s]] = s
    BY <1>2 DEF Tracked, Live
  <2>1. addrOf[s] \in Addrs /\ (sessions[addrOf[s]] = s \/ got = s)
    BY DEF IInv, Tracked, Live, Addressed
  <2> QED
    BY <1>2, <1>3, <1>5, <2>1
<1> QED
  BY <1>1, <1>4, <1>6, <1>7 DEF IInv

(* udpOnMsg ends, or goes on to recvMsg, or panics: the map stays.         *)
LEMMA OnMsgKeeps ==
  ASSUME IInv, GetSession \/ LoadPanics \/ Recv \/ DropDatagram PROVE IInv'
<1>1. TypeOK'
  BY OnMsgNextTyped DEF IInv, UDPOnMsg
<1>2. UNCHANGED <<sessions, addrOf, loop, expires, check, expiring>> /\ rcv # "add"
  BY DEF GetSession, LoadPanics, Recv, DropDatagram, OnMsgDone, RecvMsg, sessionVars, serverVars,
     checkVars
<1>3. MapAgrees' /\ Addressed' /\ ExpiresInMap' /\ ExpiringInMap'
  BY <1>2 DEF IInv, MapAgrees, Addressed, ExpiresInMap, ExpiringInMap
<1>4. Adding'
  <2>1. CASE GetSession
    <3>1. sessions[from] \in Sessions \cup {Nil}
      BY <2>1 DEF GetSession, IInv, Adding, TypeOK, ServerTypeOK, MaybeSession
    <3> QED
      BY <1>2, <2>1, <3>1 DEF GetSession, IInv, Adding, MapAgrees, socketVars
  <2>2. CASE LoadPanics
    BY <1>2, <2>2, SockIn DEF LoadPanics, IInv, Adding, TypeOK, SocketTypeOK, serverVars, rcvVars
  <2>3. CASE Recv \/ DropDatagram
    BY <2>3 DEF Recv, DropDatagram, OnMsgDone, Adding
  <2> QED
    BY <2>1, <2>2, <2>3
<1>5. Tracked'
  BY <1>2 DEF IInv, Tracked, Live
<1> QED
  BY <1>1, <1>3, <1>4, <1>5 DEF IInv

-----------------------------------------------------------------------------
(* checkLoop                                                               *)
LEMMA DelSessionKeeps == ASSUME IInv, DelSession PROVE IInv'
<1>1. TypeOK'
  BY CheckTyped DEF IInv, CheckLoop
<1>2. /\ UNCHANGED <<loop, addrOf, rcv, from, got, reader, expires>>
      /\ expiring \in Sessions /\ expiring \notin expires /\ loop[expiring] = "done"
      /\ addrOf[expiring] \in Addrs /\ check' = "expire"
      /\ sessions[addrOf[expiring]] = expiring
  BY DEF DelSession, SessJoined, socketVars, sessionVars, rcvVars, IInv, ExpiringInMap
<1>3. \A a \in Addrs : sessions'[a] = IF a = addrOf[expiring] THEN Nil ELSE sessions[a]
  BY DEF DelSession, IInv, TypeOK, ServerTypeOK
<1>4. MapAgrees' /\ Addressed' /\ Adding'
  BY <1>2, <1>3 DEF IInv, MapAgrees, Addressed, Adding
<1>5. ExpiresInMap' /\ ExpiringInMap'
  BY <1>2, <1>3 DEF IInv, ExpiresInMap, ExpiringInMap
<1>6. Tracked'
  BY <1>2, <1>3 DEF IInv, Tracked, Live, Addressed
<1> QED
  BY <1>1, <1>4, <1>5, <1>6 DEF IInv

LEMMA CheckKeeps ==
  ASSUME IInv, \/ Store \/ Scan \/ ScanDone \/ CheckEnd \/ \E s \in Sessions : CloseExpired(s)
  PROVE  IInv'
<1>1. TypeOK'
  BY StartTyped, CheckTyped DEF IInv, CheckLoop
<1>2. UNCHANGED <<sessions, addrOf, loop, rcv, from, got, reader>>
  BY DEF Store, Scan, ScanDone, CheckEnd, CloseExpired, SessForceClose, sessionVars, socketVars,
     rcvVars
<1>3. MapAgrees' /\ Addressed' /\ Adding' /\ Tracked'
  BY <1>2 DEF IInv, MapAgrees, Addressed, Adding, Tracked, Live
<1>4. ExpiresInMap'
  <2>1. CASE Scan
    <3>1. \A s \in Sessions : s \in expires' => \E a \in Addrs : sessions[a] = s
      BY <2>1 DEF Scan, InMap
    <3> QED
      BY <1>2, <3>1, ServerAssumption DEF IInv, MapAgrees, ExpiresInMap
  <2>2. CASE expires' \subseteq expires
    BY <1>2, <2>2 DEF IInv, ExpiresInMap
  <2> QED
    BY <2>1, <2>2 DEF Store, ScanDone, CheckEnd, CloseExpired
<1>5. ExpiringInMap'
  <2>1. CASE \E s \in Sessions : CloseExpired(s)
    BY <1>2, <2>1 DEF CloseExpired, IInv, ExpiresInMap, ExpiringInMap
  <2>2. CASE Store \/ Scan \/ ScanDone \/ CheckEnd
    BY <2>2 DEF Store, Scan, ScanDone, CheckEnd, ExpiringInMap
  <2> QED
    BY <2>1, <2>2
<1> QED
  BY <1>1, <1>3, <1>4, <1>5 DEF IInv

-----------------------------------------------------------------------------
LEMMA InitInv == ASSUME Init PROVE IInv
BY InitTyped DEF Init, SocketInit, SessionInit, IInv, MapAgrees, Addressed, Adding, ExpiresInMap,
   ExpiringInMap, Tracked, Live

LEMMA NextInv == ASSUME IInv, [Next]_vars PROVE IInv'
<1>1. TypeOK'
  BY NextTyped DEF IInv
<1>2. ASSUME Quiet PROVE IInv'
  BY <1>1, <1>2, QuietKeeps
<1>3. CASE Listen \/ UNCHANGED vars
  BY <1>2, <1>3, OtherQuiet
<1>4. CASE Store \/ CheckLoop
  BY <1>4, CheckKeeps, DelSessionKeeps DEF CheckLoop
<1>5. CASE CloseCall \/ CloseNext
  BY <1>2, <1>5, CloseQuiet
<1>6. ASSUME NEW a \in Addrs, Receive(a) PROVE IInv'
  BY <1>6, ReceiveKeeps
<1>7. CASE UDPOnMsg
  BY <1>7, NewSessionKeeps, AddSessionKeeps, OnMsgKeeps DEF UDPOnMsg
<1>8. CASE Socket
  BY <1>2, <1>8, SocketQuiet DEF IInv, TypeOK
<1>9. ASSUME NEW s \in Sessions, SendMsg(s) \/ Clock(s) PROVE IInv'
  BY <1>2, <1>9, OtherQuiet
<1>10. ASSUME NEW s \in Sessions, Session(s) PROVE IInv'
  BY <1>2, <1>10, SessionQuiet DEF IInv, TypeOK
<1> QED
  BY <1>3, <1>4, <1>5, <1>6, <1>7, <1>8, <1>9, <1>10 DEF Next

LEMMA Inductive == Spec => []IInv
BY InitInv, NextInv, PTL DEF Spec

-----------------------------------------------------------------------------
(* Every reachable state is well typed, the channels within their          *)
(* capacities.                                                             *)
THEOREM TypeCorrect == Spec => []TypeOK
<1>1. IInv => TypeOK
  BY DEF IInv
<1> QED
  BY <1>1, Inductive, PTL

(* A session whose goroutine runs is in the map or on its way into it, so  *)
(* the timeout will look at it.                                            *)
THEOREM SessionsTracked == Spec => []Tracked
<1>1. IInv => Tracked
  BY DEF IInv
<1> QED
  BY <1>1, Inductive, PTL

LEMMA OneAlive == ASSUME IInv PROVE OneSessionPerAddress
<1> SUFFICES ASSUME NEW s \in Sessions, NEW t \in Sessions, Live(s), Live(t),
                    addrOf[s] = addrOf[t]
             PROVE  s = t
  BY DEF OneSessionPerAddress
<1>1. /\ sessions[addrOf[s]] = s \/ (rcv = "add" /\ got = s)
      /\ sessions[addrOf[t]] = t \/ (rcv = "add" /\ got = t)
  BY DEF IInv, Tracked
<1>2. rcv = "add" => sessions[addrOf[got]] = Nil
  BY DEF IInv, Adding
<1> QED
  BY <1>1, <1>2, ServerAssumption

(* The callbacks of two sessions of one address never run side by side.    *)
THEOREM OnePerAddress == Spec => []OneSessionPerAddress
BY OneAlive, Inductive, PTL

-----------------------------------------------------------------------------
(* The server implements SessionCallbacks: only NewSession and the steps   *)
(* of handlerLoop show.                                                    *)
running == [a \in Addrs |-> RunningAt(a)]

(* A session that is alone at its address moves.                           *)
LEMMA RunningMoves ==
  ASSUME NEW a \in Addrs, NEW s \in Sessions, addrOf'[s] = a, Live(s) => addrOf[s] = a,
         \A t \in Sessions \ {s} :
           /\ loop'[t] = loop[t] /\ addrOf'[t] = addrOf[t]
           /\ Live(t) => addrOf[t] # a
  PROVE  /\ running[a] = IF Live(s) THEN {<<s, loop[s]>>} ELSE {}
         /\ running' = [running EXCEPT ![a] = IF Live(s)' THEN {<<s, loop'[s]>>} ELSE {}]
<1>1. \A t \in Sessions : Live(t) /\ addrOf[t] = a <=> Live(s) /\ t = s
  OBVIOUS
<1>2. \A t \in Sessions : Live(t)' /\ addrOf'[t] = a <=> Live(s)' /\ t = s
  BY DEF Live
<1>3. RunningAt(a) = IF Live(s) THEN {<<s, loop[s]>>} ELSE {}
  BY <1>1 DEF RunningAt
<1>4. RunningAt(a)' = IF Live(s)' THEN {<<s, loop'[s]>>} ELSE {}
  BY <1>2 DEF RunningAt
<1>5. ASSUME NEW b \in Addrs, b # a
      PROVE  RunningAt(b)' = RunningAt(b)
  <2>1. \A t \in Sessions : Live(t)' /\ addrOf'[t] = b <=> Live(t) /\ addrOf[t] = b
    BY <1>5 DEF Live
  <2>2. {t \in Sessions : Live(t)' /\ addrOf'[t] = b} = {t \in Sessions : Live(t) /\ addrOf[t] = b}
    BY <2>1
  <2>3. \A t \in {u \in Sessions : Live(u) /\ addrOf[u] = b} : loop'[t] = loop[t]
    BY <1>5
  <2>4. QED
    BY <2>2, <2>3 DEF RunningAt
<1>6. running[a] = RunningAt(a) /\ running' = [b \in Addrs |-> RunningAt(b)']
  BY DEF running
<1>7. running' = [running EXCEPT ![a] = RunningAt(a)']
  BY <1>5, <1>6 DEF running
<1>8. QED
  BY <1>3, <1>4, <1>6, <1>7

LEMMA NewSessionBegins ==
  ASSUME IInv, NewSession
  PROVE  \E s \in Sessions : Callbacks!Begin(from, s) /\ from \in Addrs
<1>1. PICK s \in Sessions :
        loop[s] = "none" /\ NewUDPSession(s) /\ addrOf' = [addrOf EXCEPT ![s] = from]
  BY DEF NewSession, Unused
<1>2. from \in Addrs /\ sessions[from] = Nil /\ rcv = "get"
  BY DEF NewSession, IInv, Adding
<1>3. /\ \A t \in Sessions : loop'[t] = IF t = s THEN "connect" ELSE loop[t]
      /\ \A t \in Sessions : addrOf'[t] = IF t = s THEN from ELSE addrOf[t]
  BY <1>1 DEF NewUDPSession, IInv, TypeOK, SessionTypeOK, ServerTypeOK
<1>4. \A t \in Sessions : Live(t) => addrOf[t] # from
  BY <1>2, ServerAssumption DEF IInv, Tracked
<1>5. ~Live(s) /\ Live(s)'
  BY <1>1, <1>3 DEF Live
<1>6. running[from] = {} /\ running' = [running EXCEPT ![from] = {<<s, "connect">>}]
  BY <1>2, <1>3, <1>4, <1>5, RunningMoves
<1>7. s \notin begun /\ begun' = begun \cup {s}
  BY <1>1, <1>3 DEF begun
<1>8. QED
  BY <1>2, <1>6, <1>7 DEF Callbacks!Begin, running

LEMMA SessionContinues ==
  ASSUME IInv, NEW s \in Sessions, Session(s)
  PROVE  addrOf[s] \in Addrs /\ (Callbacks!Continue(addrOf[s], s) \/ Callbacks!End(addrOf[s], s))
<1> DEFINE a == addrOf[s]
<1>1. UNCHANGED addrOf
  BY DEF Session, serverVars
<1>2. PICK st :
        /\ loop' = [loop EXCEPT ![s] = st]
        /\ \/ <<loop[s], st>> \in Callbacks!Follows /\ loop[s] \notin {"none", "done"}
              /\ st \notin {"none", "done"}
           \/ loop[s] = "disconnect" /\ st = "done"
  BY DEF Session, HandlerLoop, OnConnect, TakeMsg, OnMsg, OnMsgFails, BreakLoop, OnDisconnect,
         LoopStep, Callbacks!Follows
<1>3. \A t \in Sessions : loop'[t] = IF t = s THEN st ELSE loop[t]
  BY <1>2 DEF IInv, TypeOK, SessionTypeOK
<1>4. Live(s) /\ a \in Addrs
  BY <1>2 DEF Live, IInv, Addressed
<1>5. \A t \in Sessions \ {s} : Live(t) => addrOf[t] # a
  BY <1>4, OneAlive DEF OneSessionPerAddress
<1>6. Live(s)' <=> st # "done"
  BY <1>2, <1>3 DEF Live
<1>7. /\ running[a] = {<<s, loop[s]>>}
      /\ running' = [running EXCEPT ![a] = IF st # "done" THEN {<<s, st>>} ELSE {}]
  BY <1>1, <1>3, <1>4, <1>5, <1>6, RunningMoves
<1>8. UNCHANGED begun
  BY <1>2, <1>3 DEF begun
<1>9. CASE st = "done"
  BY <1>2, <1>4, <1>7, <1>8, <1>9 DEF Callbacks!End, Callbacks!Follows, running
<1>10. CASE st # "done"
  BY <1>2, <1>4, <1>7, <1>8, <1>10 DEF Callbacks!Continue, running
<1>11. QED
  BY <1>4, <1>9, <1>10

LEMMA CallbacksStep ==
  ASSUME IInv, [Next]_vars
  PROVE  [Callbacks!Next]_<<begun, running>>
<1>1. CASE UNCHANGED <<loop, addrOf>>
  BY <1>1 DEF begun, running, RunningAt, Live
<1>2. CASE NewSession
  BY <1>2, NewSessionBegins DEF Callbacks!Next
<1>3. ASSUME NEW s \in Sessions, Session(s) PROVE Callbacks!Next
  BY <1>3, SessionContinues DEF Callbacks!Next
<1>4. CASE UDPOnMsg /\ ~NewSession
  BY <1>1, <1>4 DEF UDPOnMsg, GetSession, LoadPanics, AddSession, Recv, DropDatagram, RecvMsg,
                    OnMsgDone, sessionVars, serverVars
<1>5. CASE CheckLoop \/ Store \/ Listen \/ \E a \in Addrs : Receive(a)
  BY <1>1, <1>5 DEF CheckLoop, Scan, CloseExpired, DelSession, ScanDone, CheckEnd, Store, Listen,
                    Receive, SessForceClose, sessionVars
<1>6. CASE CloseCall \/ CloseNext
  BY <1>1, <1>6 DEF CloseCall, CloseNext, CloseSession, CloseJoin, CloseUnlock, CloseSock,
                    CloseSockJoin, CloseReturn, SessForceClose, sessionVars
<1>7. CASE Socket \/ UNCHANGED vars \/ \E s \in Sessions : SendMsg(s) \/ Clock(s)
  BY <1>1, <1>7 DEF Socket, SendMsg, Clock, GoesStale, vars, sessionVars, serverVars
<1>8. QED
  BY <1>2, <1>3, <1>4, <1>5, <1>6, <1>7 DEF Next

(* udp_server.go with its sessions does what a handler may count on: the   *)
(* callbacks of an address come one at a time and in order, one session's  *)
(* after the other's, whatever datagrams, timeouts, errors and Close do.   *)
THEOREM RunsCallbacks == Spec => CallbacksSpec
<1>1. Init => Callbacks!Init
  BY DEF Init, SessionInit, Callbacks!Init, begun, RunningAt, Live
<1>2. IInv /\ [Next]_vars => [Callbacks!Next]_<<begun, [a \in Addrs |-> RunningAt(a)]>>
  BY CallbacksStep DEF running
<1>3. QED
  BY <1>1, <1>2, Inductive, PTL DEF Spec, CallbacksSpec, Callbacks!Spec

-----------------------------------------------------------------------------
(* The write loop: Draining says why it has ended.                         *)
DInv == SocketTypeOK /\ Draining /\ DrainedOnClose

LEMMA WriterKeeps == ASSUME DInv, SocketTypeOK', Socket PROVE DInv'
<1> USE SockIn, ServerAssumption DEF DInv
<1>1. CASE Write(Sock)
  <2>1. /\ UNCHANGED sockClosed /\ writer[Sock] \in {"write", "drain"}
        /\ writer'[Sock] \in {"exit", "done"} => writeErr'[Sock]
    BY <1>1 DEF Write, SocketTypeOK
  <2>2. writer'[Sock] = "drain" => writer[Sock] = "drain"
    BY <1>1 DEF Write, SocketTypeOK
  <2> QED
    BY <2>1, <2>2 DEF Draining, DrainedOnClose
<1>2. CASE StartDrain(Sock)
  BY <1>2 DEF StartDrain, Draining, DrainedOnClose, SocketTypeOK
<1>3. CASE DrainEnd(Sock)
  BY <1>3 DEF DrainEnd, Draining, DrainedOnClose, SocketTypeOK
<1>4. CASE ConnClose(Sock)
  BY <1>4 DEF ConnClose, Draining, DrainedOnClose, SocketTypeOK
<1>5. CASE ReadFail(Sock) \/ ReadLoopClose(Sock)
  <2>1. UNCHANGED <<writer, writeErr, writeCh>> /\ (sockClosed[Sock] => sockClosed'[Sock])
    BY <1>5 DEF ReadFail, ReadLoopClose, SocketTypeOK
  <2> QED
    BY <2>1 DEF Draining, DrainedOnClose
<1> QED
  BY <1>1, <1>2, <1>3, <1>4, <1>5 DEF Socket, SocketLoops

LEMMA SendKeeps == ASSUME DInv, SocketTypeOK', SockSendMsg(Sock) PROVE DInv'
<1> USE SockIn, ServerAssumption DEF DInv
<1>1. UNCHANGED <<writer, writeErr, sockClosed>>
  BY DEF SockSendMsg
<1>2. ASSUME sockClosed[Sock], NEW i \in DOMAIN writeCh'[Sock], writeCh'[Sock][i]
      PROVE  \E j \in DOMAIN writeCh[Sock] : writeCh[Sock][j]
  <2> DEFINE q == writeCh[Sock]
  <2>1. q \in Seq(BOOLEAN) /\ (~sockClosed[Sock]) \in BOOLEAN
    BY DEF SocketTypeOK
  <2>2. writeCh'[Sock] = Append(q, ~sockClosed[Sock])
    BY DEF SockSendMsg, SocketTypeOK
  <2> HIDE DEF q
  <2>3. /\ Len(Append(q, ~sockClosed[Sock])) = Len(q) + 1
        /\ \A j \in 1..Len(q) : Append(q, ~sockClosed[Sock])[j] = q[j]
        /\ Append(q, ~sockClosed[Sock])[Len(q) + 1] = ~sockClosed[Sock]
        /\ Append(q, ~sockClosed[Sock]) \in Seq(BOOLEAN)
    BY <2>1, AppendProperties
  <2>4. Len(q) \in Nat /\ DOMAIN q = 1..Len(q)
        /\ DOMAIN Append(q, ~sockClosed[Sock]) = 1..(Len(q) + 1)
    BY <2>1, <2>3, LenProperties
  <2>a. i \in 1..(Len(q) + 1) /\ i \in Int
    BY <1>2, <2>2, <2>4
  <2>b. i # Len(q) + 1
    <3> SUFFICES ASSUME i = Len(q) + 1 PROVE FALSE
      OBVIOUS
    <3>1. writeCh'[Sock][i] = ~sockClosed[Sock]
      BY <2>2, <2>3
    <3> QED
      BY <1>2, <3>1
  <2>c. i \in 1..Len(q)
    BY <2>4, <2>a, <2>b
  <2>d. writeCh'[Sock][i] = q[i]
    BY <2>2, <2>3, <2>c
  <2>5. i \in 1..Len(q) /\ q[i]
    BY <1>2, <2>c, <2>d
  <2> QED
    BY <2>4, <2>5 DEF q
<1>3. Draining'
  BY <1>1 DEF Draining
<1>4. DrainedOnClose'
  BY <1>1, <1>2 DEF Draining, DrainedOnClose
<1> QED
  BY <1>3, <1>4

LEMMA DrainNext == ASSUME TypeOK, TypeOK', DInv, [Next]_vars PROVE DInv'
<1> USE SockIn, ServerAssumption DEF DInv, TypeOK
<1>1. CASE Socket
  BY <1>1, WriterKeeps
<1>2. ASSUME NEW s \in Sessions, SendMsg(s) PROVE DInv'
  BY <1>2, SendKeeps DEF SendMsg
<1>3. CASE Listen
  BY <1>3 DEF Listen, NewUDPSocket, Draining, DrainedOnClose, SocketTypeOK
<1>4. ASSUME UNCHANGED <<writer, writeErr, writeCh>>, sockClosed[Sock] => sockClosed'[Sock]
      PROVE  DInv'
  BY <1>4 DEF Draining, DrainedOnClose
<1>5. CASE CloseSock
  BY <1>4, <1>5 DEF CloseSock, SockForceClose, SocketTypeOK
<1>6. CASE \/ \E a \in Addrs : Receive(a)
           \/ UDPOnMsg
  <2>1. UNCHANGED <<writer, writeErr, writeCh, sockClosed>>
    BY <1>6 DEF Receive, ReadFromUDP, UDPOnMsg, GetSession, NewSession, LoadPanics, AddSession,
       Recv, DropDatagram, OnMsgDone, socketVars
  <2> QED
    BY <1>4, <2>1
<1>7. CASE \/ Store \/ CloseCall \/ CheckLoop \/ (CloseNext /\ ~CloseSock) \/ UNCHANGED vars
           \/ \E s \in Sessions : Session(s) \/ Clock(s)
  <2>1. UNCHANGED socketVars
    BY <1>7 DEF Store, CloseCall, CheckLoop, Scan, CloseExpired, DelSession, ScanDone, CheckEnd,
       CloseNext, CloseSession, CloseJoin, CloseUnlock, CloseSockJoin, CloseReturn, Session, Clock,
       vars
  <2> QED
    BY <1>4, <2>1 DEF socketVars
<1> QED
  BY <1>1, <1>2, <1>3, <1>5, <1>6, <1>7 DEF Next

(* A write loop that ends without an error has written every datagram that *)
(* sendMsg took before closeCh was closed.                                 *)
THEOREM Drained == Spec => []DrainedOnClose
<1>1. Init => DInv
  <2> SUFFICES ASSUME Init PROVE DInv
    OBVIOUS
  <2>1. SocketTypeOK
    BY InitTyped DEF TypeOK
  <2>2. Draining /\ DrainedOnClose
    BY ServerAssumption DEF Init, SocketInit, Draining, DrainedOnClose
  <2> QED
    BY <2>1, <2>2 DEF DInv
<1>2. TypeOK /\ TypeOK' /\ DInv /\ [Next]_vars => DInv'
  BY DrainNext
<1>3. DInv => DrainedOnClose
  BY DEF DInv
<1> QED
  BY <1>1, <1>2, <1>3, TypeCorrect, PTL DEF Spec
-----------------------------------------------------------------------------
(* What Close has behind it, step by step.  A session told to close is     *)
(* over, or else the one that told it is still waiting for it.             *)
ClosedJoined ==
  \A s \in Sessions : sessClosed[s] =>
    /\ loop[s] # "none"
    /\ Live(s) => (check = "join" /\ expiring = s) \/ (svr = "join" /\ closing = s)

ToCloseStarted == \A s \in toClose : loop[s] # "none"

SockOver == svr \in {"wait", "done"} => SockJoined(Sock)

CheckOver == svr = "done" => check = "done"

CheckStarts == svr \in {"new", "listen"} => check = "none"

FInv == ClosedJoined /\ ToCloseStarted /\ SockOver /\ CheckOver /\ CheckStarts

(* A socket whose loops are over stays so: udpOnMsg, which sends readLoop  *)
(* on, only runs inside readLoop.                                          *)
LEMMA SockStays ==
  ASSUME TypeOK, Adding, [Next]_vars, SockJoined(Sock) PROVE SockJoined(Sock)'
<1> USE SockIn DEF SockJoined
<1>1. rcv = "idle" /\ reader[Sock] # "none"
  BY DEF Adding
<1>2. ASSUME UNCHANGED <<reader, writer>> PROVE SockJoined(Sock)'
  BY <1>2
<1>3. CASE Socket
  <2>1. UNCHANGED reader \/ reader' = [reader EXCEPT ![Sock] = "done"]
    BY <1>3 DEF Socket, SocketLoops, ReadFail, ReadLoopClose, Write, StartDrain, DrainEnd, ConnClose
  <2>2. UNCHANGED writer \/ writer' = [writer EXCEPT ![Sock] = "done"]
    BY <1>3 DEF Socket, SocketLoops, ReadFail, ReadLoopClose, Write, StartDrain, DrainEnd, ConnClose
  <2> QED
    BY <2>1, <2>2 DEF TypeOK, SocketTypeOK
<1>4. ASSUME NEW s \in Sessions, SendMsg(s) PROVE UNCHANGED <<reader, writer>>
  BY <1>4 DEF SendMsg, SockSendMsg
<1>5. ~Listen /\ ~UDPOnMsg /\ \A a \in Addrs : ~Receive(a)
  <2>1. ~Listen
    BY <1>1 DEF Listen, NewUDPSocket
  <2>2. ~UDPOnMsg
    BY <1>1 DEF UDPOnMsg, GetSession, NewSession, LoadPanics, AddSession, Recv, DropDatagram
  <2>3. \A a \in Addrs : ~Receive(a)
    BY DEF Receive, ReadFromUDP
  <2> QED
    BY <2>1, <2>2, <2>3
<1>6. CASE CloseSock
  BY <1>6 DEF CloseSock, SockForceClose
<1>7. CASE \/ Store \/ CloseCall \/ CheckLoop \/ (CloseNext /\ ~CloseSock) \/ UNCHANGED vars
           \/ \E s \in Sessions : Session(s) \/ Clock(s)
  <2>1. UNCHANGED socketVars
    BY <1>7 DEF Store, CloseCall, CheckLoop, Scan, CloseExpired, DelSession, ScanDone, CheckEnd,
       CloseNext, CloseSession, CloseJoin, CloseUnlock, CloseSockJoin, CloseReturn, Session, Clock,
       vars
  <2> QED
    BY <1>2, <2>1 DEF socketVars
<1> QED
  BY <1>2, <1>3, <1>4, <1>5, <1>6, <1>7 DEF Next

(* Whose steps the others' variables change in.                            *)
LEMMA CloserSteps ==
  ASSUME [Next]_vars, ~UNCHANGED closeVars PROVE Listen \/ Store \/ CloseCall \/ CloseNext
<1>1. ~UNCHANGED vars
  BY DEF vars, serverVars
<1>2. ~Socket /\ ~CheckLoop /\ ~UDPOnMsg
  BY DEF Socket, serverVars, CheckLoop, Scan, CloseExpired, DelSession, ScanDone, CheckEnd, UDPOnMsg,
     GetSession, NewSession, LoadPanics, AddSession, Recv, DropDatagram, OnMsgDone
<1>3. /\ \A a \in Addrs : ~Receive(a)
      /\ \A s \in Sessions : ~SendMsg(s) /\ ~Session(s) /\ ~Clock(s)
  BY DEF Receive, SendMsg, Session, Clock, serverVars
<1> QED
  BY <1>1, <1>2, <1>3 DEF Next

LEMMA CheckerSteps == ASSUME [Next]_vars, ~UNCHANGED checkVars PROVE Store \/ CheckLoop
<1>1. ~UNCHANGED vars
  BY DEF vars, serverVars
<1>2. ~Socket /\ ~UDPOnMsg /\ ~Listen /\ ~CloseCall /\ ~CloseNext
  BY DEF Socket, serverVars, UDPOnMsg, GetSession, NewSession, LoadPanics, AddSession, Recv,
     DropDatagram, OnMsgDone, Listen, CloseCall, CloseNext, CloseSession, CloseJoin, CloseUnlock,
     CloseSock, CloseSockJoin, CloseReturn
<1>3. /\ \A a \in Addrs : ~Receive(a)
      /\ \A s \in Sessions : ~SendMsg(s) /\ ~Session(s) /\ ~Clock(s)
  BY DEF Receive, SendMsg, Session, Clock, serverVars
<1> QED
  BY <1>1, <1>2, <1>3 DEF Next

LEMMA SockOverNext == ASSUME IInv, SockOver, [Next]_vars PROVE SockOver'
<1>1. CASE svr \in {"wait", "done"}
  BY <1>1, SockStays DEF SockOver, IInv
<1>2. ASSUME svr \notin {"wait", "done"}, svr' \in {"wait", "done"} PROVE SockJoined(Sock)'
  <2>1. Listen \/ Store \/ CloseCall \/ CloseNext
    BY <1>2, CloserSteps DEF closeVars
  <2>2. CloseSockJoin
    BY <1>2, <2>1 DEF Listen, Store, CloseCall, CloseNext, CloseSession, CloseJoin, CloseUnlock,
       CloseSock, CloseReturn
  <2> QED
    BY <2>2 DEF CloseSockJoin, SockJoined, socketVars
<1> QED
  BY <1>1, <1>2 DEF SockOver

LEMMA CheckOverNext == ASSUME CheckOver, [Next]_vars PROVE CheckOver'
<1>1. CASE svr = "done"
  <2>1. check = "done"
    BY <1>1 DEF CheckOver
  <2>2. ~Store /\ ~CheckLoop
    BY <1>1, <2>1 DEF Store, CheckLoop, Scan, CloseExpired, DelSession, ScanDone, CheckEnd
  <2>3. UNCHANGED check
    BY <2>2, CheckerSteps DEF checkVars
  <2> QED
    BY <2>1, <2>3 DEF CheckOver
<1>2. ASSUME svr # "done", svr' = "done" PROVE check' = "done"
  <2>1. Listen \/ Store \/ CloseCall \/ CloseNext
    BY <1>2, CloserSteps DEF closeVars
  <2>2. CloseReturn
    BY <1>2, <2>1 DEF Listen, Store, CloseCall, CloseNext, CloseSession, CloseJoin, CloseUnlock,
       CloseSock, CloseSockJoin
  <2> QED
    BY <2>2 DEF CloseReturn, checkVars
<1> QED
  BY <1>1, <1>2 DEF CheckOver

(* Sessions start once and for all.                                        *)
LEMMA LoopSteps ==
  ASSUME TypeOK, [Next]_vars, NEW s \in Sessions
  PROVE  /\ loop[s] # "none" => loop'[s] # "none"
         /\ loop[s] # "none" /\ Live(s)' => Live(s)
<1>1. ASSUME UNCHANGED loop
      PROVE  /\ loop[s] # "none" => loop'[s] # "none"
             /\ loop[s] # "none" /\ Live(s)' => Live(s)
  BY <1>1 DEF Live
<1>2. ASSUME NEW t \in Sessions, Session(t)
      PROVE  /\ loop[s] # "none" => loop'[s] # "none"
             /\ loop[s] # "none" /\ Live(s)' => Live(s)
  <2>1. Quiet
    BY <1>2, SessionQuiet DEF TypeOK
  <2> QED
    BY <2>1 DEF Quiet, Live
<1>3. CASE NewSession
  <2>1. PICK t \in Sessions : loop[t] = "none" /\ NewUDPSession(t)
    BY <1>3 DEF NewSession, Unused
  <2> QED
    BY <2>1 DEF NewUDPSession, TypeOK, SessionTypeOK, Live
<1>4. ASSUME NEW t \in Sessions, SendMsg(t) \/ Clock(t) PROVE UNCHANGED loop
  BY <1>4 DEF SendMsg, Clock, GoesStale, sessionVars
<1>5. ASSUME \/ UDPOnMsg /\ ~NewSession
             \/ \E a \in Addrs : Receive(a)
             \/ Listen \/ Store \/ Socket \/ UNCHANGED vars
      PROVE  UNCHANGED loop
  BY <1>5 DEF UDPOnMsg, GetSession, LoadPanics, AddSession, Recv, RecvMsg, DropDatagram, Receive,
     Listen, Store, Socket, vars, sessionVars
<1>6. ASSUME CheckLoop \/ CloseCall \/ CloseNext PROVE UNCHANGED loop
  BY <1>6 DEF CheckLoop, Scan, CloseExpired, DelSession, ScanDone, CheckEnd, CloseCall, CloseNext,
     CloseSession, CloseJoin, CloseUnlock, CloseSock, CloseSockJoin, CloseReturn, SessForceClose,
     sessionVars
<1> QED
  BY <1>1, <1>2, <1>3, <1>4, <1>5, <1>6 DEF Next

LEMMA ToCloseNext == ASSUME IInv, ToCloseStarted, [Next]_vars PROVE ToCloseStarted'
<1>1. \A s \in Sessions : loop[s] # "none" => loop'[s] # "none"
  BY LoopSteps DEF IInv
<1>2. toClose \subseteq Sessions
  BY DEF IInv, TypeOK, ServerTypeOK
<1>3. CASE UNCHANGED closeVars
  BY <1>1, <1>2, <1>3 DEF closeVars, ToCloseStarted
<1>4. CASE CloseCall
  <2>1. \A s \in toClose' : s \in Sessions /\ \E a \in Addrs : sessions[a] = s
    BY <1>4 DEF CloseCall, InMap
  <2>2. \A s \in toClose' : s \in Sessions /\ loop[s] # "none"
    BY <2>1, ServerAssumption DEF IInv, MapAgrees
  <2> QED
    BY <1>1, <2>2 DEF ToCloseStarted
<1>5. CASE Listen \/ Store \/ CloseNext
  <2>1. toClose' \subseteq toClose
    BY <1>5 DEF Listen, Store, CloseNext, CloseSession, CloseJoin, CloseUnlock, CloseSock,
       CloseSockJoin, CloseReturn, closeVars
  <2> QED
    BY <1>1, <1>2, <2>1 DEF ToCloseStarted
<1> QED
  BY <1>3, <1>4, <1>5, CloserSteps

LEMMA CheckStartsNext == ASSUME CheckStarts, [Next]_vars PROVE CheckStarts'
<1> SUFFICES ASSUME svr' \in {"new", "listen"} PROVE check' = "none"
  BY DEF CheckStarts
<1>1. svr \in {"new", "listen"} /\ ~Store
  <2>1. UNCHANGED closeVars \/ Listen
    BY CloserSteps DEF Store, CloseCall, CloseNext, CloseSession, CloseJoin, CloseUnlock, CloseSock,
       CloseSockJoin, CloseReturn
  <2> QED
    BY <2>1 DEF Listen, Store, closeVars
<1>2. check = "none" /\ ~CheckLoop
  BY <1>1 DEF CheckStarts, CheckLoop, Scan, CloseExpired, DelSession, ScanDone, CheckEnd
<1> QED
  BY <1>1, <1>2, CheckerSteps DEF checkVars

LEMMA ForceSteps ==
  ASSUME TypeOK, [Next]_vars, NEW s \in Sessions, sessClosed'[s], ~sessClosed[s]
  PROVE  \E t \in Sessions : CloseExpired(t) \/ CloseSession(t)
<1>1. sessClosed' # sessClosed
  OBVIOUS
<1>2. ~UDPOnMsg
  <2>1. ASSUME NEW t \in Sessions, NewUDPSession(t) PROVE FALSE
    BY <1>1, <2>1 DEF NewUDPSession
  <2> QED
    BY <1>1, <2>1 DEF UDPOnMsg, GetSession, NewSession, Unused, LoadPanics, AddSession, Recv, RecvMsg,
       DropDatagram, sessionVars
<1>3. /\ ~Listen /\ ~Store /\ ~Socket /\ ~UNCHANGED vars /\ ~CloseCall
      /\ \A a \in Addrs : ~Receive(a)
  BY <1>1 DEF Listen, Store, Socket, vars, CloseCall, Receive, sessionVars
<1>4. \A t \in Sessions : ~SendMsg(t) /\ ~Session(t) /\ ~Clock(t)
  BY <1>1 DEF SendMsg, Session, Clock, GoesStale, HandlerLoop, OnConnect, TakeMsg, OnMsg, OnMsgFails,
     BreakLoop, OnDisconnect, LoopStep, sessionVars
<1>5. CheckLoop \/ CloseNext
  BY <1>2, <1>3, <1>4 DEF Next
<1>6. /\ ~Scan /\ ~DelSession /\ ~ScanDone /\ ~CheckEnd
      /\ ~CloseJoin /\ ~CloseUnlock /\ ~CloseSock /\ ~CloseSockJoin /\ ~CloseReturn
  BY <1>1 DEF Scan, DelSession, ScanDone, CheckEnd, CloseJoin, CloseUnlock, CloseSock, CloseSockJoin,
     CloseReturn, sessionVars
<1> QED
  BY <1>5, <1>6 DEF CheckLoop, CloseNext

(* Who closes a session is about to wait for it.                           *)
LEMMA ClosedNext == ASSUME IInv, FInv, [Next]_vars PROVE ClosedJoined'
<1> SUFFICES ASSUME NEW s \in Sessions, sessClosed'[s]
             PROVE  /\ loop'[s] # "none"
                    /\ Live(s)' => \/ check' = "join" /\ expiring' = s
                                   \/ svr' = "join" /\ closing' = s
  BY DEF ClosedJoined
<1>1. CASE ~sessClosed[s]
  <2>1. \E t \in Sessions : CloseExpired(t) \/ CloseSession(t)
    BY <1>1, ForceSteps DEF IInv
  <2>2. ASSUME NEW t \in Sessions, CloseExpired(t)
        PROVE  t = s /\ loop'[s] # "none" /\ check' = "join" /\ expiring' = s
    <3>1. t = s
      BY <1>1, <2>2 DEF CloseExpired, SessForceClose, IInv, TypeOK, SessionTypeOK
    <3>2. loop[s] # "none" /\ UNCHANGED loop
      BY <2>2, <3>1, ServerAssumption DEF CloseExpired, SessForceClose, IInv, ExpiresInMap, MapAgrees
    <3> QED
      BY <2>2, <3>1, <3>2 DEF CloseExpired
  <2>3. ASSUME NEW t \in Sessions, CloseSession(t)
        PROVE  t = s /\ loop'[s] # "none" /\ svr' = "join" /\ closing' = s
    <3>1. t = s
      BY <1>1, <2>3 DEF CloseSession, SessForceClose, IInv, TypeOK, SessionTypeOK
    <3> QED
      BY <2>3, <3>1 DEF CloseSession, SessForceClose, FInv, ToCloseStarted
  <2> QED
    BY <2>1, <2>2, <2>3
<1>2. CASE sessClosed[s]
  <2>1. loop[s] # "none" /\ loop'[s] # "none" /\ (Live(s)' => Live(s))
    BY <1>2, LoopSteps DEF FInv, ClosedJoined, IInv
  <2>2. ASSUME Live(s)', check = "join", expiring = s PROVE check' = "join" /\ expiring' = s
    <3>1. ~Store
      BY <2>2 DEF FInv, CheckStarts, Store
    <3>2. ~CheckLoop
      BY <2>1, <2>2 DEF CheckLoop, Scan, CloseExpired, DelSession, ScanDone, CheckEnd, SessJoined, Live
    <3> QED
      BY <2>2, <3>1, <3>2, CheckerSteps DEF checkVars
  <2>3. ASSUME Live(s)', svr = "join", closing = s PROVE svr' = "join" /\ closing' = s
    <3>1. ~Listen /\ ~Store /\ ~CloseCall /\ ~CloseNext
      BY <2>1, <2>3 DEF Listen, Store, CloseCall, CloseNext, CloseSession, CloseJoin, CloseUnlock,
         CloseSock, CloseSockJoin, CloseReturn, SessJoined, Live
    <3> QED
      BY <2>3, <3>1, CloserSteps DEF closeVars
  <2> QED
    BY <1>2, <2>1, <2>2, <2>3 DEF FInv, ClosedJoined
<1> QED
  BY <1>1, <1>2

LEMMA FinalInit == ASSUME Init PROVE FInv
BY DEF Init, SessionInit, FInv, ClosedJoined, ToCloseStarted, SockOver, CheckOver, CheckStarts

LEMMA FinalNext == ASSUME IInv, FInv, [Next]_vars PROVE FInv'
BY ClosedNext, ToCloseNext, SockOverNext, CheckOverNext, CheckStartsNext DEF FInv

(* When Close returns, nothing it was responsible for goes on: the loops   *)
(* of the socket are over, no datagram is halfway through udpOnMsg, the    *)
(* check loop has ended, and no session that Close or the timeout closed   *)
(* runs a callback.                                                        *)
THEOREM CloseIsOver == Spec => []CloseIsFinal
<1>1. ASSUME IInv, FInv, svr = "done"
      PROVE  /\ SockJoined(Sock) /\ rcv = "idle" /\ check = "done"
             /\ \A s \in Sessions : sessClosed[s] => ~Live(s)
  <2>1. SockJoined(Sock) /\ check = "done"
    BY <1>1 DEF FInv, SockOver, CheckOver
  <2>2. rcv = "idle"
    BY <1>1, <2>1 DEF IInv, Adding, SockJoined
  <2>3. \A s \in Sessions : sessClosed[s] => ~Live(s)
    BY <1>1, <2>1 DEF FInv, ClosedJoined
  <2> QED
    BY <2>1, <2>2, <2>3
<1>2. IInv /\ FInv => CloseIsFinal
  BY <1>1 DEF CloseIsFinal
<1>3. Init => FInv
  BY FinalInit
<1>4. IInv /\ FInv /\ [Next]_vars => FInv'
  BY FinalNext
<1> QED
  BY <1>2, <1>3, <1>4, Inductive, PTL DEF Spec
=============================================================================
