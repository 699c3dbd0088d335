--------------------------- MODULE UDPClientProofs ---------------------------
(***************************************************************************)
(* Proofs about UDPClient, for any number of connections and capacities:   *)
(* its types, and that a connection is over before the next is dialled.    *)
(*                                                                         *)
(* The argument: closeOnce is left only when the handler loop and both     *)
(* loops of the socket have ended, which they do for good; the owner gets  *)
(* past biudp.close only after that and after the check loop; and the      *)
(* number that a dial takes is the next one.                               *)
(***************************************************************************)
EXTENDS UDPClient, UDPProofs

(* Connections are numbered in the order the owner makes them.             *)
Numbered ==
  /\ \A k \in Conns : k <= cli <=> check[k] # "none"
  /\ \A k \in Conns : k > cli /\ reader[k] # "none" => k = cli + 1 /\ app = "session"
  /\ app \in {"idle", "close"} => cli > 0
  /\ app = "session" => cli < MaxConns

(* How far forceClose has got.                                             *)
OnceWaits ==
  \A k \in Conns :
    /\ once[k] = "sock" => SessJoined(k)
    /\ once[k] = "done" => SessJoined(k) /\ SockJoined(k)

(* Every connection but the last is over, and the last while dialling.     *)
OldGone ==
  \A k \in Conns : k < cli \/ (k = cli /\ app \in {"dial", "session"}) => Gone(k)

IInv == TypeOK /\ Numbered /\ OnceWaits /\ OldGone

-----------------------------------------------------------------------------
(* Connections are numbered from 1 and are the sockets and the sessions.   *)
LEMMA ConnsIn ==
  /\ Conns \subseteq Nat /\ MaxConns \in Nat /\ Socks = Conns /\ Sessions = Conns
  /\ \A i \in 0..MaxConns : i < MaxConns => i + 1 \in Conns
  /\ \A i \in 0..MaxConns : i > 0 => i \in Conns
  BY ClientAssumption DEF Conns

(* Before NewUDPClient there is no connection.                             *)
LEMMA InitInv == ASSUME Init PROVE IInv
<1>1. <<>> \in Seq(BOOLEAN) /\ Len(<<>>) <= WriteMax
  BY SocketAssumption
<1>2. SocketTypeOK
  BY <1>1 DEF Init, SocketInit, SocketTypeOK, ReaderStates, WriterStates
<1>3. SessionTypeOK
  BY SessionAssumption DEF Init, SessionInit, SessionTypeOK, LoopStates
<1>4. TypeOK
  BY <1>2, <1>3, ClientAssumption DEF Init, TypeOK
<1>5. Numbered /\ OldGone
  <2>1. Numbered
    BY ConnsIn DEF Init, SocketInit, Numbered
  <2>2. OldGone
    BY ConnsIn DEF Init, SocketInit, OldGone
  <2> QED
    BY <2>1, <2>2
<1>6. OnceWaits
  BY DEF Init, OnceWaits
<1> QED
  BY <1>4, <1>5, <1>6 DEF IInv

-----------------------------------------------------------------------------
(* Types.  newBuiltInUDP's session has the number its socket has.          *)
LEMMA NextTyped == ASSUME TypeOK, Numbered, [Next]_vars PROVE TypeOK'
<1> DEFINE ClientTyped ==
      /\ cli \in 0..MaxConns /\ app \in {"dial", "session", "idle", "close"}
      /\ check \in [Conns -> {"none", "select", "close", "done"}]
      /\ once \in [Conns -> {"new", "session", "sock", "done"}]
<1> USE ConnsIn DEF TypeOK
<1>1. CASE Dial
  <2>1. SocketTypeOK'
    BY <1>1, SocketTyped DEF Dial
  <2> QED
    BY <1>1, <2>1 DEF Dial, SessionTypeOK, sessionVars
<1>2. CASE NewSession
  <2>1. cli + 1 \in Conns
    BY <1>2 DEF NewSession, Numbered
  <2>2. SessionTypeOK'
    BY <1>2, <2>1, SessionTyped DEF NewSession
  <2>3. ClientTyped'
    BY <1>2, <2>1, ClientAssumption DEF NewSession, Conns
  <2> QED
    BY <1>2, <2>2, <2>3 DEF NewSession, SocketTypeOK, socketVars
<1>3. CASE DialFails \/ CloseCall \/ CloseReturn
  BY <1>3 DEF DialFails, CloseCall, CloseReturn, SocketTypeOK, SessionTypeOK, socketVars,
     sessionVars
<1>4. ASSUME SendMsg \/ \E k \in Conns : Receive(k) \/ Socket(k) PROVE TypeOK'
  <2>1. SocketTypeOK'
    BY <1>4, SocketTyped DEF SendMsg, Receive, Socket
  <2> QED
    BY <1>4, <2>1 DEF SendMsg, Receive, Socket, SessionTypeOK, sessionVars, clientVars
<1>5. ASSUME NEW k \in Conns, Session(k) \/ Clock(k) PROVE TypeOK'
  <2>1. SessionTypeOK'
    BY <1>5, SessionTyped DEF Session, Clock
  <2> QED
    BY <1>5, <2>1 DEF Session, Clock, SocketTypeOK, socketVars, clientVars
<1>6. ASSUME NEW k \in Conns, RecvDatagram(k) \/ NilSessionPanics(k) PROVE TypeOK'
  <2>1. SocketTypeOK'
    BY <1>6 DEF RecvDatagram, OnMsgReturns, NilSessionPanics, SocketTypeOK, ReaderStates
  <2>2. SessionTypeOK'
    BY <1>6, SessionTyped DEF RecvDatagram, NilSessionPanics, SessionTypeOK, sessionVars
  <2> QED
    BY <1>6, <2>1, <2>2 DEF RecvDatagram, NilSessionPanics, clientVars
<1>7. ASSUME NEW k \in Conns, CheckLoop(k) PROVE TypeOK'
  BY <1>7 DEF CheckLoop, Timeout, CheckEnd, SocketTypeOK, SessionTypeOK, socketVars,
     sessionVars
<1>8. ASSUME NEW k \in Conns, Once(k) PROVE TypeOK'
  <2>1. SocketTypeOK'
    BY <1>8, SocketTyped DEF Once, OnceEnter, OnceSock, OnceDone, SocketTypeOK, socketVars
  <2>2. SessionTypeOK'
    BY <1>8, SessionTyped DEF Once, OnceEnter, OnceSock, OnceDone, SessionTypeOK, sessionVars
  <2> QED
    BY <1>8, <2>1, <2>2 DEF Once, OnceEnter, OnceSock, OnceDone
<1>9. CASE UNCHANGED vars
  BY <1>9 DEF vars, socketVars, sessionVars, clientVars, SocketTypeOK, SessionTypeOK
<1> QED
  BY <1>1, <1>2, <1>3, <1>4, <1>5, <1>6, <1>7, <1>8, <1>9 DEF Next

-----------------------------------------------------------------------------
(* A goroutine that has ended does not come back.                          *)
LEMMA Over ==
  ASSUME IInv, [Next]_vars, NEW k \in Conns
  PROVE  /\ SessJoined(k) => SessJoined(k)'
         /\ SockJoined(k) => SockJoined(k)'
         /\ check[k] = "done" => check'[k] = "done"
         /\ Closed(k) => Closed(k)'
<1> USE ConnsIn DEF SessJoined, SockJoined, Closed, IInv
<1>1. TypeOK /\ Numbered
  OBVIOUS
<1>2. CASE Dial
  <2>1. cli + 1 \in Conns /\ NewUDPSocket(cli + 1)
    BY <1>1, <1>2 DEF Dial, TypeOK
  <2>2. SockJoined(k) => SockJoined(k)'
    BY <1>1, <2>1 DEF NewUDPSocket, TypeOK, SocketTypeOK
  <2> QED
    BY <1>2, <2>2 DEF Dial, sessionVars
<1>3. CASE DialFails \/ CloseCall \/ CloseReturn
  BY <1>3 DEF DialFails, CloseCall, CloseReturn, socketVars, sessionVars
<1>4. CASE SendMsg
  BY <1>4 DEF SendMsg, SockSendMsg, sessionVars, clientVars
<1>5. CASE NewSession
  <2>1. cli + 1 \in Conns /\ check[cli + 1] = "none"
    BY <1>1, <1>5 DEF NewSession, Numbered, TypeOK
  <2> QED
    BY <1>1, <1>5, <2>1 DEF NewSession, NewUDPSession, TypeOK, SessionTypeOK, socketVars
<1>6. ASSUME NEW j \in Conns, Receive(j) \/ RecvDatagram(j) \/ NilSessionPanics(j)
      PROVE  /\ UNCHANGED <<loop, writer, clientVars>>
             /\ SockJoined(k) => SockJoined(k)'
  BY <1>1, <1>6 DEF Receive, RecvDatagram, NilSessionPanics, ReadFromUDP, RecvMsg, OnMsgReturns,
     TypeOK, SocketTypeOK, sessionVars
<1>7. ASSUME NEW j \in Conns, Socket(j)
      PROVE  /\ UNCHANGED <<loop, clientVars>>
             /\ SockJoined(k) => SockJoined(k)'
  BY <1>1, <1>7 DEF Socket, SocketLoops, ReadFail, ReadLoopClose, Write, StartDrain, DrainEnd,
     ConnClose, TypeOK, SocketTypeOK, sessionVars
<1>8. ASSUME NEW j \in Conns, Session(j) \/ Clock(j)
      PROVE  /\ UNCHANGED <<socketVars, clientVars>>
             /\ SessJoined(k) => SessJoined(k)'
  BY <1>1, <1>8 DEF Session, Clock, HandlerLoop, OnConnect, TakeMsg, OnMsg, OnMsgFails, BreakLoop,
     OnDisconnect, LoopStep, GoesStale, TypeOK, SessionTypeOK
<1>9. ASSUME NEW j \in Conns, CheckLoop(j)
      PROVE  /\ UNCHANGED <<socketVars, sessionVars, once>>
             /\ check[k] = "done" => check'[k] = "done"
  BY <1>1, <1>9 DEF CheckLoop, Timeout, CheckEnd, TypeOK
<1>10. ASSUME NEW j \in Conns, Once(j)
      PROVE  /\ UNCHANGED <<loop, reader, writer, check>>
             /\ Closed(k) => Closed(k)'
  BY <1>1, <1>10 DEF Once, OnceEnter, OnceSock, OnceDone, SessForceClose, SockForceClose, TypeOK,
     socketVars, sessionVars
<1>11. CASE UNCHANGED vars
  BY <1>11 DEF vars, socketVars, sessionVars, clientVars
<1> USE DEF socketVars, sessionVars, clientVars
<1> QED
  BY <1>2, <1>3, <1>4, <1>5, <1>6, <1>7, <1>8, <1>9, <1>10, <1>11 DEF Next

-----------------------------------------------------------------------------
(* Only newBuiltInUDP makes connections, one after the other.              *)
LEMMA NumberedNext == ASSUME TypeOK, Numbered, [Next]_vars PROVE Numbered'
<1> USE ConnsIn DEF TypeOK
<1>1. CASE Dial
  <2>1. cli + 1 \in Conns
    BY <1>1 DEF Dial
  <2> QED
    BY <1>1, <2>1 DEF Dial, NewUDPSocket, Numbered, SocketTypeOK
<1>2. CASE NewSession
  <2>1. cli + 1 \in Conns
    BY <1>2 DEF NewSession, Numbered
  <2> QED
    BY <1>2, <2>1 DEF NewSession, Numbered, socketVars
<1>3. CASE DialFails \/ CloseCall \/ CloseReturn
  BY <1>3 DEF DialFails, CloseCall, CloseReturn, Numbered, socketVars
<1>4. ASSUME NEW k \in Conns, Receive(k) \/ RecvDatagram(k) \/ NilSessionPanics(k) \/ Socket(k)
      PROVE  Numbered'
  <2>1. UNCHANGED clientVars /\ (reader'[k] # "none" => reader[k] # "none")
        /\ reader' \in [Socks -> ReaderStates]
        /\ \A j \in Conns : j # k => reader'[j] = reader[j]
    BY <1>4 DEF Receive, RecvDatagram, NilSessionPanics, Socket, SocketLoops, ReadFromUDP,
       OnMsgReturns, ReadFail, ReadLoopClose, Write, StartDrain, DrainEnd, ConnClose,
       SocketTypeOK, ReaderStates
  <2> QED
    BY <2>1 DEF Numbered, clientVars
<1>5. ASSUME SendMsg \/ \E k \in Conns : Session(k) \/ Clock(k) \/ Once(k) PROVE Numbered'
  <2>1. UNCHANGED <<cli, app, check, reader>>
    BY <1>5 DEF SendMsg, SockSendMsg, Session, Clock, Once, OnceEnter, OnceSock, OnceDone,
       SockForceClose, socketVars, clientVars
  <2> QED
    BY <2>1 DEF Numbered
<1>6. ASSUME NEW k \in Conns, CheckLoop(k) PROVE Numbered'
  BY <1>6 DEF CheckLoop, Timeout, CheckEnd, Numbered, socketVars
<1>7. CASE UNCHANGED vars
  BY <1>7 DEF vars, socketVars, clientVars, Numbered
<1> QED
  BY <1>1, <1>2, <1>3, <1>4, <1>5, <1>6, <1>7 DEF Next

(* closeOnce goes from one wait to the next only when the wait is over.    *)
LEMMA OnceWaitsNext == ASSUME IInv, [Next]_vars PROVE OnceWaits'
<1>1. TypeOK /\ OnceWaits
  BY DEF IInv
<1>2. ASSUME NEW k \in Conns
      PROVE  /\ once'[k] = "sock" => once[k] = "sock" \/ SessJoined(k)
             /\ once'[k] = "done" => once[k] = "done" \/ (once[k] = "sock" /\ SockJoined(k))
  <2>1. ASSUME NEW j \in Conns, Once(j)
        PROVE  /\ once'[k] = "sock" => once[k] = "sock" \/ SessJoined(k)
               /\ once'[k] = "done" => once[k] = "done" \/ (once[k] = "sock" /\ SockJoined(k))
    BY <1>1, <2>1 DEF Once, OnceEnter, OnceSock, OnceDone, TypeOK
  <2>2. UNCHANGED once \/ \E j \in Conns : Once(j)
    BY DEF Next, Dial, DialFails, NewSession, CloseCall, CloseReturn, SendMsg, Receive,
       RecvDatagram, NilSessionPanics, Socket, Session, Clock, CheckLoop, Timeout, CheckEnd,
       vars, clientVars
  <2> QED
    BY <2>1, <2>2
<1>3. ASSUME NEW k \in Conns
      PROVE  (SessJoined(k) => SessJoined(k)') /\ (SockJoined(k) => SockJoined(k)')
  BY Over
<1> QED
  BY <1>1, <1>2, <1>3 DEF OnceWaits

(* Reconnect dials only past biudp.close.                                  *)
LEMMA OldGoneNext == ASSUME IInv, [Next]_vars PROVE OldGone'
<1> USE ConnsIn DEF IInv
<1>1. ASSUME NEW k \in Conns, Gone(k) PROVE Gone(k)'
  BY <1>1, Over DEF Gone, SessJoined
<1>2. CASE Dial \/ DialFails \/ CloseCall
  BY <1>1, <1>2 DEF Dial, DialFails, CloseCall, OldGone
<1>3. CASE CloseReturn
  <2>1. cli \in Conns /\ Gone(cli)
    BY <1>3 DEF CloseReturn, Numbered, OnceWaits, Closed, SessJoined, Gone, TypeOK
  <2> QED
    BY <1>1, <1>3, <2>1 DEF CloseReturn, OldGone
<1>4. CASE NewSession
  <2>1. \A k \in Conns : k < cli + 1 => k < cli \/ k = cli
    BY DEF TypeOK
  <2> QED
    BY <1>1, <1>4, <2>1 DEF NewSession, OldGone, TypeOK
<1>5. ASSUME UNCHANGED <<cli, app>> PROVE OldGone'
  BY <1>1, <1>5 DEF OldGone
<1>6. Dial \/ DialFails \/ CloseCall \/ CloseReturn \/ NewSession \/ UNCHANGED <<cli, app>>
  BY DEF Next, SendMsg, Receive, RecvDatagram, NilSessionPanics, Socket, Session, Clock, Once,
     OnceEnter, OnceSock, OnceDone, CheckLoop, Timeout, CheckEnd, vars, clientVars
<1> QED
  BY <1>2, <1>3, <1>4, <1>5, <1>6

-----------------------------------------------------------------------------
(* The invariant.                                                          *)
LEMMA Inductive == Spec => []IInv
<1>1. Init => IInv
  BY InitInv
<1>2. IInv /\ [Next]_vars => IInv'
  BY NextTyped, NumberedNext, OnceWaitsNext, OldGoneNext DEF IInv
<1> QED
  BY <1>1, <1>2, PTL DEF Spec

(* The states of the client's goroutines are well typed and both channels  *)
(* stay within their capacity.                                             *)
THEOREM TypeCorrect == Spec => []TypeOK
<1>1. IInv => TypeOK
  BY DEF IInv
<1> QED
  BY <1>1, Inductive, PTL

(* Everything that ran for a connection is over when Reconnect dials the   *)
(* next one: session, socket loops, timeout check and closeOnce.           *)
THEOREM ReconnectAlone == Spec => []OldIsGone
<1>1. IInv => OldIsGone
  BY ConnsIn DEF IInv, Numbered, OldGone, OldIsGone, TypeOK
<1> QED
  BY <1>1, Inductive, PTL
-----------------------------------------------------------------------------
(* The client implements SessionCallbacks: only NewSession and the steps   *)
(* of handlerLoop show.  A handler loop runs for the last connection only. *)
running == [a \in {"peer"} |-> RunningNow]

Unbegun == \A k \in Conns : k > cli => loop[k] = "none"

(* A loop begins in NewSession, under the number that is then the last.    *)
LEMMA UnbegunNext == ASSUME IInv, Unbegun, [Next]_vars PROVE Unbegun'
<1>1. TypeOK
  BY DEF IInv
<1>2. CASE NewSession
  <2>1. cli \in Int /\ \A k \in Conns : k \in Int
    BY <1>1, ConnsIn DEF TypeOK
  <2>2. \A k \in Conns : k # cli + 1 => loop'[k] = loop[k]
    BY <1>1, <1>2, ConnsIn DEF NewSession, NewUDPSession, TypeOK, SessionTypeOK
  <2> QED
    BY <1>2, <2>1, <2>2 DEF NewSession, Unbegun
<1>3. ASSUME NEW k \in Conns, Session(k) PROVE Unbegun'
  <2>1. loop[k] # "none" /\ \A j \in Conns : j # k => loop'[j] = loop[j]
    BY <1>1, <1>3, ConnsIn
    DEF Session, HandlerLoop, OnConnect, TakeMsg, OnMsg, OnMsgFails, BreakLoop, OnDisconnect,
        LoopStep, TypeOK, SessionTypeOK
  <2>2. UNCHANGED cli
    BY <1>3 DEF Session, clientVars
  <2> QED
    BY <2>1, <2>2 DEF Unbegun
<1>4. ASSUME UNCHANGED <<loop, cli>> PROVE Unbegun'
  BY <1>4 DEF Unbegun
<1>5. CASE Dial \/ DialFails \/ CloseCall \/ CloseReturn \/ SendMsg
  BY <1>4, <1>5 DEF Dial, DialFails, CloseCall, CloseReturn, SendMsg, sessionVars, clientVars
<1>6. ASSUME NEW k \in Conns, Receive(k) \/ RecvDatagram(k) \/ NilSessionPanics(k) PROVE Unbegun'
  BY <1>4, <1>6 DEF Receive, RecvDatagram, RecvMsg, NilSessionPanics, sessionVars, clientVars
<1>7. ASSUME NEW k \in Conns, CheckLoop(k) \/ Once(k) PROVE Unbegun'
  BY <1>4, <1>7 DEF CheckLoop, Timeout, CheckEnd, Once, OnceEnter, OnceSock, OnceDone,
                    SessForceClose, sessionVars
<1>8. ASSUME NEW k \in Conns, Socket(k) \/ Clock(k) PROVE Unbegun'
  BY <1>4, <1>8 DEF Socket, Clock, GoesStale, sessionVars, clientVars
<1>9. CASE UNCHANGED vars
  BY <1>4, <1>9 DEF vars, sessionVars, clientVars
<1> QED
  BY <1>2, <1>3, <1>5, <1>6, <1>7, <1>8, <1>9 DEF Next

LEMMA LastLives ==
  ASSUME IInv, Unbegun, NEW k \in Conns, Live(k)
  PROVE  k = cli /\ app \notin {"dial", "session"}
<1>1. ~Gone(k) /\ loop[k] # "none"
  BY DEF Live, Gone
<1>2. cli \in Int /\ k \in Int
  BY ConnsIn DEF IInv, TypeOK
<1>3. ~(k > cli) /\ ~(k < cli)
  BY <1>1 DEF IInv, OldGone, Unbegun
<1> QED
  BY <1>1, <1>2, <1>3 DEF IInv, OldGone

(* A loop moves, or begins, while no other runs.                           *)
LEMMA RunningMoves ==
  ASSUME NEW k \in Conns, NEW st, \A j \in Conns : loop'[j] = IF j = k THEN st ELSE loop[j],
         \A j \in Conns : Live(j) => j = k
  PROVE  /\ RunningNow = IF Live(k) THEN {<<k, loop[k]>>} ELSE {}
         /\ RunningNow' = IF st \notin {"none", "done"} THEN {<<k, st>>} ELSE {}
<1>1. {j \in Conns : Live(j)} = IF Live(k) THEN {k} ELSE {}
  OBVIOUS
<1>2. \A j \in Conns : Live(j)' <=> j = k /\ st \notin {"none", "done"}
  BY DEF Live
<1>3. {j \in Conns : Live(j)'} = IF st \notin {"none", "done"} THEN {k} ELSE {}
  BY <1>2
<1>4. loop'[k] = st
  OBVIOUS
<1>5. RunningNow' = {<<j, loop'[j]>> : j \in {i \in Conns : Live(i)'}}
  BY DEF RunningNow
<1> QED
  BY <1>1, <1>3, <1>4, <1>5 DEF RunningNow

LEMMA NewSessionBegins ==
  ASSUME IInv, Unbegun, NewSession PROVE Callbacks!Next
<1> DEFINE k == cli + 1
<1>1. k \in Conns /\ loop[k] = "none" /\ app = "session" /\ TypeOK
  <2>1. app = "session" /\ loop[k] = "none" /\ TypeOK /\ Numbered
    BY DEF NewSession, NewUDPSession, IInv
  <2>2. cli \in 0..MaxConns /\ cli < MaxConns
    BY <2>1 DEF Numbered, TypeOK
  <2> QED
    BY <2>1, <2>2, ConnsIn
<1>2. \A j \in Conns : loop'[j] = IF j = k THEN "connect" ELSE loop[j]
  BY <1>1, ConnsIn DEF NewSession, NewUDPSession, TypeOK, SessionTypeOK
<1> HIDE DEF k
<1>3. \A j \in Conns : ~Live(j)
  BY <1>1, LastLives
<1>4. RunningNow = {} /\ RunningNow' = {<<k, "connect">>}
  BY <1>1, <1>2, <1>3, RunningMoves
<1>5. k \notin Begun /\ Begun' = Begun \cup {k}
  BY <1>1, <1>2 DEF Begun
<1>6. Callbacks!Begin("peer", k)
  BY <1>4, <1>5 DEF Callbacks!Begin, running
<1> QED
  BY <1>1, <1>6, ConnsIn DEF Callbacks!Next

LEMMA SessionContinues ==
  ASSUME IInv, Unbegun, NEW k \in Conns, Session(k) PROVE Callbacks!Next
<1>1. PICK st :
        /\ loop' = [loop EXCEPT ![k] = st]
        /\ \/ <<loop[k], st>> \in Callbacks!Follows /\ loop[k] \notin {"none", "done"}
              /\ st \notin {"none", "done"}
           \/ loop[k] = "disconnect" /\ st = "done"
  BY DEF Session, HandlerLoop, OnConnect, TakeMsg, OnMsg, OnMsgFails, BreakLoop, OnDisconnect,
         LoopStep, Callbacks!Follows
<1>2. \A j \in Conns : loop'[j] = IF j = k THEN st ELSE loop[j]
  BY <1>1, ConnsIn DEF IInv, TypeOK, SessionTypeOK
<1>3. Live(k)
  BY <1>1 DEF Live
<1>4. \A j \in Conns : Live(j) => j = k
  BY <1>3, LastLives
<1>5. /\ RunningNow = {<<k, loop[k]>>}
      /\ RunningNow' = IF st \notin {"none", "done"} THEN {<<k, st>>} ELSE {}
  BY <1>2, <1>3, <1>4, RunningMoves
<1>6. UNCHANGED Begun
  BY <1>1, <1>2 DEF Begun
<1>7. CASE st = "done"
  <2>1. Callbacks!End("peer", k)
    BY <1>1, <1>5, <1>6, <1>7 DEF Callbacks!End, Callbacks!Follows, running
  <2> QED
    BY <2>1, ConnsIn DEF Callbacks!Next
<1>8. CASE st # "done"
  <2>1. Callbacks!Continue("peer", k)
    BY <1>1, <1>5, <1>6, <1>8 DEF Callbacks!Continue, running
  <2> QED
    BY <2>1, ConnsIn DEF Callbacks!Next
<1> QED
  BY <1>7, <1>8

LEMMA CallbacksStep ==
  ASSUME IInv, Unbegun, [Next]_vars
  PROVE  [Callbacks!Next]_<<Begun, running>>
<1>1. CASE UNCHANGED loop
  BY <1>1 DEF Begun, running, RunningNow, Live
<1>2. CASE Dial \/ DialFails \/ CloseCall \/ CloseReturn \/ SendMsg
  BY <1>1, <1>2 DEF Dial, DialFails, CloseCall, CloseReturn, SendMsg, sessionVars
<1>3. ASSUME NEW k \in Conns, Receive(k) \/ RecvDatagram(k) \/ NilSessionPanics(k)
      PROVE  UNCHANGED loop
  BY <1>3 DEF Receive, RecvDatagram, RecvMsg, NilSessionPanics, sessionVars
<1>4. ASSUME NEW k \in Conns, CheckLoop(k) \/ Once(k) PROVE UNCHANGED loop
  BY <1>4 DEF CheckLoop, Timeout, CheckEnd, Once, OnceEnter, OnceSock, OnceDone,
              SessForceClose, sessionVars
<1>5. ASSUME NEW k \in Conns, Socket(k) \/ Clock(k) PROVE UNCHANGED loop
  BY <1>5 DEF Socket, Clock, GoesStale, sessionVars
<1>6. CASE UNCHANGED vars
  BY <1>1, <1>6 DEF vars, sessionVars
<1> QED
  BY <1>1, <1>2, <1>3, <1>4, <1>5, <1>6, NewSessionBegins, SessionContinues DEF Next

(* To its handler a client that reconnects is a server of one address: the *)
(* callbacks of its connections come one at a time and in order, those of  *)
(* a connection after those of the one before, whoever closes which.       *)
THEOREM RunsCallbacks == Spec => CallbacksSpec
<1>1. Init => Callbacks!Init /\ Unbegun
  <2>1. ASSUME Init PROVE \A k \in Conns : loop[k] = "none"
    BY <2>1, ConnsIn DEF Init, SessionInit
  <2>2. ASSUME Init PROVE Begun = {} /\ RunningNow = {} /\ Unbegun
    BY <2>1, <2>2 DEF Begun, RunningNow, Live, Unbegun
  <2> QED
    BY <2>2 DEF Callbacks!Init
<1>2. IInv /\ Unbegun /\ [Next]_vars => Unbegun'
  BY UnbegunNext
<1>3. IInv /\ Unbegun /\ [Next]_vars
      => [Callbacks!Next]_<<Begun, [a \in {"peer"} |-> RunningNow]>>
  BY CallbacksStep DEF running
<1> QED
  BY <1>1, <1>2, <1>3, Inductive, PTL DEF Spec, CallbacksSpec, Callbacks!Spec
=============================================================================
