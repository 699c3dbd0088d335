------------------------------ MODULE UDPProofs ------------------------------
(***************************************************************************)
(* What the proofs about UDPServer and UDPClient share: the steps of       *)
(* UDPSocket and of UDPSession keep their variables well typed.            *)
(***************************************************************************)
EXTENDS UDPSocket, UDPSession, SequenceTheorems, TLAPS

(* sendMsg and a write keep writeCh within its capacity.                   *)
LEMMA SendTyped ==
  ASSUME SocketTypeOK, NEW k \in Socks, SockSendMsg(k) PROVE SocketTypeOK'
<1>1. (~sockClosed[k]) \in BOOLEAN /\ writeCh[k] \in Seq(BOOLEAN)
  BY DEF SocketTypeOK
<1>2. /\ Append(writeCh[k], ~sockClosed[k]) \in Seq(BOOLEAN)
      /\ Len(Append(writeCh[k], ~sockClosed[k])) = Len(writeCh[k]) + 1
  BY <1>1, AppendProperties
<1>3. Len(writeCh[k]) \in Nat /\ WriteMax \in Nat
  BY <1>1, LenProperties, SocketAssumption
<1>4. Len(Append(writeCh[k], ~sockClosed[k])) <= WriteMax
  BY <1>2, <1>3 DEF SockSendMsg
<1> DEFINE q == Append(writeCh[k], ~sockClosed[k])
<1>5. q \in Seq(BOOLEAN) /\ Len(q) <= WriteMax /\ writeCh' = [writeCh EXCEPT ![k] = q]
  BY <1>2, <1>4 DEF SockSendMsg
<1> HIDE DEF q
<1>6. /\ writeCh' \in [Socks -> Seq(BOOLEAN)]
      /\ \A j \in Socks : Len(writeCh'[j]) <= WriteMax
  BY <1>5 DEF SocketTypeOK
<1> QED
  BY <1>6 DEF SockSendMsg, SocketTypeOK

LEMMA WriteTyped ==
  ASSUME SocketTypeOK, NEW k \in Socks, Write(k) PROVE SocketTypeOK'
<1>1. writeCh[k] \in Seq(BOOLEAN) /\ writeCh[k] # <<>> /\ Len(writeCh[k]) <= WriteMax
  BY DEF SocketTypeOK, Write
<1>2. Tail(writeCh[k]) \in Seq(BOOLEAN) /\ Len(Tail(writeCh[k])) = Len(writeCh[k]) - 1
  BY <1>1, HeadTailProperties
<1>3. Len(writeCh[k]) \in Nat /\ WriteMax \in Nat
  BY <1>1, LenProperties, SocketAssumption
<1> DEFINE q == Tail(writeCh[k])
<1>4. q \in Seq(BOOLEAN) /\ Len(q) <= WriteMax /\ writeCh' = [writeCh EXCEPT ![k] = q]
  BY <1>1, <1>2, <1>3 DEF Write
<1> HIDE DEF q
<1>5. /\ writeCh' \in [Socks -> Seq(BOOLEAN)]
      /\ \A j \in Socks : Len(writeCh'[j]) <= WriteMax
  BY <1>4 DEF SocketTypeOK
<1>6. writer' \in [Socks -> WriterStates] /\ writeErr' \in [Socks -> BOOLEAN]
  BY DEF Write, SocketTypeOK, WriterStates
<1> QED
  BY <1>5, <1>6 DEF Write, SocketTypeOK

(* The other steps of a socket.                                            *)
LEMMA SocketTyped ==
  ASSUME SocketTypeOK, NEW k \in Socks,
         \/ SocketLoops(k) \/ ReadFromUDP(k) \/ NewUDPSocket(k) \/ SockForceClose(k)
         \/ SockSendMsg(k)
  PROVE  SocketTypeOK'
<1>1. CASE Write(k)
  BY <1>1, WriteTyped
<1>2. CASE SockSendMsg(k)
  BY <1>2, SendTyped
<1>3. CASE ReadFail(k) \/ ReadLoopClose(k) \/ ReadFromUDP(k)
  BY <1>3 DEF SocketTypeOK, ReaderStates, ReadFail, ReadLoopClose, ReadFromUDP
<1>4. CASE StartDrain(k) \/ DrainEnd(k) \/ ConnClose(k)
  BY <1>4 DEF SocketTypeOK, WriterStates, StartDrain, DrainEnd, ConnClose
<1>5. CASE NewUDPSocket(k) \/ SockForceClose(k)
  BY <1>5 DEF SocketTypeOK, ReaderStates, WriterStates, NewUDPSocket, SockForceClose
<1> QED
  BY <1>1, <1>2, <1>3, <1>4, <1>5 DEF SocketLoops

(* The steps of a session: msgCh stays within its capacity.                *)
LEMMA SessionTyped ==
  ASSUME SessionTypeOK, NEW s \in Sessions,
         HandlerLoop(s) \/ NewUDPSession(s) \/ RecvMsg(s) \/ SessForceClose(s) \/ GoesStale(s)
  PROVE  SessionTypeOK'
<1> USE SessionAssumption DEF SessionTypeOK, LoopStates
<1>1. CASE TakeMsg(s)
  BY <1>1 DEF TakeMsg, LoopStep
<1>2. CASE OnConnect(s) \/ OnMsg(s) \/ OnMsgFails(s) \/ BreakLoop(s) \/ OnDisconnect(s)
  BY <1>2 DEF OnConnect, OnMsg, OnMsgFails, BreakLoop, OnDisconnect, LoopStep
<1>3. CASE RecvMsg(s)
  <2>1. CASE msgCh[s] < MsgMax /\ msgCh' = [msgCh EXCEPT ![s] = @ + 1]
    <3>1. msgCh' \in [Sessions -> 0..MsgMax]
      BY <2>1
    <3>2. active' \in [Sessions -> BOOLEAN]
      BY <1>3 DEF RecvMsg
    <3> QED
      BY <1>3, <3>1, <3>2 DEF RecvMsg
  <2>2. CASE UNCHANGED <<msgCh, active>>
    BY <1>3, <2>2 DEF RecvMsg
  <2> QED
    BY <1>3, <2>1, <2>2 DEF RecvMsg
<1>4. CASE NewUDPSession(s) \/ SessForceClose(s) \/ GoesStale(s)
  BY <1>4 DEF NewUDPSession, SessForceClose, GoesStale
<1> QED
  BY <1>1, <1>2, <1>3, <1>4 DEF HandlerLoop
=============================================================================
