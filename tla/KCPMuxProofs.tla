---------------------------- MODULE KCPMuxProofs ----------------------------
(***************************************************************************)
(* Theorems about KCPMux, for every WriteChanLimit, MaxData, ClosingEnds   *)
(* and for every setting of IsInline and Faulty: types, the states of the  *)
(* two ends (they go forward, agree on the handshake and on the close),    *)
(* signals, and that no data sent after its sender's part of the handshake *)
(* comes before the handshake is over.                                     *)
(***************************************************************************)
EXTENDS KCPMux, SequenceTheorems, TLAPS

(* What the reader takes off the wire and what it leaves are messages.     *)
LEMMA SubSeqMsgs ==
  ASSUME NEW s \in Seq(Msgs), NEW k \in 0..Len(s)
  PROVE  SubSeq(s, 1, k) \in Seq(Msgs) /\ SubSeq(s, k + 1, Len(s)) \in Seq(Msgs)
<1>1. \A i \in 1..Len(s) : s[i] \in Msgs
  BY ElementOfSeq
<1>2. Len(s) \in Nat
  BY LenProperties
<1>3. SubSeq(s, 1, k) \in Seq(Msgs)
  <2>1. \A i \in 1..k : s[i] \in Msgs
    BY <1>1, <1>2
  <2>2. QED
    BY <1>2, <2>1, SubSeqProperties
<1>4. SubSeq(s, k + 1, Len(s)) \in Seq(Msgs)
  <2>1. \A i \in k + 1..Len(s) : s[i] \in Msgs
    BY <1>1, <1>2
  <2>2. QED
    BY <1>2, <2>1, SubSeqProperties
<1>5. QED
  BY <1>3, <1>4

(* send keeps writeCh within its capacity.                                 *)
LEMMA SendType ==
  ASSUME TypeOK, NEW e \in Ends, NEW m \in Msgs, Send(e, m)
  PROVE  /\ writeCh' \in [Ends -> Seq(Msgs)]
         /\ \A f \in Ends : Len(writeCh'[f]) <= WriteChanLimit
<1>1. /\ Append(writeCh[e], m) \in Seq(Msgs)
      /\ Len(Append(writeCh[e], m)) = Len(writeCh[e]) + 1
      /\ Len(writeCh[e]) \in Nat
  BY AppendProperties, LenProperties DEF TypeOK
<1>2. CASE writeCh' = [writeCh EXCEPT ![e] = Append(@, m)] /\ Len(writeCh[e]) < WriteChanLimit
  <2>1. writeCh \in [Ends -> Seq(Msgs)] /\ \A f \in Ends : Len(writeCh[f]) <= WriteChanLimit
    BY DEF TypeOK
  <2>2. writeCh' \in [Ends -> Seq(Msgs)]
    BY <1>1, <1>2, <2>1
  <2>3. ASSUME NEW f \in Ends
        PROVE  Len(writeCh'[f]) <= WriteChanLimit
    <3>1. CASE f = e
      BY <1>1, <1>2, <2>1, <3>1, KCPMuxAssumption
    <3>2. CASE f # e
      BY <1>2, <2>1, <3>2
    <3>3. QED
      BY <3>1, <3>2
  <2>4. QED
    BY <2>2, <2>3
<1>3. CASE UNCHANGED writeCh
  BY <1>3 DEF TypeOK
<1>4. QED
  BY <1>2, <1>3 DEF Send

(* The branches of inlineProtocol, one by one.                             *)
LEMMA BranchCases ==
  ASSUME NEW b \in Branches
  PROVE  \/ b = Branch("SynSent", "Listen", "SynRcvd", <<"SynRcvd">>)
         \/ b = Branch("SynRcvd", "SynSent", "Established",
                       <<"Established", "signalInit">>)
         \/ b = Branch("Established", "SynRcvd", "Established", <<"signalInit">>)
         \/ b = Branch("FinWait1", "Established", "CloseWait",
                       <<"CloseWait", "casLastAck", "LastAck">>)
         \/ b = Branch("TimeWait", "LastAck", "LastAck", <<"signalClose", "eof">>)
         \/ b = Branch("CloseWait", "FinWait1", "FinWait2", <<>>)
         \/ b = Branch("LastAck", "FinWait2", "TimeWait",
                       <<"TimeWait", "signalClose", "eof">>)
         \/ b = Branch("FinWait1", "FinWait1", "Closing", <<"Closing">>)
         \/ b = Branch("Closing", "Closing", "TimeWait", <<"TimeWait">>)
         \/ b = Branch("TimeWait", "TimeWait", "TimeWait", <<"signalClose", "eof">>)
BY Zenon DEF Branches, HandshakeBranches, CloseBranches, SimultaneousBranches

LEMMA BranchStates ==
  ASSUME NEW b \in Branches
  PROVE  b.cur \in Kms /\ b.next \in Kms
BY BranchCases DEF Branch, Kms

(* What a branch leaves to do is made of known operations.                 *)
LEMMA BranchType ==
  ASSUME NEW b \in Branches
  PROVE  b.do \in Seq(Ops)
<1>1. \A x \in Ops : <<x>> \in Seq(Ops)
  OBVIOUS
<1>2. \A x, y \in Ops : <<x, y>> \in Seq(Ops)
  OBVIOUS
<1>3. \A x, y, z \in Ops : <<x, y, z>> \in Seq(Ops)
  OBVIOUS
<1>4. <<>> \in Seq(Ops)
  OBVIOUS
<1>5. /\ "SynRcvd" \in Ops /\ "Established" \in Ops /\ "CloseWait" \in Ops
      /\ "LastAck" \in Ops /\ "TimeWait" \in Ops /\ "Closing" \in Ops
      /\ "signalInit" \in Ops /\ "signalClose" \in Ops /\ "casLastAck" \in Ops
      /\ "eof" \in Ops
  BY DEF Ops, Kms
<1>6. \/ b.do = <<"SynRcvd">> \/ b.do = <<"Established", "signalInit">>
      \/ b.do = <<"signalInit">> \/ b.do = <<"CloseWait", "casLastAck", "LastAck">>
      \/ b.do = <<"signalClose", "eof">> \/ b.do = <<>>
      \/ b.do = <<"TimeWait", "signalClose", "eof">> \/ b.do = <<"Closing">>
      \/ b.do = <<"TimeWait">>
  BY BranchCases DEF Branch
<1>7. QED
  BY <1>1, <1>2, <1>3, <1>4, <1>5, <1>6

LEMMA TypeInit == Init => TypeOK
BY KCPMuxAssumption, EmptySeq DEF Init, TypeOK, Ends, Kms, Closers

LEMMA OpenerType ==
  ASSUME TypeOK, NEW e \in Ends, OpenerNext(e)
  PROVE  TypeOK'
<1>1. CASE MuxInit(e)
  <2>1. "SynSent" \in Msgs
    BY DEF Msgs, Kms
  <2>2. /\ writeCh' \in [Ends -> Seq(Msgs)]
        /\ \A f \in Ends : Len(writeCh'[f]) <= WriteChanLimit
    BY <1>1, <2>1, SendType DEF MuxInit, TypeOK
  <2>3. QED
    BY <1>1, <2>2 DEF MuxInit, TypeOK, muxVars, readVars
<1>2. CASE InitDone(e)
  BY <1>2 DEF InitDone, TypeOK, readVars
<1>3. CASE InitTimeout(e)
  BY <1>3 DEF InitTimeout, TypeOK, muxVars, readVars
<1>4. CASE InitJoin(e)
  BY <1>4 DEF InitJoin, TypeOK, muxVars, readVars
<1>5. CASE Open(e)
  BY <1>5 DEF Open, TypeOK, muxVars, readVars
<1>6. QED
  BY <1>1, <1>2, <1>3, <1>4, <1>5 DEF OpenerNext

LEMMA ReaderType ==
  ASSUME TypeOK, NEW e \in Ends, ReaderNext(e) \/ ReadTimeout(e)
  PROVE  TypeOK'
<1>1. CASE Read(e)
  <2>1. PICK k \in 1..Len(net[e]) :
          /\ cache' = [cache EXCEPT ![e] = SubSeq(net[e], 1, k)]
          /\ net' = [net EXCEPT ![e] = SubSeq(net[e], k + 1, Len(net[e]))]
    BY <1>1 DEF Read
  <2>2. net[e] \in Seq(Msgs) /\ k \in 0..Len(net[e])
    BY DEF TypeOK
  <2>3. cache' \in [Ends -> Seq(Msgs)] /\ net' \in [Ends -> Seq(Msgs)]
    BY <2>1, <2>2, SubSeqMsgs DEF TypeOK
  <2>4. QED
    BY <1>1, <2>3 DEF Read, TypeOK, muxVars
<1>2. CASE ExitRead(e) /\ UNCHANGED <<muxVars, writeCh, closeFlag, opener, writer,
                                      closer, net, sent>>
  <2>1. cache' \in [Ends -> Seq(Msgs)] /\ todo' \in [Ends -> Seq(Ops)]
    BY <1>2, EmptySeq DEF ExitRead, TypeOK
  <2>2. QED
    BY <1>2, <2>1 DEF ExitRead, TypeOK, muxVars
<1>3. CASE HandleData(e)
  <2>1. CASE ExitRead(e)
    BY <1>2, <1>3, <2>1 DEF HandleData
  <2>2. CASE ~ExitRead(e)
    <3>1. cache[e] \in Seq(Msgs) /\ cache[e] # <<>>
      BY <1>3 DEF HandleData, Dispatching, TypeOK
    <3>2. Tail(cache[e]) \in Seq(Msgs)
      BY <3>1, HeadTailProperties
    <3>3. cache' = [cache EXCEPT ![e] = Tail(@)] /\ UNCHANGED <<reader, todo>>
      BY <1>3, <2>2 DEF HandleData
    <3>4. QED
      BY <1>3, <3>2, <3>3 DEF HandleData, TypeOK, muxVars
  <2>3. QED
    BY <2>1, <2>2
<1>4. CASE HandleInline(e)
  <2>1. CASE Matches(e) = {} /\ ExitRead(e) /\ UNCHANGED state
    BY <1>2, <1>4, <2>1 DEF HandleInline, muxVars
  <2>2. ASSUME NEW b \in Matches(e),
               state' = [state EXCEPT ![e] = b.next],
               todo' = [todo EXCEPT ![e] = b.do],
               cache' = [cache EXCEPT ![e] = Tail(@)],
               UNCHANGED reader
        PROVE  TypeOK'
    <3>1. b.next \in Kms /\ b.do \in Seq(Ops)
      BY BranchStates, BranchType DEF Matches
    <3>2. cache[e] \in Seq(Msgs) /\ cache[e] # <<>>
      BY <1>4 DEF HandleInline, Dispatching, TypeOK
    <3>3. Tail(cache[e]) \in Seq(Msgs)
      BY <3>2, HeadTailProperties
    <3>4. QED
      BY <1>4, <2>2, <3>1, <3>3 DEF HandleInline, TypeOK
  <2>3. QED
    BY <1>4, <2>1, <2>2 DEF HandleInline
<1>5. ASSUME todo[e] # <<>>
      PROVE  Tail(todo[e]) \in Seq(Ops)
  BY <1>5, HeadTailProperties DEF TypeOK
<1>6. CASE SendInline(e)
  <2>1. PICK m \in Kms : Pending(e, m) /\ Send(e, m)
    BY <1>6 DEF SendInline
  <2>2. /\ writeCh' \in [Ends -> Seq(Msgs)]
        /\ \A f \in Ends : Len(writeCh'[f]) <= WriteChanLimit
    BY <2>1, SendType DEF Msgs
  <2>3. QED
    BY <1>5, <1>6, <2>1, <2>2 DEF SendInline, Advance, Pending, TypeOK, muxVars
<1>7. CASE SignalInit(e)
  BY <1>5, <1>7 DEF SignalInit, Advance, Pending, TypeOK
<1>8. CASE SignalClose(e)
  BY <1>5, <1>8 DEF SignalClose, Advance, Pending, TypeOK
<1>9. CASE CasLastAck(e)
  <2>1. todo' \in [Ends -> Seq(Ops)]
    <3>1. <<>> \in Seq(Ops) /\ Tail(todo[e]) \in Seq(Ops)
      BY <1>5, <1>9 DEF CasLastAck, Pending
    <3>2. \/ todo' = [todo EXCEPT ![e] = Tail(todo[e])]
          \/ todo' = [todo EXCEPT ![e] = <<>>]
      BY <1>9 DEF CasLastAck, Advance
    <3>3. QED
      BY <3>1, <3>2 DEF TypeOK
  <2>2. QED
    BY <1>9, <2>1 DEF CasLastAck, TypeOK, Kms
<1>10. CASE Disconnect(e)
  BY <1>10 DEF Disconnect, TypeOK, muxVars, Closers
<1>11. CASE Release(e)
  BY <1>11 DEF Release, TypeOK, muxVars
<1>12. QED
  BY <1>1, <1>2, <1>3, <1>4, <1>6, <1>7, <1>8, <1>9, <1>10, <1>11
     DEF ReaderNext, ReadFail, ReadTimeout, ReturnEOF


LEMMA CloserType ==
  ASSUME TypeOK, NEW e \in Ends, CloseCall(e) \/ \E p \in Closers : CloserNext(e, p)
  PROVE  TypeOK'
<1> DEFINE Phases == {"idle", "once", "send", "wait", "join", "done"}
<1>1. ASSUME NEW p \in Closers, NEW c \in Phases,
             closer' = [closer EXCEPT ![e][p] = c]
      PROVE  closer' \in [Ends -> [Closers -> Phases]]
  BY <1>1 DEF TypeOK
<1>2. CASE CloseCall(e)
  BY <1>1, <1>2 DEF CloseCall, TypeOK, muxVars, readVars, Closers
<1>3. ASSUME NEW p \in Closers, CloserNext(e, p)
      PROVE  TypeOK'
  <2>1. CASE CloseEnter(e, p)
    BY <1>1, <2>1 DEF CloseEnter, TypeOK, readVars, Kms
  <2>2. CASE CloseSend(e, p)
    <3>1. /\ writeCh' \in [Ends -> Seq(Msgs)]
          /\ \A f \in Ends : Len(writeCh'[f]) <= WriteChanLimit
      BY <2>2, SendType DEF CloseSend, Msgs, Kms
    <3>2. QED
      BY <1>1, <2>2, <3>1 DEF CloseSend, TypeOK, muxVars, readVars
  <2>3. ASSUME NEW token \in 0..1, CloseWaited(e, p, token)
        PROVE  TypeOK'
    <3>1. closeCh' \in [Ends -> 0..1]
      <4>1. closeCh[e] \in 0..1 /\ token <= closeCh[e]
        BY <2>3 DEF CloseWaited, TypeOK
      <4>2. closeCh[e] - token \in 0..1
        BY <4>1
      <4>3. QED
        BY <2>3, <4>2 DEF CloseWaited, TypeOK
    <3>2. closer' \in [Ends -> [Closers -> Phases]]
      BY <1>1, <2>3 DEF CloseWaited
    <3>3. QED
      BY <2>3, <3>1, <3>2 DEF CloseWaited, TypeOK, readVars
  <2>4. CASE CloseAgain(e, p)
    BY <1>1, <2>4 DEF CloseAgain, TypeOK, muxVars, readVars
  <2>5. CASE CloseJoin(e, p)
    BY <1>1, <2>5 DEF CloseJoin, TypeOK, muxVars, readVars
  <2>6. QED
    BY <1>3, <2>1, <2>2, <2>3, <2>4, <2>5
       DEF CloserNext, CloseSignalled, CloseTimeout
<1>4. QED
  BY <1>2, <1>3

LEMMA WriterType ==
  ASSUME TypeOK, NEW e \in Ends, WriterNext(e)
  PROVE  TypeOK'
<1>1. Peer(e) \in Ends
  BY DEF Peer, Ends
<1>2. writeCh' = [writeCh EXCEPT ![e] = <<>>] =>
        /\ writeCh' \in [Ends -> Seq(Msgs)]
        /\ \A f \in Ends : Len(writeCh'[f]) <= WriteChanLimit
  <2>1. <<>> \in Seq(Msgs) /\ Len(<<>>) = 0
    OBVIOUS
  <2>2. QED
    BY <2>1, KCPMuxAssumption DEF TypeOK
<1>3. CASE Write(e)
  <2>1. writeCh[e] \in Seq(Msgs) /\ net[Peer(e)] \in Seq(Msgs)
    BY <1>1 DEF TypeOK
  <2>2. net[Peer(e)] \o writeCh[e] \in Seq(Msgs)
    BY <2>1, ConcatProperties
  <2>3. net' \in [Ends -> Seq(Msgs)]
    BY <1>1, <1>3, <2>2 DEF Write, Transmit, TypeOK
  <2>4. QED
    BY <1>2, <1>3, <2>3 DEF Write, TypeOK, muxVars, readVars
<1>4. CASE WriteFail(e)
  BY <1>2, <1>4 DEF WriteFail, TypeOK, muxVars, readVars
<1>5. CASE ConnClose(e)
  <2>1. PICK i \in 0..Len(net[e]), j \in 0..Len(net[Peer(e)]) :
          net' = [net EXCEPT ![e] = SubSeq(@, 1, i), ![Peer(e)] = SubSeq(@, 1, j)]
    BY <1>5 DEF ConnClose
  <2>2. net[e] \in Seq(Msgs) /\ net[Peer(e)] \in Seq(Msgs) /\ e # Peer(e)
    BY <1>1, KCPMuxAssumption DEF TypeOK, Peer, Ends
  <2>3. SubSeq(net[e], 1, i) \in Seq(Msgs) /\ SubSeq(net[Peer(e)], 1, j) \in Seq(Msgs)
    BY <2>2, SubSeqMsgs
  <2>4. net' \in [Ends -> Seq(Msgs)]
    BY <1>1, <2>1, <2>2, <2>3 DEF TypeOK
  <2>5. QED
    BY <1>5, <2>4 DEF ConnClose, TypeOK, muxVars, readVars
<1>6. QED
  BY <1>3, <1>4, <1>5 DEF WriterNext

LEMMA SendMsgType ==
  ASSUME TypeOK, NEW e \in Ends, SendMsg(e)
  PROVE  TypeOK'
<1>1. /\ writeCh' \in [Ends -> Seq(Msgs)]
      /\ \A f \in Ends : Len(writeCh'[f]) <= WriteChanLimit
  BY SendType DEF SendMsg, Msgs, Payloads
<1>2. sent' \in [Ends -> 0..MaxData]
  BY KCPMuxAssumption DEF SendMsg, TypeOK
<1>3. QED
  BY <1>1, <1>2 DEF SendMsg, TypeOK, muxVars, readVars

LEMMA TypeNext == TypeOK /\ [Next]_vars => TypeOK'
<1>1. ASSUME TypeOK, NEW e \in Ends,
             \/ OpenerNext(e) \/ ReaderNext(e) \/ WriterNext(e)
             \/ \E p \in Closers : CloserNext(e, p)
             \/ ReadTimeout(e) \/ SendMsg(e) \/ CloseCall(e)
      PROVE  TypeOK'
  BY <1>1, OpenerType, ReaderType, WriterType, CloserType, SendMsgType
<1>2. CASE UNCHANGED vars
  BY <1>2 DEF vars, muxVars, readVars, TypeOK
<1>3. QED
  BY <1>1, <1>2 DEF Next

(* Every reachable state of a connection is well typed; in particular      *)
(* neither writeCh nor a signal channel ever exceeds its capacity          *)
(* (kcp_mux.go:96-97, kcp_socket.go:57).                                   *)
THEOREM TypeCorrect == Spec => []TypeOK
<1>1. QED
  BY TypeInit, TypeNext, PTL DEF Spec

-----------------------------------------------------------------------------
(* The moves a mux state can make: by a branch of inlineProtocol, its      *)
(* second compare-and-swap (CloseWait to LastAck), or Close.               *)
Moves == {<<"Listen", "SynRcvd">>, <<"SynSent", "Established">>,
          <<"SynRcvd", "Established">>, <<"Established", "FinWait1">>,
          <<"Established", "CloseWait">>, <<"CloseWait", "LastAck">>,
          <<"FinWait1", "FinWait2">>, <<"FinWait1", "Closing">>,
          <<"FinWait2", "TimeWait">>, <<"Closing", "TimeWait">>}

LEMMA BranchMoves ==
  ASSUME NEW b \in Branches
  PROVE  b.next = b.cur \/ <<b.cur, b.next>> \in Moves
BY BranchCases DEF Branch, Moves

(* The three places that write a mux state.                                *)
LEMMA StateWriters ==
  ASSUME [Next]_vars, state' # state
  PROVE  \E e \in Ends : \/ HandleInline(e) \/ CasLastAck(e)
                        \/ \E p \in Closers : CloseEnter(e, p)
<1>1. ASSUME NEW e \in Ends,
             \/ OpenerNext(e) \/ WriterNext(e) \/ ReadTimeout(e) \/ SendMsg(e)
             \/ CloseCall(e)
      PROVE  FALSE
  BY <1>1 DEF OpenerNext, Open, MuxInit, InitDone, InitTimeout, InitJoin, WriterNext, Write,
       WriteFail, ConnClose, ReadTimeout, SendMsg, CloseCall, muxVars
<1>2. ASSUME NEW e \in Ends, ReaderNext(e), ~HandleInline(e), ~CasLastAck(e)
      PROVE  FALSE
  BY <1>2 DEF ReaderNext, Read, ReadFail, HandleData, SendInline, SignalInit,
       SignalClose, ReturnEOF, Disconnect, Release, muxVars
<1>3. ASSUME NEW e \in Ends, NEW p \in Closers, CloserNext(e, p), ~CloseEnter(e, p)
      PROVE  FALSE
  BY <1>3 DEF CloserNext, CloseSend, CloseSignalled, CloseTimeout, CloseWaited,
       CloseAgain, CloseJoin, muxVars
<1>4. ~UNCHANGED vars
  BY DEF vars, muxVars
<1>5. QED
  BY <1>1, <1>2, <1>3, <1>4 DEF Next

LEMMA StateMoves ==
  ASSUME TypeOK, [Next]_vars, NEW f \in Ends
  PROVE  state'[f] = state[f] \/ <<state[f], state'[f]>> \in Moves
<1>1. ASSUME NEW e \in Ends, HandleInline(e)
      PROVE  state'[f] = state[f] \/ <<state[f], state'[f]>> \in Moves
  <2>1. CASE UNCHANGED state
    BY <2>1
  <2>2. ASSUME NEW b \in Matches(e), state' = [state EXCEPT ![e] = b.next]
        PROVE  state'[f] = state[f] \/ <<state[f], state'[f]>> \in Moves
    BY <2>2, BranchMoves DEF Matches, TypeOK
  <2>3. QED
    BY <1>1, <2>1, <2>2 DEF HandleInline
<1>2. ASSUME NEW e \in Ends, CasLastAck(e)
      PROVE  state'[f] = state[f] \/ <<state[f], state'[f]>> \in Moves
  BY <1>2 DEF CasLastAck, TypeOK, Moves
<1>3. ASSUME NEW e \in Ends, NEW p \in Closers, CloseEnter(e, p)
      PROVE  state'[f] = state[f] \/ <<state[f], state'[f]>> \in Moves
  BY <1>3 DEF CloseEnter, TypeOK, Moves
<1>4. QED
  BY <1>1, <1>2, <1>3, StateWriters

(* The states of an end only ever go forward, and the ones it has left are *)
(* not entered again, however the read loop's compare-and-swaps and        *)
(* Close's interleave (kcp_mux.go:22-31).                                  *)
THEOREM StatesGoForward == Spec => Monotone
<1>1. \A s, t \in Kms : <<s, t>> \in Moves => KmsNumber[s] < KmsNumber[t]
  BY DEF Moves, KmsNumber, Kms
<1>2. TypeOK /\ [Next]_vars =>
        [\A e \in Ends :
           state'[e] # state[e] => KmsNumber[state[e]] < KmsNumber[state'[e]]]_vars
  <2>1. SUFFICES ASSUME TypeOK, [Next]_vars, NEW e \in Ends, state'[e] # state[e]
                 PROVE  KmsNumber[state[e]] < KmsNumber[state'[e]]
    OBVIOUS
  <2>2. state[e] \in Kms /\ state'[e] \in Kms
    BY <2>1, TypeNext DEF TypeOK
  <2>3. QED
    BY <1>1, <2>1, <2>2, StateMoves
<1>3. QED
  BY <1>2, TypeCorrect, PTL DEF Spec, Monotone

-----------------------------------------------------------------------------
(* The inductive invariant.                                                *)

(* What a message on its way says of its sender, whose state is st.        *)
Vouched(m, st) ==
  /\ m = "SynRcvd" => st \notin {"SynSent", "Listen"}
  /\ m = "Established" => st \notin Opening
  /\ m = "LastAck" => st = "LastAck"
  /\ m = "TimeWait" => st = "TimeWait"
  /\ m = "Data" /\ IsInline => st \notin Opening

Claims(s, st) == \A i \in 1..Len(s) : Vouched(s[i], st)

InTransit ==
  \A e \in Ends :
    /\ Claims(writeCh[e], state[e])
    /\ Claims(net[e], state[Peer(e)])
    /\ Claims(cache[e], state[Peer(e)])

Roles == state[Client] \notin {"Listen", "SynRcvd"} /\ state[Server] # "SynSent"

(* The mux states in which the read loop may be inside a branch.  Close    *)
(* may have moved Established to FinWait1 meanwhile.                       *)
WakingOpener == {<<"Established", "signalInit">>, <<"signalInit">>}
WakingCloser == {<<"TimeWait", "signalClose", "eof">>, <<"signalClose", "eof">>}

Remainder(e) ==
  \/ todo[e] \in {<<>>, <<"eof">>}
  \/ todo[e] = <<"SynRcvd">> /\ state[e] = "SynRcvd"
  \/ todo[e] \in WakingOpener /\ state[e] \in {"Established", "FinWait1"}
  \/ /\ todo[e] \in {<<"CloseWait", "casLastAck", "LastAck">>, <<"casLastAck", "LastAck">>}
     /\ state[e] = "CloseWait"
  \/ todo[e] = <<"LastAck">> /\ state[e] = "LastAck"
  \/ todo[e] = <<"Closing">> /\ state[e] = "Closing"
  \/ todo[e] = <<"TimeWait">> /\ state[e] = "TimeWait"
  \/ todo[e] = <<"TimeWait", "signalClose", "eof">> /\ state[e] = "TimeWait"
  \/ todo[e] = <<"signalClose", "eof">> /\ state[e] \in {"TimeWait", "LastAck"}

(* Each signal is given once: initCh on leaving the handshake, closeCh by  *)
(* a branch after which the read loop ends.                                *)
Signals(e) ==
  /\ state[e] \in Opening \/ todo[e] \in WakingOpener => initCh[e] = 0
  /\ closeCh[e] = 1 => reader[e] # "run" \/ todo[e] = <<"eof">>
  /\ reader[e] # "run" => todo[e] = <<>>

(* Whom mux.init has let go is through the handshake.                      *)
Ready(e) ==
  IsInline /\ opener[e] = "ready" => state[e] \notin Opening /\ todo[e] \notin WakingOpener

Closed(e) ==
  <<state[e], state[Peer(e)]>> \in
    {<<"TimeWait", "LastAck">>, <<"LastAck", "TimeWait">>, <<"TimeWait", "TimeWait">>}

CloseAgreed(e) == closeCh[e] = 1 \/ todo[e] \in WakingCloser => Closed(e)

IInv ==
  /\ TypeOK
  /\ Roles
  /\ HandshakeAgreement
  /\ InTransit
  /\ \A e \in Ends : Remainder(e) /\ Signals(e) /\ Ready(e) /\ CloseAgreed(e)


LEMMA InitIInv == Init => IInv
<1> SUFFICES ASSUME Init
             PROVE  IInv
  OBVIOUS
<1>1. TypeOK
  BY TypeInit
<1>2. Roles /\ HandshakeAgreement
  BY KCPMuxAssumption DEF Init, Roles, HandshakeAgreement, Ends
<1>3. InTransit
  BY DEF Init, InTransit, Claims, Ends
<1>4. \A e \in Ends : Remainder(e) /\ Signals(e) /\ Ready(e) /\ CloseAgreed(e)
  BY DEF Init, Remainder, Signals, Ready, CloseAgreed, WakingCloser, WakingOpener, Ends
<1>5. QED
  BY <1>1, <1>2, <1>3, <1>4 DEF IInv

(* A claim stays true whatever its sender goes through next.               *)
LEMMA ClaimsStable ==
  ASSUME NEW s, NEW st, NEW nst, Claims(s, st), nst = st \/ <<st, nst>> \in Moves
  PROVE  Claims(s, nst)
<1>1. ASSUME NEW m, Vouched(m, st)
      PROVE  Vouched(m, nst)
  BY <1>1 DEF Vouched, Moves, Opening
<1>2. QED
  BY <1>1 DEF Claims

LEMMA ClaimsAppend ==
  ASSUME NEW s \in Seq(Msgs), NEW m \in Msgs, NEW st, Claims(s, st), Vouched(m, st)
  PROVE  Claims(Append(s, m), st)
BY AppendProperties, LenProperties DEF Claims

LEMMA ClaimsTail ==
  ASSUME NEW s \in Seq(Msgs), s # <<>>, NEW st, Claims(s, st)
  PROVE  Claims(Tail(s), st) /\ Vouched(Head(s), st)
<1>1. /\ Len(Tail(s)) = Len(s) - 1
      /\ \A i \in 1..Len(Tail(s)) : Tail(s)[i] = s[i + 1]
      /\ Len(s) \in Nat /\ Len(s) > 0 /\ Head(s) = s[1]
  BY HeadTailProperties, LenProperties, EmptySeq
<1>2. QED
  BY <1>1 DEF Claims

LEMMA ClaimsSubSeq ==
  ASSUME NEW s \in Seq(Msgs), NEW st, Claims(s, st), NEW k \in 0..Len(s)
  PROVE  Claims(SubSeq(s, 1, k), st) /\ Claims(SubSeq(s, k + 1, Len(s)), st)
<1>1. Len(s) \in Nat /\ \A i \in 1..Len(s) : s[i] \in Msgs
  BY LenProperties, ElementOfSeq
<1>2. Claims(SubSeq(s, 1, k), st)
  <2>1. /\ Len(SubSeq(s, 1, k)) = k
        /\ \A i \in 1..k : SubSeq(s, 1, k)[i] = s[i]
    BY <1>1
  <2>2. QED
    BY <1>1, <2>1 DEF Claims
<1>3. Claims(SubSeq(s, k + 1, Len(s)), st)
  <2>1. /\ Len(SubSeq(s, k + 1, Len(s))) = Len(s) - k
        /\ \A i \in 1..Len(s) - k : SubSeq(s, k + 1, Len(s))[i] = s[k + i]
    BY <1>1
  <2>2. QED
    BY <1>1, <2>1 DEF Claims
<1>4. QED
  BY <1>2, <1>3

LEMMA ClaimsConcat ==
  ASSUME NEW s \in Seq(Msgs), NEW t \in Seq(Msgs), NEW st, Claims(s, st), Claims(t, st)
  PROVE  Claims(s \o t, st)
BY ConcatProperties, LenProperties DEF Claims

LEMMA ClaimsEmpty == \A st : Claims(<<>>, st)
BY DEF Claims


(* What send queues is vouched for by the state its caller is in.          *)
LEMMA SendClaims ==
  ASSUME TypeOK, InTransit, NEW e \in Ends, NEW m \in Msgs, Send(e, m),
         Vouched(m, state[e])
  PROVE  \A f \in Ends : Claims(writeCh'[f], state[f])
<1>1. Claims(Append(writeCh[e], m), state[e])
  BY ClaimsAppend DEF TypeOK, InTransit
<1>2. QED
  BY <1>1 DEF Send, TypeOK, InTransit

LEMMA WriteChClaims ==
  ASSUME IInv, [Next]_vars
  PROVE  \A f \in Ends : Claims(writeCh'[f], state[f])
<1> USE DEF IInv
<1> DEFINE Goal == \A f \in Ends : Claims(writeCh'[f], state[f])
<1>1. CASE UNCHANGED writeCh
  BY <1>1 DEF InTransit
<1>2. ASSUME NEW e \in Ends, NEW m \in {"SynSent", "FinWait1"}, Send(e, m)
      PROVE  Goal
  BY <1>2, SendClaims DEF Vouched, Msgs, Kms
<1>data. ASSUME NEW e \in Ends, SendMsg(e)
       PROVE  Goal
  <2>1. PICK m \in Payloads : Send(e, m) /\ (m = "Data" => ~InHandshake(e))
    BY <1>data DEF SendMsg, Payloads
  <2>2. Vouched(m, state[e]) /\ m \in Msgs
    BY <2>1 DEF Vouched, Msgs, Payloads, InHandshake
  <2>3. QED
    BY <2>1, <2>2, SendClaims
<1>3. ASSUME NEW e \in Ends, SendInline(e)
      PROVE  Goal
  <2>1. PICK m \in Kms : Pending(e, m) /\ Send(e, m)
    BY <1>3 DEF SendInline
  <2>2. todo[e] # <<>> /\ Head(todo[e]) = m /\ Remainder(e)
    BY <2>1 DEF Pending
  <2>3. Vouched(m, state[e])
    BY <2>1, <2>2 DEF Remainder, Vouched, WakingOpener, Opening, Kms
  <2>4. QED
    BY <2>1, <2>3, SendClaims DEF Msgs
<1>4. ASSUME NEW e \in Ends, writeCh' = [writeCh EXCEPT ![e] = <<>>]
      PROVE  Goal
  BY <1>4, ClaimsEmpty DEF InTransit, TypeOK
<1>5. ASSUME NEW e \in Ends, OpenerNext(e) \/ ReaderNext(e) \/ ReadTimeout(e)
      PROVE  Goal
  BY <1>1, <1>2, <1>3, <1>5
     DEF OpenerNext, Open, MuxInit, InitDone, InitTimeout, InitJoin, ReaderNext, Read,
         ReadFail, ReadTimeout, HandleData, HandleInline, SignalInit, SignalClose,
         CasLastAck, ReturnEOF, Disconnect, Release
<1>6. ASSUME NEW e \in Ends, WriterNext(e) \/ SendMsg(e) \/ CloseCall(e)
      PROVE  Goal
  BY <1>1, <1>data, <1>4, <1>6
     DEF WriterNext, Write, WriteFail, ConnClose, CloseCall
<1>7. ASSUME NEW e \in Ends, NEW p \in Closers, CloserNext(e, p)
      PROVE  Goal
  BY <1>1, <1>2, <1>7
     DEF CloserNext, CloseEnter, CloseSend, CloseSignalled, CloseTimeout,
         CloseWaited, CloseAgain, CloseJoin
<1>8. CASE UNCHANGED vars
  BY <1>1, <1>8 DEF vars
<1>9. QED
  BY <1>5, <1>6, <1>7, <1>8 DEF Next

LEMMA WireClaims ==
  ASSUME IInv, [Next]_vars
  PROVE  \A f \in Ends : /\ Claims(net'[f], state[Peer(f)])
                         /\ Claims(cache'[f], state[Peer(f)])
<1> USE DEF IInv
<1> DEFINE Goal == \A f \in Ends : /\ Claims(net'[f], state[Peer(f)])
                                  /\ Claims(cache'[f], state[Peer(f)])
<1>1. CASE UNCHANGED <<net, cache>>
  BY <1>1 DEF InTransit
<1>2. ASSUME NEW e \in Ends, UNCHANGED net, cache[e] # <<>>,
             cache' = [cache EXCEPT ![e] = Tail(@)]
      PROVE  Goal
  <2>1. Claims(Tail(cache[e]), state[Peer(e)])
    BY <1>2, ClaimsTail DEF InTransit, TypeOK
  <2>2. QED
    BY <1>2, <2>1 DEF InTransit, TypeOK
<1>3. ASSUME NEW e \in Ends, UNCHANGED net, ExitRead(e)
      PROVE  Goal
  BY <1>3, ClaimsEmpty DEF ExitRead, InTransit, TypeOK
<1>4. ASSUME NEW e \in Ends, Read(e)
      PROVE  Goal
  <2>1. PICK k \in 1..Len(net[e]) :
          /\ cache' = [cache EXCEPT ![e] = SubSeq(net[e], 1, k)]
          /\ net' = [net EXCEPT ![e] = SubSeq(net[e], k + 1, Len(net[e]))]
    BY <1>4 DEF Read
  <2>2. net[e] \in Seq(Msgs) /\ k \in 0..Len(net[e]) /\ Claims(net[e], state[Peer(e)])
    BY DEF TypeOK, InTransit
  <2>3. /\ Claims(SubSeq(net[e], 1, k), state[Peer(e)])
        /\ Claims(SubSeq(net[e], k + 1, Len(net[e])), state[Peer(e)])
    BY <2>2, ClaimsSubSeq
  <2>4. QED
    BY <2>1, <2>3 DEF InTransit, TypeOK
<1>5. ASSUME NEW e \in Ends, Write(e)
      PROVE  Goal
  <2>1. Peer(e) \in Ends /\ Peer(Peer(e)) = e
    BY KCPMuxAssumption DEF Peer, Ends
  <2>2. Claims(net[Peer(e)] \o writeCh[e], state[e])
    BY <2>1, ClaimsConcat DEF InTransit, TypeOK
  <2>3. QED
    <3>1. UNCHANGED cache
      BY <1>5 DEF Write, readVars
    <3>2. net' = net \/ net' = [net EXCEPT ![Peer(e)] = @ \o writeCh[e]]
      BY <1>5 DEF Write, Transmit
    <3>3. QED
      BY <2>1, <2>2, <3>1, <3>2 DEF InTransit, TypeOK
<1>6. ASSUME NEW e \in Ends, ConnClose(e)
      PROVE  Goal
  <2>1. PICK i \in 0..Len(net[e]), j \in 0..Len(net[Peer(e)]) :
          net' = [net EXCEPT ![e] = SubSeq(@, 1, i), ![Peer(e)] = SubSeq(@, 1, j)]
    BY <1>6 DEF ConnClose
  <2>2. Peer(e) \in Ends /\ e # Peer(e)
    BY KCPMuxAssumption DEF Peer, Ends
  <2>3. /\ Claims(SubSeq(net[e], 1, i), state[Peer(e)])
        /\ Claims(SubSeq(net[Peer(e)], 1, j), state[Peer(Peer(e))])
    BY <2>2, ClaimsSubSeq DEF InTransit, TypeOK
  <2>4. QED
    BY <1>6, <2>1, <2>2, <2>3 DEF ConnClose, readVars, InTransit, TypeOK
<1>7. ASSUME NEW e \in Ends, OpenerNext(e) \/ SendMsg(e) \/ CloseCall(e)
      PROVE  Goal
  BY <1>1, <1>7
     DEF OpenerNext, Open, MuxInit, InitDone, InitTimeout, InitJoin, SendMsg, CloseCall, readVars
<1>8. ASSUME NEW e \in Ends, ReaderNext(e) \/ ReadTimeout(e)
      PROVE  Goal
  BY <1>1, <1>2, <1>3, <1>4, <1>8
     DEF ReaderNext, ReadFail, ReadTimeout, HandleData, HandleInline, Dispatching,
         SendInline, SignalInit, SignalClose, CasLastAck, ReturnEOF, Disconnect, Release
<1>9. ASSUME NEW e \in Ends, NEW p \in Closers, CloserNext(e, p)
      PROVE  Goal
  BY <1>1, <1>9
     DEF CloserNext, CloseEnter, CloseSend, CloseSignalled, CloseTimeout,
         CloseWaited, CloseAgain, CloseJoin, readVars
<1>10. ASSUME NEW e \in Ends, WriteFail(e)
       PROVE  Goal
  BY <1>1, <1>10 DEF WriteFail, readVars
<1>11. CASE UNCHANGED vars
  BY <1>1, <1>11 DEF vars, readVars
<1>12. QED
  BY <1>5, <1>6, <1>7, <1>8, <1>9, <1>10, <1>11 DEF Next, WriterNext

LEMMA InTransitNext == IInv /\ [Next]_vars => InTransit'
<1> SUFFICES ASSUME IInv, [Next]_vars, NEW f \in Ends
             PROVE  /\ Claims(writeCh'[f], state'[f])
                    /\ Claims(net'[f], state'[Peer(f)])
                    /\ Claims(cache'[f], state'[Peer(f)])
  BY DEF InTransit
<1>1. Peer(f) \in Ends
  BY DEF Peer, Ends
<1>2. \A g \in Ends : state'[g] = state[g] \/ <<state[g], state'[g]>> \in Moves
  BY StateMoves DEF IInv
<1>3. QED
  BY <1>1, <1>2, WriteChClaims, WireClaims, ClaimsStable


(* What the read loop has dispatched was vouched for by the other end.     *)
LEMMA HeadVouched ==
  ASSUME IInv, NEW e \in Ends, NEW b \in Matches(e), Dispatching(e)
  PROVE  Vouched(b.recv, state[Peer(e)])
BY ClaimsTail DEF IInv, InTransit, TypeOK, Matches, Dispatching

LEMMA HandshakeNext == IInv /\ [Next]_vars => HandshakeAgreement' /\ Roles'
<1> SUFFICES ASSUME IInv, [Next]_vars
             PROVE  HandshakeAgreement' /\ Roles'
  OBVIOUS
<1>1. Peer(Client) = Server /\ Peer(Server) = Client /\ Client \in Ends /\ Server \in Ends
  BY KCPMuxAssumption DEF Peer, Ends
<1>2. \A f \in Ends : state'[f] = state[f] \/ <<state[f], state'[f]>> \in Moves
  BY StateMoves DEF IInv
<1>3. Roles'
  BY <1>1, <1>2 DEF IInv, Roles, Moves
<1>4. ASSUME NEW e \in Ends, HandleInline(e)
      PROVE  HandshakeAgreement'
  <2>1. CASE UNCHANGED state
    BY <2>1 DEF IInv, HandshakeAgreement
  <2>2. ASSUME NEW b \in Matches(e), state' = [state EXCEPT ![e] = b.next]
        PROVE  HandshakeAgreement'
    <3>1. b \in Branches /\ b.cur = state[e] /\ Vouched(b.recv, state[Peer(e)])
      BY <1>4, HeadVouched DEF Matches, HandleInline
    <3>2. /\ b.cur = "SynSent" => b.recv = "SynRcvd"
          /\ b.cur = "SynRcvd" => b.recv = "Established"
          /\ b.cur = "Listen" => b.next = "SynRcvd"
          /\ b.next \notin {"Listen", "SynSent"}
      BY <3>1, BranchCases DEF Branch
    <3>3. CASE e = Client
      BY <1>1, <2>2, <3>1, <3>2, <3>3
         DEF IInv, TypeOK, Roles, HandshakeAgreement, Vouched
    <3>4. CASE e = Server
      BY <1>1, <2>2, <3>1, <3>2, <3>4
         DEF IInv, TypeOK, Roles, HandshakeAgreement, Vouched, Opening
    <3>5. QED
      BY <3>3, <3>4 DEF Ends
  <2>3. QED
    BY <1>4, <2>1, <2>2 DEF HandleInline
<1>5. ASSUME NEW e \in Ends, state[e] \notin Opening,
             \A f \in Ends : f # e => state'[f] = state[f]
      PROVE  HandshakeAgreement'
  <2>1. state'[e] \notin Opening
    BY <1>2, <1>5 DEF Moves, Opening
  <2>2. QED
    BY <1>1, <1>5, <2>1 DEF IInv, HandshakeAgreement, Opening, Ends
<1>6. ASSUME NEW e \in Ends, CasLastAck(e) \/ \E p \in Closers : CloseEnter(e, p)
      PROVE  HandshakeAgreement'
  <2>1. CASE UNCHANGED state
    BY <2>1 DEF IInv, HandshakeAgreement
  <2>2. CASE ~UNCHANGED state
    <3>1. state[e] \notin Opening
      BY <1>6, <2>2 DEF CasLastAck, CloseEnter, IInv, TypeOK, Opening
    <3>2. \A f \in Ends : f # e => state'[f] = state[f]
      BY <1>6 DEF CasLastAck, CloseEnter, IInv, TypeOK
    <3>3. QED
      BY <1>5, <3>1, <3>2
  <2>3. QED
    BY <2>1, <2>2
<1>7. CASE UNCHANGED state
  BY <1>3, <1>7 DEF IInv, HandshakeAgreement
<1>8. CASE state' # state
  <2>1. PICK e \in Ends : \/ HandleInline(e) \/ CasLastAck(e)
                          \/ \E p \in Closers : CloseEnter(e, p)
    BY <1>8, StateWriters
  <2>2. QED
    BY <1>3, <1>4, <1>6, <2>1
<1>9. QED
  BY <1>3, <1>7, <1>8


(* A step that leaves an end's mux state and branch alone.                 *)
LEMMA ControlKept ==
  ASSUME IInv, TypeOK', NEW f \in Ends,
         state'[f] = state[f], todo'[f] = todo[f],
         reader'[f] = "run" <=> reader[f] = "run",
         initCh'[f] <= initCh[f], closeCh'[f] <= closeCh[f]
  PROVE  Remainder(f)' /\ Signals(f)'
<1>1. TypeOK /\ Remainder(f) /\ Signals(f)
  BY DEF IInv
<1>2. Remainder(f)'
  BY <1>1 DEF Remainder
<1>3. Signals(f)'
  BY <1>1 DEF Signals, TypeOK
<1>4. QED
  BY <1>2, <1>3

(* The end of the read loop.                                               *)
LEMMA ControlExit ==
  ASSUME IInv, TypeOK', NEW f \in Ends, ExitRead(f),
         UNCHANGED <<muxVars, writeCh, closeFlag, opener, writer, closer, net, sent>>
  PROVE  Remainder(f)' /\ Signals(f)'
<1>1. todo'[f] = <<>> /\ reader'[f] = "exited" /\ UNCHANGED <<state, initCh>>
  BY DEF ExitRead, IInv, TypeOK, muxVars
<1>2. QED
  BY <1>1 DEF IInv, Remainder, Signals, WakingOpener

(* The compare-and-swap that enters a branch.                              *)
LEMMA ControlBranch ==
  ASSUME IInv, NEW f \in Ends, NEW b \in Matches(f), Dispatching(f),
         state'[f] = b.next, todo'[f] = b.do,
         UNCHANGED <<reader, initCh, closeCh>>
  PROVE  Remainder(f)' /\ Signals(f)'
<1>1. b \in Branches /\ b.cur = state[f] /\ reader[f] = "run" /\ todo[f] = <<>>
  BY DEF Matches, Dispatching
<1>2. closeCh[f] # 1
  BY <1>1 DEF IInv, Signals
<1>3. Remainder(f)'
  <2>1. \/ b.do = <<>>
        \/ b.do = <<"SynRcvd">> /\ b.next = "SynRcvd"
        \/ b.do \in WakingOpener /\ b.next = "Established"
        \/ b.do = <<"CloseWait", "casLastAck", "LastAck">> /\ b.next = "CloseWait"
        \/ b.do = <<"Closing">> /\ b.next = "Closing"
        \/ b.do = <<"TimeWait">> /\ b.next = "TimeWait"
        \/ b.do = <<"TimeWait", "signalClose", "eof">> /\ b.next = "TimeWait"
        \/ b.do = <<"signalClose", "eof">> /\ b.next \in {"TimeWait", "LastAck"}
    BY <1>1, BranchCases DEF Branch, WakingOpener
  <2>2. QED
    BY <2>1 DEF Remainder
<1>4. b.cur \notin Opening => b.next \notin Opening /\ b.do \notin WakingOpener
  <2>1. b.cur \notin Opening =>
          /\ b.next \notin Opening
          /\ b.do = <<>> \/ b.do[1] \in {"CloseWait", "signalClose", "TimeWait", "Closing"}
    BY <1>1, BranchCases DEF Branch, Opening
  <2>2. b.do \in WakingOpener => b.do # <<>> /\ b.do[1] \in {"Established", "signalInit"}
    BY DEF WakingOpener
  <2>3. QED
    BY <2>1, <2>2
<1>5. Signals(f)'
  BY <1>1, <1>2, <1>4 DEF IInv, Signals
<1>6. QED
  BY <1>3, <1>5

(* The statements of a branch after it.                                    *)
LEMMA ControlAdvance ==
  ASSUME IInv, TypeOK', NEW f \in Ends,
         \/ SendInline(f) \/ SignalInit(f) \/ SignalClose(f) \/ CasLastAck(f)
  PROVE  Remainder(f)' /\ Signals(f)'
<1> USE DEF IInv
<1>1. reader[f] = "run" /\ reader'[f] = "run" /\ todo[f] # <<>>
  BY DEF SendInline, SignalInit, SignalClose, CasLastAck, Pending
<1>2. CASE SendInline(f)
  <2>1. todo'[f] = Tail(todo[f]) /\ Head(todo[f]) \in Kms
    BY <1>2 DEF SendInline, Pending, Advance, TypeOK
  <2>2. UNCHANGED <<state, initCh, closeCh>>
    BY <1>2 DEF SendInline, muxVars
  <2>3. CASE \/ todo[f] = <<"SynRcvd">> \/ todo[f] = <<"LastAck">>
             \/ todo[f] = <<"Closing">> \/ todo[f] = <<"TimeWait">>
    <3>1. todo[f] \in Seq(Ops) /\ Len(todo[f]) = 1
      BY <2>3 DEF TypeOK
    <3>2. Tail(todo[f]) \in Seq(Ops) /\ Len(Tail(todo[f])) = 0
      BY <1>1, <3>1, HeadTailProperties
    <3>3. todo'[f] = <<>>
      BY <2>1, <3>2, EmptySeq
    <3>4. QED
      BY <1>1, <2>2, <2>3, <3>3 DEF Remainder, Signals, WakingOpener
  <2>4. CASE todo[f] = <<"Established", "signalInit">>
    <3>1. todo'[f] = <<"signalInit">> /\ state[f] \in {"Established", "FinWait1"}
      BY <2>1, <2>4 DEF Remainder, WakingOpener
    <3>2. QED
      BY <1>1, <2>2, <2>4, <3>1 DEF Remainder, Signals, WakingOpener, Opening
  <2>5. CASE todo[f] = <<"CloseWait", "casLastAck", "LastAck">>
    <3>1. todo'[f] = <<"casLastAck", "LastAck">> /\ state[f] = "CloseWait"
      BY <2>1, <2>5 DEF Remainder, WakingOpener
    <3>2. QED
      BY <1>1, <2>2, <2>5, <3>1 DEF Remainder, Signals, WakingOpener, Opening
  <2>6. CASE todo[f] = <<"TimeWait", "signalClose", "eof">>
    <3>1. todo'[f] = <<"signalClose", "eof">> /\ state[f] = "TimeWait"
      BY <2>1, <2>6 DEF Remainder, WakingOpener
    <3>2. QED
      BY <1>1, <2>2, <2>6, <3>1 DEF Remainder, Signals, WakingOpener, Opening
  <2>7. /\ todo[f] # <<>> /\ todo[f] # <<"eof">> /\ todo[f] # <<"signalInit">>
        /\ todo[f] # <<"casLastAck", "LastAck">> /\ todo[f] # <<"signalClose", "eof">>
    BY <1>1, <2>1 DEF Kms
  <2>8. QED
    BY <2>3, <2>4, <2>5, <2>6, <2>7 DEF Remainder, WakingOpener
<1>3. CASE SignalInit(f)
  <2>1. todo[f] = <<"signalInit">> /\ state[f] \in {"Established", "FinWait1"}
    BY <1>3 DEF SignalInit, Pending, Remainder, WakingOpener
  <2>2. todo'[f] = <<>> /\ UNCHANGED <<state, closeCh>>
    BY <1>3, <2>1 DEF SignalInit, Advance, TypeOK
  <2>3. QED
    BY <1>1, <2>1, <2>2 DEF Remainder, Signals, WakingOpener, Opening
<1>4. CASE SignalClose(f)
  <2>1. todo[f] = <<"signalClose", "eof">>
    BY <1>4 DEF SignalClose, Pending, Remainder, WakingOpener
  <2>2. todo'[f] = <<"eof">> /\ UNCHANGED <<state, initCh>>
    BY <1>4, <2>1 DEF SignalClose, Advance, TypeOK
  <2>3. QED
    BY <1>1, <2>1, <2>2 DEF Remainder, Signals, WakingOpener
<1>5. CASE CasLastAck(f)
  <2>1. todo[f] = <<"casLastAck", "LastAck">> /\ state[f] = "CloseWait"
    BY <1>5 DEF CasLastAck, Pending, Remainder, WakingOpener
  <2>2. todo'[f] = <<"LastAck">> /\ state'[f] = "LastAck" /\ UNCHANGED <<initCh, closeCh>>
    BY <1>5, <2>1 DEF CasLastAck, Advance, TypeOK
  <2>3. QED
    BY <1>1, <2>1, <2>2 DEF Remainder, Signals, WakingOpener, Opening
<1>6. QED
  BY <1>2, <1>3, <1>4, <1>5


LEMMA ControlNext ==
  ASSUME IInv, [Next]_vars, NEW f \in Ends
  PROVE  Remainder(f)' /\ Signals(f)'
<1> DEFINE Goal == Remainder(f)' /\ Signals(f)'
           Kept == /\ state'[f] = state[f] /\ todo'[f] = todo[f]
                   /\ reader'[f] = "run" <=> reader[f] = "run"
                   /\ initCh'[f] <= initCh[f] /\ closeCh'[f] <= closeCh[f]
<1>1. TypeOK /\ TypeOK'
  BY TypeNext DEF IInv
<1>2. initCh[f] \in Int /\ closeCh[f] \in Int
  BY <1>1 DEF TypeOK
<1>3. Kept => Goal
  BY <1>1, ControlKept
<1>4. UNCHANGED <<state, todo, reader, initCh, closeCh>> => Kept
  BY <1>2
<1>5. ASSUME NEW e \in Ends, OpenerNext(e) \/ WriterNext(e) \/ SendMsg(e) \/ CloseCall(e)
      PROVE  Kept
  <2>1. CASE InitDone(e)
    <3>1. initCh'[f] <= initCh[f]
      <4>1. initCh' = [initCh EXCEPT ![e] = 0] /\ initCh \in [Ends -> 0..1]
        BY <1>1, <2>1 DEF InitDone, TypeOK
      <4>2. initCh[f] \in 0..1 /\ (initCh'[f] = initCh[f] \/ initCh'[f] = 0)
        BY <4>1
      <4>3. QED
        BY <4>2
    <3>2. QED
      BY <1>2, <2>1, <3>1 DEF InitDone, readVars
  <2>2. CASE ~InitDone(e)
    BY <1>4, <1>5, <2>2
       DEF OpenerNext, Open, MuxInit, InitTimeout, InitJoin, WriterNext, Write, WriteFail,
           ConnClose, SendMsg, CloseCall, muxVars, readVars
  <2>3. QED
    BY <2>1, <2>2
<1>6. ASSUME NEW e \in Ends, NEW p \in Closers, CloserNext(e, p)
      PROVE  Goal
  <2>1. CASE CloseEnter(e, p)
    <3>1. UNCHANGED <<todo, reader, initCh, closeCh>>
      BY <2>1 DEF CloseEnter, readVars
    <3>2. \/ state'[f] = state[f]
          \/ state[f] = "Established" /\ state'[f] = "FinWait1"
      <4>1. \/ state' = state
            \/ state[e] = "Established" /\ state' = [state EXCEPT ![e] = "FinWait1"]
        BY <2>1 DEF CloseEnter
      <4>2. state \in [Ends -> Kms]
        BY <1>1 DEF TypeOK
      <4>3. QED
        BY <4>1, <4>2
    <3>3. CASE state'[f] = state[f]
      BY <1>2, <1>3, <3>1, <3>3
    <3>4. CASE state[f] = "Established" /\ state'[f] = "FinWait1"
      <4>1. Remainder(f) /\ Signals(f)
        BY DEF IInv
      <4>2. Remainder(f)'
        BY <3>1, <3>4, <4>1 DEF Remainder, WakingOpener
      <4>3. Signals(f)'
        BY <3>1, <3>4, <4>1 DEF Signals, Opening
      <4>4. QED
        BY <4>2, <4>3
    <3>5. QED
      BY <3>2, <3>3, <3>4
  <2>2. ASSUME NEW token \in 0..1, CloseWaited(e, p, token)
        PROVE  Goal
    <3>1. closeCh'[f] <= closeCh[f]
      <4>1. closeCh' = [closeCh EXCEPT ![e] = @ - token] /\ token \in Nat
        BY <2>2 DEF CloseWaited
      <4>2. closeCh \in [Ends -> 0..1]
        BY <1>1 DEF TypeOK
      <4>3. closeCh'[f] = closeCh[f] \/ closeCh'[f] = closeCh[f] - token
        BY <4>1, <4>2
      <4>4. QED
        BY <1>2, <4>1, <4>3
    <3>2. QED
      BY <1>2, <1>3, <2>2, <3>1 DEF CloseWaited, readVars
  <2>3. CASE CloseSend(e, p) \/ CloseAgain(e, p) \/ CloseJoin(e, p)
    BY <1>3, <1>4, <2>3 DEF CloseSend, CloseAgain, CloseJoin, muxVars, readVars
  <2>4. QED
    BY <1>6, <2>1, <2>2, <2>3 DEF CloserNext, CloseSignalled, CloseTimeout
<1>7. ASSUME NEW e \in Ends, e # f, ReaderNext(e) \/ ReadTimeout(e)
      PROVE  Kept
  <2> DEFINE Same == /\ state'[f] = state[f] /\ todo'[f] = todo[f]
                     /\ reader'[f] = reader[f] /\ initCh'[f] = initCh[f]
                     /\ closeCh'[f] = closeCh[f]
  <2>1. Same => Kept
    BY <1>2
  <2>2. CASE ExitRead(e) /\ UNCHANGED <<state, initCh, closeCh>>
    BY <1>1, <1>7, <2>1, <2>2 DEF ExitRead, TypeOK
  <2>3. CASE Read(e) \/ Disconnect(e) \/ Release(e)
    <3>1. UNCHANGED <<state, todo, initCh, closeCh>>
      BY <2>3 DEF Read, Disconnect, Release, muxVars
    <3>2. \E r : reader' = [reader EXCEPT ![e] = r] \/ UNCHANGED reader
      BY <2>3 DEF Read, Disconnect, Release
    <3>3. Same
      BY <1>1, <1>7, <3>1, <3>2 DEF TypeOK
    <3>4. QED
      BY <2>1, <3>3
  <2>4. CASE HandleData(e) /\ ~ExitRead(e)
    BY <1>4, <2>4 DEF HandleData, muxVars
  <2>5. CASE HandleInline(e)
    <3>1. /\ \E s : state' = [state EXCEPT ![e] = s] \/ UNCHANGED state
          /\ \E o : todo' = [todo EXCEPT ![e] = o]
          /\ \E r : reader' = [reader EXCEPT ![e] = r] \/ UNCHANGED reader
          /\ UNCHANGED <<initCh, closeCh>>
      BY <2>5 DEF HandleInline, ExitRead
    <3>2. state'[f] = state[f]
      BY <1>1, <1>7, <3>1 DEF TypeOK
    <3>3. todo'[f] = todo[f]
      BY <1>1, <1>7, <3>1 DEF TypeOK
    <3>4. reader'[f] = reader[f]
      BY <1>1, <1>7, <3>1 DEF TypeOK
    <3>5. QED
      BY <2>1, <3>1, <3>2, <3>3, <3>4
  <2>6. CASE SendInline(e)
    BY <1>1, <1>7, <2>1, <2>6 DEF SendInline, Advance, TypeOK, muxVars
  <2>7. CASE SignalInit(e) \/ SignalClose(e)
    BY <1>1, <1>7, <2>1, <2>7 DEF SignalInit, SignalClose, Advance, TypeOK
  <2>8. CASE CasLastAck(e)
    <3>1. /\ todo' = [todo EXCEPT ![e] = Tail(@)] \/ todo' = [todo EXCEPT ![e] = <<>>]
          /\ state' = [state EXCEPT ![e] = "LastAck"] \/ UNCHANGED state
          /\ UNCHANGED <<reader, initCh, closeCh>>
      BY <2>8 DEF CasLastAck, Advance
    <3>2. todo'[f] = todo[f]
      BY <1>1, <1>7, <3>1 DEF TypeOK
    <3>3. state'[f] = state[f]
      BY <1>1, <1>7, <3>1 DEF TypeOK
    <3>4. QED
      BY <2>1, <3>1, <3>2, <3>3
  <2>9. QED
    BY <1>7, <2>2, <2>3, <2>4, <2>5, <2>6, <2>7, <2>8
       DEF ReaderNext, ReadFail, ReadTimeout, HandleData, ReturnEOF, muxVars
<1>8. ASSUME ReaderNext(f) \/ ReadTimeout(f)
      PROVE  Goal
  <2>1. CASE Read(f) \/ Disconnect(f) \/ Release(f)
    <3>1. Kept
      BY <1>1, <1>2, <2>1 DEF Read, Disconnect, Release, TypeOK, muxVars
    <3>2. QED
      BY <1>3, <3>1
  <2>2. CASE /\ ExitRead(f)
             /\ UNCHANGED <<muxVars, writeCh, closeFlag, opener, writer, closer, net, sent>>
    BY <1>1, <2>2, ControlExit
  <2>3. CASE HandleData(f) /\ ~ExitRead(f)
    <3>1. Kept
      BY <1>1, <1>2, <2>3 DEF HandleData, TypeOK, muxVars
    <3>2. QED
      BY <1>3, <3>1
  <2>4. CASE HandleInline(f) /\ Matches(f) # {}
    <3>1. PICK b \in Matches(f) : /\ state' = [state EXCEPT ![f] = b.next]
                                 /\ todo' = [todo EXCEPT ![f] = b.do]
                                 /\ UNCHANGED reader
      BY <2>4 DEF HandleInline
    <3>2. /\ Dispatching(f) /\ UNCHANGED <<reader, initCh, closeCh>>
          /\ state'[f] = b.next /\ todo'[f] = b.do
      BY <1>1, <2>4, <3>1 DEF HandleInline, TypeOK
    <3>3. QED
      BY <3>2, ControlBranch
  <2>5. CASE SendInline(f) \/ SignalInit(f) \/ SignalClose(f) \/ CasLastAck(f)
    BY <1>1, <2>5, ControlAdvance
  <2>6. QED
    BY <1>8, <2>1, <2>2, <2>3, <2>4, <2>5
       DEF ReaderNext, ReadFail, ReadTimeout, HandleData, HandleInline, ReturnEOF, muxVars
<1>9. CASE UNCHANGED vars
  BY <1>3, <1>4, <1>9 DEF vars, muxVars, readVars
<1>10. QED
  BY <1>3, <1>5, <1>6, <1>7, <1>8, <1>9 DEF Next


(* What can happen to a branch being executed, and to closeCh.             *)
LEMMA TodoWriters ==
  ASSUME TypeOK, [Next]_vars, NEW f \in Ends
  PROVE  \/ todo'[f] = todo[f] \/ todo'[f] = <<>> \/ HandleInline(f)
         \/ todo[f] # <<>> /\ todo'[f] = Tail(todo[f])
<1> DEFINE Goal == \/ todo'[f] = todo[f] \/ todo'[f] = <<>> \/ HandleInline(f)
                   \/ todo[f] # <<>> /\ todo'[f] = Tail(todo[f])
<1>1. CASE UNCHANGED todo
  BY <1>1
<1>2. ASSUME NEW e \in Ends, ExitRead(e)
      PROVE  Goal
  BY <1>2 DEF ExitRead, TypeOK
<1>3. ASSUME NEW e \in Ends, todo[e] # <<>>, Advance(e)
      PROVE  Goal
  BY <1>3 DEF Advance, TypeOK
<1>4. ASSUME NEW e \in Ends, CasLastAck(e)
      PROVE  Goal
  <2>1. todo' = [todo EXCEPT ![e] = Tail(@)] \/ todo' = [todo EXCEPT ![e] = <<>>]
    BY <1>4 DEF CasLastAck, Advance
  <2>2. QED
    BY <1>4, <2>1 DEF CasLastAck, Pending, TypeOK
<1>5. ASSUME NEW e \in Ends, HandleInline(e)
      PROVE  Goal
  BY <1>5 DEF HandleInline, ExitRead, TypeOK
<1>6. ASSUME NEW e \in Ends, ReaderNext(e) \/ ReadTimeout(e)
      PROVE  Goal
  BY <1>1, <1>2, <1>3, <1>4, <1>5, <1>6
     DEF ReaderNext, Read, ReadFail, ReadTimeout, HandleData, SendInline, SignalInit,
         SignalClose, Pending, ReturnEOF, Disconnect, Release
<1>7. ASSUME NEW e \in Ends, OpenerNext(e) \/ WriterNext(e) \/ SendMsg(e) \/ CloseCall(e)
      PROVE  Goal
  BY <1>1, <1>7
     DEF OpenerNext, Open, MuxInit, InitDone, InitTimeout, InitJoin, WriterNext, Write, WriteFail,
         ConnClose, SendMsg, CloseCall, readVars
<1>8. ASSUME NEW e \in Ends, NEW p \in Closers, CloserNext(e, p)
      PROVE  Goal
  BY <1>1, <1>8
     DEF CloserNext, CloseEnter, CloseSend, CloseSignalled, CloseTimeout, CloseWaited,
         CloseAgain, CloseJoin, readVars
<1>9. CASE UNCHANGED vars
  BY <1>1, <1>9 DEF vars, readVars
<1>10. QED
  BY <1>6, <1>7, <1>8, <1>9 DEF Next

LEMMA CloseChWriters ==
  ASSUME TypeOK, [Next]_vars, NEW f \in Ends
  PROVE  closeCh'[f] <= closeCh[f] \/ SignalClose(f)
<1> DEFINE Goal == closeCh'[f] <= closeCh[f] \/ SignalClose(f)
<1>0. closeCh[f] \in Int
  BY DEF TypeOK
<1>1. UNCHANGED closeCh => Goal
  BY <1>0
<1>2. ASSUME NEW e \in Ends, SignalClose(e)
      PROVE  Goal
  <2>1. CASE e # f
    BY <1>0, <1>2, <2>1 DEF SignalClose, TypeOK
  <2>2. QED
    BY <1>2, <2>1
<1>3. ASSUME NEW e \in Ends, NEW p \in Closers, NEW token \in 0..1, CloseWaited(e, p, token)
      PROVE  Goal
  <2>1. closeCh' = [closeCh EXCEPT ![e] = @ - token]
    BY <1>3 DEF CloseWaited
  <2>2. CASE e # f
    BY <1>0, <2>1, <2>2 DEF TypeOK
  <2>3. CASE e = f
    BY <1>0, <2>1, <2>3 DEF TypeOK
  <2>4. QED
    BY <2>2, <2>3
<1>4. ASSUME NEW e \in Ends, ReaderNext(e) \/ ReadTimeout(e)
      PROVE  Goal
  BY <1>1, <1>2, <1>4
     DEF ReaderNext, Read, ReadFail, ReadTimeout, HandleData, HandleInline, SendInline,
         SignalInit, CasLastAck, ReturnEOF, Disconnect, Release, muxVars
<1>5. ASSUME NEW e \in Ends, OpenerNext(e) \/ WriterNext(e) \/ SendMsg(e) \/ CloseCall(e)
      PROVE  Goal
  BY <1>1, <1>5
     DEF OpenerNext, Open, MuxInit, InitDone, InitTimeout, InitJoin, WriterNext, Write, WriteFail,
         ConnClose, SendMsg, CloseCall, muxVars
<1>6. ASSUME NEW e \in Ends, NEW p \in Closers, CloserNext(e, p)
      PROVE  Goal
  BY <1>1, <1>3, <1>6
     DEF CloserNext, CloseEnter, CloseSend, CloseSignalled, CloseTimeout, CloseAgain,
         CloseJoin, muxVars
<1>7. CASE UNCHANGED vars
  BY <1>1, <1>7 DEF vars, muxVars
<1>8. QED
  BY <1>4, <1>5, <1>6, <1>7 DEF Next

(* Who lets the caller of newKCPSocket go, and what a statement leaves.    *)
LEMMA OpenerWriters ==
  ASSUME TypeOK, [Next]_vars, NEW f \in Ends, opener'[f] # opener[f]
  PROVE  Open(f) \/ MuxInit(f) \/ InitDone(f) \/ InitTimeout(f) \/ InitJoin(f)
<1>1. PICK e \in Ends : OpenerNext(e)
  <2>1. ASSUME NEW e \in Ends, ReaderNext(e) \/ ReadTimeout(e) PROVE UNCHANGED opener
    BY <2>1 DEF ReaderNext, Read, ReadFail, ReadTimeout, HandleData, HandleInline, SendInline,
         SignalInit, SignalClose, CasLastAck, ReturnEOF, Disconnect, Release
  <2>2. ASSUME NEW e \in Ends, WriterNext(e) \/ SendMsg(e) \/ CloseCall(e) PROVE UNCHANGED opener
    BY <2>2 DEF WriterNext, Write, WriteFail, ConnClose, SendMsg, CloseCall
  <2>3. ASSUME NEW e \in Ends, NEW p \in Closers, CloserNext(e, p) PROVE UNCHANGED opener
    BY <2>3 DEF CloserNext, CloseEnter, CloseSend, CloseSignalled, CloseTimeout, CloseWaited,
         CloseAgain, CloseJoin
  <2>4. ~UNCHANGED vars
    BY DEF vars
  <2>5. QED
    BY <2>1, <2>2, <2>3, <2>4 DEF Next
<1>2. e = f
  BY <1>1 DEF OpenerNext, Open, MuxInit, InitDone, InitTimeout, InitJoin, TypeOK
<1>3. QED
  BY <1>1, <1>2 DEF OpenerNext

LEMMA RestOfBranch ==
  ASSUME TypeOK, NEW f \in Ends, Remainder(f), todo[f] # <<>>, todo[f] \notin WakingOpener
  PROVE  Tail(todo[f]) \notin WakingOpener
<1>1. CASE \/ todo[f] = <<"eof">> \/ todo[f] = <<"SynRcvd">> \/ todo[f] = <<"LastAck">>
           \/ todo[f] = <<"Closing">> \/ todo[f] = <<"TimeWait">>
  <2>1. todo[f] \in Seq(Ops) /\ Len(todo[f]) = 1
    BY <1>1 DEF TypeOK
  <2>2. Tail(todo[f]) \in Seq(Ops) /\ Len(Tail(todo[f])) = 0
    BY <2>1, HeadTailProperties
  <2>3. Tail(todo[f]) = <<>>
    BY <2>2, EmptySeq
  <2>4. QED
    BY <2>3 DEF WakingOpener
<1>2. CASE todo[f] = <<"CloseWait", "casLastAck", "LastAck">>
  <2>1. Tail(todo[f]) = <<"casLastAck", "LastAck">>
    BY <1>2
  <2>2. QED
    BY <2>1 DEF WakingOpener
<1>3. CASE todo[f] = <<"casLastAck", "LastAck">>
  <2>1. Tail(todo[f]) = <<"LastAck">>
    BY <1>3
  <2>2. QED
    BY <2>1 DEF WakingOpener
<1>4. CASE todo[f] = <<"TimeWait", "signalClose", "eof">>
  <2>1. Tail(todo[f]) = <<"signalClose", "eof">>
    BY <1>4
  <2>2. QED
    BY <2>1 DEF WakingOpener
<1>5. CASE todo[f] = <<"signalClose", "eof">>
  <2>1. Tail(todo[f]) = <<"eof">>
    BY <1>5
  <2>2. QED
    BY <2>1 DEF WakingOpener
<1>6. QED
  BY <1>1, <1>2, <1>3, <1>4, <1>5 DEF Remainder

(* An end that has been, or is about to be, told that its close is         *)
(* complete stays one half of a completed close.                           *)
LEMMA CloseAgreedNext ==
  ASSUME IInv, [Next]_vars, NEW f \in Ends
  PROVE  CloseAgreed(f)'
<1> DEFINE Told == closeCh[f] = 1 \/ todo[f] \in WakingCloser
<1>1. TypeOK /\ TypeOK' /\ Peer(f) \in Ends /\ Peer(f) # f
  BY TypeNext, KCPMuxAssumption DEF IInv, Peer, Ends
<1>2. \A g \in Ends : state'[g] = state[g] \/ <<state[g], state'[g]>> \in Moves
  BY StateMoves, <1>1
<1>3. CASE Told
  <2>1. Closed(f)
    BY <1>3 DEF IInv, CloseAgreed
  <2>2. Closed(f)'
    BY <1>1, <1>2, <2>1 DEF Closed, Moves
  <2>3. QED
    BY <2>2 DEF CloseAgreed
<1>4. ASSUME ~Told, Told'
      PROVE  HandleInline(f)
  <2>1. Remainder(f) /\ closeCh[f] \in 0..1 /\ closeCh'[f] \in 0..1
    BY <1>1 DEF IInv, TypeOK
  <2>2. ~SignalClose(f)
    <3>1. Pending(f, "signalClose") => todo[f] = <<"signalClose", "eof">>
      BY <2>1 DEF Pending, Remainder, WakingOpener
    <3>2. QED
      BY <1>4, <3>1 DEF SignalClose, WakingCloser
  <2>3. closeCh'[f] # 1
    BY <1>1, <1>4, <2>1, <2>2, CloseChWriters
  <2>4. todo'[f] \in WakingCloser /\ todo'[f] # todo[f] /\ todo'[f] # <<>>
    BY <1>4, <2>3 DEF WakingCloser
  <2>5. ~(todo[f] # <<>> /\ todo'[f] = Tail(todo[f]))
    <3>1. SUFFICES ASSUME todo[f] # <<>>, todo'[f] = Tail(todo[f])
                   PROVE  FALSE
      OBVIOUS
    <3>2. Len(todo'[f]) >= 2
      <4>1. \/ todo'[f] = <<"TimeWait", "signalClose", "eof">>
            \/ todo'[f] = <<"signalClose", "eof">>
        BY <2>4 DEF WakingCloser
      <4>2. QED
        BY <4>1
    <3>3. Len(todo[f]) \in Nat /\ Len(todo[f]) >= 3
      BY <1>1, <3>1, <3>2, HeadTailProperties, LenProperties DEF TypeOK
    <3>4. todo[f] = <<"CloseWait", "casLastAck", "LastAck">>
      <4>1. \/ todo[f] = <<>> \/ todo[f] = <<"eof">> \/ todo[f] = <<"SynRcvd">>
            \/ todo[f] = <<"Established", "signalInit">> \/ todo[f] = <<"signalInit">>
            \/ todo[f] = <<"CloseWait", "casLastAck", "LastAck">>
            \/ todo[f] = <<"casLastAck", "LastAck">> \/ todo[f] = <<"LastAck">>
            \/ todo[f] = <<"Closing">> \/ todo[f] = <<"TimeWait">>
        BY <1>4, <2>1 DEF Remainder, WakingOpener, WakingCloser
      <4>2. \A x, y : Len(<<x>>) = 1 /\ Len(<<x, y>>) = 2
        OBVIOUS
      <4>3. Len(<<>>) = 0
        OBVIOUS
      <4>4. \/ todo[f] = <<"CloseWait", "casLastAck", "LastAck">>
            \/ Len(todo[f]) = 0 \/ Len(todo[f]) = 1 \/ Len(todo[f]) = 2
        BY <4>1, <4>2, <4>3, Zenon
      <4>5. \A n \in Nat : n >= 3 => n # 0 /\ n # 1 /\ n # 2
        OBVIOUS
      <4>6. QED
        BY <3>3, <4>4, <4>5, Zenon
    <3>5. todo'[f] = <<"casLastAck", "LastAck">>
      BY <3>1, <3>4
    <3>6. QED
      BY <2>4, <3>5 DEF WakingCloser
  <2>6. QED
    BY <1>1, <2>4, <2>5, TodoWriters
<1>5. CASE HandleInline(f) /\ ~Told /\ Told'
  <2>0. Matches(f) # {}
    <3>1. SUFFICES ASSUME ExitRead(f), UNCHANGED closeCh
                   PROVE  FALSE
      BY <1>5 DEF HandleInline
    <3>2. todo'[f] = <<>> /\ closeCh'[f] = closeCh[f]
      BY <1>1, <3>1 DEF ExitRead, TypeOK
    <3>3. QED
      BY <1>5, <3>2 DEF WakingCloser
  <2>1. PICK b \in Matches(f) : /\ state' = [state EXCEPT ![f] = b.next]
                               /\ todo' = [todo EXCEPT ![f] = b.do]
    BY <1>5, <2>0 DEF HandleInline
  <2>2. /\ b \in Branches /\ b.cur = state[f] /\ Vouched(b.recv, state[Peer(f)])
        /\ state'[f] = b.next /\ todo'[f] = b.do /\ state'[Peer(f)] = state[Peer(f)]
        /\ closeCh' = closeCh
    BY <1>1, <1>5, <2>1, HeadVouched DEF HandleInline, Matches, TypeOK
  <2>3. b.do \in WakingCloser =>
          \/ b.recv = "TimeWait" /\ b.next \in {"LastAck", "TimeWait"}
          \/ b.recv = "LastAck" /\ b.next = "TimeWait"
    <3>1. b.do \in WakingCloser => b.recv \in {"TimeWait", "LastAck"}
      <4>1. \/ b.recv \in {"TimeWait", "LastAck"}
            \/ b.do = <<"SynRcvd">> \/ b.do = <<"Established", "signalInit">>
            \/ b.do = <<"signalInit">> \/ b.do = <<"CloseWait", "casLastAck", "LastAck">>
            \/ b.do = <<>> \/ b.do = <<"Closing">> \/ b.do = <<"TimeWait">>
        BY <2>2, BranchCases DEF Branch
      <4>2. QED
        BY <4>1 DEF WakingCloser
    <3>2. b.recv = "TimeWait" => b.next \in {"LastAck", "TimeWait"}
      BY <2>2, BranchCases DEF Branch
    <3>3. b.recv = "LastAck" => b.next = "TimeWait"
      BY <2>2, BranchCases DEF Branch
    <3>4. QED
      BY <3>1, <3>2, <3>3
  <2>4. QED
    BY <1>5, <2>2, <2>3 DEF CloseAgreed, Closed, Vouched
<1>6. CASE ~Told /\ ~Told'
  BY <1>6 DEF CloseAgreed
<1>7. QED
  BY <1>3, <1>4, <1>5, <1>6


(* mux.init returns on initCh, which is given on leaving the handshake.    *)
LEMMA ReadyNext ==
  ASSUME IInv, [Next]_vars, NEW f \in Ends
  PROVE  Ready(f)'
<1> SUFFICES ASSUME IsInline, opener'[f] = "ready"
             PROVE  state'[f] \notin Opening /\ todo'[f] \notin WakingOpener
  BY DEF Ready
<1>1. TypeOK
  BY DEF IInv
<1>2. state[f] \notin Opening /\ todo[f] \notin WakingOpener
  <2>1. CASE opener[f] = "ready"
    BY <2>1 DEF IInv, Ready
  <2>2. CASE opener[f] # "ready"
    <3>1. InitDone(f)
      <4>1. Open(f) \/ MuxInit(f) \/ InitDone(f) \/ InitTimeout(f) \/ InitJoin(f)
        BY <1>1, <2>2, OpenerWriters
      <4>2. QED
        BY <1>1, <4>1 DEF Open, MuxInit, InitTimeout, InitJoin, TypeOK
    <3>2. initCh[f] = 1
      BY <3>1 DEF InitDone
    <3>3. QED
      BY <3>2 DEF IInv, Signals
  <2>3. QED
    BY <2>1, <2>2
<1>3. state'[f] \notin Opening
  BY <1>1, <1>2, StateMoves DEF Moves, Opening
<1>4. CASE todo'[f] = todo[f] \/ todo'[f] = <<>>
  BY <1>2, <1>3, <1>4 DEF WakingOpener
<1>5. CASE HandleInline(f)
  <2>1. CASE ExitRead(f)
    BY <1>1, <1>3, <2>1 DEF ExitRead, TypeOK, WakingOpener
  <2>2. CASE ~ExitRead(f)
    <3>1. PICK b \in Matches(f) : todo' = [todo EXCEPT ![f] = b.do]
      BY <1>5, <2>2 DEF HandleInline
    <3>2. b.do \notin WakingOpener
      BY <1>2, BranchCases DEF Matches, Branch, Opening, WakingOpener
    <3>3. QED
      BY <1>1, <1>3, <3>1, <3>2 DEF TypeOK
  <2>3. QED
    BY <2>1, <2>2
<1>6. CASE todo[f] # <<>> /\ todo'[f] = Tail(todo[f])
  BY <1>2, <1>3, <1>6, RestOfBranch DEF IInv
<1>7. QED
  BY <1>1, <1>4, <1>5, <1>6, TodoWriters

LEMMA IInvNext == IInv /\ [Next]_vars => IInv'
<1> SUFFICES ASSUME IInv, [Next]_vars
             PROVE  IInv'
  OBVIOUS
<1>1. TypeOK' /\ Roles' /\ HandshakeAgreement' /\ InTransit'
  BY TypeNext, HandshakeNext, InTransitNext DEF IInv
<1>2. \A f \in Ends : Remainder(f)' /\ Signals(f)' /\ Ready(f)' /\ CloseAgreed(f)'
  BY ControlNext, ReadyNext, CloseAgreedNext
<1>3. QED
  BY <1>1, <1>2 DEF IInv

LEMMA IInvInvariant == Spec => []IInv
BY InitIInv, IInvNext, PTL DEF Spec

(* No end is past the handshake while the other knows nothing of it        *)
(* (inlineProtocol, kcp_mux.go:164-177), whatever is lost, however late a  *)
(* timeout and however the goroutines of both ends interleave.             *)
THEOREM HandshakeAgrees == Spec => []HandshakeAgreement
BY IInvInvariant, PTL DEF IInv

(* The read loop never blocks on a signal channel, so Close's wg.Wait      *)
(* cannot hang on it (kcp_mux.go:171,175,190,198,213).                     *)
THEOREM SignalsAlwaysFit == Spec => []SignalsFit
<1>1. IInv => SignalsFit
  <2> SUFFICES ASSUME IInv, NEW e \in Ends
               PROVE  /\ Pending(e, "signalInit") => initCh[e] = 0
                      /\ Pending(e, "signalClose") => closeCh[e] = 0
    BY DEF SignalsFit
  <2>1. Pending(e, "signalInit") => todo[e] \in WakingOpener
    BY DEF IInv, Pending, Remainder, WakingOpener
  <2>2. Pending(e, "signalClose") => todo[e] # <<"eof">> /\ reader[e] = "run"
    BY DEF Pending
  <2>3. QED
    BY <2>1, <2>2 DEF IInv, Signals, TypeOK
<1>2. QED
  BY <1>1, IInvInvariant, PTL

(* An end told that its close is complete is one half of a completed       *)
(* four-way or simultaneous close (kcp_mux.go:188-215).                    *)
THEOREM CloseAgrees == Spec => []CloseAgreement
<1>1. IInv => CloseAgreement
  BY DEF IInv, CloseAgreed, Closed, CloseAgreement
<1>2. QED
  BY <1>1, IInvInvariant, PTL

-----------------------------------------------------------------------------
(* Data after the handshake.  The server's is held back by InTransit.  The *)
(* client's follows the client's answer; when there was no room to queue   *)
(* that, it follows an early message, which ends the server's read loop.   *)
Heralds == {"Established", "Early"}

Has(s, M) == \E i \in 1..Len(s) : s[i] \in M

(* s carries a herald; no data in s comes before one.                      *)
Answers(s) == Has(s, Heralds)

AnswersFirst(s) ==
  \A i \in 1..Len(s) : s[i] = "Data" => \E j \in 1..i - 1 : s[j] \in Heralds

LEMMA HasEmpty == \A M : ~Has(<<>>, M)
BY DEF Has

LEMMA HasAppend ==
  ASSUME NEW s \in Seq(Msgs), NEW m \in Msgs, NEW M
  PROVE  Has(Append(s, m), M) <=> Has(s, M) \/ m \in M
<1> DEFINE a == Append(s, m)
<1>1. /\ Len(a) = Len(s) + 1 /\ Len(s) \in Nat
      /\ \A i \in 1..Len(s) : a[i] = s[i]
      /\ a[Len(s) + 1] = m
  BY AppendProperties, LenProperties
<1> HIDE DEF a
<1>2. Has(s, M) \/ m \in M => Has(a, M)
  BY <1>1 DEF Has
<1>3. ASSUME NEW i \in 1..Len(a), a[i] \in M
      PROVE  Has(s, M) \/ m \in M
  <2>1. i \in 1..Len(s) \/ i = Len(s) + 1
    BY <1>1
  <2>2. QED
    BY <1>1, <1>3, <2>1 DEF Has
<1>4. QED
  BY <1>2, <1>3 DEF Has, a

LEMMA HasConcat ==
  ASSUME NEW s \in Seq(Msgs), NEW t \in Seq(Msgs), NEW M
  PROVE  Has(s \o t, M) <=> Has(s, M) \/ Has(t, M)
<1> DEFINE a == s \o t
<1>1. /\ Len(a) = Len(s) + Len(t) /\ Len(s) \in Nat /\ Len(t) \in Nat
      /\ \A i \in 1..Len(s) : a[i] = s[i]
  BY ConcatProperties, LenProperties
<1>2. \A i \in 1..Len(t) : a[Len(s) + i] = t[i]
  BY ConcatProperties, LenProperties
<1> HIDE DEF a
<1>3. Has(s, M) => Has(a, M)
  BY <1>1 DEF Has
<1>4. ASSUME NEW i \in 1..Len(t), t[i] \in M
      PROVE  Has(a, M)
  <2>1. a[Len(s) + i] \in M /\ Len(s) + i \in 1..Len(a)
    BY <1>1, <1>2, <1>4
  <2>2. QED
    BY <2>1 DEF Has
<1>5. ASSUME NEW i \in 1..Len(a), a[i] \in M
      PROVE  Has(s, M) \/ Has(t, M)
  <2>1. CASE i \in 1..Len(s)
    BY <1>1, <1>5, <2>1 DEF Has
  <2>2. CASE i \notin 1..Len(s)
    <3>1. i - Len(s) \in 1..Len(t) /\ Len(s) + (i - Len(s)) = i
      BY <1>1, <2>2
    <3>2. t[i - Len(s)] \in M
      BY <1>2, <1>5, <3>1
    <3>3. QED
      BY <3>1, <3>2 DEF Has
  <2>3. QED
    BY <2>1, <2>2
<1>6. QED
  BY <1>3, <1>4, <1>5 DEF Has, a

LEMMA HasSubSeq ==
  ASSUME NEW s \in Seq(Msgs), NEW k \in 0..Len(s), NEW M
  PROVE  Has(s, M) <=> Has(SubSeq(s, 1, k), M) \/ Has(SubSeq(s, k + 1, Len(s)), M)
<1> DEFINE l == SubSeq(s, 1, k)
           r == SubSeq(s, k + 1, Len(s))
<1>1. Len(s) \in Nat /\ \A i \in 1..Len(s) : s[i] \in Msgs
  BY LenProperties, ElementOfSeq
<1>2. Len(l) = k /\ \A i \in 1..k : l[i] = s[i]
  BY <1>1
<1>3. Len(r) = Len(s) - k /\ \A i \in 1..Len(s) - k : r[i] = s[k + i]
  BY <1>1
<1> HIDE DEF l, r
<1>4. Has(l, M) => Has(s, M)
  BY <1>1, <1>2 DEF Has
<1>5. ASSUME NEW i \in 1..Len(r), r[i] \in M
      PROVE  Has(s, M)
  <2>1. k + i \in 1..Len(s) /\ s[k + i] \in M
    BY <1>1, <1>3, <1>5
  <2>2. QED
    BY <2>1 DEF Has
<1>6. ASSUME NEW i \in 1..Len(s), s[i] \in M
      PROVE  Has(l, M) \/ Has(r, M)
  <2>1. CASE i <= k
    BY <1>1, <1>2, <1>6, <2>1 DEF Has
  <2>2. CASE i > k
    <3>1. i - k \in 1..Len(s) - k /\ k + (i - k) = i
      BY <1>1, <2>2
    <3>2. r[i - k] \in M
      BY <1>3, <1>6, <3>1
    <3>3. QED
      BY <1>3, <3>1, <3>2 DEF Has
  <2>3. QED
    BY <1>1, <2>1, <2>2
<1>7. QED
  BY <1>4, <1>5, <1>6 DEF Has, l, r

LEMMA HasTail ==
  ASSUME NEW s \in Seq(Msgs), s # <<>>, NEW M
  PROVE  Has(s, M) <=> Head(s) \in M \/ Has(Tail(s), M)
<1> DEFINE r == Tail(s)
<1>1. /\ Len(r) = Len(s) - 1
      /\ \A i \in 1..Len(r) : r[i] = s[i + 1]
      /\ Len(s) \in Nat /\ Len(s) > 0 /\ Head(s) = s[1]
  BY HeadTailProperties, LenProperties, EmptySeq
<1> HIDE DEF r
<1>2. Head(s) \in M => Has(s, M)
  BY <1>1 DEF Has
<1>3. ASSUME NEW i \in 1..Len(r), r[i] \in M
      PROVE  Has(s, M)
  <2>1. i + 1 \in 1..Len(s) /\ s[i + 1] \in M
    BY <1>1, <1>3
  <2>2. QED
    BY <2>1 DEF Has
<1>4. ASSUME NEW i \in 1..Len(s), s[i] \in M
      PROVE  Head(s) \in M \/ Has(r, M)
  <2>1. CASE i = 1
    BY <1>1, <1>4, <2>1
  <2>2. CASE i # 1
    <3>1. i - 1 \in 1..Len(r) /\ (i - 1) + 1 = i
      BY <1>1, <2>2
    <3>2. r[i - 1] \in M
      BY <1>1, <1>4, <3>1
    <3>3. QED
      BY <3>1, <3>2 DEF Has
  <2>3. QED
    BY <2>1, <2>2
<1>5. QED
  BY <1>2, <1>3, <1>4 DEF Has, r

LEMMA AnswersEmpty == AnswersFirst(<<>>) /\ ~Answers(<<>>)
BY HasEmpty DEF AnswersFirst, Answers

LEMMA AnswersAppend ==
  ASSUME NEW s \in Seq(Msgs), NEW m \in Msgs
  PROVE  AnswersFirst(s) /\ (m = "Data" => Answers(s)) => AnswersFirst(Append(s, m))
<1> DEFINE a == Append(s, m)
<1>1. /\ Len(a) = Len(s) + 1 /\ Len(s) \in Nat
      /\ \A i \in 1..Len(s) : a[i] = s[i]
      /\ a[Len(s) + 1] = m
  BY AppendProperties, LenProperties
<1> HIDE DEF a
<1>2. ASSUME AnswersFirst(s), m = "Data" => Answers(s), NEW i \in 1..Len(a), a[i] = "Data"
      PROVE  \E j \in 1..i - 1 : a[j] \in Heralds
  <2>1. CASE i \in 1..Len(s)
    <3>1. PICK j \in 1..i - 1 : s[j] \in Heralds
      BY <1>1, <1>2, <2>1 DEF AnswersFirst
    <3>2. QED
      BY <1>1, <2>1, <3>1
  <2>2. CASE i = Len(s) + 1
    <3>1. PICK j \in 1..Len(s) : s[j] \in Heralds
      BY <1>1, <1>2, <2>2 DEF Answers, Has
    <3>2. QED
      BY <1>1, <2>2, <3>1
  <2>3. QED
    BY <1>1, <1>2, <2>1, <2>2
<1>3. QED
  BY <1>2 DEF AnswersFirst, a

LEMMA AnswersConcat ==
  ASSUME NEW s \in Seq(Msgs), NEW t \in Seq(Msgs)
  PROVE  AnswersFirst(s) /\ (Answers(s) \/ AnswersFirst(t)) => AnswersFirst(s \o t)
<1> DEFINE a == s \o t
<1>1. /\ Len(a) = Len(s) + Len(t) /\ Len(s) \in Nat /\ Len(t) \in Nat
      /\ \A i \in 1..Len(s) : a[i] = s[i]
  BY ConcatProperties, LenProperties
<1>2. \A i \in 1..Len(t) : a[Len(s) + i] = t[i]
  BY ConcatProperties, LenProperties
<1> HIDE DEF a
<1>3. ASSUME AnswersFirst(s), Answers(s) \/ AnswersFirst(t), NEW i \in 1..Len(a), a[i] = "Data"
      PROVE  \E j \in 1..i - 1 : a[j] \in Heralds
  <2>1. CASE i \in 1..Len(s)
    <3>1. PICK j \in 1..i - 1 : s[j] \in Heralds
      BY <1>1, <1>3, <2>1 DEF AnswersFirst
    <3>2. QED
      BY <1>1, <2>1, <3>1
  <2>2. CASE i \notin 1..Len(s) /\ Answers(s)
    <3>1. PICK j \in 1..Len(s) : s[j] \in Heralds
      BY <2>2 DEF Answers, Has
    <3>2. QED
      BY <1>1, <2>2, <3>1
  <2>3. CASE i \notin 1..Len(s) /\ AnswersFirst(t)
    <3>1. i - Len(s) \in 1..Len(t) /\ Len(s) + (i - Len(s)) = i
      BY <1>1, <2>3
    <3>2. t[i - Len(s)] = "Data"
      BY <1>2, <1>3, <3>1
    <3>3. PICK j \in 1..(i - Len(s)) - 1 : t[j] \in Heralds
      BY <2>3, <3>1, <3>2 DEF AnswersFirst
    <3>4. a[Len(s) + j] \in Heralds /\ Len(s) + j \in 1..i - 1
      BY <1>1, <1>2, <3>1, <3>3
    <3>5. QED
      BY <3>4
  <2>4. QED
    BY <1>3, <2>1, <2>2, <2>3
<1>4. QED
  BY <1>3 DEF AnswersFirst, a

LEMMA AnswersSubSeq ==
  ASSUME NEW s \in Seq(Msgs), NEW k \in 0..Len(s), AnswersFirst(s)
  PROVE  /\ AnswersFirst(SubSeq(s, 1, k))
         /\ Answers(SubSeq(s, 1, k)) \/ AnswersFirst(SubSeq(s, k + 1, Len(s)))
<1> DEFINE l == SubSeq(s, 1, k)
           r == SubSeq(s, k + 1, Len(s))
<1>1. Len(s) \in Nat /\ \A i \in 1..Len(s) : s[i] \in Msgs
  BY LenProperties, ElementOfSeq
<1>2. Len(l) = k /\ \A i \in 1..k : l[i] = s[i]
  BY <1>1
<1>3. Len(r) = Len(s) - k /\ \A i \in 1..Len(s) - k : r[i] = s[k + i]
  BY <1>1
<1> HIDE DEF l, r
<1>4. AnswersFirst(l)
  BY <1>1, <1>2 DEF AnswersFirst
<1>5. ASSUME ~Answers(l), NEW i \in 1..Len(r), r[i] = "Data"
      PROVE  \E j \in 1..i - 1 : r[j] \in Heralds
  <2>1. k + i \in 1..Len(s) /\ s[k + i] = "Data"
    BY <1>1, <1>3, <1>5
  <2>2. PICK j \in 1..(k + i) - 1 : s[j] \in Heralds
    BY <2>1 DEF AnswersFirst
  <2>3. j > k
    BY <1>1, <1>2, <1>5, <2>1, <2>2 DEF Answers, Has
  <2>4. j - k \in 1..i - 1 /\ j - k \in 1..Len(s) - k /\ k + (j - k) = j
    BY <1>1, <1>3, <2>1, <2>2, <2>3
  <2>5. r[j - k] \in Heralds
    BY <1>3, <2>2, <2>4
  <2>6. QED
    BY <2>4, <2>5
<1>6. QED
  BY <1>4, <1>5 DEF AnswersFirst, l, r

LEMMA AnswersTail ==
  ASSUME NEW s \in Seq(Msgs), s # <<>>, AnswersFirst(s)
  PROVE  Head(s) # "Data" /\ (Head(s) \notin Heralds => AnswersFirst(Tail(s)))
<1> DEFINE r == Tail(s)
<1>1. /\ Len(r) = Len(s) - 1
      /\ \A i \in 1..Len(r) : r[i] = s[i + 1]
      /\ Len(s) \in Nat /\ Len(s) > 0 /\ Head(s) = s[1]
  BY HeadTailProperties, LenProperties, EmptySeq
<1> HIDE DEF r
<1>2. s[1] # "Data"
  BY <1>1 DEF AnswersFirst
<1>3. ASSUME s[1] \notin Heralds, NEW i \in 1..Len(r), r[i] = "Data"
      PROVE  \E j \in 1..i - 1 : r[j] \in Heralds
  <2>1. i + 1 \in 1..Len(s) /\ s[i + 1] = "Data"
    BY <1>1, <1>3
  <2>2. PICK j \in 1..(i + 1) - 1 : s[j] \in Heralds
    BY <2>1 DEF AnswersFirst
  <2>3. j - 1 \in 1..i - 1 /\ j - 1 \in 1..Len(r) /\ (j - 1) + 1 = j
    BY <1>1, <1>3, <2>1, <2>2
  <2>4. r[j - 1] \in Heralds
    BY <1>1, <2>2, <2>3
  <2>5. QED
    BY <2>3, <2>4
<1>4. QED
  BY <1>1, <1>2, <1>3 DEF AnswersFirst, r

ClientCalls == \A p \in Closers : closer[Client][p] # "idle" => opener[Client] = "ready"

(* The client sends its request once: while that is in writeCh or not yet  *)
(* queued, the server has none.                                            *)
Asks(s) == Has(s, {"SynSent"})
Unasked == state[Server] = "Listen" /\ ~Asks(net[Server]) /\ ~Asks(cache[Server])
Unqueued == opener[Client] \in {"dial", "init"}

OneRequest ==
  /\ Unqueued => Unasked /\ ~Asks(writeCh[Client])
  /\ Asks(writeCh[Client]) => Unasked

(* Before the client queues its answer it queues only the request and      *)
(* early messages.                                                         *)
Answering == todo[Client] = <<"Established", "signalInit">>

Preface ==
  IsInline /\ (state[Client] = "SynSent" \/ Answering)
    => \A i \in 1..Len(writeCh[Client]) : writeCh[Client][i] \in {"SynSent", "Early"}

StillOpen ==
  opener[Client] \in {"dial", "init", "wait"} /\ reader[Client] = "run" => ~closeFlag[Client]

(* While the server waits for the answer, and what the client queues can   *)
(* still get there: a herald is on its way before the client sends data.   *)
Awaiting == IsInline /\ state[Server] \in Opening /\ reader[Server] = "run"

Linked == writer[Client] = "run" /\ writer[Server] # "done"

LetGo == ~InHandshake(Client)

Answered == Answers(cache[Server]) \/ Answers(net[Server])

AnswerOrder ==
  Awaiting =>
    /\ AnswersFirst(cache[Server])
    /\ Answers(cache[Server]) \/ AnswersFirst(net[Server])
    /\ Linked => Answered \/ AnswersFirst(writeCh[Client])
    /\ Linked /\ LetGo => Answered \/ Answers(writeCh[Client])

OInv == ClientCalls /\ OneRequest /\ Preface /\ StillOpen /\ AnswerOrder

LEMMA TwoEnds ==
  /\ Client \in Ends /\ Server \in Ends /\ Client # Server
  /\ Peer(Client) = Server /\ Peer(Server) = Client
BY KCPMuxAssumption DEF Ends, Peer

LEMMA InitOInv == Init => OInv
<1> SUFFICES ASSUME Init PROVE OInv
  OBVIOUS
<1>1. ClientCalls /\ StillOpen
  BY TwoEnds DEF Init, ClientCalls, StillOpen
<1>2. OneRequest /\ Preface
  BY TwoEnds, HasEmpty DEF Init, OneRequest, Asks, Unasked, Preface
<1>3. AnswerOrder
  BY TwoEnds, AnswersEmpty DEF Init, AnswerOrder, LetGo, InHandshake, Awaiting, Opening
<1>4. QED
  BY <1>1, <1>2, <1>3 DEF OInv

(* The steps that move what the client sends, from writeCh to the cache.   *)
Queues ==
  \/ MuxInit(Client) \/ SendInline(Client) \/ SendMsg(Client)
  \/ \E p \in Closers : CloseSend(Client, p)

LEMMA Carriers ==
  ASSUME TypeOK, [Next]_vars
  PROVE  \/ /\ cache'[Server] = cache[Server] /\ net'[Server] = net[Server]
            /\ writeCh'[Client] = writeCh[Client]
         \/ Queues
         \/ Read(Server) \/ HandleData(Server) \/ HandleInline(Server)
         \/ ExitRead(Server) /\ UNCHANGED <<net, writeCh>>
         \/ Write(Client) \/ WriteFail(Client) \/ ConnClose(Client) \/ ConnClose(Server)
<1> USE TwoEnds
<1> DEFINE Same == /\ cache'[Server] = cache[Server] /\ net'[Server] = net[Server]
                   /\ writeCh'[Client] = writeCh[Client]
<1>1. UNCHANGED <<cache, net, writeCh>> => Same
  OBVIOUS
<1>2. ASSUME NEW m \in Msgs, Send(Server, m), UNCHANGED <<cache, net>> PROVE Same
  BY <1>2 DEF Send, TypeOK
<1>3. ASSUME NEW e \in Ends, OpenerNext(e) \/ SendMsg(e) \/ CloseCall(e) PROVE Queues \/ Same
  <2>1. CASE e = Client
    BY <1>1, <1>3, <2>1 DEF OpenerNext, Open, InitDone, InitTimeout, InitJoin, CloseCall, Queues, readVars
  <2>2. CASE e = Server
    <3>1. CASE MuxInit(e)
      BY <1>1, <1>2, <2>2, <3>1 DEF MuxInit, readVars, Msgs, Kms
    <3>2. CASE SendMsg(e)
      BY <1>2, <2>2, <3>2 DEF SendMsg, readVars, Msgs, Payloads
    <3>3. CASE ~MuxInit(e) /\ ~SendMsg(e)
      BY <1>1, <1>3, <3>3 DEF OpenerNext, Open, InitDone, InitTimeout, InitJoin, CloseCall, readVars
    <3>4. QED
      BY <3>1, <3>2, <3>3
  <2>3. QED
    BY <2>1, <2>2 DEF Ends
<1>4. ASSUME NEW e \in Ends, NEW p \in Closers, CloserNext(e, p) PROVE Queues \/ Same
  <2>1. CASE CloseSend(e, p)
    BY <1>2, <2>1 DEF CloseSend, Queues, Ends, Msgs, Kms, readVars
  <2>2. CASE ~CloseSend(e, p)
    BY <1>1, <1>4, <2>2 DEF CloserNext, CloseEnter, CloseSignalled, CloseTimeout, CloseWaited,
       CloseAgain, CloseJoin, readVars
  <2>3. QED
    BY <2>1, <2>2
<1>5. ASSUME ReaderNext(Client) \/ ReadTimeout(Client) PROVE Queues \/ Same
  <2>1. CASE Read(Client) \/ HandleData(Client) \/ HandleInline(Client)
    BY <2>1 DEF Read, HandleData, HandleInline, ExitRead, TypeOK
  <2>2. CASE ReadFail(Client) \/ ReadTimeout(Client) \/ ReturnEOF(Client)
    BY <2>2 DEF ReadFail, ReadTimeout, ReturnEOF, ExitRead, TypeOK
  <2>3. CASE SendInline(Client)
    BY <2>3 DEF Queues
  <2>4. CASE SignalInit(Client) \/ SignalClose(Client) \/ CasLastAck(Client) \/ Disconnect(Client)
             \/ Release(Client)
    BY <1>1, <2>4 DEF SignalInit, SignalClose, CasLastAck, Disconnect, Release
  <2>5. QED
    BY <1>5, <2>1, <2>2, <2>3, <2>4 DEF ReaderNext
<1>6. ASSUME ReaderNext(Server) \/ ReadTimeout(Server)
      PROVE  \/ Same \/ Read(Server) \/ HandleData(Server) \/ HandleInline(Server)
             \/ ExitRead(Server) /\ UNCHANGED <<net, writeCh>>
  <2>1. CASE ReadFail(Server) \/ ReadTimeout(Server) \/ ReturnEOF(Server)
    BY <2>1 DEF ReadFail, ReadTimeout, ReturnEOF
  <2>2. CASE SendInline(Server)
    BY <1>2, <2>2 DEF SendInline, Msgs
  <2>3. CASE SignalInit(Server) \/ SignalClose(Server) \/ CasLastAck(Server) \/ Disconnect(Server)
             \/ Release(Server)
    BY <1>1, <2>3 DEF SignalInit, SignalClose, CasLastAck, Disconnect, Release
  <2>4. QED
    BY <1>6, <2>1, <2>2, <2>3 DEF ReaderNext
<1>7. ASSUME Write(Server) \/ WriteFail(Server) PROVE Same
  BY <1>7 DEF Write, WriteFail, Transmit, TypeOK, readVars
<1>8. CASE UNCHANGED vars
  BY <1>1, <1>8 DEF vars, readVars
<1>9. QED
  BY <1>3, <1>4, <1>5, <1>6, <1>7, <1>8 DEF Next, WriterNext, Ends

LEMMA ReadyStays ==
  ASSUME TypeOK, [Next]_vars
  PROVE  /\ opener[Client] = "ready" => opener'[Client] = "ready"
         /\ opener[Client] \in {"join", "failed"} => opener'[Client] \in {"join", "failed"}
         /\ Unqueued' => Unqueued
<1>1. CASE opener'[Client] = opener[Client]
  BY <1>1 DEF Unqueued
<1>2. CASE opener'[Client] # opener[Client]
  <2>1. Open(Client) \/ MuxInit(Client) \/ InitDone(Client) \/ InitTimeout(Client) \/ InitJoin(Client)
    BY <1>2, TwoEnds, OpenerWriters
  <2>2. QED
    BY <2>1, TwoEnds DEF Open, MuxInit, InitDone, InitTimeout, InitJoin, TypeOK, Unqueued
<1>3. QED
  BY <1>1, <1>2

LEMMA ClientCallsNext == ASSUME TypeOK, ClientCalls, [Next]_vars PROVE ClientCalls'
<1> USE TwoEnds
<1> SUFFICES ASSUME NEW p \in Closers, closer[Client][p] = "idle", closer'[Client][p] # "idle"
             PROVE  opener[Client] = "ready"
  BY ReadyStays DEF ClientCalls
<1>1. closer' # closer
  OBVIOUS
<1>2. ASSUME NEW e \in Ends, OpenerNext(e) \/ WriterNext(e) \/ ReadTimeout(e) \/ SendMsg(e)
      PROVE  FALSE
  BY <1>1, <1>2 DEF OpenerNext, Open, MuxInit, InitDone, InitTimeout, InitJoin, WriterNext, Write, WriteFail,
     ConnClose, ReadTimeout, SendMsg
<1>3. ASSUME NEW e \in Ends, ReaderNext(e) PROVE FALSE
  <2>1. Disconnect(e)
    BY <1>1, <1>3 DEF ReaderNext, Read, ReadFail, HandleData, HandleInline, SendInline, SignalInit,
       SignalClose, CasLastAck, ReturnEOF, Release
  <2>2. closer'[Client] = closer[Client]
    BY <2>1 DEF Disconnect, TypeOK
  <2>3. QED
    BY <2>2
<1>4. ASSUME NEW e \in Ends, NEW q \in Closers, CloserNext(e, q) PROVE FALSE
  <2>1. closer[e][q] # "idle"
    BY <1>4 DEF CloserNext, CloseEnter, CloseSend, CloseSignalled, CloseTimeout, CloseWaited,
       CloseAgain, CloseJoin
  <2>2. \E x : closer' = [closer EXCEPT ![e][q] = x]
    BY <1>4 DEF CloserNext, CloseEnter, CloseSend, CloseSignalled, CloseTimeout, CloseWaited,
       CloseAgain, CloseJoin
  <2>3. closer'[Client][p] = closer[Client][p] \/ (e = Client /\ q = p)
    BY <2>2 DEF TypeOK
  <2>4. QED
    BY <2>1, <2>3
<1>5. ~UNCHANGED vars
  BY <1>1 DEF vars
<1>6. PICK e \in Ends : CloseCall(e)
  BY <1>2, <1>3, <1>4, <1>5 DEF Next
<1>7. e = Client
  BY <1>6 DEF CloseCall, TypeOK
<1>8. QED
  BY <1>6, <1>7 DEF CloseCall

(* Closing one end's conn may cut what is under way at either.             *)
LEMMA ConnCloseCuts ==
  ASSUME TypeOK, NEW e \in Ends, NEW f \in Ends, ConnClose(e)
  PROVE  \E k \in 0..Len(net[f]) : net'[f] = SubSeq(net[f], 1, k)
<1>1. PICK i \in 0..Len(net[e]), j \in 0..Len(net[Peer(e)]) :
        net' = [net EXCEPT ![e] = SubSeq(@, 1, i), ![Peer(e)] = SubSeq(@, 1, j)]
  BY DEF ConnClose
<1>2. e # Peer(e) /\ (f = e \/ f = Peer(e)) /\ Peer(e) \in Ends
  BY TwoEnds DEF Ends
<1>3. net'[e] = SubSeq(net[e], 1, i) /\ net'[Peer(e)] = SubSeq(net[Peer(e)], 1, j)
  BY <1>1, <1>2 DEF TypeOK
<1> QED
  BY <1>2, <1>3

LEMMA StillOpenNext == ASSUME TypeOK, ClientCalls, StillOpen, [Next]_vars PROVE StillOpen'
<1> USE TwoEnds
<1> SUFFICES ASSUME opener'[Client] \in {"dial", "init", "wait"}, reader'[Client] = "run", closeFlag'[Client]
             PROVE  FALSE
  BY DEF StillOpen, TypeOK
<1>1. opener[Client] \in {"dial", "init", "wait"}
  <2>1. CASE opener'[Client] # opener[Client]
    <3>1. \/ Open(Client) \/ MuxInit(Client) \/ InitDone(Client)
          \/ InitTimeout(Client) \/ InitJoin(Client)
      BY <2>1, OpenerWriters
    <3>2. QED
      BY <3>1 DEF Open, MuxInit, InitDone, InitTimeout, InitJoin, TypeOK
  <2>2. QED
    BY <2>1
<1>2. \A q \in Closers : closer[Client][q] = "idle"
  BY <1>1 DEF ClientCalls
<1>3. ASSUME NEW e \in Ends, ReaderNext(e) \/ ReadTimeout(e)
      PROVE  reader[Client] = "run" /\ closeFlag[Client]
  <2>1. CASE Release(e)
    BY <2>1 DEF Release, TypeOK
  <2>2. CASE ~Release(e)
    <3>1. UNCHANGED closeFlag
      BY <1>3, <2>2 DEF ReaderNext, Read, ReadFail, ReadTimeout, HandleData, HandleInline, SendInline,
         SignalInit, SignalClose, CasLastAck, ReturnEOF, Disconnect
    <3>2. \/ UNCHANGED reader \/ reader' = [reader EXCEPT ![e] = "exited"]
          \/ reader' = [reader EXCEPT ![e] = "release"]
      BY <1>3, <2>2 DEF ReaderNext, Read, ReadFail, ReadTimeout, HandleData, HandleInline, SendInline,
         SignalInit, SignalClose, CasLastAck, ReturnEOF, Disconnect, ExitRead
    <3>3. reader[Client] # "run" => reader'[Client] # "run"
      BY <3>2 DEF TypeOK
    <3>4. QED
      BY <3>1, <3>3
  <2>3. QED
    BY <2>1, <2>2
<1>4. ASSUME NEW e \in Ends, OpenerNext(e) PROVE reader[Client] = "run" /\ closeFlag[Client]
  <2>1. UNCHANGED reader
    BY <1>4 DEF OpenerNext, Open, MuxInit, InitDone, InitTimeout, InitJoin, readVars
  <2>2. ~(InitTimeout(e) /\ e = Client)
    BY DEF InitTimeout, TypeOK
  <2>3. closeFlag'[Client] = closeFlag[Client]
    <3>1. CASE InitTimeout(e)
      BY <2>2, <3>1 DEF InitTimeout, TypeOK
    <3>2. CASE ~InitTimeout(e)
      BY <1>4, <3>2 DEF OpenerNext, Open, MuxInit, InitDone, InitJoin
    <3>3. QED
      BY <3>1, <3>2
  <2>4. QED
    BY <2>1, <2>3
<1>5. ASSUME NEW e \in Ends, NEW q \in Closers, CloserNext(e, q)
      PROVE  reader[Client] = "run" /\ closeFlag[Client]
  <2>1. e # Client
    BY <1>2, <1>5 DEF CloserNext, CloseEnter, CloseSend, CloseSignalled, CloseTimeout, CloseWaited,
       CloseAgain, CloseJoin
  <2>2. UNCHANGED reader /\ (UNCHANGED closeFlag \/ closeFlag' = [closeFlag EXCEPT ![e] = TRUE])
    BY <1>5 DEF CloserNext, CloseEnter, CloseSend, CloseSignalled, CloseTimeout, CloseWaited,
       CloseAgain, CloseJoin, readVars
  <2>3. QED
    BY <2>1, <2>2 DEF TypeOK
<1>6. ASSUME NEW e \in Ends, WriterNext(e) \/ SendMsg(e) \/ CloseCall(e) \/ UNCHANGED vars
      PROVE  reader[Client] = "run" /\ closeFlag[Client]
  BY <1>6 DEF WriterNext, Write, WriteFail, ConnClose, SendMsg, CloseCall, vars, readVars
<1>7. reader[Client] = "run" /\ closeFlag[Client]
  BY <1>3, <1>4, <1>5, <1>6 DEF Next
<1>8. QED
  BY <1>1, <1>7 DEF StillOpen

(* A request reaches the server only out of writeCh.                       *)
LEMMA UnaskedNext ==
  ASSUME IInv, Unasked, [Next]_vars, Write(Client) => ~Asks(writeCh[Client])
  PROVE  Unasked'
<1> USE TwoEnds
<1>1. TypeOK
  BY DEF IInv
<1>2. net[Server] \in Seq(Msgs) /\ cache[Server] \in Seq(Msgs) /\ writeCh[Client] \in Seq(Msgs)
  BY <1>1 DEF TypeOK
<1>3. state[Server] = "Listen" /\ ~Asks(net[Server]) /\ ~Asks(cache[Server])
  BY DEF Unasked
<1>4. state'[Server] = "Listen"
  <2>1. ASSUME NEW e \in Ends, HandleInline(e) PROVE state'[Server] = state[Server]
    <3>1. CASE e = Server
      <4>1. cache[Server] # <<>>
        BY <2>1, <3>1 DEF HandleInline, Dispatching
      <4>2. Head(cache[Server]) # "SynSent"
        BY <1>2, <1>3, <4>1, HasTail DEF Asks
      <4>3. Matches(Server) = {}
        BY <1>3, <4>2, BranchCases DEF Matches, Branch
      <4>4. QED
        BY <2>1, <3>1, <4>3 DEF HandleInline
    <3>2. CASE e # Server
      <4>1. UNCHANGED state \/ \E b \in Matches(e) : state' = [state EXCEPT ![e] = b.next]
        BY <2>1 DEF HandleInline
      <4>2. QED
        BY <1>1, <3>2, <4>1 DEF TypeOK
    <3>3. QED
      BY <3>1, <3>2
  <2>2. ASSUME NEW e \in Ends, CasLastAck(e) PROVE state'[Server] = state[Server]
    BY <1>1, <1>3, <2>2 DEF CasLastAck, TypeOK
  <2>3. ASSUME NEW e \in Ends, NEW p \in Closers, CloseEnter(e, p) PROVE state'[Server] = state[Server]
    BY <1>1, <1>3, <2>3 DEF CloseEnter, TypeOK
  <2>4. CASE state' # state
    BY <1>3, <2>1, <2>2, <2>3, <2>4, StateWriters
  <2>5. QED
    BY <1>3, <2>4
<1>5. ~Asks(net'[Server]) /\ ~Asks(cache'[Server])
  <2>1. CASE net'[Server] = net[Server] /\ cache'[Server] = cache[Server]
    BY <1>3, <2>1
  <2>2. CASE Queues
    BY <2>1, <2>2 DEF Queues, MuxInit, SendInline, SendMsg, CloseSend, readVars
  <2>3. CASE Read(Server)
    <3>1. PICK k \in 1..Len(net[Server]) :
            /\ cache'[Server] = SubSeq(net[Server], 1, k)
            /\ net'[Server] = SubSeq(net[Server], k + 1, Len(net[Server]))
      BY <1>1, <2>3 DEF Read, TypeOK
    <3>2. k \in 0..Len(net[Server])
      OBVIOUS
    <3>3. QED
      BY <1>2, <1>3, <3>1, <3>2, HasSubSeq DEF Asks
  <2>4. ASSUME ExitRead(Server), UNCHANGED net
        PROVE  ~Asks(net'[Server]) /\ ~Asks(cache'[Server])
    <3>1. cache'[Server] = <<>>
      BY <1>1, <2>4 DEF ExitRead, TypeOK
    <3>2. QED
      BY <1>3, <2>4, <3>1, HasEmpty DEF Asks
  <2>5. CASE (HandleData(Server) \/ HandleInline(Server)) /\ ~ExitRead(Server)
    <3>1. cache[Server] # <<>> /\ cache' = [cache EXCEPT ![Server] = Tail(@)] /\ UNCHANGED net
      BY <2>5 DEF HandleData, HandleInline, Dispatching
    <3>2. cache'[Server] = Tail(cache[Server])
      BY <1>1, <3>1 DEF TypeOK
    <3>3. QED
      BY <1>2, <1>3, <3>1, <3>2, HasTail DEF Asks
  <2>6. CASE (HandleData(Server) \/ HandleInline(Server)) /\ ExitRead(Server)
    BY <2>4, <2>6 DEF HandleData, HandleInline
  <2>7. CASE Write(Client)
    <3>1. net'[Server] = net[Server] \/ net'[Server] = net[Server] \o writeCh[Client]
      BY <1>1, <2>7 DEF Write, Transmit, TypeOK
    <3>2. UNCHANGED cache
      BY <2>7 DEF Write, readVars
    <3>3. ~Asks(net[Server] \o writeCh[Client])
      <4>1. ~Asks(writeCh[Client])
        BY <2>7
      <4>2. QED
        BY <1>2, <1>3, <4>1, HasConcat DEF Asks
    <3>4. QED
      BY <1>3, <3>1, <3>2, <3>3
  <2>8. CASE WriteFail(Client)
    BY <2>1, <2>8 DEF WriteFail, readVars
  <2>9. CASE ConnClose(Client) \/ ConnClose(Server)
    <3>1. PICK k \in 0..Len(net[Server]) : net'[Server] = SubSeq(net[Server], 1, k)
      BY <1>1, <2>9, ConnCloseCuts
    <3>2. UNCHANGED cache
      BY <2>9 DEF ConnClose, readVars
    <3>3. QED
      BY <1>2, <1>3, <3>1, <3>2, HasSubSeq DEF Asks
  <2>10. QED
    BY <1>1, <2>1, <2>2, <2>3, <2>4, <2>5, <2>6, <2>7, <2>8, <2>9, Carriers
<1>6. QED
  BY <1>4, <1>5 DEF Unasked

(* What the steps of the client queue.                                     *)
LEMMA Queued ==
  ASSUME IInv, ClientCalls, [Next]_vars
  PROVE  \/ writeCh'[Client] = writeCh[Client] \/ writeCh'[Client] = <<>>
         \/ \E m \in Msgs :
              /\ writeCh'[Client] = Append(writeCh[Client], m)
              /\ m = "SynSent" => MuxInit(Client)
              /\ m = "Data" => LetGo
              /\ IsInline /\ (state[Client] = "SynSent" \/ Answering)
                   => m \in {"SynSent", "Early"} \/ (SendInline(Client) /\ m = "Established")
<1> USE TwoEnds
<1> DEFINE Goal ==
      \/ writeCh'[Client] = writeCh[Client] \/ writeCh'[Client] = <<>>
      \/ \E m \in Msgs :
           /\ writeCh'[Client] = Append(writeCh[Client], m)
           /\ m = "SynSent" => MuxInit(Client)
           /\ m = "Data" => LetGo
           /\ IsInline /\ (state[Client] = "SynSent" \/ Answering)
                => m \in {"SynSent", "Early"} \/ (SendInline(Client) /\ m = "Established")
<1>1. TypeOK /\ Remainder(Client) /\ Ready(Client)
  BY DEF IInv
<1>2. ASSUME NEW m \in Msgs, Send(Client, m)
      PROVE  writeCh'[Client] = writeCh[Client] \/ writeCh'[Client] = Append(writeCh[Client], m)
  BY <1>1, <1>2 DEF Send, TypeOK
<1>3. CASE MuxInit(Client)
  <2>1. "SynSent" \in Msgs
    BY DEF Msgs, Kms
  <2>2. UNCHANGED writeCh \/ Send(Client, "SynSent")
    BY <1>3 DEF MuxInit
  <2>3. \/ writeCh'[Client] = writeCh[Client]
        \/ writeCh'[Client] = Append(writeCh[Client], "SynSent")
    BY <1>2, <2>1, <2>2
  <2>4. QED
    BY <1>3, <2>1, <2>3
<1>4. CASE SendMsg(Client)
  <2>1. PICK m \in Payloads : Send(Client, m) /\ m = (IF InHandshake(Client) THEN "Early" ELSE "Data")
    BY <1>4 DEF SendMsg, Payloads
  <2>2. m \in Msgs /\ m # "SynSent" /\ (m = "Data" => LetGo)
    BY <2>1 DEF Msgs, Payloads, LetGo
  <2>3. IsInline /\ (state[Client] = "SynSent" \/ Answering) => m = "Early"
    BY <2>1 DEF InHandshake, Answering, Opening
  <2>4. writeCh'[Client] = writeCh[Client] \/ writeCh'[Client] = Append(writeCh[Client], m)
    BY <1>2, <2>1, <2>2
  <2>5. QED
    BY <2>2, <2>3, <2>4
<1>5. CASE \E p \in Closers : CloseSend(Client, p)
  <2>1. Send(Client, "FinWait1") /\ opener[Client] = "ready"
    BY <1>5 DEF CloseSend, ClientCalls
  <2>2. IsInline => state[Client] # "SynSent" /\ ~Answering
    BY <1>1, <2>1 DEF Ready, Answering, WakingOpener, Opening
  <2>3. "FinWait1" \in Msgs
    BY DEF Msgs, Kms
  <2>4. QED
    BY <1>2, <2>1, <2>2, <2>3
<1>6. CASE SendInline(Client)
  <2>1. PICK m \in Kms : Pending(Client, m) /\ Send(Client, m)
    BY <1>6 DEF SendInline
  <2>2. m \in Msgs /\ m # "Data" /\ todo[Client] # <<>> /\ Head(todo[Client]) = m
    BY <2>1 DEF Msgs, Kms, Pending
  <2>3. m # "SynSent" /\ state[Client] # "SynSent"
    BY <1>1, <2>1, <2>2 DEF Remainder, WakingOpener, Kms
  <2>4. Answering => m = "Established"
    BY <2>2 DEF Answering
  <2>5. QED
    BY <1>2, <1>6, <2>1, <2>2, <2>3, <2>4
<1>7. CASE Read(Server) \/ HandleData(Server) \/ HandleInline(Server)
  BY <1>7 DEF Read, HandleData, HandleInline
<1>8. CASE Write(Client) \/ WriteFail(Client) \/ ConnClose(Client) \/ ConnClose(Server)
  BY <1>1, <1>8 DEF Write, WriteFail, ConnClose, TypeOK
<1>9. QED
  BY <1>1, <1>3, <1>4, <1>5, <1>6, <1>7, <1>8, Carriers DEF Queues

LEMMA OneRequestNext == ASSUME IInv, OInv, [Next]_vars PROVE OneRequest'
<1> USE TwoEnds
<1>1. TypeOK /\ ClientCalls /\ OneRequest
  BY DEF IInv, OInv
<1>2. writeCh[Client] \in Seq(Msgs)
  BY <1>1 DEF TypeOK
<1>3. Asks(writeCh'[Client]) => Asks(writeCh[Client]) \/ MuxInit(Client)
  <2>1. CASE writeCh'[Client] = writeCh[Client] \/ writeCh'[Client] = <<>>
    BY <2>1, HasEmpty DEF Asks
  <2>2. ASSUME NEW m \in Msgs, writeCh'[Client] = Append(writeCh[Client], m),
               m = "SynSent" => MuxInit(Client), Asks(writeCh'[Client])
        PROVE  Asks(writeCh[Client]) \/ MuxInit(Client)
    BY <1>2, <2>2, HasAppend DEF Asks
  <2>3. QED
    BY <1>1, <2>1, <2>2, Queued
<1>4. MuxInit(Client) => Unqueued /\ ~Unqueued' /\ ~Write(Client)
  BY <1>1 DEF MuxInit, Unqueued, TypeOK, Write
<1>5. ASSUME Unqueued' PROVE Unasked' /\ ~Asks(writeCh'[Client])
  <2>1. Unqueued /\ Unasked /\ ~Asks(writeCh[Client])
    BY <1>1, <1>5, ReadyStays DEF OneRequest
  <2>2. QED
    BY <1>3, <1>4, <1>5, <2>1, UnaskedNext
<1>6. ASSUME Asks(writeCh'[Client]) PROVE Unasked'
  <2>1. ~Write(Client)
    <3>1. Write(Client) => writeCh'[Client] = <<>>
      BY <1>1 DEF Write, TypeOK
    <3>2. QED
      BY <1>6, <3>1, HasEmpty DEF Asks
  <2>2. Unasked
    BY <1>1, <1>3, <1>4, <1>6 DEF OneRequest
  <2>3. QED
    BY <2>1, <2>2, UnaskedNext
<1>7. QED
  BY <1>5, <1>6 DEF OneRequest

LEMMA AnswerBranch ==
  ASSUME NEW b \in Branches
  PROVE  b.do = <<"Established", "signalInit">> <=> b.cur = "SynSent"
<1>1. \/ b.cur = "SynSent" /\ b.do = <<"Established", "signalInit">>
      \/ /\ b.cur # "SynSent"
         /\ \/ b.do = <<"signalInit">>
            \/ b.do = <<"SynRcvd">> \/ b.do = <<"CloseWait", "casLastAck", "LastAck">>
            \/ b.do = <<"signalClose", "eof">> \/ b.do = <<>>
            \/ b.do = <<"TimeWait", "signalClose", "eof">> \/ b.do = <<"Closing">>
            \/ b.do = <<"TimeWait">>
  BY BranchCases DEF Branch
<1>2. ASSUME b.do = <<"Established", "signalInit">>
      PROVE  b.cur = "SynSent"
  <2>1. Len(b.do) = 2 /\ b.do[1] = "Established"
    BY <1>2
  <2>2. QED
    BY <1>1, <2>1
<1>3. QED
  BY <1>1, <1>2

LEMMA AnswerRests ==
  /\ Tail(<<"Established", "signalInit">>) = <<"signalInit">>
  /\ Tail(<<"signalInit">>) = <<>>
  /\ <<"signalInit">> # <<"Established", "signalInit">>
  /\ <<>> # <<"Established", "signalInit">> /\ <<>> # <<"signalInit">>
<1>1. Len(<<>>) = 0 /\ Len(<<"signalInit">>) = 1 /\ Len(<<"Established", "signalInit">>) = 2
  OBVIOUS
<1>2. Tail(<<"Established", "signalInit">>) = <<"signalInit">>
  OBVIOUS
<1>3. Tail(<<"signalInit">>) = <<>>
  OBVIOUS
<1>4. QED
  BY <1>1, <1>2, <1>3

LEMMA PrefaceNext == ASSUME IInv, OInv, [Next]_vars PROVE Preface'
<1> USE TwoEnds
<1> SUFFICES ASSUME IsInline, state'[Client] = "SynSent" \/ Answering'
             PROVE  \A i \in 1..Len(writeCh'[Client]) : writeCh'[Client][i] \in {"SynSent", "Early"}
  BY DEF Preface
<1>1. TypeOK /\ Remainder(Client) /\ ClientCalls /\ Preface
  BY DEF IInv, OInv
<1>2. state[Client] = "SynSent" \/ Answering
  <2>1. CASE state'[Client] = "SynSent"
    BY <1>1, <2>1, StateMoves DEF Moves
  <2>2. CASE Answering' /\ HandleInline(Client) /\ todo'[Client] # todo[Client]
    <3>1. ~ExitRead(Client)
      BY <1>1, <2>2, AnswerRests DEF ExitRead, TypeOK, Answering
    <3>2. PICK b \in Matches(Client) : todo' = [todo EXCEPT ![Client] = b.do]
      BY <2>2, <3>1 DEF HandleInline
    <3>3. b \in Branches /\ b.cur = state[Client] /\ b.do = <<"Established", "signalInit">>
      BY <1>1, <2>2, <3>2 DEF Matches, TypeOK, Answering
    <3>4. QED
      BY <3>3, AnswerBranch
  <2>3. CASE Answering' /\ todo[Client] # <<>> /\ todo'[Client] = Tail(todo[Client])
    <3>1. Tail(todo[Client]) \in WakingOpener
      BY <2>3 DEF WakingOpener, Answering
    <3>2. todo[Client] \in WakingOpener
      BY <1>1, <2>3, <3>1, RestOfBranch
    <3>3. QED
      BY <2>3, <3>2, AnswerRests DEF WakingOpener, Answering
  <2>4. CASE Answering' /\ todo'[Client] = todo[Client]
    BY <2>4 DEF Answering
  <2>5. Answering' => todo'[Client] # <<>>
    BY AnswerRests DEF Answering
  <2>6. QED
    BY <1>1, <2>1, <2>2, <2>3, <2>4, <2>5, TodoWriters
<1>3. /\ writeCh[Client] \in Seq(Msgs)
      /\ \A i \in 1..Len(writeCh[Client]) : writeCh[Client][i] \in {"SynSent", "Early"}
  BY <1>1, <1>2 DEF Preface, TypeOK
<1>4. ~SendInline(Client)
  <2>1. SUFFICES ASSUME SendInline(Client) PROVE FALSE
    OBVIOUS
  <2>2. PICK m \in Kms : Pending(Client, m)
    BY <2>1 DEF SendInline
  <2>3. state[Client] # "SynSent"
    BY <1>1, <2>2 DEF Pending, Remainder, WakingOpener, Kms
  <2>4. Answering
    BY <1>2, <2>3
  <2>5. todo'[Client] = <<"signalInit">> /\ UNCHANGED state
    BY <1>1, <2>1, <2>4, AnswerRests DEF SendInline, Advance, Answering, TypeOK, muxVars
  <2>6. QED
    BY <2>3, <2>5, AnswerRests DEF Answering
<1>5. CASE writeCh'[Client] = writeCh[Client]
  BY <1>3, <1>5
<1>6. CASE writeCh'[Client] = <<>>
  BY <1>6
<1>7. ASSUME NEW m \in {"SynSent", "Early"}, writeCh'[Client] = Append(writeCh[Client], m)
      PROVE  \A i \in 1..Len(writeCh'[Client]) : writeCh'[Client][i] \in {"SynSent", "Early"}
  <2>1. m \in Msgs
    BY DEF Msgs, Kms, Payloads
  <2>2. /\ Len(writeCh'[Client]) = Len(writeCh[Client]) + 1 /\ Len(writeCh[Client]) \in Nat
        /\ \A i \in 1..Len(writeCh[Client]) : writeCh'[Client][i] = writeCh[Client][i]
        /\ writeCh'[Client][Len(writeCh[Client]) + 1] = m
    BY <1>3, <1>7, <2>1, AppendProperties, LenProperties
  <2>3. QED
    BY <1>3, <2>2
<1>8. QED
  BY <1>1, <1>2, <1>4, <1>5, <1>6, <1>7, Queued

(* Nothing but queueing it ends the wait for the client's answer.          *)
LEMMA AnswerPending ==
  ASSUME TypeOK, [Next]_vars, Answering, ~Answering'
  PROVE  SendInline(Client)
<1> USE TwoEnds
<1>1. todo'[Client] # todo[Client]
  BY DEF Answering
<1>2. todo[Client] # <<>> /\ Head(todo[Client]) = "Established"
  BY AnswerRests DEF Answering
<1>3. ASSUME NEW e \in Ends, e # Client, ReaderNext(e) \/ ReadTimeout(e) PROVE FALSE
  <2>1. \/ UNCHANGED todo \/ \E t : todo' = [todo EXCEPT ![e] = t]
    BY <1>3 DEF ReaderNext, Read, ReadFail, ReadTimeout, HandleData, HandleInline, SendInline,
       SignalInit, SignalClose, CasLastAck, ReturnEOF, Disconnect, Release, ExitRead, Advance
  <2>2. QED
    BY <1>1, <1>3, <2>1 DEF TypeOK
<1>4. ASSUME ReaderNext(Client) \/ ReadTimeout(Client) PROVE SendInline(Client)
  <2>1. ~Pending(Client, "signalInit") /\ ~Pending(Client, "signalClose")
        /\ ~Pending(Client, "casLastAck") /\ ~Pending(Client, "eof")
    BY <1>2 DEF Pending
  <2>2. UNCHANGED todo => FALSE
    BY <1>1
  <2>3. QED
    BY <1>2, <1>4, <2>1, <2>2 DEF ReaderNext, Read, ReadFail, ReadTimeout, HandleData, HandleInline,
       Dispatching, SignalInit, SignalClose, CasLastAck, ReturnEOF, Disconnect, Release
<1>5. ASSUME NEW e \in Ends, OpenerNext(e) \/ WriterNext(e) \/ SendMsg(e) \/ CloseCall(e) PROVE FALSE
  BY <1>1, <1>5 DEF OpenerNext, Open, MuxInit, InitDone, InitTimeout, InitJoin, WriterNext, Write,
     WriteFail, ConnClose, SendMsg, CloseCall, readVars
<1>6. ASSUME NEW e \in Ends, NEW p \in Closers, CloserNext(e, p) PROVE FALSE
  BY <1>1, <1>6 DEF CloserNext, CloseEnter, CloseSend, CloseSignalled, CloseTimeout, CloseWaited,
     CloseAgain, CloseJoin, readVars
<1>7. ~UNCHANGED vars
  BY <1>1 DEF vars, readVars
<1>8. QED
  BY <1>3, <1>4, <1>5, <1>6, <1>7 DEF Next

(* The client is let go by the answer's being sent.                        *)
LEMMA LetGoNext ==
  ASSUME IInv, [Next]_vars, IsInline, LetGo', ~LetGo
  PROVE  SendInline(Client) /\ Answering /\ opener[Client] \notin {"join", "failed"}
<1> USE TwoEnds
<1>1. TypeOK /\ Roles
  BY DEF IInv
<1>2. state'[Client] \notin Opening /\ ~Answering' /\ opener'[Client] \notin {"join", "failed"}
  BY DEF LetGo, InHandshake, Answering
<1>3. opener[Client] \notin {"join", "failed"}
  BY <1>1, <1>2, ReadyStays
<1>4. state[Client] \notin Opening
  <2>1. SUFFICES ASSUME state[Client] \in Opening PROVE FALSE
    OBVIOUS
  <2>2. state[Client] = "SynSent" /\ state'[Client] # state[Client]
    BY <1>1, <1>2, <2>1 DEF Roles, Opening
  <2>3. PICK e \in Ends : \/ HandleInline(e) \/ CasLastAck(e)
                          \/ \E p \in Closers : CloseEnter(e, p)
    BY <2>2, StateWriters
  <2>4. \/ CasLastAck(e) \/ \E p \in Closers : CloseEnter(e, p)
        => state'[Client] = state[Client]
    BY <1>1, <2>2 DEF CasLastAck, CloseEnter, TypeOK
  <2>5. HandleInline(e)
    BY <2>2, <2>3, <2>4
  <2>6. PICK b \in Matches(e) : /\ state' = [state EXCEPT ![e] = b.next]
                                /\ todo' = [todo EXCEPT ![e] = b.do]
    BY <2>2, <2>5 DEF HandleInline
  <2>7. e = Client
    BY <1>1, <2>2, <2>6 DEF TypeOK
  <2>8. b \in Branches /\ b.cur = "SynSent" /\ todo'[Client] = b.do
    BY <1>1, <2>2, <2>6, <2>7 DEF Matches, TypeOK
  <2>9. QED
    BY <1>2, <2>8, AnswerBranch DEF Answering
<1>5. Answering
  BY <1>3, <1>4 DEF LetGo, InHandshake, Answering
<1>6. QED
  BY <1>1, <1>2, <1>3, <1>5, AnswerPending

LEMMA AwaitingStays ==
  ASSUME TypeOK, [Next]_vars
  PROVE  (Awaiting' => Awaiting) /\ (Linked' => Linked)
<1> USE TwoEnds
<1>1. state'[Server] \in Opening => state[Server] \in Opening
  BY StateMoves DEF Moves, Opening
<1> DEFINE Goal == /\ reader'[Server] = "run" => reader[Server] = "run"
                   /\ writer'[Client] = "run" => writer[Client] = "run"
                   /\ writer[Server] = "done" => writer'[Server] = "done"
<1>2. UNCHANGED <<reader, writer>> => Goal
  OBVIOUS
<1>3. ASSUME NEW e \in Ends, ReaderNext(e) \/ ReadTimeout(e) PROVE Goal
  <2>1. UNCHANGED writer
    BY <1>3 DEF ReaderNext, Read, ReadFail, ReadTimeout, HandleData, HandleInline, SendInline,
       SignalInit, SignalClose, CasLastAck, ReturnEOF, Disconnect, Release
  <2>2. \/ UNCHANGED reader
        \/ \E r \in {"exited", "release", "done"} : reader' = [reader EXCEPT ![e] = r]
    BY <1>3 DEF ReaderNext, Read, ReadFail, ReadTimeout, HandleData, HandleInline, SendInline,
       SignalInit, SignalClose, CasLastAck, ReturnEOF, Disconnect, Release, ExitRead
  <2>3. QED
    BY <2>1, <2>2 DEF TypeOK
<1>4. ASSUME NEW e \in Ends, WriterNext(e) PROVE Goal
  <2>1. UNCHANGED reader
    BY <1>4 DEF WriterNext, Write, WriteFail, ConnClose, readVars
  <2>2. \/ UNCHANGED writer
        \/ writer[e] = "run" /\ writer' = [writer EXCEPT ![e] = "closing"]
        \/ writer[e] = "run" /\ writer' = [writer EXCEPT ![e] = "failed"]
        \/ writer' = [writer EXCEPT ![e] = "done"]
    BY <1>4 DEF WriterNext, Write, WriteFail, ConnClose
  <2>3. QED
    BY <2>1, <2>2 DEF TypeOK
<1>5. ASSUME NEW e \in Ends, OpenerNext(e) \/ SendMsg(e) \/ CloseCall(e) PROVE Goal
  BY <1>2, <1>5 DEF OpenerNext, Open, MuxInit, InitDone, InitTimeout, InitJoin, SendMsg, CloseCall, readVars
<1>6. ASSUME NEW e \in Ends, NEW p \in Closers, CloserNext(e, p) PROVE Goal
  BY <1>2, <1>6 DEF CloserNext, CloseEnter, CloseSend, CloseSignalled, CloseTimeout, CloseWaited,
     CloseAgain, CloseJoin, readVars
<1>7. ASSUME UNCHANGED vars PROVE Goal
  <2>1. UNCHANGED <<reader, writer>>
    BY <1>7 DEF vars, readVars
  <2>2. QED
    BY <1>2, <2>1
<1> HIDE DEF Goal
<1>8. Goal
  BY <1>3, <1>4, <1>5, <1>6, <1>7 DEF Next
<1>9. QED
  BY <1>1, <1>8 DEF Awaiting, Linked, Goal

(* The steps that queue: data only behind the answer, and the answer       *)
(* before the client is let go.                                            *)
LEMMA QueuesOrder == ASSUME IInv, OInv, [Next]_vars, Queues PROVE AnswerOrder'
<1> USE TwoEnds
<1>1. TypeOK /\ ClientCalls
  BY DEF IInv, OInv
<1>2. writeCh[Client] \in Seq(Msgs)
  BY <1>1 DEF TypeOK
<1> SUFFICES ASSUME Awaiting'
             PROVE  /\ AnswersFirst(cache'[Server])
                    /\ Answers(cache'[Server]) \/ AnswersFirst(net'[Server])
                    /\ Linked' => Answered' \/ AnswersFirst(writeCh'[Client])
                    /\ Linked' /\ LetGo' => Answered' \/ Answers(writeCh'[Client])
  BY DEF AnswerOrder
<1>3. UNCHANGED <<cache, net>>
  BY DEF Queues, MuxInit, SendInline, SendMsg, CloseSend, readVars
<1>4. (Answered' <=> Answered) /\ Awaiting /\ (Linked' => Linked)
  BY <1>1, <1>3, AwaitingStays DEF Answered
<1>5. /\ AnswersFirst(cache[Server]) /\ (Answers(cache[Server]) \/ AnswersFirst(net[Server]))
      /\ Linked => Answered \/ AnswersFirst(writeCh[Client])
      /\ Linked /\ LetGo => Answered \/ Answers(writeCh[Client])
  BY <1>4 DEF OInv, AnswerOrder
<1>6. \/ writeCh'[Client] = writeCh[Client]
      \/ \E m \in Msgs : /\ writeCh'[Client] = Append(writeCh[Client], m)
                         /\ m = "Data" => LetGo
  <2>1. ASSUME NEW m \in Msgs, Send(Client, m)
        PROVE  writeCh'[Client] = writeCh[Client] \/ writeCh'[Client] = Append(writeCh[Client], m)
    BY <1>1, <2>1 DEF Send, TypeOK
  <2>2. CASE MuxInit(Client)
    BY <2>1, <2>2 DEF MuxInit, Msgs, Kms
  <2>3. CASE SendInline(Client)
    BY <2>1, <2>3 DEF SendInline, Msgs, Kms
  <2>4. CASE SendMsg(Client)
    <3>1. PICK m \in Payloads : /\ Send(Client, m)
                               /\ m = IF InHandshake(Client) THEN "Early" ELSE "Data"
      BY <2>4 DEF SendMsg, Payloads
    <3>2. m \in Msgs /\ (m = "Data" => LetGo)
      BY <3>1 DEF Msgs, LetGo
    <3>3. writeCh'[Client] = writeCh[Client] \/ writeCh'[Client] = Append(writeCh[Client], m)
      BY <2>1, <3>1, <3>2
    <3>4. QED
      BY <3>2, <3>3
  <2>5. CASE \E p \in Closers : CloseSend(Client, p)
    <3>1. Send(Client, "FinWait1") /\ "FinWait1" \in Msgs
      BY <2>5 DEF CloseSend, Msgs, Kms
    <3>2. \/ writeCh'[Client] = writeCh[Client]
          \/ writeCh'[Client] = Append(writeCh[Client], "FinWait1")
      BY <2>1, <3>1
    <3>3. QED
      BY <3>1, <3>2
  <2>6. QED
    BY <2>2, <2>3, <2>4, <2>5 DEF Queues
<1>7. ASSUME Linked' PROVE Answered \/ AnswersFirst(writeCh'[Client])
  <2>1. CASE writeCh'[Client] = writeCh[Client]
    BY <1>4, <1>5, <1>7, <2>1
  <2>2. ASSUME NEW m \in Msgs, writeCh'[Client] = Append(writeCh[Client], m),
               m = "Data" => LetGo, ~Answered
        PROVE  AnswersFirst(writeCh'[Client])
    <3>1. AnswersFirst(writeCh[Client]) /\ (m = "Data" => Answers(writeCh[Client]))
      BY <1>4, <1>5, <1>7, <2>2
    <3>2. QED
      BY <1>2, <2>2, <3>1, AnswersAppend
  <2>3. QED
    BY <1>6, <2>1, <2>2
<1>8. ASSUME Linked', LetGo' PROVE Answered \/ Answers(writeCh'[Client])
  <2>1. CASE LetGo
    <3>1. Answered \/ Answers(writeCh[Client])
      BY <1>4, <1>5, <1>8, <2>1
    <3>2. Answers(writeCh[Client]) => Answers(writeCh'[Client])
      <4>1. ASSUME NEW m \in Msgs, writeCh'[Client] = Append(writeCh[Client], m),
                   Answers(writeCh[Client])
            PROVE  Answers(writeCh'[Client])
        BY <1>2, <4>1, HasAppend DEF Answers
      <4>2. QED
        BY <1>6, <4>1
    <3>3. QED
      BY <3>1, <3>2
  <2>2. CASE ~LetGo
    <3>1. /\ SendInline(Client) /\ Answering /\ opener[Client] \notin {"join", "failed"}
          /\ IsInline /\ Head(todo[Client]) = "Established"
      BY <1>4, <1>8, <2>2, LetGoNext DEF Awaiting, Answering
    <3>2. Send(Client, "Established") /\ reader[Client] = "run"
      BY <3>1 DEF SendInline, Pending
    <3>3. opener[Client] \in {"dial", "init", "wait"}
      BY <1>1, <3>1 DEF IInv, Ready, TypeOK, Answering, WakingOpener
    <3>4. ~closeFlag[Client]
      BY <3>2, <3>3 DEF OInv, StillOpen
    <3>5. CASE Len(writeCh[Client]) < WriteChanLimit
      <4>1. ~(Len(writeCh[Client]) >= WriteChanLimit)
        BY <1>2, <3>5, KCPMuxAssumption, LenProperties
      <4>2. writeCh'[Client] = Append(writeCh[Client], "Established")
        BY <1>1, <3>2, <3>4, <4>1 DEF Send, TypeOK
      <4>3. "Established" \in Msgs /\ "Established" \in Heralds
        BY DEF Msgs, Kms, Heralds
      <4>4. QED
        BY <1>2, <4>2, <4>3, HasAppend DEF Answers
    <3>6. CASE ~(Len(writeCh[Client]) < WriteChanLimit)
      <4>1. writeCh'[Client] = writeCh[Client]
        BY <3>2, <3>6 DEF Send
      <4>2. 1 \in 1..Len(writeCh[Client])
        BY <1>2, <3>6, KCPMuxAssumption, LenProperties
      <4>3. writeCh[Client][1] \in {"SynSent", "Early"}
        BY <3>1, <4>2 DEF OInv, Preface
      <4>4. state[Client] # "SynSent" /\ state[Server] # "Listen"
        BY <3>1, AnswerRests DEF IInv, Remainder, Answering, HandshakeAgreement, WakingOpener
      <4>5. ~Asks(writeCh[Client])
        BY <4>4 DEF OInv, OneRequest, Unasked
      <4>6. writeCh[Client][1] = "Early"
        BY <4>2, <4>3, <4>5 DEF Asks, Has
      <4>7. QED
        BY <4>1, <4>2, <4>6 DEF Answers, Has, Heralds
    <3>7. QED
      BY <3>5, <3>6
  <2>3. QED
    BY <2>1, <2>2
<1>9. QED
  BY <1>3, <1>4, <1>5, <1>7, <1>8

(* The steps that carry: from writeCh to the net, and on to the cache.     *)
LEMMA CarryOrder ==
  ASSUME IInv, OInv, [Next]_vars, ~Queues,
         \/ Read(Server) \/ Write(Client) \/ WriteFail(Client)
         \/ ConnClose(Client) \/ ConnClose(Server)
  PROVE  AnswerOrder'
<1> USE TwoEnds
<1>1. TypeOK
  BY DEF IInv
<1>2. writeCh[Client] \in Seq(Msgs) /\ net[Server] \in Seq(Msgs) /\ cache[Server] \in Seq(Msgs)
  BY <1>1 DEF TypeOK
<1> SUFFICES ASSUME Awaiting'
             PROVE  /\ AnswersFirst(cache'[Server])
                    /\ Answers(cache'[Server]) \/ AnswersFirst(net'[Server])
                    /\ Linked' => Answered' \/ AnswersFirst(writeCh'[Client])
                    /\ Linked' /\ LetGo' => Answered' \/ Answers(writeCh'[Client])
  BY DEF AnswerOrder
<1>3. Awaiting /\ IsInline /\ (Linked' => Linked)
  BY <1>1, AwaitingStays DEF Awaiting
<1>4. LetGo' => LetGo
  <2>1. ~SendInline(Client)
    BY DEF Queues
  <2>2. QED
    BY <1>3, <2>1, LetGoNext
<1>5. /\ AnswersFirst(cache[Server]) /\ (Answers(cache[Server]) \/ AnswersFirst(net[Server]))
      /\ Linked => Answered \/ AnswersFirst(writeCh[Client])
      /\ Linked /\ LetGo => Answered \/ Answers(writeCh[Client])
  BY <1>3 DEF OInv, AnswerOrder
<1>6. CASE Read(Server)
  <2>1. cache[Server] = <<>> /\ UNCHANGED writeCh
    BY <1>6 DEF Read
  <2>2. PICK k \in 1..Len(net[Server]) :
          /\ cache'[Server] = SubSeq(net[Server], 1, k)
          /\ net'[Server] = SubSeq(net[Server], k + 1, Len(net[Server]))
    BY <1>1, <1>6 DEF Read, TypeOK
  <2>3. k \in 0..Len(net[Server])
    OBVIOUS
  <2>4. AnswersFirst(net[Server]) /\ (Answered <=> Answers(net[Server]))
    BY <1>5, <2>1, AnswersEmpty DEF Answered
  <2>5. /\ AnswersFirst(cache'[Server])
        /\ Answers(cache'[Server]) \/ AnswersFirst(net'[Server])
        /\ Answered => Answered'
    BY <1>2, <2>2, <2>3, <2>4, AnswersSubSeq, HasSubSeq DEF Answered, Answers
  <2>6. QED
    BY <1>3, <1>4, <1>5, <2>1, <2>5
<1>7. CASE Write(Client)
  <2>1. writeCh'[Client] = <<>> /\ UNCHANGED cache
    BY <1>1, <1>7 DEF Write, TypeOK, readVars
  <2>2. CASE writer[Server] = "done"
    <3>1. UNCHANGED net /\ ~Linked
      BY <1>7, <2>2 DEF Write, Transmit, Linked
    <3>2. QED
      BY <1>3, <1>5, <2>1, <3>1
  <2>3. CASE writer[Server] # "done"
    <3>1. net'[Server] = net[Server] \o writeCh[Client]
      BY <1>1, <1>7, <2>3 DEF Write, Transmit, TypeOK
    <3>2. Linked
      BY <1>7, <2>3 DEF Write, Linked
    <3>3. Answered \/ AnswersFirst(writeCh[Client])
      BY <1>5, <3>2
    <3>4. Answers(cache'[Server]) \/ AnswersFirst(net'[Server])
      BY <1>2, <1>5, <2>1, <3>1, <3>3, AnswersConcat DEF Answered
    <3>5. Answered \/ Answers(writeCh[Client]) => Answered'
      BY <1>2, <2>1, <3>1, HasConcat DEF Answered, Answers
    <3>6. QED
      BY <1>3, <1>4, <1>5, <2>1, <3>2, <3>4, <3>5, AnswersEmpty
  <2>4. QED
    BY <2>2, <2>3
<1>8. CASE WriteFail(Client)
  <2>1. ~Linked' /\ UNCHANGED <<cache, net>>
    BY <1>1, <1>8 DEF WriteFail, TypeOK, Linked, readVars
  <2>2. QED
    BY <1>5, <2>1
<1>9. CASE ConnClose(Client) \/ ConnClose(Server)
  <2>1. ~Linked' /\ UNCHANGED cache
    BY <1>1, <1>9 DEF ConnClose, TypeOK, Linked, readVars
  <2>2. PICK k \in 0..Len(net[Server]) : net'[Server] = SubSeq(net[Server], 1, k)
    BY <1>1, <1>9, TwoEnds, ConnCloseCuts
  <2>3. AnswersFirst(net[Server]) => AnswersFirst(net'[Server])
    BY <1>2, <2>2, AnswersSubSeq
  <2>4. QED
    BY <1>5, <2>1, <2>3
<1>10. QED
  BY <1>6, <1>7, <1>8, <1>9

(* The server's read loop: waiting for the answer it goes on only past     *)
(* SynSent.                                                                *)
LEMMA DispatchOrder ==
  ASSUME IInv, OInv, [Next]_vars, ~Queues,
         \/ HandleData(Server) \/ HandleInline(Server)
         \/ ExitRead(Server) /\ UNCHANGED <<net, writeCh>>
  PROVE  AnswerOrder'
<1> USE TwoEnds
<1>1. TypeOK
  BY DEF IInv
<1> SUFFICES ASSUME Awaiting'
             PROVE  /\ AnswersFirst(cache'[Server])
                    /\ Answers(cache'[Server]) \/ AnswersFirst(net'[Server])
                    /\ Linked' => Answered' \/ AnswersFirst(writeCh'[Client])
                    /\ Linked' /\ LetGo' => Answered' \/ Answers(writeCh'[Client])
  BY DEF AnswerOrder
<1>2. Awaiting /\ (Linked' => Linked)
  BY <1>1, AwaitingStays
<1>3. LetGo' => LetGo
  <2>1. ~SendInline(Client)
    BY DEF Queues
  <2>2. QED
    BY <1>2, <2>1, LetGoNext DEF Awaiting
<1>4. /\ AnswersFirst(cache[Server]) /\ (Answers(cache[Server]) \/ AnswersFirst(net[Server]))
      /\ Linked => Answered \/ AnswersFirst(writeCh[Client])
      /\ Linked /\ LetGo => Answered \/ Answers(writeCh[Client])
  BY <1>2 DEF OInv, AnswerOrder
<1>5. ~ExitRead(Server)
  BY <1>1 DEF ExitRead, TypeOK, Awaiting
<1>6. ~HandleData(Server)
  <2>1. ~Accepts(Server)
    BY <1>2 DEF Accepts, Awaiting, Opening
  <2>2. QED
    BY <1>5, <2>1 DEF HandleData
<1>7. HandleInline(Server)
  BY <1>5, <1>6
<1>8. PICK b \in Matches(Server) : /\ state' = [state EXCEPT ![Server] = b.next]
                                  /\ cache' = [cache EXCEPT ![Server] = Tail(@)]
  BY <1>5, <1>7 DEF HandleInline
<1>9. /\ b \in Branches /\ b.cur = state[Server] /\ b.recv = Head(cache[Server])
      /\ b.next \in Opening /\ cache'[Server] = Tail(cache[Server])
  BY <1>1, <1>8 DEF Matches, TypeOK, Awaiting
<1>10. b.recv = "SynSent"
  BY <1>9, BranchCases DEF Branch, Opening
<1>11. cache[Server] \in Seq(Msgs) /\ cache[Server] # <<>>
  BY <1>1, <1>7 DEF HandleInline, Dispatching, TypeOK
<1>12. /\ AnswersFirst(cache'[Server])
       /\ Answers(cache[Server]) => Answers(cache'[Server])
  <2>1. Head(cache[Server]) \notin Heralds
    BY <1>9, <1>10 DEF Heralds
  <2>2. QED
    BY <1>4, <1>9, <1>11, <2>1, AnswersTail, HasTail DEF Answers
<1>13. UNCHANGED <<net, writeCh>>
  BY <1>7 DEF HandleInline
<1>14. Answered => Answered'
  BY <1>12, <1>13 DEF Answered
<1>15. QED
  BY <1>2, <1>3, <1>4, <1>12, <1>13, <1>14

LEMMA AnswerOrderNext == ASSUME IInv, OInv, [Next]_vars PROVE AnswerOrder'
<1> USE TwoEnds
<1>1. TypeOK
  BY DEF IInv
<1>2. CASE Queues
  BY <1>2, QueuesOrder
<1>3. CASE /\ ~Queues
           /\ cache'[Server] = cache[Server] /\ net'[Server] = net[Server]
           /\ writeCh'[Client] = writeCh[Client]
  <2> SUFFICES ASSUME Awaiting' PROVE AnswerOrder'
    BY DEF AnswerOrder
  <2>1. Awaiting /\ (Linked' => Linked)
    BY <1>1, AwaitingStays
  <2>2. LetGo' => LetGo
    <3>1. ~SendInline(Client)
      BY <1>3 DEF Queues
    <3>2. QED
      BY <2>1, <3>1, LetGoNext DEF Awaiting
  <2>3. Answered' <=> Answered
    BY <1>3 DEF Answered
  <2>4. QED
    BY <1>3, <2>1, <2>2, <2>3 DEF OInv, AnswerOrder
<1>4. CASE ~Queues
  BY <1>1, <1>3, <1>4, Carriers, CarryOrder, DispatchOrder
<1>5. QED
  BY <1>2, <1>4

LEMMA OInvInvariant == Spec => []OInv
<1>1. IInv /\ OInv /\ [Next]_vars => OInv'
  <2>1. SUFFICES ASSUME IInv, OInv, [Next]_vars PROVE OInv'
    OBVIOUS
  <2>2. TypeOK /\ ClientCalls /\ StillOpen
    BY <2>1 DEF IInv, OInv
  <2>3. QED
    BY <2>1, <2>2, ClientCallsNext, OneRequestNext, PrefaceNext, StillOpenNext,
       AnswerOrderNext DEF OInv
<1>2. QED
  BY <1>1, InitOInv, IInvInvariant, PTL DEF Spec

(* A message the application sends after its end's part of the handshake   *)
(* reaches onMsg only when the other end has left the handshake too, where *)
(* it would answer "not established" and drop the connection               *)
(* (kcp_mux.go:132).  A full writeCh may have refused the client's answer, *)
(* an init may time out, writes may fail and tails be lost; an early       *)
(* message, sent from onConnect say, does end the other end's read loop,   *)
(* and then what follows it is not read.                                   *)
THEOREM DataComesAfter == Spec => []DataAfterHandshake
<1>1. ASSUME IInv, OInv, NEW e \in Ends, IsInline, Dispatching(e), Head(cache[e]) = "Data"
      PROVE  state[e] \notin Opening
  <2> USE TwoEnds
  <2>1. cache[e] \in Seq(Msgs) /\ cache[e] # <<>> /\ reader[e] = "run"
    BY <1>1 DEF Dispatching, IInv, TypeOK
  <2>2. CASE e = Client
    <3>1. Claims(cache[Client], state[Server])
      BY <1>1 DEF IInv, InTransit
    <3>2. Vouched("Data", state[Server])
      BY <1>1, <2>1, <2>2, <3>1, ClaimsTail
    <3>3. state[Server] \notin Opening
      BY <1>1, <3>2 DEF Vouched
    <3>4. state[Client] # "SynSent"
      BY <1>1, <3>3 DEF IInv, HandshakeAgreement, Opening
    <3>5. QED
      BY <1>1, <2>2, <3>4 DEF IInv, Roles, Opening
  <2>3. CASE e = Server
    <3>1. SUFFICES ASSUME state[Server] \in Opening PROVE FALSE
      BY <2>3
    <3>2. AnswersFirst(cache[Server])
      BY <1>1, <2>1, <2>3, <3>1 DEF OInv, AnswerOrder, Awaiting
    <3>3. Head(cache[Server]) # "Data"
      BY <1>1, <2>1, <2>3, <3>2, AnswersTail
    <3>4. QED
      BY <1>1, <2>3, <3>3
  <2>4. QED
    BY <2>2, <2>3 DEF Ends
<1>2. IInv /\ OInv => DataAfterHandshake
  BY <1>1 DEF DataAfterHandshake
<1>3. QED
  BY <1>2, IInvInvariant, OInvInvariant, PTL
=============================================================================
