------------------------------- MODULE KCPMux -------------------------------
(***************************************************************************)
(* One KCP connection of pkg/xnet: the three-way handshake and four-way    *)
(* close of the built-in protocol (kcp_mux.go), run by the goroutines of   *)
(* the two KCPSockets (kcp_socket.go) at its ends.                         *)
(*                                                                         *)
(* Processes of an end e: the goroutine that creates the socket and waits  *)
(* in mux.init (opener), the read loop (reader), the write loop (writer),  *)
(* the application's Close call and, on the server, the Close call the     *)
(* read loop itself makes through releaseFn = KCPServer.deleteSocket       *)
(* (closer).  Every atomic load, compare-and-swap and channel operation    *)
(* they use to interact is a step of its own.                              *)
(*                                                                         *)
(* Environment.  A KCP session (vendored kcp-go) delivers bytes reliably   *)
(* and in order while both sessions are open.  When Faulty, closing a      *)
(* session may lose any tail of what is in transit, conn.Write and the     *)
(* application's handler may fail, and any timeout may expire at any time. *)
(* Messages arrive whole: how onMsg cuts the byte stream is not modelled   *)
(* here.  The application has its socket from onConnect on, before the     *)
(* handshake, and may send at once; it calls Close when newKCPSocket has   *)
(* returned the socket.                                                    *)
(***************************************************************************)
EXTENDS Integers, Sequences

CONSTANTS
  Client, Server,   \* the two ends: mux.isListen holds of Server only
  IsInline,         \* whether the built-in protocol is enabled
  Faulty,           \* whether the environment misbehaves, see above
  ClosingEnds,      \* the ends whose application calls Close
  WriteChanLimit,   \* capacity of KCPSocket.writeCh (200 in common.go)
  MaxData           \* bound: application messages each end may send

ASSUME KCPMuxAssumption ==
  /\ Client # Server
  /\ IsInline \in BOOLEAN
  /\ Faulty \in BOOLEAN
  /\ ClosingEnds \subseteq {Client, Server}
  /\ WriteChanLimit \in Nat \ {0}
  /\ MaxData \in Nat

Ends == {Client, Server}
Peer(e) == IF e = Client THEN Server ELSE Client

(* The mux states of kcp_mux.go, with the integers the code gives them.    *)
KmsNumber == [SynSent |-> -2, Listen |-> -1, SynRcvd |-> 0, Established |-> 1,
              FinWait1 |-> 2, CloseWait |-> 3, FinWait2 |-> 4, Closing |-> 5,
              TimeWait |-> 6, LastAck |-> 7]
Kms == {"SynSent", "Listen", "SynRcvd", "Established", "FinWait1",
        "CloseWait", "FinWait2", "Closing", "TimeWait", "LastAck"}
Opening == {"SynSent", "Listen", "SynRcvd"}

(* An inline message carries a mux state (kcpExchange), the others are the *)
(* application's.  The code treats those alike; the model tells apart the  *)
(* Early ones, sent before the sender's part of the handshake.             *)
Payloads == {"Data", "Early"}
Msgs == Kms \cup Payloads
Ops == Kms \cup {"signalInit", "signalClose", "casLastAck", "eof"}
Closers == {"user", "reader"}

VARIABLES
  state,      \* kcpMux.state
  initCh,     \* tokens in kcpMux.initCh (capacity 1)
  closeCh,    \* tokens in kcpMux.closeCh (capacity 1)
  once,       \* kcpMux.closeOnce: "no", "running" or "done"
  writeCh,    \* KCPSocket.writeCh
  closeFlag,  \* KCPSocket.closeFlag, and KCPSocket.closeCh closed with it
  opener,     \* newKCPSocket
  reader,     \* KCPSocket.readLoop
  cache,      \* the messages of KCPSocket.readCaches
  todo,       \* what is left of the inlineProtocol branch being executed
  writer,     \* KCPSocket.writeLoop; "done" once it has closed conn
  closer,     \* the calls of KCPSocket.Close
  net,        \* net[e]: what conn has still to deliver to e, in order
  sent        \* messages e's application has sent

muxVars == <<state, initCh, closeCh, once>>
readVars == <<reader, cache, todo>>
vars == <<muxVars, writeCh, closeFlag, opener, readVars, writer, closer, net, sent>>

Init ==
  /\ state = [e \in Ends |-> IF e = Server THEN "Listen" ELSE "SynSent"]
  /\ initCh = [e \in Ends |-> 0]
  /\ closeCh = [e \in Ends |-> 0]
  /\ once = [e \in Ends |-> "no"]
  /\ writeCh = [e \in Ends |-> <<>>]
  /\ closeFlag = [e \in Ends |-> FALSE]
  /\ opener = [e \in Ends |-> "dial"]
  /\ reader = [e \in Ends |-> "run"]
  /\ cache = [e \in Ends |-> <<>>]
  /\ todo = [e \in Ends |-> <<>>]
  /\ writer = [e \in Ends |-> "run"]
  /\ closer = [e \in Ends |-> [p \in Closers |-> "idle"]]
  /\ net = [e \in Ends |-> <<>>]
  /\ sent = [e \in Ends |-> 0]

-----------------------------------------------------------------------------
(* KCPSocket.send: a select over room in writeCh, sock.closeCh, default.   *)
(* The error of a failed sendInline is logged and dropped.                 *)
MutSendUnbounded(e, m) ==
  writeCh' = [writeCh EXCEPT ![e] = Append(@, m)]

Send(e, m) ==
  \/ /\ Len(writeCh[e]) < WriteChanLimit
     /\ writeCh' = [writeCh EXCEPT ![e] = Append(@, m)]
  \/ /\ closeFlag[e] \/ Len(writeCh[e]) >= WriteChanLimit
     /\ UNCHANGED writeCh

(* Both loops have called wg.Done, so wg.Wait returns.  The loops call it  *)
(* before their other deferred function: before onDisconnect, releaseFn    *)
(* and closeOnce (read loop), before conn.Close (write loop).              *)
Joined(e) == reader[e] # "run" /\ writer[e] # "run"

Started(e) == opener[e] # "dial"

-----------------------------------------------------------------------------
(* newKCPSocket starts the loops, and the read loop calls onConnect.  The  *)
(* server accepts when the first message of the client arrives.            *)
Open(e) ==
  /\ opener[e] = "dial"
  /\ e = Server => net[e] # <<>>
  /\ opener' = [opener EXCEPT ![e] = "init"]
  /\ UNCHANGED <<muxVars, writeCh, closeFlag, readVars, writer, closer, net, sent>>

(* mux.init, beside the loops.                                             *)
MuxInit(e) ==
  /\ opener[e] = "init"
  /\ opener' = [opener EXCEPT ![e] = IF IsInline THEN "wait" ELSE "ready"]
  /\ IF IsInline /\ state[e] = "SynSent" THEN Send(e, "SynSent") ELSE UNCHANGED writeCh
  /\ UNCHANGED <<muxVars, closeFlag, readVars, writer, closer, net, sent>>

InitDone(e) ==
  /\ opener[e] = "wait"
  /\ initCh[e] = 1
  /\ initCh' = [initCh EXCEPT ![e] = 0]
  /\ opener' = [opener EXCEPT ![e] = "ready"]
  /\ UNCHANGED <<state, closeCh, once, writeCh, closeFlag, readVars, writer,
                 closer, net, sent>>

(* kcpInitTimeout: newKCPSocket calls closeForce and returns the error.    *)
InitTimeout(e) ==
  /\ Faulty
  /\ opener[e] = "wait"
  /\ opener' = [opener EXCEPT ![e] = "join"]
  /\ closeFlag' = [closeFlag EXCEPT ![e] = TRUE]
  /\ UNCHANGED <<muxVars, writeCh, readVars, writer, closer, net, sent>>

InitJoin(e) ==
  /\ opener[e] = "join"
  /\ Joined(e)
  /\ opener' = [opener EXCEPT ![e] = "failed"]
  /\ UNCHANGED <<muxVars, writeCh, closeFlag, readVars, writer, closer, net, sent>>

(* e has not done its part of the handshake: its mux is still opening, the *)
(* client has not queued its Established, or mux.init has given up.        *)
InHandshake(e) ==
  IsInline /\ \/ state[e] \in Opening
              \/ todo[e] = <<"Established", "signalInit">>
              \/ opener[e] \in {"join", "failed"}

(* SendMsg asks for nothing but the socket, which onConnect is given.      *)
SendMsg(e) ==
  /\ Started(e)
  /\ sent[e] < MaxData
  /\ sent' = [sent EXCEPT ![e] = @ + 1]
  /\ Send(e, IF InHandshake(e) THEN "Early" ELSE "Data")
  /\ UNCHANGED <<muxVars, closeFlag, opener, readVars, writer, closer, net>>

-----------------------------------------------------------------------------
(* inlineProtocol: in mux state cur, message recv moves the mux to next    *)
(* and leaves the rest of the branch to do.  A state name in do is a       *)
(* sendInline of that state.                                               *)
Branch(recv, cur, next, do) == [recv |-> recv, cur |-> cur, next |-> next, do |-> do]

MutHandshakeNoAnswer ==   \* the server does not wait for Established
  {Branch("SynSent", "Listen", "Established", <<"SynRcvd">>),
   Branch("SynRcvd", "SynSent", "Established", <<"Established", "signalInit">>)}

MutHandshakeSignalFirst ==   \* initCh before sendInline
  {Branch("SynSent", "Listen", "SynRcvd", <<"SynRcvd">>),
   Branch("SynRcvd", "SynSent", "Established", <<"signalInit", "Established">>),
   Branch("Established", "SynRcvd", "Established", <<"signalInit">>)}

MutHandshakeNoSignal ==   \* the server's mux.init is not woken
  {Branch("SynSent", "Listen", "SynRcvd", <<"SynRcvd">>),
   Branch("SynRcvd", "SynSent", "Established", <<"Established", "signalInit">>),
   Branch("Established", "SynRcvd", "Established", <<>>)}

HandshakeBranches ==
  {Branch("SynSent", "Listen", "SynRcvd", <<"SynRcvd">>),
   Branch("SynRcvd", "SynSent", "Established", <<"Established", "signalInit">>),
   Branch("Established", "SynRcvd", "Established", <<"signalInit">>)}

MutCloseEarly ==   \* complete on CloseWait, as if LastAck were implied
  {Branch("FinWait1", "Established", "CloseWait",
          <<"CloseWait", "casLastAck", "LastAck">>),
   Branch("TimeWait", "LastAck", "LastAck", <<"signalClose", "eof">>),
   Branch("CloseWait", "FinWait1", "TimeWait", <<"TimeWait", "signalClose", "eof">>)}

MutCloseHalf ==   \* the passive end never sends LastAck
  {Branch("FinWait1", "Established", "CloseWait", <<"CloseWait", "casLastAck">>),
   Branch("TimeWait", "LastAck", "LastAck", <<"signalClose", "eof">>),
   Branch("CloseWait", "FinWait1", "FinWait2", <<>>),
   Branch("LastAck", "FinWait2", "TimeWait", <<"TimeWait", "signalClose", "eof">>)}

CloseBranches ==
  {Branch("FinWait1", "Established", "CloseWait",
          <<"CloseWait", "casLastAck", "LastAck">>),
   Branch("TimeWait", "LastAck", "LastAck", <<"signalClose", "eof">>),
   Branch("CloseWait", "FinWait1", "FinWait2", <<>>),
   Branch("LastAck", "FinWait2", "TimeWait", <<"TimeWait", "signalClose", "eof">>)}

MutSignalTwice ==   \* closeCh is also sent to on entering TimeWait
  {Branch("FinWait1", "FinWait1", "Closing", <<"Closing">>),
   Branch("Closing", "Closing", "TimeWait", <<"TimeWait", "signalClose">>),
   Branch("TimeWait", "TimeWait", "TimeWait", <<"signalClose", "eof">>)}

SimultaneousBranches ==
  {Branch("FinWait1", "FinWait1", "Closing", <<"Closing">>),
   Branch("Closing", "Closing", "TimeWait", <<"TimeWait">>),
   Branch("TimeWait", "TimeWait", "TimeWait", <<"signalClose", "eof">>)}

Branches == HandshakeBranches \cup CloseBranches \cup SimultaneousBranches

Matches(e) == {b \in Branches : b.recv = Head(cache[e]) /\ b.cur = state[e]}

(* The read loop has a whole message and is about to dispatch it.          *)
Dispatching(e) == reader[e] = "run" /\ todo[e] = <<>> /\ cache[e] # <<>>

(* readLoop returns: cached messages are abandoned, wg.Done is called.     *)
ExitRead(e) ==
  /\ reader' = [reader EXCEPT ![e] = "exited"]
  /\ cache' = [cache EXCEPT ![e] = <<>>]
  /\ todo' = [todo EXCEPT ![e] = <<>>]

(* conn.Read returns some of the messages that have arrived.               *)
Read(e) ==
  /\ Started(e) /\ reader[e] = "run" /\ cache[e] = <<>> /\ todo[e] = <<>>
  /\ ~closeFlag[e]
  /\ \E k \in 1..Len(net[e]) :
       /\ cache' = [cache EXCEPT ![e] = SubSeq(net[e], 1, k)]
       /\ net' = [net EXCEPT ![e] = SubSeq(net[e], k + 1, Len(net[e]))]
  /\ UNCHANGED <<muxVars, writeCh, closeFlag, opener, reader, todo, writer,
                 closer, sent>>

(* conn.Read returns data but closeFlag is set, or conn is closed and has  *)
(* no more data.                                                           *)
ReadFail(e) ==
  /\ Started(e) /\ reader[e] = "run" /\ cache[e] = <<>> /\ todo[e] = <<>>
  /\ \/ closeFlag[e] /\ net[e] # <<>>
     \/ writer[e] = "done" /\ net[e] = <<>>
  /\ ExitRead(e)
  /\ UNCHANGED <<muxVars, writeCh, closeFlag, opener, writer, closer, net, sent>>

(* readTimeout expires.                                                    *)
ReadTimeout(e) ==
  /\ Faulty
  /\ Started(e) /\ reader[e] = "run" /\ cache[e] = <<>> /\ todo[e] = <<>>
  /\ net[e] = <<>>
  /\ ExitRead(e)
  /\ UNCHANGED <<muxVars, writeCh, closeFlag, opener, writer, closer, net, sent>>

(* onMsg on an application message: the handler runs in Established only   *)
(* (in any state without the built-in protocol) and may itself fail; in    *)
(* any other state onMsg returns an error.                                 *)
Accepts(e) == IsInline => state[e] = "Established"

HandleData(e) ==
  /\ Dispatching(e) /\ Head(cache[e]) \in Payloads
  /\ \/ /\ Accepts(e)
        /\ cache' = [cache EXCEPT ![e] = Tail(@)]
        /\ UNCHANGED <<reader, todo>>
     \/ (Accepts(e) => Faulty) /\ ExitRead(e)
  /\ UNCHANGED <<muxVars, writeCh, closeFlag, opener, writer, closer, net, sent>>

(* onMsg on an inline message: the compare-and-swap that selects the       *)
(* branch of inlineProtocol, or its final "inline invalid" error.          *)
HandleInline(e) ==
  /\ Dispatching(e) /\ Head(cache[e]) \in Kms
  /\ \/ \E b \in Matches(e) :
          /\ state' = [state EXCEPT ![e] = b.next]
          /\ todo' = [todo EXCEPT ![e] = b.do]
          /\ cache' = [cache EXCEPT ![e] = Tail(@)]
          /\ UNCHANGED reader
     \/ Matches(e) = {} /\ ExitRead(e) /\ UNCHANGED state
  /\ UNCHANGED <<initCh, closeCh, once, writeCh, closeFlag, opener, writer,
                 closer, net, sent>>

-----------------------------------------------------------------------------
(* The statements of an inlineProtocol branch after its compare-and-swap.  *)
Pending(e, op) == reader[e] = "run" /\ todo[e] # <<>> /\ Head(todo[e]) = op
Advance(e) == todo' = [todo EXCEPT ![e] = Tail(@)]

SendInline(e) ==
  /\ \E m \in Kms : Pending(e, m) /\ Send(e, m)
  /\ Advance(e)
  /\ UNCHANGED <<muxVars, closeFlag, opener, reader, cache, writer, closer, net, sent>>

(* mux.initCh <- struct{}{} blocks while the channel is full.              *)
SignalInit(e) ==
  /\ Pending(e, "signalInit") /\ initCh[e] = 0
  /\ initCh' = [initCh EXCEPT ![e] = 1]
  /\ Advance(e)
  /\ UNCHANGED <<state, closeCh, once, writeCh, closeFlag, opener, reader,
                 cache, writer, closer, net, sent>>

SignalClose(e) ==
  /\ Pending(e, "signalClose") /\ closeCh[e] = 0
  /\ closeCh' = [closeCh EXCEPT ![e] = 1]
  /\ Advance(e)
  /\ UNCHANGED <<state, initCh, once, writeCh, closeFlag, opener, reader,
                 cache, writer, closer, net, sent>>

CasLastAck(e) ==
  /\ Pending(e, "casLastAck")
  /\ IF state[e] = "CloseWait"
     THEN state' = [state EXCEPT ![e] = "LastAck"] /\ Advance(e)
     ELSE todo' = [todo EXCEPT ![e] = <<>>] /\ UNCHANGED state
  /\ UNCHANGED <<initCh, closeCh, once, writeCh, closeFlag, opener, reader,
                 cache, writer, closer, net, sent>>

ReturnEOF(e) ==
  /\ Pending(e, "eof")
  /\ ExitRead(e)
  /\ UNCHANGED <<muxVars, writeCh, closeFlag, opener, writer, closer, net, sent>>

-----------------------------------------------------------------------------
(* The deferred function of readLoop: onDisconnect, then releaseFn (empty  *)
(* on the client, deleteSocket and so sock.Close on the server), then      *)
(* closeOnce.                                                              *)
Disconnect(e) ==
  /\ reader[e] = "exited"
  /\ reader' = [reader EXCEPT ![e] = "release"]
  /\ closer' = IF e = Server THEN [closer EXCEPT ![e]["reader"] = "once"] ELSE closer
  /\ UNCHANGED <<muxVars, writeCh, closeFlag, opener, cache, todo, writer, net, sent>>

MutReleaseOpen(e) ==   \* the deferred closeOnce forgotten
  /\ reader[e] = "release"
  /\ e = Server => closer[e]["reader"] = "done"
  /\ reader' = [reader EXCEPT ![e] = "done"]
  /\ UNCHANGED <<muxVars, writeCh, closeFlag, opener, cache, todo, writer,
                 closer, net, sent>>

Release(e) ==
  /\ reader[e] = "release"
  /\ e = Server => closer[e]["reader"] = "done"
  /\ reader' = [reader EXCEPT ![e] = "done"]
  /\ closeFlag' = [closeFlag EXCEPT ![e] = TRUE]
  /\ UNCHANGED <<muxVars, writeCh, opener, cache, todo, writer, closer, net, sent>>

-----------------------------------------------------------------------------
(* KCPSocket.Close: mux.close under closeOnce, then closeForce.            *)
CloseCall(e) ==
  /\ e \in ClosingEnds
  /\ opener[e] = "ready" /\ closer[e]["user"] = "idle"
  /\ closer' = [closer EXCEPT ![e]["user"] = "once"]
  /\ UNCHANGED <<muxVars, writeCh, closeFlag, opener, readVars, writer, net, sent>>

MutCloseStore(e, p) ==   \* a plain store in place of the compare-and-swap
  /\ IsInline
  /\ closer[e][p] = "once" /\ once[e] = "no"
  /\ once' = [once EXCEPT ![e] = "running"]
  /\ state' = [state EXCEPT ![e] = "FinWait1"]
  /\ closer' = [closer EXCEPT ![e][p] = "send"]
  /\ UNCHANGED <<initCh, closeCh, writeCh, closeFlag, opener, readVars, writer,
                 net, sent>>

CloseEnter(e, p) ==
  /\ IsInline
  /\ closer[e][p] = "once" /\ once[e] = "no"
  /\ once' = [once EXCEPT ![e] = "running"]
  /\ IF state[e] = "Established"
     THEN /\ state' = [state EXCEPT ![e] = "FinWait1"]
          /\ closer' = [closer EXCEPT ![e][p] = "send"]
     ELSE /\ closer' = [closer EXCEPT ![e][p] = "wait"]
          /\ UNCHANGED state
  /\ UNCHANGED <<initCh, closeCh, writeCh, closeFlag, opener, readVars, writer,
                 net, sent>>

CloseSend(e, p) ==
  /\ closer[e][p] = "send"
  /\ closer' = [closer EXCEPT ![e][p] = "wait"]
  /\ Send(e, "FinWait1")
  /\ UNCHANGED <<muxVars, closeFlag, opener, readVars, writer, net, sent>>

(* mux.closeCh answers or kcpCloseTimeout expires; then closeForce.        *)
CloseWaited(e, p, token) ==
  /\ closer[e][p] = "wait"
  /\ token <= closeCh[e]
  /\ closeCh' = [closeCh EXCEPT ![e] = @ - token]
  /\ once' = [once EXCEPT ![e] = "done"]
  /\ closer' = [closer EXCEPT ![e][p] = "join"]
  /\ closeFlag' = [closeFlag EXCEPT ![e] = TRUE]
  /\ UNCHANGED <<state, initCh, writeCh, opener, readVars, writer, net, sent>>

CloseSignalled(e, p) == CloseWaited(e, p, 1)
MutNoTimeout(e, p) == FALSE   \* no ticker in the select

CloseTimeout(e, p) == Faulty /\ CloseWaited(e, p, 0)

(* closeOnce.Do has nothing to do: another caller's has returned, or the   *)
(* built-in protocol is off.                                               *)
CloseAgain(e, p) ==
  /\ closer[e][p] = "once"
  /\ once[e] = "done" \/ ~IsInline
  /\ closer' = [closer EXCEPT ![e][p] = "join"]
  /\ closeFlag' = [closeFlag EXCEPT ![e] = TRUE]
  /\ UNCHANGED <<muxVars, writeCh, opener, readVars, writer, net, sent>>

CloseJoin(e, p) ==
  /\ closer[e][p] = "join"
  /\ Joined(e)
  /\ closer' = [closer EXCEPT ![e][p] = "done"]
  /\ UNCHANGED <<muxVars, writeCh, closeFlag, opener, readVars, writer, net, sent>>

-----------------------------------------------------------------------------
(* writeLoop: waitMsg takes all that is queued and the batch is written;   *)
(* what is written to a closed session is lost.                            *)
Transmit(e) ==
  net' = IF writer[Peer(e)] = "done" THEN net
         ELSE [net EXCEPT ![Peer(e)] = @ \o writeCh[e]]

Write(e) ==
  /\ Started(e) /\ writer[e] = "run"
  /\ \/ writeCh[e] # <<>> /\ UNCHANGED writer
     \/ closeFlag[e] /\ writer' = [writer EXCEPT ![e] = "closing"]
  /\ Transmit(e)
  /\ writeCh' = [writeCh EXCEPT ![e] = <<>>]
  /\ UNCHANGED <<muxVars, closeFlag, opener, readVars, closer, sent>>

(* conn.Write fails or its deadline expires.                               *)
WriteFail(e) ==
  /\ Faulty
  /\ Started(e) /\ writer[e] = "run"
  /\ writeCh[e] # <<>> \/ closeFlag[e]
  /\ writeCh' = [writeCh EXCEPT ![e] = <<>>]
  /\ writer' = [writer EXCEPT ![e] = "failed"]
  /\ UNCHANGED <<muxVars, closeFlag, opener, readVars, closer, net, sent>>

(* The deferred conn.Close: any tail in transit, either way, may be lost.  *)
ConnClose(e) ==
  /\ writer[e] \in {"closing", "failed"}
  /\ writer' = [writer EXCEPT ![e] = "done"]
  /\ \E i \in 0..Len(net[e]), j \in 0..Len(net[Peer(e)]) :
       /\ ~Faulty => i = Len(net[e]) /\ j = Len(net[Peer(e)])
       /\ net' = [net EXCEPT ![e] = SubSeq(@, 1, i), ![Peer(e)] = SubSeq(@, 1, j)]
  /\ UNCHANGED <<muxVars, writeCh, closeFlag, opener, readVars, closer, sent>>

-----------------------------------------------------------------------------
OpenerNext(e) ==
  Open(e) \/ MuxInit(e) \/ InitDone(e) \/ InitTimeout(e) \/ InitJoin(e)

ReaderNext(e) ==
  \/ Read(e) \/ ReadFail(e) \/ HandleData(e) \/ HandleInline(e)
  \/ SendInline(e) \/ SignalInit(e) \/ SignalClose(e) \/ CasLastAck(e)
  \/ ReturnEOF(e) \/ Disconnect(e) \/ Release(e)

CloserNext(e, p) ==
  \/ CloseEnter(e, p) \/ CloseSend(e, p) \/ CloseSignalled(e, p)
  \/ CloseTimeout(e, p) \/ CloseAgain(e, p) \/ CloseJoin(e, p)

WriterNext(e) == Write(e) \/ WriteFail(e) \/ ConnClose(e)

Next ==
  \E e \in Ends :
    \/ OpenerNext(e) \/ ReaderNext(e) \/ WriterNext(e)
    \/ \E p \in Closers : CloserNext(e, p)
    \/ ReadTimeout(e) \/ SendMsg(e) \/ CloseCall(e)

Spec == Init /\ [][Next]_vars

(* Every goroutine that can run runs, and the two tickers, where they may  *)
(* fire, do.  Nothing obliges the application to send or close, conn.Write *)
(* to fail or the read deadline to expire.                                 *)
Fairness ==
  \A e \in Ends :
    /\ WF_vars(OpenerNext(e))
    /\ WF_vars(ReaderNext(e))
    /\ WF_vars(Write(e) \/ ConnClose(e))
    /\ \A p \in Closers : WF_vars(CloserNext(e, p))

FairSpec == Spec /\ Fairness

-----------------------------------------------------------------------------
TypeOK ==
  /\ state \in [Ends -> Kms]
  /\ initCh \in [Ends -> 0..1]
  /\ closeCh \in [Ends -> 0..1]
  /\ once \in [Ends -> {"no", "running", "done"}]
  /\ writeCh \in [Ends -> Seq(Msgs)]
  /\ \A e \in Ends : Len(writeCh[e]) <= WriteChanLimit
  /\ closeFlag \in [Ends -> BOOLEAN]
  /\ opener \in [Ends -> {"dial", "init", "wait", "join", "ready", "failed"}]
  /\ reader \in [Ends -> {"run", "exited", "release", "done"}]
  /\ cache \in [Ends -> Seq(Msgs)]
  /\ todo \in [Ends -> Seq(Ops)]
  /\ writer \in [Ends -> {"run", "closing", "failed", "done"}]
  /\ closer \in [Ends -> [Closers -> {"idle", "once", "send", "wait", "join", "done"}]]
  /\ net \in [Ends -> Seq(Msgs)]
  /\ sent \in [Ends -> 0..MaxData]

-----------------------------------------------------------------------------
(* Both signal channels hold one token and are sent to by the read loop    *)
(* with no select: the loop must never find one full, or it would hang     *)
(* before wg.Done and every Close with it (kcp_mux.go:171,175,190,198,213).*)
SignalsFit ==
  \A e \in Ends :
    /\ Pending(e, "signalInit") => initCh[e] = 0
    /\ Pending(e, "signalClose") => closeCh[e] = 0

(* inlineProtocol's handshake: neither end believes in a connection the    *)
(* other end knows nothing of.  A server past SynRcvd has a client that    *)
(* has seen its answer; a client past SynSent has a server that has seen   *)
(* its request.                                                            *)
HandshakeAgreement ==
  /\ state[Server] \notin {"Listen", "SynRcvd"} => state[Client] # "SynSent"
  /\ state[Client] # "SynSent" => state[Server] # "Listen"

(* An application message sent after its sender's part of the handshake    *)
(* does not overtake the handshake: onMsg does not get one before its own  *)
(* end has left the handshake, where it would answer "not established" and *)
(* drop the connection (kcp_mux.go:132).  Only a message sent too early,   *)
(* from onConnect say, can meet that end.                                  *)
DataAfterHandshake ==
  \A e \in Ends :
    IsInline /\ Dispatching(e) /\ Head(cache[e]) = "Data"
      => state[e] \notin Opening

(* inlineProtocol's close: an end that is told its close is complete is    *)
(* one half of a completed exchange, four-way or simultaneous.             *)
CloseAgreement ==
  \A e \in Ends :
    closeCh[e] = 1 =>
      <<state[e], state[Peer(e)]>> \in {<<"TimeWait", "LastAck">>,
                                        <<"LastAck", "TimeWait">>,
                                        <<"TimeWait", "TimeWait">>}

(* The states are numbered in the order a connection goes through them     *)
(* (kcp_mux.go:22-31): whatever the interleaving of the read loop's and    *)
(* Close's compare-and-swaps, no state is entered again.                   *)
Monotone ==
  [][\A e \in Ends :
       state'[e] # state[e] => KmsNumber[state[e]] < KmsNumber[state'[e]]]_vars

(* Every call of Close returns: neither a missing answer, nor a full       *)
(* channel, nor the other caller holding closeOnce blocks it for ever      *)
(* (kcp_socket.go:213).  Each caller calls once, so it is enough that      *)
(* there is always a later moment with no call pending.                    *)
CloseReturns ==
  []<>(\A e \in Ends, p \in Closers : closer[e][p] \in {"idle", "done"})

(* Once closeFlag is set or a loop has ended, the socket goes on to leave  *)
(* no goroutine behind and to close conn (kcp_socket.go:75-87,146-156).    *)
SocketStops ==
  []<>(\A e \in Ends : closeFlag[e] \/ reader[e] # "run" \/ writer[e] # "run"
         => reader[e] = "done" /\ writer[e] = "done")

(* The application of e does not send before e's part of the handshake.    *)
Patient(e) == [](InHandshake(e) => sent[e] = 0)

(* With no fault and no early message the handshake succeeds at both ends  *)
(* (kcp_mux.go:221).                                                       *)
HandshakeCompletes ==
  (\A e \in Ends : Patient(e)) =>
    (Started(Client) ~> \A e \in Ends : opener[e] = "ready")

(* With no fault, when one application closes while the other neither      *)
(* sends nor closes, the four-way close runs to its last state at both     *)
(* ends and then both sockets stop, no timer needed; what the closing end  *)
(* has sent before goes first (kcp_mux.go:179-200, kcp_test.go:16).  A     *)
(* message sent early or after FinWait1, either way, makes onMsg fail.     *)
GracefulClose ==
  \A e \in Ends :
    /\ Patient(e)
    /\ [](closer[Peer(e)]["user"] = "idle" /\ sent[Peer(e)] = 0)
    /\ \E n \in 0..MaxData : [](closer[e]["user"] # "idle" => sent[e] = n)
    =>
      (closer[e]["user"] = "once" ~>
         /\ state[e] = "TimeWait" /\ state[Peer(e)] = "LastAck"
         /\ \A f \in Ends : reader[f] = "done" /\ writer[f] = "done")

-----------------------------------------------------------------------------
(* "both ends close at the same time ... both enter closing state ... both *)
(* enter timewait state" (kcp_mux.go:202-208): when one end has got there, *)
(* the other does not reject what it is sent.  Violated: Close moves the   *)
(* state before it queues FinWait1, so Closing can overtake FinWait1.      *)
BothClosing ==
  \A e \in Ends :
    state[e] = "Closing" /\ Dispatching(Peer(e)) /\ Head(cache[Peer(e)]) \in Kms
      => Matches(Peer(e)) # {}

(* "close the udpsession after writing all data" (kcp_socket.go:152): the  *)
(* write loop that has not met an error closes conn with nothing that send *)
(* accepted left unwritten.  Violated: send still accepts messages after   *)
(* the loop's last drain, its select choosing between room and closeCh.    *)
AllWritten == \A e \in Ends : writer[e] = "closing" => writeCh[e] = <<>>
=============================================================================
