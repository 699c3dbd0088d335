------------------------------ MODULE UDPSession ------------------------------
(***************************************************************************)
(* udp_session.go: the goroutine that runs the callbacks of one UDPSession *)
(* (onConnect, onMsg for each datagram, onDisconnect), its msgCh and its   *)
(* close.  Servers keep one per address, clients one per connection.       *)
(* Datagrams are counted, not distinguished.  activeAt is kept as whether  *)
(* it is within the timeout of the clock, which may pass it at any moment. *)
(* Callbacks are user code that returns.                                   *)
(***************************************************************************)
EXTENDS Integers

CONSTANTS
  Sessions,  \* the UDPSessions
  MsgMax     \* capacity of msgCh (udpMsgChanLimit, 1024)

ASSUME SessionAssumption == MsgMax \in Nat \ {0}

VARIABLES
  loop,        \* handlerLoop; session.wg counts it until "done"
  msgCh,       \* number of datagrams in session.msgCh
  sessClosed,  \* whether session.closeCh is closed
  active       \* whether activeAt is within the timeout

sessionVars == <<loop, msgCh, sessClosed, active>>

LoopStates == {"none", "connect", "select", "onMsg", "disconnect", "done"}

SessionTypeOK ==
  /\ loop \in [Sessions -> LoopStates]
  /\ msgCh \in [Sessions -> 0..MsgMax]
  /\ sessClosed \in [Sessions -> BOOLEAN] /\ active \in [Sessions -> BOOLEAN]

SessionInit ==
  /\ loop = [s \in Sessions |-> "none"]
  /\ msgCh = [s \in Sessions |-> 0]
  /\ sessClosed = [s \in Sessions |-> FALSE]
  /\ active = [s \in Sessions |-> FALSE]

Live(s) == loop[s] \notin {"none", "done"}

-----------------------------------------------------------------------------
NewUDPSession(s) ==
  /\ loop[s] = "none"
  /\ loop' = [loop EXCEPT ![s] = "connect"]
  /\ active' = [active EXCEPT ![s] = TRUE]
  /\ UNCHANGED <<msgCh, sessClosed>>

MutRecvMsg(s) ==   \* the time is stored whatever becomes of the datagram
  /\ active' = [active EXCEPT ![s] = TRUE]
  /\ \/ msgCh[s] < MsgMax /\ msgCh' = [msgCh EXCEPT ![s] = @ + 1]
     \/ (sessClosed[s] \/ msgCh[s] = MsgMax) /\ UNCHANGED msgCh
  /\ UNCHANGED <<loop, sessClosed>>

(* recvMsg: into msgCh, or "session already close", or "session overflow". *)
RecvMsg(s) ==
  /\ \/ /\ msgCh[s] < MsgMax
        /\ msgCh' = [msgCh EXCEPT ![s] = @ + 1]
        /\ active' = [active EXCEPT ![s] = TRUE]
     \/ /\ sessClosed[s] \/ msgCh[s] = MsgMax
        /\ UNCHANGED <<msgCh, active>>
  /\ UNCHANGED <<loop, sessClosed>>

SessForceClose(s) ==
  /\ sessClosed' = [sessClosed EXCEPT ![s] = TRUE]
  /\ UNCHANGED <<loop, msgCh, active>>

(* What Close waits for in wg.Wait.                                        *)
SessJoined(s) == loop[s] = "done"

(* The clock: more than the timeout has passed since activeAt.             *)
GoesStale(s) ==
  /\ active[s]
  /\ active' = [active EXCEPT ![s] = FALSE]
  /\ UNCHANGED <<loop, msgCh, sessClosed>>

-----------------------------------------------------------------------------
(* handlerLoop                                                             *)
LoopStep(s, from, to) ==
  /\ loop[s] = from
  /\ loop' = [loop EXCEPT ![s] = to]
  /\ UNCHANGED <<sessClosed, active>>

OnConnect(s) == LoopStep(s, "connect", "select") /\ UNCHANGED msgCh

TakeMsg(s) ==
  /\ msgCh[s] > 0
  /\ LoopStep(s, "select", "onMsg")
  /\ msgCh' = [msgCh EXCEPT ![s] = @ - 1]

OnMsg(s) == LoopStep(s, "onMsg", "select") /\ UNCHANGED msgCh

OnMsgFails(s) == LoopStep(s, "onMsg", "disconnect") /\ UNCHANGED msgCh

BreakLoop(s) ==
  /\ sessClosed[s]
  /\ LoopStep(s, "select", "disconnect")
  /\ UNCHANGED msgCh

OnDisconnect(s) == LoopStep(s, "disconnect", "done") /\ UNCHANGED msgCh

HandlerLoop(s) ==
  \/ OnConnect(s) \/ TakeMsg(s) \/ OnMsg(s) \/ OnMsgFails(s)
  \/ BreakLoop(s) \/ OnDisconnect(s)
=============================================================================
