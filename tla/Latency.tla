------------------------------- MODULE Latency -------------------------------
(***************************************************************************)
(* xlatency/latency.go, the latency mock, on its actor.  A packet is its   *)
(* direction and its number: "in" goes from RecvFromSvr to sendToCli,      *)
(* "out" from RecvFromCli to sendToSvr.  A packet may be lost whatever the *)
(* loss rate; its delay ends at any later tick, without a latency at the   *)
(* next one.  The actor package is the part of Actor.tla that one actor    *)
(* with one name and a mailbox needs; statistics are kept in packets.      *)
(***************************************************************************)
EXTENDS Integers, Sequences

CONSTANTS
  MailMax,  \* capacity of the mailbox (mailMaxCount)
  Delayed   \* the directions with a latency

Dirs == {"in", "out"}

ASSUME LatencyAssumption == MailMax \in Nat \ {0} /\ Delayed \subseteq Dirs

VARIABLES
  registered,  \* whether the actor's name is in the registry
  loop,        \* logicLoop
  closing,     \* whether the actor's closeCh is closed
  mailbox,     \* box.mailCh
  sendTo,      \* the directions whose send function is registered
  pending,     \* l.msgs, by direction
  packets,     \* inPackets, outPackets
  lost,        \* inLostPackets, outLostPackets
  sent         \* by direction, what was passed to the send function

latencyVars == <<registered, loop, closing, mailbox, sendTo, pending, packets, lost, sent>>

Mails == [type : {"register", "packet"}, dir : Dirs, num : Nat]
Packet(d, n) == [type |-> "packet", dir |-> d, num |-> n]
Register(d) == [type |-> "register", dir |-> d, num |-> 0]

LatencyTypeOK ==
  /\ registered \in BOOLEAN /\ closing \in BOOLEAN
  /\ loop \in {"off", "select", "tick"}
  /\ mailbox \in Seq(Mails) /\ Len(mailbox) <= MailMax
  /\ sendTo \subseteq Dirs
  /\ pending \in [Dirs -> SUBSET Nat]
  /\ packets \in [Dirs -> Nat] /\ lost \in [Dirs -> Nat]
  /\ sent \in [Dirs -> Seq(Nat)]

Fresh(x) == [d \in Dirs |-> x]

LatencyInit ==
  /\ registered = FALSE /\ loop = "off" /\ closing = FALSE
  /\ mailbox = <<>> /\ sendTo = {}
  /\ pending = Fresh({}) /\ packets = Fresh(0) /\ lost = Fresh(0)
  /\ sent = Fresh(<<>>)

-----------------------------------------------------------------------------
(* NewLatencyActor: a new actor under a free name, or an error.            *)
NewLatencyActor ==
  /\ ~registered
  /\ registered' = TRUE /\ loop' = "select" /\ closing' = FALSE
  /\ mailbox' = <<>> /\ sendTo' = {}
  /\ pending' = Fresh({}) /\ packets' = Fresh(0) /\ lost' = Fresh(0)
  /\ UNCHANGED sent

(* sendMail, by AsyncRequest or SyncRequest: waits for room.               *)
SendMail(m) ==
  /\ Len(mailbox) < MailMax
  /\ mailbox' = Append(mailbox, m)
  /\ UNCHANGED <<registered, loop, closing, sendTo, pending, packets, lost, sent>>

-----------------------------------------------------------------------------
(* logicLoop: a mail or the ticker, then tickLoop.                         *)
TakeMail(type, d) ==
  /\ loop = "select"
  /\ mailbox # <<>> /\ Head(mailbox).type = type /\ Head(mailbox).dir = d
  /\ mailbox' = Tail(mailbox)
  /\ loop' = "tick"
  /\ UNCHANGED <<registered, closing, sent>>

(* RegisterSendToCli, RegisterSendToSvr                                    *)
HandleRegister(d) ==
  /\ TakeMail("register", d)
  /\ sendTo' = sendTo \cup {d}
  /\ UNCHANGED <<pending, packets, lost>>

(* RecvFromCli, RecvFromSvr: isLoss, and extend unless lost.               *)
MutHandlePacket(d) ==   \* returns on a loss before it counts
  /\ TakeMail("packet", d)
  /\ \/ lost' = [lost EXCEPT ![d] = @ + 1] /\ UNCHANGED <<packets, pending>>
     \/ /\ packets' = [packets EXCEPT ![d] = @ + 1]
        /\ pending' = [pending EXCEPT ![d] = @ \cup {Head(mailbox).num}]
        /\ UNCHANGED lost
  /\ UNCHANGED sendTo

HandlePacket(d) ==
  /\ TakeMail("packet", d)
  /\ packets' = [packets EXCEPT ![d] = @ + 1]
  /\ \/ lost' = [lost EXCEPT ![d] = @ + 1] /\ UNCHANGED pending
     \/ pending' = [pending EXCEPT ![d] = @ \cup {Head(mailbox).num}] /\ UNCHANGED lost
  /\ UNCHANGED sendTo

Ticker ==
  /\ loop = "select"
  /\ loop' = "tick"
  /\ UNCHANGED <<registered, closing, mailbox, sendTo, pending, packets, lost, sent>>

(* tickLoop, one packet whose time has come: passed on, or dropped while   *)
(* the send function is not registered.  Without latency all are due, in   *)
(* the order they came.                                                    *)
MutForward(d) ==   \* the packet is not removed from l.msgs
  /\ loop = "tick"
  /\ \E n \in pending[d] :
       /\ d \notin Delayed => \A k \in pending[d] : n <= k
       /\ d \in sendTo /\ sent' = [sent EXCEPT ![d] = Append(@, n)]
  /\ UNCHANGED <<registered, loop, closing, mailbox, sendTo, pending, packets, lost>>

Forward(d) ==
  /\ loop = "tick"
  /\ \E n \in pending[d] :
       /\ d \notin Delayed => \A k \in pending[d] : n <= k
       /\ pending' = [pending EXCEPT ![d] = @ \ {n}]
       /\ \/ d \in sendTo /\ sent' = [sent EXCEPT ![d] = Append(@, n)]
          \/ d \notin sendTo /\ UNCHANGED sent
  /\ UNCHANGED <<registered, loop, closing, mailbox, sendTo, packets, lost>>

TickEnd ==
  /\ loop = "tick"
  /\ \A d \in Dirs \ Delayed : pending[d] = {}
  /\ loop' = "select"
  /\ UNCHANGED <<registered, closing, mailbox, sendTo, pending, packets, lost, sent>>

BreakLoop ==
  /\ loop = "select" /\ closing
  /\ loop' = "off"
  /\ UNCHANGED <<registered, closing, mailbox, sendTo, pending, packets, lost, sent>>

LogicLoop ==
  \/ \E d \in Dirs : HandleRegister(d) \/ HandlePacket(d) \/ Forward(d)
  \/ Ticker \/ TickEnd \/ BreakLoop

-----------------------------------------------------------------------------
(* Close: close(closeCh), then wg.Wait and deregisterActor.                *)
MutCloseActor == UNCHANGED latencyVars   \* closeCh is not closed

CloseActor ==
  /\ closing' = TRUE
  /\ UNCHANGED <<registered, loop, mailbox, sendTo, pending, packets, lost, sent>>

JoinActor ==
  /\ loop = "off"
  /\ registered' = FALSE
  /\ UNCHANGED <<loop, closing, mailbox, sendTo, pending, packets, lost, sent>>
=============================================================================
