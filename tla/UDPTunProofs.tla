---------------------------- MODULE UDPTunProofs ----------------------------
(***************************************************************************)
(* Theorems about UDPTun, for every capacity of the mailbox, every choice  *)
(* of delayed directions and any number of sessions and packets: it is a   *)
(* LossyLink, behind a server of SessionCallbacks; its actor, statistics   *)
(* and send functions are there when they are used.                        *)
(***************************************************************************)
EXTENDS UDPTun, SequenceTheorems, FiniteSetTheorems, FunctionTheorems, TLAPS

(* What a step of the tunnel may do to the actor's mailbox.                *)
LEMMA MailMoves ==
  ASSUME TypeOK, [Next]_vars
  PROVE  \/ UNCHANGED mailbox
         \/ mailbox' = <<>>
         \/ \E m \in Mails : Len(mailbox) < MailMax /\ mailbox' = Append(mailbox, m)
         \/ mailbox # <<>> /\ mailbox' = Tail(mailbox)
<1>1. \A d \in Dirs : Register(d) \in Mails
  BY DEF Register, Mails
<1>2. \A d \in Dirs, n \in Nat : Packet(d, n) \in Mails
  BY DEF Packet, Mails
<1>3. "in" \in Dirs /\ "out" \in Dirs
  BY DEF Dirs
<1>4. \A d \in Dirs : offered[d] \in Nat
  BY DEF TypeOK
<1>5. CASE OnConnect
  <2>1. CASE ConnectActor
    BY <2>1 DEF ConnectActor, NewLatencyActor
  <2>2. ASSUME NEW d \in Dirs, NEW from, NEW to, Ask(d, from, to)
        PROVE  \E m \in Mails : Len(mailbox) < MailMax /\ mailbox' = Append(mailbox, m)
    BY <1>1, <2>2 DEF Ask, SendMail
  <2>3. QED
    BY <1>3, <1>5, <2>1, <2>2
       DEF OnConnect, ConnectSnmp, ConnectDial, Answer, latencyVars
<1>6. CASE OnMsgSend
  BY <1>2, <1>3, <1>4, <1>6 DEF OnMsgSend, SendMail
<1>7. CASE ClientSend
  BY <1>2, <1>3, <1>4, <1>7 DEF ClientSend, SendMail
<1>8. CASE Actor
  BY <1>8 DEF Actor, LogicLoop, HandleRegister, HandlePacket, TakeMail, Ticker,
              Forward, TickEnd, BreakLoop
<1>9. CASE OnDisconnect
  BY <1>9 DEF OnDisconnect, CloseCli, CloseSnmp, Close, CloseActor, CloseReturn,
              JoinActor, latencyVars
<1>10. QED
  BY <1>5, <1>6, <1>7, <1>8, <1>9
     DEF Next, vars, NewSession, OnMsg, OnMsgFails, ClientOnMsg, ClientEnds,
         Expire, DelSession, latencyVars

LEMMA MailboxType ==
  ASSUME TypeOK, [Next]_vars
  PROVE  mailbox' \in Seq(Mails) /\ Len(mailbox') <= MailMax
<1>1. mailbox \in Seq(Mails) /\ Len(mailbox) <= MailMax /\ MailMax \in Nat /\ Len(mailbox) \in Nat
  BY LatencyAssumption, LenProperties DEF TypeOK, LatencyTypeOK
<1>2. CASE UNCHANGED mailbox
  BY <1>1, <1>2
<1>3. CASE mailbox' = <<>>
  BY <1>1, <1>3, EmptySeq
<1>4. ASSUME NEW m \in Mails, Len(mailbox) < MailMax, mailbox' = Append(mailbox, m)
      PROVE  mailbox' \in Seq(Mails) /\ Len(mailbox') <= MailMax
  BY <1>1, <1>4, AppendProperties
<1>5. CASE mailbox # <<>> /\ mailbox' = Tail(mailbox)
  BY <1>1, <1>5, HeadTailProperties
<1>6. QED
  BY <1>2, <1>3, <1>4, <1>5, MailMoves

LEMMA TypeInit == Init => TypeOK
<1> SUFFICES ASSUME Init PROVE TypeOK
  OBVIOUS
<1>1. pending \in [Dirs -> SUBSET Nat]
  BY DEF Init, LatencyInit, Fresh
<1>2. sent \in [Dirs -> Seq(Nat)]
  BY EmptySeq DEF Init, LatencyInit, Fresh
<1>3. /\ packets \in [Dirs -> Nat] /\ lost \in [Dirs -> Nat]
      /\ recv \in [Dirs -> Nat] /\ total \in [Dirs -> Nat] /\ offered \in [Dirs -> Nat]
  BY DEF Init, LatencyInit, Fresh
<1>4. mailbox \in Seq(Mails) /\ Len(mailbox) <= MailMax
  BY LatencyAssumption, EmptySeq DEF Init, LatencyInit
<1>5. /\ registered \in BOOLEAN /\ closing \in BOOLEAN
      /\ loop \in {"off", "select", "tick"} /\ sendTo \subseteq Dirs
  BY DEF Init, LatencyInit
<1>6. QED
  BY <1>1, <1>2, <1>3, <1>4, <1>5 DEF Init, TypeOK, LatencyTypeOK, Stages

(* The variables of the latency actor but for the mailbox                  *)
LEMMA LogicLoopType ==
  ASSUME TypeOK, LogicLoop
  PROVE  /\ registered' \in BOOLEAN /\ closing' \in BOOLEAN
         /\ loop' \in {"off", "select", "tick"} /\ sendTo' \subseteq Dirs
         /\ pending' \in [Dirs -> SUBSET Nat]
         /\ packets' \in [Dirs -> Nat] /\ lost' \in [Dirs -> Nat]
         /\ sent' \in [Dirs -> Seq(Nat)]
<1> USE DEF TypeOK, LatencyTypeOK
<1>1. ASSUME NEW d \in Dirs, HandleRegister(d)
      PROVE  /\ UNCHANGED <<registered, closing, sent, pending, packets, lost>>
             /\ loop' = "tick" /\ sendTo' = sendTo \cup {d}
  BY <1>1 DEF HandleRegister, TakeMail
<1>2. ASSUME NEW d \in Dirs, HandlePacket(d)
      PROVE  /\ UNCHANGED <<registered, closing, sent, sendTo>> /\ loop' = "tick"
             /\ pending' \in [Dirs -> SUBSET Nat]
             /\ packets' \in [Dirs -> Nat] /\ lost' \in [Dirs -> Nat]
  <2>1. mailbox \in Seq(Mails) /\ mailbox # <<>>
    BY <1>2 DEF HandlePacket, TakeMail
  <2>2. Head(mailbox).num \in Nat
    <3>1. Head(mailbox) \in Mails
      BY <2>1, HeadTailProperties
    <3>2. QED
      BY <3>1 DEF Mails
  <2>3. pending[d] \cup {Head(mailbox).num} \in SUBSET Nat
    BY <2>2
  <2>4. /\ packets' = [packets EXCEPT ![d] = packets[d] + 1]
        /\ \/ lost' = [lost EXCEPT ![d] = lost[d] + 1] /\ UNCHANGED pending
           \/ /\ pending' = [pending EXCEPT ![d] = pending[d] \cup {Head(mailbox).num}]
              /\ UNCHANGED lost
    BY <1>2 DEF HandlePacket
  <2>5. pending' \in [Dirs -> SUBSET Nat]
    BY <2>3, <2>4
  <2>6. packets' \in [Dirs -> Nat] /\ lost' \in [Dirs -> Nat]
    <3>1. packets' \in [Dirs -> Nat]
      BY <2>4
    <3>2. CASE lost' = [lost EXCEPT ![d] = lost[d] + 1]
      BY <3>1, <3>2
    <3>3. CASE UNCHANGED lost
      BY <3>1, <3>3
    <3>4. QED
      BY <2>4, <3>2, <3>3
  <2>7. UNCHANGED <<registered, closing, sent, sendTo>> /\ loop' = "tick"
    BY <1>2 DEF HandlePacket, TakeMail
  <2>8. QED
    BY <2>5, <2>6, <2>7
<1>3. ASSUME NEW d \in Dirs, Forward(d)
      PROVE  /\ UNCHANGED <<registered, closing, loop, sendTo, packets, lost>>
             /\ pending' \in [Dirs -> SUBSET Nat] /\ sent' \in [Dirs -> Seq(Nat)]
  <2>1. PICK n \in pending[d] :
           /\ pending' = [pending EXCEPT ![d] = pending[d] \ {n}]
           /\ \/ sent' = [sent EXCEPT ![d] = Append(sent[d], n)]
              \/ UNCHANGED sent
    BY <1>3 DEF Forward
  <2>2. n \in Nat /\ pending[d] \ {n} \in SUBSET Nat
    OBVIOUS
  <2>3. Append(sent[d], n) \in Seq(Nat)
    BY <2>2, AppendProperties
  <2>4. pending' \in [Dirs -> SUBSET Nat]
    BY <2>1, <2>2
  <2>5. sent' \in [Dirs -> Seq(Nat)]
    BY <2>1, <2>3
  <2>6. QED
    BY <1>3, <2>4, <2>5 DEF Forward
<1>4. CASE Ticker \/ TickEnd \/ BreakLoop
  BY <1>4 DEF Ticker, TickEnd, BreakLoop
<1>5. QED
  BY <1>1, <1>2, <1>3, <1>4 DEF LogicLoop

(* The other processes leave the actor alone but for its mailbox, its      *)
(* creation and its end.                                                   *)
LEMMA TypeNext ==
  ASSUME TypeOK, [Next]_vars
  PROVE  TypeOK'
<1> USE DEF TypeOK, LatencyTypeOK
<1>1. mailbox' \in Seq(Mails) /\ Len(mailbox') <= MailMax
  BY MailboxType
<1>2. CASE Actor
  <2>1. LogicLoop /\ UNCHANGED tunVars
    BY <1>2 DEF Actor
  <2>2. QED
    BY <1>1, <2>1, LogicLoopType DEF tunVars, config, stats
<1>3. CASE ConnectActor
  <2>1. pending' \in [Dirs -> SUBSET Nat]
    BY <1>3 DEF ConnectActor, NewLatencyActor, Fresh
  <2>2. packets' \in [Dirs -> Nat] /\ lost' \in [Dirs -> Nat]
    BY <1>3 DEF ConnectActor, NewLatencyActor, Fresh
  <2>3. QED
    BY <1>1, <1>3, <2>1, <2>2
       DEF ConnectActor, NewLatencyActor, config, stats, Step, Stages
<1>4. CASE NewSession \/ DelSession \/ Expire \/ OnMsgFails \/ ClientEnds
  BY <1>1, <1>4
     DEF NewSession, DelSession, Expire, OnMsgFails, ClientEnds, latencyVars, config,
         stats, Step, Stages
<1>5. CASE ConnectSnmp
  <2>1. recv' \in [Dirs -> Nat]
    <3>1. recv' = recv \/ recv' = Fresh(0)
      BY <1>5, Zenon DEF ConnectSnmp
    <3>2. Fresh(0) \in [Dirs -> Nat]
      BY DEF Fresh
    <3>3. QED
      BY <3>1, <3>2
  <2>2. snmps' \in BOOLEAN
    BY <1>5, Zenon DEF ConnectSnmp
  <2>3. stage' \in Stages /\ cli' \in BOOLEAN
    BY <1>5 DEF ConnectSnmp, Step, Stages
  <2>4. UNCHANGED <<latencyVars, config, client, total, offered, sessions>>
    BY <1>5 DEF ConnectSnmp
  <2>5. QED
    BY <1>1, <2>1, <2>2, <2>3, <2>4 DEF latencyVars, config
<1>6. CASE ConnectDial
  <2>1. /\ stage' \in Stages /\ cli' \in BOOLEAN
        /\ client' = "idle" \/ UNCHANGED client
    BY <1>6 DEF ConnectDial, Step, Stages
  <2>2. UNCHANGED <<latencyVars, config, stats, offered, sessions>>
    BY <1>6 DEF ConnectDial
  <2>3. QED
    BY <1>1, <2>1, <2>2 DEF latencyVars, config, stats
<1>7. ASSUME NEW d \in Dirs, NEW from, NEW to \in Stages, Ask(d, from, to)
      PROVE  TypeOK'
  BY <1>1, <1>7 DEF Ask, SendMail, config, stats, Step
<1>8. ASSUME NEW d \in Dirs, NEW from, NEW to \in Stages, Answer(d, from, to)
      PROVE  TypeOK'
  BY <1>1, <1>8 DEF Answer, latencyVars, config, stats, Step
<1>9. ASSUME NEW d \in Dirs, Receive(d)
      PROVE  offered' \in [Dirs -> Nat] /\ recv' \in [Dirs -> Nat] /\ UNCHANGED <<snmps, total>>
  <2>1. offered' = [offered EXCEPT ![d] = @ + 1] /\ UNCHANGED <<snmps, total>>
    BY <1>9 DEF Receive
  <2>2. recv' = recv \/ recv' = [recv EXCEPT ![d] = @ + 1]
    BY <1>9 DEF Receive
  <2>3. offered[d] + 1 \in Nat /\ recv[d] + 1 \in Nat
    OBVIOUS
  <2>4. QED
    BY <2>1, <2>2, <2>3
<1>10. "in" \in Dirs /\ "out" \in Dirs
  BY DEF Dirs
<1>11. CASE OnMsg
  BY <1>1, <1>9, <1>10, <1>11 DEF OnMsg, latencyVars, config, Step, Stages
<1>12. CASE ClientOnMsg
  BY <1>1, <1>9, <1>10, <1>12 DEF ClientOnMsg, latencyVars, config
<1>13. CASE OnMsgSend \/ ClientSend
  <2>1. CASE OnMsgSend
    BY <1>1, <2>1 DEF OnMsgSend, SendMail, config, stats, Step, Stages
  <2>2. CASE ClientSend
    BY <1>1, <2>2 DEF ClientSend, SendMail, config, stats
  <2>3. QED
    BY <1>13, <2>1, <2>2
<1>14. CASE CloseCli \/ Close \/ CloseReturn
  <2>1. UNCHANGED <<config, cli, stats, offered, sessions, mailbox, sendTo, pending, packets, lost, sent>>
    BY <1>14 DEF CloseCli, Close, CloseActor, CloseReturn, JoinActor, latencyVars
  <2>2. /\ registered' \in BOOLEAN /\ closing' \in BOOLEAN /\ loop' = loop
        /\ client' \in {"off", client} /\ stage' \in Stages
    BY <1>14 DEF CloseCli, Close, CloseActor, CloseReturn, JoinActor, latencyVars, Step, Stages
  <2>3. QED
    BY <1>1, <2>1, <2>2 DEF config, stats
<1>15. CASE CloseSnmp
  <2>1. total' \in [Dirs -> Nat]
    <3>1. total' = total \/ total' = [d \in Dirs |-> total[d] + recv[d]]
      BY <1>15 DEF CloseSnmp
    <3>2. \A d \in Dirs : total[d] + recv[d] \in Nat
      OBVIOUS
    <3>3. QED
      BY <3>1, <3>2
  <2>2. snmps' \in BOOLEAN
    BY <1>15, Zenon DEF CloseSnmp
  <2>3. stage' \in Stages
    BY <1>15 DEF CloseSnmp, Step, Stages
  <2>4. UNCHANGED <<latencyVars, config, cli, client, recv, offered, sessions>>
    BY <1>15 DEF CloseSnmp
  <2>5. QED
    BY <1>1, <2>1, <2>2, <2>3, <2>4 DEF latencyVars, config
<1>16. CASE UNCHANGED vars
  BY <1>16 DEF vars, latencyVars, tunVars, config, stats
<1>17. CASE OnConnect
  <2>1. {"askCli", "waitCli", "askSvr", "waitSvr", "serve"} \subseteq Stages
    BY DEF Stages
  <2>2. QED
    BY <1>3, <1>5, <1>6, <1>7, <1>8, <1>10, <1>17, <2>1 DEF OnConnect
<1>18. QED
  BY <1>2, <1>4, <1>11, <1>12, <1>13, <1>14, <1>15, <1>16, <1>17 DEF Next, OnDisconnect

(* Every variable keeps its type: no mailbox grows past its capacity.      *)
THEOREM TypeCorrect == Spec => []TypeOK
<1>1. Init => TypeOK
  BY TypeInit
<1>2. TypeOK /\ [Next]_vars => TypeOK'
  BY TypeNext
<1>3. QED
  BY <1>1, <1>2, PTL DEF Spec

-----------------------------------------------------------------------------
(* ActorServes and TotalIsSum follow from where the session is in its      *)
(* callbacks: the actor lives from ConnectActor to CloseReturn and is not  *)
(* closed before the client has gone, which is open only in between; the   *)
(* statistics are in the map from ConnectSnmp to CloseSnmp.                *)
ActorLives ==
  /\ stage \in {"none", "snmp", "actor", "done"} => ~registered
  /\ stage \notin {"none", "snmp", "actor", "joinActor", "done"} =>
       registered /\ loop # "off" /\ ~closing

ClientLives ==
  client # "off" =>
    cli /\ stage \in {"askCli", "waitCli", "askSvr", "waitSvr", "serve", "send", "closeCli"}

SnmpLives ==
  Counts => (snmps <=> stage \notin {"none", "snmp", "closeActor", "joinActor", "done"})

Lives == ActorLives /\ ClientLives

LEMMA LivesNext ==
  ASSUME TypeOK, Lives, [Next]_vars
  PROVE  Lives'
<1> USE DEF Lives, ActorLives, ClientLives
<1>1. CASE Actor
  <2>1. LogicLoop /\ UNCHANGED <<stage, cli, client>>
    BY <1>1 DEF Actor, tunVars
  <2>2. UNCHANGED <<registered, closing>> /\ (loop' = "off" => closing \/ loop = "off")
    BY <2>1 DEF LogicLoop, HandleRegister, HandlePacket, TakeMail, Forward, Ticker,
                TickEnd, BreakLoop
  <2>3. QED
    BY <2>1, <2>2
<1>2. CASE ConnectActor
  BY <1>2 DEF ConnectActor, NewLatencyActor, Step
<1>3. CASE ConnectSnmp \/ ConnectDial
  BY <1>3 DEF ConnectSnmp, ConnectDial, Step, latencyVars
<1>4. ASSUME NEW d \in Dirs, Ask(d, "askCli", "waitCli") \/ Ask(d, "askSvr", "waitSvr")
      PROVE  Lives'
  BY <1>4 DEF Ask, SendMail, Step
<1>5. ASSUME NEW d \in Dirs, Answer(d, "waitCli", "askSvr") \/ Answer(d, "waitSvr", "serve")
      PROVE  Lives'
  BY <1>5 DEF Answer, Step, latencyVars
<1>6. CASE OnConnect
  BY <1>2, <1>3, <1>4, <1>5, <1>6 DEF OnConnect, Dirs
<1>7. CASE NewSession \/ OnMsg \/ OnMsgFails \/ Expire \/ DelSession
  BY <1>7 DEF NewSession, OnMsg, OnMsgFails, Expire, DelSession, Step, latencyVars
<1>8. CASE ClientOnMsg \/ ClientEnds
  BY <1>8 DEF ClientOnMsg, ClientEnds, latencyVars
<1>9. CASE OnMsgSend \/ ClientSend
  BY <1>9 DEF OnMsgSend, ClientSend, SendMail, Step
<1>10. CASE CloseCli \/ CloseSnmp
  BY <1>10 DEF CloseCli, CloseSnmp, Step, latencyVars
<1>11. CASE Close \/ CloseReturn
  BY <1>11 DEF Close, CloseActor, CloseReturn, JoinActor, Step
<1>12. CASE UNCHANGED vars
  BY <1>12 DEF vars, latencyVars, tunVars
<1>13. QED
  BY <1>1, <1>6, <1>7, <1>8, <1>9, <1>10, <1>11, <1>12 DEF Next, OnDisconnect

LEMMA LivesInit == Init => Lives
BY DEF Init, LatencyInit, Lives, ActorLives, ClientLives

(* Nobody calls an actor that is closed or has gone, and the name is free  *)
(* again when the next session of the address asks for it: the order of    *)
(* OnDisconnect and the wait of actor.Close.                               *)
THEOREM ActorAlwaysServes == Spec => []ActorServes
<1>1. Init => TypeOK /\ Lives
  BY TypeInit, LivesInit
<1>2. TypeOK /\ Lives /\ [Next]_vars => (TypeOK /\ Lives)'
  BY TypeNext, LivesNext
<1>3. TypeOK /\ Lives => ActorServes
  BY DEF Lives, ActorLives, ClientLives, ActorServes
<1>4. QED
  BY <1>1, <1>2, <1>3, PTL DEF Spec

-----------------------------------------------------------------------------
LEMMA SumNext ==
  ASSUME TypeOK, Lives, SnmpLives, TotalIsSum, [Next]_vars
  PROVE  SnmpLives' /\ TotalIsSum'
<1> USE DEF SnmpLives, TotalIsSum, Counts
<1>1. offered \in [Dirs -> Nat] /\ recv \in [Dirs -> Nat] /\ total \in [Dirs -> Nat]
      /\ stage \in Stages /\ mode' = mode
  <2>1. mode' = mode
    BY DEF Next, Actor, NewSession, OnConnect, ConnectSnmp, ConnectActor, ConnectDial,
           Ask, Answer, OnMsg, OnMsgFails, OnMsgSend, ClientOnMsg, ClientEnds, ClientSend,
           Expire, OnDisconnect, CloseCli, CloseSnmp, Close, CloseReturn, DelSession,
           tunVars, config, vars
  <2>2. QED
    BY <2>1 DEF TypeOK
<1>2. CASE UNCHANGED <<stats, offered>> /\ UNCHANGED stage
  BY <1>1, <1>2 DEF stats
<1>3. CASE UNCHANGED <<stats, offered>> /\ (NewSession \/ ConnectActor \/ ConnectDial)
  BY <1>1, <1>3 DEF stats, NewSession, ConnectActor, ConnectDial, Step
<1>4. ASSUME NEW d, \/ Ask(d, "askCli", "waitCli") \/ Ask(d, "askSvr", "waitSvr")
                    \/ Answer(d, "waitCli", "askSvr") \/ Answer(d, "waitSvr", "serve")
      PROVE  SnmpLives' /\ TotalIsSum'
  BY <1>1, <1>4 DEF Ask, Answer, stats, Step
<1>5. CASE OnMsgFails \/ OnMsgSend \/ Expire \/ DelSession \/ Close \/ CloseReturn \/ CloseCli
  BY <1>1, <1>5 DEF OnMsgFails, OnMsgSend, Expire, DelSession, Close, CloseReturn, CloseCli,
                    stats, Step
<1>6. ASSUME NEW d \in Dirs, Receive(d), Counts => snmps PROVE TotalIsSum'
  BY <1>1, <1>6 DEF Receive
<1>7. CASE OnMsg
  <2>1. "in" \in Dirs /\ UNCHANGED snmps
    BY <1>7 DEF OnMsg, Receive, Dirs
  <2>2. QED
    BY <1>1, <1>6, <1>7, <2>1 DEF OnMsg, Step
<1>8. CASE ClientOnMsg
  <2>1. "out" \in Dirs /\ UNCHANGED <<snmps, stage>>
    BY <1>8 DEF ClientOnMsg, Receive, Dirs
  <2>2. Counts => snmps
    BY <1>8 DEF ClientOnMsg, Lives, ClientLives
  <2>3. QED
    BY <1>1, <1>6, <1>8, <2>1, <2>2 DEF ClientOnMsg
<1>9. CASE ConnectSnmp
  BY <1>1, <1>9 DEF ConnectSnmp, Step, Fresh
<1>10. CASE CloseSnmp
  BY <1>1, <1>10 DEF CloseSnmp, Step
<1>11. CASE OnConnect
  BY <1>3, <1>4, <1>9, <1>11 DEF OnConnect, ConnectActor, ConnectDial
<1>12. CASE Actor \/ ClientEnds \/ ClientSend \/ UNCHANGED vars
  BY <1>2, <1>12 DEF Actor, ClientEnds, ClientSend, vars, tunVars
<1>13. QED
  BY <1>3, <1>5, <1>7, <1>8, <1>10, <1>11, <1>12 DEF Next, OnDisconnect, NewSession

(* The statistics of the tunnel lose nothing and count nothing twice:      *)
(* snmp.close runs after the last callback that counts.                    *)
THEOREM TotalIsTheSum == Spec => []TotalIsSum
<1>1. Init => TypeOK /\ Lives /\ SnmpLives /\ TotalIsSum
  <2>1. Init => SnmpLives
    BY DEF Init, SnmpLives
  <2>2. Init => TotalIsSum
    BY DEF Init, TotalIsSum, Fresh
  <2>3. QED
    BY <2>1, <2>2, TypeInit, LivesInit
<1>2. TypeOK /\ Lives /\ SnmpLives /\ TotalIsSum /\ [Next]_vars
        => (TypeOK /\ Lives /\ SnmpLives /\ TotalIsSum)'
  BY TypeNext, LivesNext, SumNext
<1>3. QED
  BY <1>1, <1>2, PTL DEF Spec

-----------------------------------------------------------------------------
(* The tunnel implements LossyLink.  That a packet is sent on at most once *)
(* and, undelayed, in order is not inductive: packets wait in three places *)
(* and move from one to the next.  Handed(d) packets have reached the      *)
(* mailbox, where their numbers increase; what is in l.msgs is before all  *)
(* of those, and what was sent is in neither and, undelayed, before both.  *)
Handed(d) == offered[d] - InHand(d)

IsPacket(i, d) == i \in 1..Len(mailbox) /\ mailbox[i].type = "packet" /\ mailbox[i].dir = d

Queued(d) ==
  /\ \A i \in 1..Len(mailbox) : IsPacket(i, d) => mailbox[i].num \in 1..Handed(d)
  /\ \A i, j \in 1..Len(mailbox) :
       IsPacket(i, d) /\ IsPacket(j, d) /\ i < j => mailbox[i].num < mailbox[j].num

Kept(d) ==
  \A n \in pending[d] :
    /\ n \in 1..Handed(d)
    /\ \A i \in 1..Len(mailbox) : IsPacket(i, d) => n < mailbox[i].num

Passed(d) ==
  \A k \in 1..Len(sent[d]) :
    /\ sent[d][k] \in 1..Handed(d)
    /\ sent[d][k] \notin pending[d]
    /\ \A i \in 1..Len(mailbox) : IsPacket(i, d) => sent[d][k] < mailbox[i].num
    /\ d \notin Delayed => \A n \in pending[d] : sent[d][k] < n

LinkInv == \A d \in Dirs : InHand(d) <= offered[d] /\ Queued(d) /\ Kept(d) /\ Passed(d)

(* The counters only grow, and InHand follows them.                        *)
LEMMA HandedMoves ==
  ASSUME TypeOK, Lives, LinkInv, [Next]_vars, NEW d \in Dirs
  PROVE  /\ Handed(d) \in Nat /\ Handed(d)' \in Nat /\ Handed(d) <= Handed(d)'
         /\ InHand(d)' <= offered'[d]
         /\ offered[d] \in Nat /\ offered'[d] \in {offered[d], offered[d] + 1}
<1> USE DEF Handed, InHand
<1>1. offered \in [Dirs -> Nat] /\ stage \in Stages /\ client \in {"off", "idle", "send"}
      /\ InHand(d) <= offered[d]
  BY DEF TypeOK, LinkInv
<1>2. CASE UNCHANGED <<offered, client, stage>>
  BY <1>1, <1>2
<1>3. CASE OnConnect
  <2>1. UNCHANGED offered
    BY <1>3 DEF OnConnect, ConnectSnmp, ConnectActor, ConnectDial, Ask, Answer
  <2>2. stage # "send" /\ stage' # "send"
    BY <1>3 DEF OnConnect, ConnectSnmp, ConnectActor, ConnectDial, Ask, Answer, Step
  <2>3. client' = client \/ (client = "off" /\ client' = "idle")
    BY <1>1, <1>3 DEF OnConnect, ConnectSnmp, ConnectActor, ConnectDial, Ask, Answer, Step,
                 Lives, ClientLives
  <2>4. QED
    BY <1>1, <2>1, <2>2, <2>3
<1>4. CASE NewSession \/ OnMsgFails \/ Expire \/ DelSession \/ CloseSnmp \/ Close \/ CloseReturn
  BY <1>1, <1>4 DEF NewSession, OnMsgFails, Expire, DelSession, CloseSnmp, Close, CloseReturn,
                    Step
<1>5. CASE CloseCli
  BY <1>1, <1>5 DEF CloseCli, Step, Lives, ClientLives
<1>6. CASE OnMsg
  BY <1>1, <1>6 DEF OnMsg, Receive, Step
<1>7. CASE ClientOnMsg
  BY <1>1, <1>7 DEF ClientOnMsg, Receive
<1>8. CASE OnMsgSend
  BY <1>1, <1>8 DEF OnMsgSend, Step
<1>9. CASE ClientSend \/ ClientEnds
  BY <1>1, <1>9 DEF ClientSend, ClientEnds
<1>10. QED
  BY <1>2, <1>3, <1>4, <1>5, <1>6, <1>7, <1>8, <1>9
     DEF Next, Actor, OnDisconnect, vars, tunVars

(* The moves of a packet, one by one                                       *)
LEMMA NothingMoves ==
  ASSUME TypeOK, Lives, LinkInv, [Next]_vars, UNCHANGED <<mailbox, pending, sent>>
  PROVE  LinkInv'
<1> SUFFICES ASSUME NEW d \in Dirs
             PROVE  (InHand(d) <= offered[d] /\ Queued(d) /\ Kept(d) /\ Passed(d))'
  BY DEF LinkInv
<1>1. \A x \in 1..Handed(d) : x \in 1..(Handed(d)')
  BY HandedMoves
<1>2. Queued(d) /\ Kept(d) /\ Passed(d)
  BY DEF LinkInv
<1>3. Queued(d)'
  BY <1>1, <1>2 DEF Queued, IsPacket
<1>4. Kept(d)'
  BY <1>1, <1>2 DEF Kept, IsPacket
<1>5. Passed(d)'
  BY <1>1, <1>2 DEF Passed, IsPacket
<1>6. QED
  BY <1>3, <1>4, <1>5, HandedMoves

LEMMA Restart ==
  ASSUME TypeOK, Lives, LinkInv, [Next]_vars,
         mailbox' = <<>>, pending' = Fresh({}), UNCHANGED sent
  PROVE  LinkInv'
<1> SUFFICES ASSUME NEW d \in Dirs
             PROVE  (InHand(d) <= offered[d] /\ Queued(d) /\ Kept(d) /\ Passed(d))'
  BY DEF LinkInv
<1>1. \A x \in 1..Handed(d) : x \in 1..(Handed(d)')
  BY HandedMoves
<1>2. Passed(d) /\ Len(mailbox') = 0 /\ pending'[d] = {}
  BY DEF LinkInv, Fresh
<1>3. Queued(d)'
  BY <1>2 DEF Queued
<1>4. Kept(d)'
  BY <1>2 DEF Kept
<1>5. Passed(d)'
  BY <1>1, <1>2 DEF Passed
<1>6. QED
  BY <1>3, <1>4, <1>5, HandedMoves

LEMMA Arrives ==
  ASSUME TypeOK, Lives, LinkInv, [Next]_vars, UNCHANGED <<pending, sent>>,
         NEW m \in Mails, mailbox' = Append(mailbox, m),
         m.type = "packet" => m.num = Handed(m.dir) + 1 /\ m.num = Handed(m.dir)'
  PROVE  LinkInv'
<1> SUFFICES ASSUME NEW d \in Dirs
             PROVE  (InHand(d) <= offered[d] /\ Queued(d) /\ Kept(d) /\ Passed(d))'
  BY DEF LinkInv
<1>1. Handed(d) \in Nat /\ Handed(d)' \in Nat /\ Handed(d) <= Handed(d)'
  BY HandedMoves
<1>2. Queued(d) /\ Kept(d) /\ Passed(d)
  BY DEF LinkInv
<1> DEFINE l == Len(mailbox)
<1>3. l \in Nat /\ mailbox \in Seq(Mails)
  BY LenProperties DEF TypeOK, LatencyTypeOK
<1>4. /\ Len(mailbox') = l + 1
      /\ \A i \in 1..l : mailbox'[i] = mailbox[i]
      /\ mailbox'[l + 1] = m
  BY <1>3, AppendProperties
<1>5. \A i \in 1..l : IsPacket(i, d)' <=> IsPacket(i, d)
  BY <1>3, <1>4 DEF IsPacket
<1>6. \A i \in 1..Len(mailbox') :
        i \notin 1..l /\ IsPacket(i, d)' =>
          mailbox'[i].num = Handed(d) + 1 /\ mailbox'[i].num = Handed(d)'
  BY <1>3, <1>4 DEF IsPacket
<1>7. \A i, j \in 1..Len(mailbox') : i < j => i \in 1..l
  BY <1>3, <1>4
<1>8. \A i \in 1..l : IsPacket(i, d) => mailbox[i].num \in 1..Handed(d)
  BY <1>2 DEF Queued
<1> HIDE DEF l
<1>9. Queued(d)'
  <2>1. ASSUME NEW i \in 1..Len(mailbox'), IsPacket(i, d)'
        PROVE  mailbox'[i].num \in 1..(Handed(d)')
    <3>1. CASE i \in 1..l
      BY <1>1, <1>4, <1>5, <1>8, <2>1, <3>1
    <3>2. CASE i \notin 1..l
      BY <1>1, <1>6, <2>1, <3>2
    <3>3. QED
      BY <3>1, <3>2
  <2>2. ASSUME NEW i \in 1..Len(mailbox'), NEW j \in 1..Len(mailbox'),
               IsPacket(i, d)', IsPacket(j, d)', i < j
        PROVE  mailbox'[i].num < mailbox'[j].num
    <3>1. i \in 1..l
      BY <1>7, <2>2
    <3>2. CASE j \in 1..l
      BY <1>2, <1>4, <1>5, <2>2, <3>1, <3>2 DEF Queued, l
    <3>3. CASE j \notin 1..l
      <4>1. mailbox'[i].num \in 1..Handed(d)
        BY <1>4, <1>5, <1>8, <2>2, <3>1
      <4>2. mailbox'[j].num = Handed(d) + 1
        BY <1>6, <2>2, <3>3
      <4>3. QED
        BY <1>1, <4>1, <4>2
    <3>4. QED
      BY <3>2, <3>3
  <2>3. QED
    BY <2>1, <2>2 DEF Queued
<1>10. Kept(d)'
  <2>1. ASSUME NEW n \in pending[d]
        PROVE  /\ n \in 1..(Handed(d)')
               /\ \A i \in 1..Len(mailbox') : IsPacket(i, d)' => n < mailbox'[i].num
    <3>1. n \in 1..Handed(d) /\ \A i \in 1..l : IsPacket(i, d) => n < mailbox[i].num
      BY <1>2, <2>1 DEF Kept, l
    <3>2. QED
      BY <1>1, <1>4, <1>5, <1>6, <3>1
  <2>2. QED
    BY <2>1 DEF Kept
<1>11. Passed(d)'
  <2>1. ASSUME NEW k \in 1..Len(sent[d])
        PROVE  /\ sent[d][k] \in 1..(Handed(d)')
               /\ \A i \in 1..Len(mailbox') : IsPacket(i, d)' => sent[d][k] < mailbox'[i].num
    <3>1. /\ sent[d][k] \in 1..Handed(d)
          /\ \A i \in 1..l : IsPacket(i, d) => sent[d][k] < mailbox[i].num
      BY <1>2, <2>1 DEF Passed, l
    <3>2. sent[d][k] \in 1..(Handed(d)')
      BY <1>1, <3>1
    <3>3. ASSUME NEW i \in 1..Len(mailbox'), IsPacket(i, d)'
          PROVE  sent[d][k] < mailbox'[i].num
      <4>1. CASE i \in 1..l
        BY <1>4, <1>5, <3>1, <3>3, <4>1
      <4>2. CASE i \notin 1..l
        <5>1. mailbox'[i].num = Handed(d) + 1
          BY <1>6, <3>3, <4>2
        <5>2. QED
          BY <1>1, <3>1, <5>1
      <4>3. QED
        BY <4>1, <4>2
    <3>4. QED
      BY <3>2, <3>3
  <2>2. QED
    BY <1>2, <2>1 DEF Passed
<1>12. QED
  BY <1>9, <1>10, <1>11, HandedMoves

LEMMA Taken ==
  ASSUME TypeOK, Lives, LinkInv, [Next]_vars, UNCHANGED sent,
         mailbox # <<>>, mailbox' = Tail(mailbox),
         \A d \in Dirs : \A n \in pending'[d] :
           n \in pending[d] \/ (IsPacket(1, d) /\ n = mailbox[1].num)
  PROVE  LinkInv'
<1> SUFFICES ASSUME NEW d \in Dirs
             PROVE  (InHand(d) <= offered[d] /\ Queued(d) /\ Kept(d) /\ Passed(d))'
  BY DEF LinkInv
<1>1. Handed(d) \in Nat /\ Handed(d)' \in Nat /\ Handed(d) <= Handed(d)'
  BY HandedMoves
<1>2. Queued(d) /\ Kept(d) /\ Passed(d)
  BY DEF LinkInv
<1> DEFINE l == Len(mailbox)
<1>3. l \in Nat /\ l # 0 /\ mailbox \in Seq(Mails)
  BY LenProperties, EmptySeq DEF TypeOK, LatencyTypeOK
<1>4. /\ Len(mailbox') = l - 1
      /\ \A i \in 1..Len(mailbox') : mailbox'[i] = mailbox[i + 1]
  BY <1>3, HeadTailProperties
<1>5. \A i \in 1..Len(mailbox') : i + 1 \in 1..l /\ (IsPacket(i, d)' => IsPacket(i + 1, d))
  BY <1>3, <1>4 DEF IsPacket
<1>6. 1 \in 1..l
  BY <1>3
<1> HIDE DEF l
<1>7. Queued(d)'
  <2>1. ASSUME NEW i \in 1..Len(mailbox'), IsPacket(i, d)'
        PROVE  mailbox'[i].num \in 1..(Handed(d)')
    <3>1. mailbox[i + 1].num \in 1..Handed(d)
      BY <1>2, <1>5, <2>1 DEF Queued, l
    <3>2. QED
      BY <1>1, <1>4, <3>1
  <2>2. ASSUME NEW i \in 1..Len(mailbox'), NEW j \in 1..Len(mailbox'),
               IsPacket(i, d)', IsPacket(j, d)', i < j
        PROVE  mailbox'[i].num < mailbox'[j].num
    <3>1. mailbox[i + 1].num < mailbox[j + 1].num
      BY <1>2, <1>5, <2>2 DEF Queued, l
    <3>2. QED
      BY <1>4, <3>1
  <2>3. QED
    BY <2>1, <2>2 DEF Queued
<1>8. Kept(d)'
  <2>1. ASSUME NEW n \in pending'[d]
        PROVE  /\ n \in 1..(Handed(d)')
               /\ \A i \in 1..Len(mailbox') : IsPacket(i, d)' => n < mailbox'[i].num
    <3>1. CASE n \in pending[d]
      <4>1. n \in 1..Handed(d) /\ \A i \in 1..l : IsPacket(i, d) => n < mailbox[i].num
        BY <1>2, <3>1 DEF Kept, l
      <4>2. QED
        BY <1>1, <1>4, <1>5, <4>1
    <3>2. CASE IsPacket(1, d) /\ n = mailbox[1].num
      <4>1. n \in 1..Handed(d)
        BY <1>2, <1>6, <3>2 DEF Queued, l
      <4>2. \A j \in 1..l : IsPacket(j, d) /\ 1 < j => n < mailbox[j].num
        BY <1>2, <1>6, <3>2 DEF Queued, l
      <4>3. \A i \in 1..Len(mailbox') : 1 < i + 1
        OBVIOUS
      <4>4. QED
        BY <1>1, <1>4, <1>5, <4>1, <4>2, <4>3
    <3>3. QED
      BY <2>1, <3>1, <3>2
  <2>2. QED
    BY <2>1 DEF Kept
<1>9. Passed(d)'
  <2>1. ASSUME NEW k \in 1..Len(sent[d])
        PROVE  /\ sent[d][k] \in 1..(Handed(d)')
               /\ sent[d][k] \notin pending'[d]
               /\ \A i \in 1..Len(mailbox') : IsPacket(i, d)' => sent[d][k] < mailbox'[i].num
               /\ d \notin Delayed => \A n \in pending'[d] : sent[d][k] < n
    <3>1. /\ sent[d][k] \in 1..Handed(d)
          /\ sent[d][k] \notin pending[d]
          /\ \A i \in 1..l : IsPacket(i, d) => sent[d][k] < mailbox[i].num
          /\ d \notin Delayed => \A n \in pending[d] : sent[d][k] < n
      BY <1>2, <2>1 DEF Passed, l
    <3>2. sent[d][k] \in 1..(Handed(d)')
      BY <1>1, <3>1
    <3>3. \A i \in 1..Len(mailbox') : IsPacket(i, d)' => sent[d][k] < mailbox'[i].num
      BY <1>4, <1>5, <3>1
    <3>4. ASSUME NEW n \in pending'[d]
          PROVE  sent[d][k] # n /\ (d \notin Delayed => sent[d][k] < n)
      <4>1. CASE n \in pending[d]
        BY <3>1, <4>1
      <4>2. CASE IsPacket(1, d) /\ n = mailbox[1].num
        <5>1. sent[d][k] < n
          BY <1>6, <3>1, <4>2
        <5>2. QED
          BY <3>1, <5>1
      <4>3. QED
        BY <3>4, <4>1, <4>2
    <3>5. QED
      BY <3>2, <3>3, <3>4
  <2>2. QED
    BY <2>1 DEF Passed
<1>10. QED
  BY <1>7, <1>8, <1>9, HandedMoves

LEMMA SentOn ==
  ASSUME TypeOK, Lives, LinkInv, [Next]_vars, UNCHANGED mailbox,
         NEW e \in Dirs, NEW num \in pending[e],
         e \notin Delayed => \A k \in pending[e] : num <= k,
         pending' = [pending EXCEPT ![e] = pending[e] \ {num}],
         sent' = [sent EXCEPT ![e] = Append(sent[e], num)] \/ UNCHANGED sent
  PROVE  LinkInv'
<1> SUFFICES ASSUME NEW d \in Dirs
             PROVE  (InHand(d) <= offered[d] /\ Queued(d) /\ Kept(d) /\ Passed(d))'
  BY DEF LinkInv
<1>1. Handed(d) \in Nat /\ Handed(d)' \in Nat /\ Handed(d) <= Handed(d)'
  BY HandedMoves
<1>2. Queued(d) /\ Kept(d) /\ Passed(d)
  BY DEF LinkInv
<1>3. \A i \in 1..Len(mailbox) : IsPacket(i, d)' <=> IsPacket(i, d)
  BY DEF IsPacket
<1>4. pending \in [Dirs -> SUBSET Nat] /\ sent \in [Dirs -> Seq(Nat)]
  BY DEF TypeOK, LatencyTypeOK
<1>5. pending'[d] \subseteq pending[d] /\ (d = e => num \notin pending'[d])
  BY <1>4
<1>6. Queued(d)'
  BY <1>1, <1>2, <1>3 DEF Queued
<1>7. Kept(d)'
  BY <1>1, <1>2, <1>3, <1>5 DEF Kept
<1>8. ASSUME NEW x,
             /\ x \in 1..Handed(d)
             /\ x \notin pending'[d]
             /\ \A i \in 1..Len(mailbox) : IsPacket(i, d) => x < mailbox[i].num
             /\ d \notin Delayed => \A m \in pending'[d] : x < m
      PROVE  /\ x \in 1..(Handed(d)')
             /\ x \notin pending'[d]
             /\ \A i \in 1..Len(mailbox') : IsPacket(i, d)' => x < mailbox'[i].num
             /\ d \notin Delayed => \A m \in pending'[d] : x < m
  BY <1>1, <1>3, <1>8
<1>9. ASSUME NEW k \in 1..Len(sent[d])
      PROVE  /\ sent[d][k] \in 1..Handed(d)
             /\ sent[d][k] \notin pending'[d]
             /\ \A i \in 1..Len(mailbox) : IsPacket(i, d) => sent[d][k] < mailbox[i].num
             /\ d \notin Delayed => \A m \in pending'[d] : sent[d][k] < m
  <2>1. /\ sent[d][k] \in 1..Handed(d) /\ sent[d][k] \notin pending[d]
        /\ \A i \in 1..Len(mailbox) : IsPacket(i, d) => sent[d][k] < mailbox[i].num
        /\ d \notin Delayed => \A m \in pending[d] : sent[d][k] < m
    BY <1>2, <1>9 DEF Passed
  <2> DEFINE x == sent[d][k]
  <2> HIDE DEF x
  <2>2. x \notin pending'[d] /\ (d \notin Delayed => \A m \in pending'[d] : x < m)
    BY <1>5, <2>1 DEF x
  <2>3. QED
    BY <2>1, <2>2 DEF x
<1>10. ASSUME sent'[d] = sent[d] PROVE Passed(d)'
  BY <1>8, <1>9, <1>10 DEF Passed
<1>11. ASSUME d = e, sent'[d] = Append(sent[d], num) PROVE Passed(d)'
  <2>1. /\ num \in 1..Handed(d)
        /\ num \notin pending'[d]
        /\ \A i \in 1..Len(mailbox) : IsPacket(i, d) => num < mailbox[i].num
    BY <1>2, <1>5, <1>11 DEF Kept
  <2>2. d \notin Delayed => \A m \in pending'[d] : num < m
    <3>1. \A m \in pending'[d] : m \in Nat /\ num \in Nat /\ m # num
      BY <1>4, <1>5, <1>11
    <3>2. d \notin Delayed => \A m \in pending'[d] : num <= m
      BY <1>5, <1>11
    <3>3. QED
      BY <3>1, <3>2
  <2>3. /\ sent[d] \in Seq(Nat) /\ Len(sent'[d]) = Len(sent[d]) + 1
        /\ \A k \in 1..Len(sent[d]) : sent'[d][k] = sent[d][k]
        /\ sent'[d][Len(sent[d]) + 1] = num
        /\ Len(sent[d]) \in Nat
    BY <1>4, <1>11, AppendProperties, LenProperties
  <2>4. ASSUME NEW k \in 1..Len(sent'[d])
        PROVE  /\ sent'[d][k] \in 1..(Handed(d)')
               /\ sent'[d][k] \notin pending'[d]
               /\ \A i \in 1..Len(mailbox') : IsPacket(i, d)' => sent'[d][k] < mailbox'[i].num
               /\ d \notin Delayed => \A m \in pending'[d] : sent'[d][k] < m
    <3>1. CASE k \in 1..Len(sent[d])
      BY <1>8, <1>9, <2>3, <3>1
    <3>2. CASE k = Len(sent[d]) + 1
      BY <1>8, <2>1, <2>2, <2>3, <3>2
    <3>3. QED
      BY <2>3, <3>1, <3>2
  <2>5. QED
    BY <2>4 DEF Passed
<1>12. sent'[d] = sent[d] \/ (d = e /\ sent'[d] = Append(sent[d], num))
  BY <1>4
<1>13. Passed(d)'
  BY <1>10, <1>11, <1>12
<1>14. QED
  BY <1>6, <1>7, <1>13, HandedMoves

LEMMA LinkNext ==
  ASSUME TypeOK, Lives, LinkInv, [Next]_vars
  PROVE  LinkInv'
<1>1. mailbox \in Seq(Mails) /\ offered \in [Dirs -> Nat]
      /\ pending \in [Dirs -> SUBSET Nat]
  BY DEF TypeOK, LatencyTypeOK
<1>2. CASE UNCHANGED <<mailbox, pending, sent>>
  BY <1>2, NothingMoves
<1>3. CASE ConnectActor
  BY <1>3, Restart DEF ConnectActor, NewLatencyActor
<1>4. ASSUME NEW d \in Dirs, NEW from, NEW to, Ask(d, from, to)
      PROVE  LinkInv'
  <2>1. Register(d) \in Mails /\ Register(d).type # "packet"
    BY DEF Register, Mails
  <2>2. mailbox' = Append(mailbox, Register(d)) /\ UNCHANGED <<pending, sent>>
    BY <1>4 DEF Ask, SendMail
  <2>3. QED
    BY <2>1, <2>2, Arrives
<1>5. CASE OnMsgSend
  <2>1. /\ Packet("in", offered["in"]) \in Mails
        /\ Packet("in", offered["in"]).num = offered["in"]
        /\ Packet("in", offered["in"]).dir = "in"
        /\ offered["in"] \in Nat
    BY <1>1 DEF Packet, Mails, Dirs
  <2>2. /\ mailbox' = Append(mailbox, Packet("in", offered["in"]))
        /\ UNCHANGED <<pending, sent, offered>> /\ stage = "send" /\ stage' = "serve"
    BY <1>5 DEF OnMsgSend, SendMail, Step
  <2>3. Handed("in") = offered["in"] - 1 /\ Handed("in")' = offered["in"]
    BY <2>1, <2>2 DEF Handed, InHand
  <2>4. QED
    BY <2>1, <2>2, <2>3, Arrives
<1>6. CASE ClientSend
  <2>1. /\ Packet("out", offered["out"]) \in Mails
        /\ Packet("out", offered["out"]).num = offered["out"]
        /\ Packet("out", offered["out"]).dir = "out"
        /\ offered["out"] \in Nat
    BY <1>1 DEF Packet, Mails, Dirs
  <2>2. /\ mailbox' = Append(mailbox, Packet("out", offered["out"]))
        /\ UNCHANGED <<pending, sent, offered>> /\ client = "send" /\ client' = "idle"
    BY <1>6 DEF ClientSend, SendMail
  <2>3. Handed("out") = offered["out"] - 1 /\ Handed("out")' = offered["out"]
    BY <2>1, <2>2 DEF Handed, InHand
  <2>4. QED
    BY <2>1, <2>2, <2>3, Arrives
<1>7. ASSUME NEW d \in Dirs, HandleRegister(d)
      PROVE  LinkInv'
  BY <1>7, Taken DEF HandleRegister, TakeMail
<1>8. ASSUME NEW d \in Dirs, HandlePacket(d)
      PROVE  LinkInv'
  <2>1. /\ mailbox # <<>> /\ mailbox' = Tail(mailbox) /\ UNCHANGED sent
        /\ Head(mailbox).type = "packet" /\ Head(mailbox).dir = d
    BY <1>8 DEF HandlePacket, TakeMail
  <2>2. mailbox[1] = Head(mailbox) /\ 1 \in 1..Len(mailbox)
    BY <1>1, <2>1, HeadTailProperties, LenProperties, EmptySeq
  <2>3. IsPacket(1, d)
    BY <2>1, <2>2 DEF IsPacket
  <2>4. pending' = pending \/ pending' = [pending EXCEPT ![d] = pending[d] \cup {mailbox[1].num}]
    BY <1>8, <2>2 DEF HandlePacket
  <2>5. \A c \in Dirs : \A n \in pending'[c] :
          n \in pending[c] \/ (IsPacket(1, c) /\ n = mailbox[1].num)
    BY <1>1, <2>3, <2>4
  <2>6. QED
    BY <2>1, <2>5, Taken
<1>9. ASSUME NEW d \in Dirs, Forward(d)
      PROVE  LinkInv'
  <2>1. PICK n \in pending[d] :
           /\ d \notin Delayed => \A k \in pending[d] : n <= k
           /\ pending' = [pending EXCEPT ![d] = pending[d] \ {n}]
           /\ sent' = [sent EXCEPT ![d] = Append(sent[d], n)] \/ UNCHANGED sent
    BY <1>9 DEF Forward
  <2>2. UNCHANGED mailbox
    BY <1>9 DEF Forward
  <2>3. QED
    BY <2>1, <2>2, SentOn
<1>10. CASE Actor
  BY <1>2, <1>7, <1>8, <1>9, <1>10 DEF Actor, LogicLoop, Ticker, TickEnd, BreakLoop
<1>11. CASE OnConnect
  BY <1>2, <1>3, <1>4, <1>11 DEF OnConnect, ConnectSnmp, ConnectDial, Answer, latencyVars, Dirs
<1>12. CASE OnDisconnect
  BY <1>2, <1>12 DEF OnDisconnect, CloseCli, CloseSnmp, Close, CloseActor, CloseReturn,
                     JoinActor, latencyVars
<1>13. QED
  BY <1>2, <1>5, <1>6, <1>10, <1>11, <1>12
     DEF Next, vars, NewSession, OnMsg, OnMsgFails, ClientOnMsg, ClientEnds,
         Expire, DelSession, latencyVars

LEMMA LinkInit == Init => LinkInv
<1> SUFFICES ASSUME Init, NEW d \in Dirs
             PROVE  InHand(d) <= offered[d] /\ Queued(d) /\ Kept(d) /\ Passed(d)
  BY DEF LinkInv
<1>1. offered[d] = 0 /\ InHand(d) = 0
  BY DEF Init, Fresh, InHand
<1>2. Len(mailbox) = 0 /\ pending[d] = {} /\ Len(sent[d]) = 0
  BY DEF Init, LatencyInit, Fresh
<1>3. QED
  BY <1>1, <1>2 DEF Queued, Kept, Passed

(* Every step of the tunnel is one of the link or none.                    *)
LEMMA LinkStep ==
  ASSUME TypeOK, Lives, LinkInv, [Next]_vars
  PROVE  [Link!Next]_<<offered, sent>>
<1>1. /\ offered \in [Dirs -> Nat] /\ sent \in [Dirs -> Seq(Nat)]
      /\ "in" \in Dirs /\ "out" \in Dirs
  BY DEF TypeOK, LatencyTypeOK, Dirs
<1>2. CASE OnMsg \/ ClientOnMsg
  <2>1. PICK d \in Dirs : offered' = [offered EXCEPT ![d] = offered[d] + 1]
    BY <1>1, <1>2 DEF OnMsg, ClientOnMsg, Receive
  <2>2. UNCHANGED sent
    BY <1>2 DEF OnMsg, ClientOnMsg, latencyVars
  <2>3. QED
    BY <2>1, <2>2 DEF Link!Next, Link!Offer
<1>3. ASSUME NEW d \in Dirs, Forward(d), UNCHANGED tunVars
      PROVE  [Link!Next]_<<offered, sent>>
  <2>1. PICK n \in pending[d] :
           /\ d \notin Delayed => \A k \in pending[d] : n <= k
           /\ sent' = [sent EXCEPT ![d] = Append(sent[d], n)] \/ UNCHANGED sent
    BY <1>3 DEF Forward
  <2>2. UNCHANGED offered
    BY <1>3 DEF tunVars
  <2>3. Kept(d) /\ Passed(d) /\ InHand(d) <= offered[d]
    BY DEF LinkInv
  <2>4. n \in 1..offered[d]
    <3>1. n \in 1..Handed(d)
      BY <2>3 DEF Kept
    <3>2. QED
      BY <1>1, <3>1 DEF Handed, InHand
  <2>5. \A k \in 1..Len(sent[d]) : sent[d][k] # n /\ (d \notin Delayed => sent[d][k] < n)
    BY <2>3 DEF Passed
  <2>6. CASE sent' = [sent EXCEPT ![d] = Append(sent[d], n)]
    <3>1. Link!Forward(d)
      BY <2>2, <2>4, <2>5, <2>6 DEF Link!Forward
    <3>2. QED
      BY <3>1 DEF Link!Next
  <2>7. QED
    BY <2>1, <2>2, <2>6
<1>4. CASE Actor
  BY <1>3, <1>4
     DEF Actor, LogicLoop, HandleRegister, HandlePacket, TakeMail, Ticker, TickEnd, BreakLoop,
         tunVars
<1>5. CASE OnConnect
  BY <1>5 DEF OnConnect, ConnectSnmp, ConnectActor, NewLatencyActor, ConnectDial, Ask, Answer,
              SendMail, latencyVars
<1>6. CASE OnDisconnect
  BY <1>6 DEF OnDisconnect, CloseCli, CloseSnmp, Close, CloseActor, CloseReturn, JoinActor,
              latencyVars
<1>7. QED
  BY <1>2, <1>4, <1>5, <1>6
     DEF Next, vars, tunVars, NewSession, OnMsgFails, OnMsgSend, SendMail, ClientEnds,
         ClientSend, Expire, DelSession, latencyVars

(* registry.go with the latency actor is a link that loses and delays, but *)
(* sends no packet twice, and without delay keeps the order, whatever the  *)
(* number of sessions and the size of the mailbox.                         *)
THEOREM IsLossyLink == Spec => LinkSpec
<1>1. Init => TypeOK /\ Lives /\ LinkInv
  BY TypeInit, LivesInit, LinkInit
<1>2. TypeOK /\ Lives /\ LinkInv /\ [Next]_vars => (TypeOK /\ Lives /\ LinkInv)'
  BY TypeNext, LivesNext, LinkNext
<1>3. Init => Link!Init
  BY DEF Init, LatencyInit, Fresh, Link!Init
<1>4. TypeOK /\ Lives /\ LinkInv /\ [Next]_vars => [Link!Next]_<<offered, sent>>
  BY LinkStep
<1>5. QED
  BY <1>1, <1>2, <1>3, <1>4, PTL DEF Spec, LinkSpec, Link!Spec

-----------------------------------------------------------------------------
(* CountsAgree: how many packets wait in the mailbox after each move.      *)
PacketsIn(s, d) == {i \in 1..Len(s) : s[i].type = "packet" /\ s[i].dir = d}

LEMMA WaitingType ==
  ASSUME NEW s \in Seq(Mails), NEW d
  PROVE  IsFiniteSet(PacketsIn(s, d)) /\ Cardinality(PacketsIn(s, d)) \in Nat
<1> DEFINE w == PacketsIn(s, d)
<1>1. IsFiniteSet(1..Len(s))
  BY LenProperties, FS_Interval
<1>2. IsFiniteSet(w)
  BY <1>1, FS_Subset DEF PacketsIn
<1>3. QED
  BY <1>2, FS_CardinalityType

LEMMA WaitingAppend ==
  ASSUME NEW s \in Seq(Mails), NEW d, NEW m \in Mails
  PROVE  Cardinality(PacketsIn(Append(s, m), d)) =
           IF m.type = "packet" /\ m.dir = d THEN Cardinality(PacketsIn(s, d)) + 1
                                             ELSE Cardinality(PacketsIn(s, d))
<1> DEFINE t == Append(s, m)
           w == PacketsIn(s, d)
           v == PacketsIn(t, d)
           l == Len(s)
<1>1. /\ l \in Nat /\ Len(t) = l + 1 /\ t[l + 1] = m
      /\ \A i \in 1..l : t[i] = s[i]
  BY AppendProperties, LenProperties
<1> HIDE DEF t
<1>2. l + 1 \notin w /\ IsFiniteSet(w)
  <2>1. l + 1 \notin w
    BY <1>1 DEF PacketsIn
  <2>2. IsFiniteSet(w)
    BY WaitingType
  <2>3. QED
    BY <2>1, <2>2
<1>3. v = IF m.type = "packet" /\ m.dir = d THEN w \cup {l + 1} ELSE w
  <2>1. \A i \in 1..Len(t) : i \in 1..l \/ i = l + 1
    BY <1>1
  <2>2. \A i \in 1..l : i \in 1..Len(t) /\ (i \in v <=> i \in w)
    BY <1>1 DEF PacketsIn
  <2>3. l + 1 \in 1..Len(t) /\ (l + 1 \in v <=> m.type = "packet" /\ m.dir = d)
    BY <1>1 DEF PacketsIn
  <2>4. v \subseteq 1..Len(t) /\ w \subseteq 1..l
    BY DEF PacketsIn
  <2> HIDE DEF v, w, l
  <2>5. CASE m.type = "packet" /\ m.dir = d
    <3>1. \A x : x \in v <=> x \in w \/ x = l + 1
      BY <2>1, <2>2, <2>3, <2>4, <2>5
    <3>2. v = w \cup {l + 1}
      BY <3>1
    <3>3. QED
      BY <2>5, <3>2
  <2>6. CASE ~(m.type = "packet" /\ m.dir = d)
    <3>1. \A x : x \in v <=> x \in w
      BY <2>1, <2>2, <2>3, <2>4, <2>6
    <3>2. QED
      BY <2>6, <3>1
  <2>7. QED
    BY <2>5, <2>6
<1> HIDE DEF v, w, l
<1>4. QED
  <2>1. Cardinality(w \cup {l + 1}) = Cardinality(w) + 1
    BY <1>2, FS_AddElement
  <2>2. Cardinality(v) = IF m.type = "packet" /\ m.dir = d THEN Cardinality(w) + 1
                                                         ELSE Cardinality(w)
    BY <1>3, <2>1
  <2>3. QED
    BY <2>2 DEF v, w, t

LEMMA WaitingTail ==
  ASSUME NEW s \in Seq(Mails), s # <<>>, NEW d, NEW t, t = Tail(s)
  PROVE  Cardinality(PacketsIn(t, d)) =
           IF Head(s).type = "packet" /\ Head(s).dir = d
           THEN Cardinality(PacketsIn(s, d)) - 1 ELSE Cardinality(PacketsIn(s, d))
<1> DEFINE w == PacketsIn(s, d)
           v == PacketsIn(t, d)
           rest == w \ {1}
           l == Len(s)
<1>1. /\ l \in Nat /\ l # 0 /\ Len(t) = l - 1
      /\ \A i \in 1..Len(t) : t[i] = s[i + 1]
      /\ Head(s) = s[1]
  BY HeadTailProperties, LenProperties, EmptySeq
<1>2. IsFiniteSet(w) /\ IsFiniteSet(v) /\ Cardinality(w) \in Nat
  <2>1. t \in Seq(Mails)
    BY HeadTailProperties
  <2>2. QED
    BY <2>1, WaitingType
<1>3. 1 \in w <=> Head(s).type = "packet" /\ Head(s).dir = d
  BY <1>1 DEF PacketsIn
<1>4. \A i \in v : i \in Nat /\ i + 1 \in rest
  BY <1>1 DEF PacketsIn
<1>5. \A j \in rest : j \in Nat /\ j - 1 \in v /\ (j - 1) + 1 = j
  <2>1. ASSUME NEW j \in rest PROVE j \in Nat /\ j - 1 \in v /\ (j - 1) + 1 = j
    <3>1. j \in 2..l /\ j - 1 \in 1..Len(t) /\ (j - 1) + 1 = j
      BY <1>1 DEF PacketsIn
    <3>2. t[j - 1] = s[(j - 1) + 1]
      BY <1>1, <3>1
    <3>3. t[j - 1] = s[j]
      BY <3>1, <3>2
    <3>4. QED
      BY <3>1, <3>3 DEF PacketsIn
  <2>2. QED
    BY <2>1
<1> HIDE DEF v, w, rest, l
<1>6. Cardinality(rest) = Cardinality(v)
  <2> DEFINE f == [i \in v |-> i + 1]
  <2>1. f \in [v -> rest]
    BY <1>4
  <2>2. \A i, j \in v : f[i] = f[j] => i = j
    BY <1>4
  <2>3. \A j \in rest : \E i \in v : f[i] = j
    BY <1>5
  <2>4. f \in Bijection(v, rest)
    BY <2>1, <2>2, <2>3, Fun_IsBij
  <2>5. QED
    BY <1>2, <2>4, FS_Bijection DEF ExistsBijection
<1>7. Cardinality(rest) = IF 1 \in w THEN Cardinality(w) - 1 ELSE Cardinality(w)
  BY <1>2, FS_RemoveElement DEF rest
<1>8. Cardinality(v) = IF Head(s).type = "packet" /\ Head(s).dir = d
                       THEN Cardinality(w) - 1 ELSE Cardinality(w)
  BY <1>3, <1>6, <1>7
<1>9. QED
  BY <1>8 DEF v, w

Queue(d) == Cardinality(Waiting(d))

(* New statistics start at zero with the new actor.                        *)
FreshCounts == Counts /\ stage = "actor" => \A d \in Dirs : recv[d] = 0

LEMMA QueueMoves ==
  ASSUME TypeOK, [Next]_vars, NEW d \in Dirs
  PROVE  /\ Queue(d) \in Nat /\ Queue(d)' \in Nat
         /\ UNCHANGED mailbox => Queue(d)' = Queue(d)
         /\ mailbox' = <<>> => Queue(d)' = 0
         /\ \A m \in Mails : mailbox' = Append(mailbox, m) =>
              Queue(d)' = IF m.type = "packet" /\ m.dir = d THEN Queue(d) + 1 ELSE Queue(d)
         /\ mailbox # <<>> /\ mailbox' = Tail(mailbox) =>
              Queue(d)' = IF Head(mailbox).type = "packet" /\ Head(mailbox).dir = d
                          THEN Queue(d) - 1 ELSE Queue(d)
<1>1. Queue(d) = Cardinality(PacketsIn(mailbox, d)) /\ Queue(d)' = Cardinality(PacketsIn(mailbox', d))
  BY DEF Queue, Waiting, PacketsIn
<1>2. mailbox \in Seq(Mails) /\ mailbox' \in Seq(Mails)
  BY MailboxType DEF TypeOK, LatencyTypeOK
<1>3. Queue(d) \in Nat /\ Queue(d)' \in Nat
  BY <1>1, <1>2, WaitingType
<1>4. ASSUME mailbox' = <<>> PROVE Queue(d)' = 0
  <2>1. PacketsIn(mailbox', d) = {}
    BY <1>4 DEF PacketsIn
  <2>2. QED
    BY <1>1, <2>1, FS_EmptySet
<1>5. ASSUME NEW m \in Mails, mailbox' = Append(mailbox, m)
      PROVE  Queue(d)' = IF m.type = "packet" /\ m.dir = d THEN Queue(d) + 1 ELSE Queue(d)
  <2>1. Cardinality(PacketsIn(mailbox', d)) =
          IF m.type = "packet" /\ m.dir = d THEN Cardinality(PacketsIn(mailbox, d)) + 1
                                            ELSE Cardinality(PacketsIn(mailbox, d))
    BY <1>2, <1>5, WaitingAppend
  <2>2. QED
    BY <1>1, <2>1
<1>6. ASSUME mailbox # <<>>, mailbox' = Tail(mailbox)
      PROVE  Queue(d)' = IF Head(mailbox).type = "packet" /\ Head(mailbox).dir = d
                         THEN Queue(d) - 1 ELSE Queue(d)
  BY <1>1, <1>2, <1>6, WaitingTail
<1>7. QED
  BY <1>1, <1>3, <1>4, <1>5, <1>6

LEMMA CountsNext ==
  ASSUME TypeOK, Lives, SnmpLives, FreshCounts, CountsAgree, [Next]_vars
  PROVE  FreshCounts' /\ CountsAgree'
<1> SUFFICES ASSUME Counts', NEW d \in Dirs
             PROVE  /\ stage' = "actor" => recv'[d] = 0
                    /\ stage' \notin {"none", "snmp", "actor", "done"} =>
                         recv'[d] = packets'[d] + Queue(d)' + InHand(d)'
  BY DEF FreshCounts, CountsAgree, Queue
<1>1. /\ Queue(d) \in Nat /\ Queue(d)' \in Nat
      /\ recv \in [Dirs -> Nat] /\ packets \in [Dirs -> Nat]
      /\ stage \in Stages /\ client \in {"off", "idle", "send"}
      /\ offered \in [Dirs -> Nat]
  BY QueueMoves DEF TypeOK, LatencyTypeOK
<1>2. Counts
  BY DEF Counts, Next, Actor, NewSession, OnConnect, ConnectSnmp, ConnectActor, ConnectDial,
         Ask, Answer, OnMsg, OnMsgFails, OnMsgSend, ClientOnMsg, ClientEnds, ClientSend,
         Expire, OnDisconnect, CloseCli, CloseSnmp, Close, CloseReturn, DelSession,
         tunVars, config, vars
<1>3. /\ stage = "actor" => recv[d] = 0
      /\ stage \notin {"none", "snmp", "actor", "done"} =>
           recv[d] = packets[d] + Queue(d) + InHand(d)
  BY <1>2 DEF FreshCounts, CountsAgree, Queue
<1>4. UNCHANGED mailbox => Queue(d)' = Queue(d)
  BY QueueMoves
<1>5. CASE UNCHANGED <<stage, client, recv, packets, mailbox>>
  BY <1>1, <1>3, <1>4, <1>5 DEF InHand
<1>6. CASE ConnectSnmp
  <2>1. stage = "snmp" /\ stage' = "actor" /\ ~snmps
    BY <1>2, <1>6 DEF ConnectSnmp, Step, SnmpLives
  <2>2. QED
    BY <1>2, <1>6, <2>1 DEF ConnectSnmp, Fresh
<1>7. CASE ConnectActor
  <2>1. /\ stage = "actor" /\ stage' = "dial" /\ mailbox' = <<>> /\ packets'[d] = 0
        /\ UNCHANGED <<recv, client>>
    BY <1>7 DEF ConnectActor, NewLatencyActor, Step, Fresh, stats
  <2>2. client = "off"
    BY <2>1 DEF Lives, ClientLives
  <2>3. Queue(d)' = 0
    BY <2>1, QueueMoves
  <2>4. QED
    BY <1>1, <1>3, <2>1, <2>2, <2>3 DEF InHand
<1>8. CASE ConnectDial
  <2>1. /\ stage = "dial" /\ stage' \in {"askCli", "serve"} /\ client' \in {"idle", client}
        /\ UNCHANGED <<mailbox, packets, recv>>
    BY <1>8 DEF ConnectDial, Step, latencyVars, stats
  <2>2. client = "off"
    BY <2>1 DEF Lives, ClientLives
  <2>3. QED
    BY <1>1, <1>3, <1>4, <2>1, <2>2 DEF InHand
<1>9. ASSUME NEW e \in Dirs, Ask(e, "askCli", "waitCli") \/ Ask(e, "askSvr", "waitSvr")
      PROVE  recv'[d] = packets'[d] + Queue(d)' + InHand(d)' /\ stage' # "actor"
  <2>1. Register(e) \in Mails /\ Register(e).type # "packet"
    BY DEF Register, Mails
  <2>2. /\ mailbox' = Append(mailbox, Register(e)) /\ UNCHANGED <<packets, recv, client>>
        /\ stage \in {"askCli", "askSvr"} /\ stage' \in {"waitCli", "waitSvr"}
    BY <1>9 DEF Ask, SendMail, Step, stats
  <2>3. Queue(d)' = Queue(d)
    BY <2>1, <2>2, QueueMoves
  <2>4. QED
    BY <1>1, <1>3, <2>2, <2>3 DEF InHand
<1>10. ASSUME NEW e \in Dirs, Answer(e, "waitCli", "askSvr") \/ Answer(e, "waitSvr", "serve")
       PROVE  recv'[d] = packets'[d] + Queue(d)' + InHand(d)' /\ stage' # "actor"
  BY <1>1, <1>3, <1>4, <1>10 DEF Answer, Step, latencyVars, stats, InHand
<1>11. CASE OnConnect
  BY <1>6, <1>7, <1>8, <1>9, <1>10, <1>11 DEF OnConnect, Dirs
<1>12. CASE NewSession \/ DelSession
  BY <1>12 DEF NewSession, DelSession, Step
<1>13. CASE OnMsgFails \/ Expire \/ CloseSnmp \/ Close \/ CloseReturn
  BY <1>1, <1>3, <1>4, <1>13 DEF OnMsgFails, Expire, CloseSnmp, Close, CloseActor, CloseReturn,
                                 JoinActor, Step, latencyVars, stats, InHand
<1>14. CASE CloseCli
  BY <1>1, <1>3, <1>4, <1>14 DEF CloseCli, Step, latencyVars, stats, InHand, Lives, ClientLives
<1>15. CASE ClientEnds
  BY <1>1, <1>3, <1>4, <1>15 DEF ClientEnds, latencyVars, stats, InHand
<1>16. CASE OnMsg
  <2>1. /\ recv' = [recv EXCEPT !["in"] = recv["in"] + 1]
        /\ UNCHANGED <<packets, mailbox, client>> /\ stage = "serve" /\ stage' = "send"
    BY <1>2, <1>16 DEF OnMsg, Receive, Step, latencyVars
  <2>2. QED
    BY <1>1, <1>3, <1>4, <2>1 DEF InHand, Dirs
<1>17. CASE ClientOnMsg
  <2>1. /\ recv' = [recv EXCEPT !["out"] = recv["out"] + 1]
        /\ UNCHANGED <<packets, mailbox, stage>> /\ client = "idle" /\ client' = "send"
    BY <1>2, <1>17 DEF ClientOnMsg, Receive, latencyVars
  <2>2. stage \notin {"none", "snmp", "actor", "done"}
    BY <2>1 DEF Lives, ClientLives
  <2>3. QED
    BY <1>1, <1>3, <1>4, <2>1, <2>2 DEF InHand, Dirs
<1>18. CASE OnMsgSend
  <2>1. /\ Packet("in", offered["in"]) \in Mails
        /\ Packet("in", offered["in"]).type = "packet" /\ Packet("in", offered["in"]).dir = "in"
    BY <1>1 DEF Packet, Mails, Dirs
  <2>2. /\ mailbox' = Append(mailbox, Packet("in", offered["in"]))
        /\ UNCHANGED <<packets, recv, client>> /\ stage = "send" /\ stage' = "serve"
    BY <1>18 DEF OnMsgSend, SendMail, Step, stats
  <2>3. Queue(d)' = IF d = "in" THEN Queue(d) + 1 ELSE Queue(d)
    BY <2>1, <2>2, QueueMoves
  <2>4. QED
    BY <1>1, <1>3, <2>2, <2>3 DEF InHand
<1>19. CASE ClientSend
  <2>1. /\ Packet("out", offered["out"]) \in Mails
        /\ Packet("out", offered["out"]).type = "packet" /\ Packet("out", offered["out"]).dir = "out"
    BY <1>1 DEF Packet, Mails, Dirs
  <2>2. /\ mailbox' = Append(mailbox, Packet("out", offered["out"]))
        /\ UNCHANGED <<packets, recv, stage>> /\ client = "send" /\ client' = "idle"
    BY <1>19 DEF ClientSend, SendMail, stats
  <2>3. Queue(d)' = IF d = "out" THEN Queue(d) + 1 ELSE Queue(d)
    BY <2>1, <2>2, QueueMoves
  <2>4. QED
    BY <1>1, <1>3, <2>2, <2>3 DEF InHand, Lives, ClientLives
<1>20. ASSUME NEW e \in Dirs, HandleRegister(e), UNCHANGED tunVars
       PROVE  UNCHANGED <<stage, client, recv, packets>> /\ Queue(d)' = Queue(d)
  BY <1>20, QueueMoves DEF HandleRegister, TakeMail, tunVars, stats
<1>21. ASSUME NEW e \in Dirs, HandlePacket(e), UNCHANGED tunVars
       PROVE  /\ UNCHANGED <<stage, client, recv>>
              /\ packets'[d] + Queue(d)' = packets[d] + Queue(d)
  <2>1. /\ packets' = [packets EXCEPT ![e] = packets[e] + 1]
        /\ mailbox # <<>> /\ mailbox' = Tail(mailbox)
        /\ Head(mailbox).type = "packet" /\ Head(mailbox).dir = e
    BY <1>21 DEF HandlePacket, TakeMail
  <2>2. Queue(d)' = IF d = e THEN Queue(d) - 1 ELSE Queue(d)
    BY <2>1, QueueMoves
  <2>3. QED
    BY <1>1, <1>21, <2>1, <2>2 DEF tunVars, stats
<1>22. CASE Actor
  <2>1. CASE \E e \in Dirs : HandleRegister(e)
    BY <1>1, <1>3, <1>20, <1>22, <2>1 DEF Actor, InHand
  <2>2. CASE \E e \in Dirs : HandlePacket(e)
    BY <1>1, <1>3, <1>21, <1>22, <2>2 DEF Actor, InHand
  <2>3. QED
    BY <1>5, <1>22, <2>1, <2>2
       DEF Actor, LogicLoop, Forward, Ticker, TickEnd, BreakLoop, tunVars, stats
<1>23. CASE UNCHANGED vars
  BY <1>5, <1>23 DEF vars, latencyVars, tunVars, stats
<1>24. QED
  BY <1>11, <1>12, <1>13, <1>14, <1>15, <1>16, <1>17, <1>18, <1>19, <1>22, <1>23
     DEF Next, OnDisconnect

(* No packet disappears between the statistics of the tunnel and those of  *)
(* the actor: what one has counted and the other has not is in the mailbox *)
(* or with the handler that waits for room in it.                          *)
THEOREM CountsAlwaysAgree == Spec => []CountsAgree
<1>1. Init => TypeOK /\ Lives /\ SnmpLives /\ TotalIsSum /\ FreshCounts /\ CountsAgree
  <2>1. Init => SnmpLives /\ FreshCounts /\ CountsAgree
    BY DEF Init, SnmpLives, FreshCounts, CountsAgree
  <2>2. Init => TotalIsSum
    BY DEF Init, TotalIsSum, Fresh
  <2>3. QED
    BY <2>1, <2>2, TypeInit, LivesInit
<1>2. TypeOK /\ Lives /\ SnmpLives /\ TotalIsSum /\ FreshCounts /\ CountsAgree /\ [Next]_vars
        => (TypeOK /\ Lives /\ SnmpLives /\ TotalIsSum /\ FreshCounts /\ CountsAgree)'
  BY TypeNext, LivesNext, SumNext, CountsNext
<1>3. QED
  BY <1>1, <1>2, PTL DEF Spec

-----------------------------------------------------------------------------
(* ServedIsForwarded: OnConnect waits for the answer of each registration, *)
(* and an actor forgets no send function while the session has it.         *)
Registered ==
  /\ stage \in {"actor", "dial"} => ~cli
  /\ stage \in {"askSvr", "waitSvr"} => "in" \in sendTo
  /\ stage \in {"serve", "send", "closeCli"} /\ cli => sendTo = Dirs

LEMMA RegisteredNext ==
  ASSUME TypeOK, Registered, [Next]_vars
  PROVE  Registered'
<1>1. sendTo \subseteq Dirs /\ stage \in Stages
  BY DEF TypeOK, LatencyTypeOK
<1>2. CASE Actor
  <2>1. sendTo' = sendTo \/ \E d \in Dirs : sendTo' = sendTo \cup {d}
    BY <1>2 DEF Actor, LogicLoop, HandleRegister, HandlePacket, TakeMail, Forward, Ticker,
                TickEnd, BreakLoop
  <2>2. sendTo \subseteq sendTo' /\ sendTo' \subseteq Dirs
    BY <1>1, <2>1
  <2>3. UNCHANGED <<stage, cli>>
    BY <1>2 DEF Actor, tunVars
  <2>4. QED
    BY <2>2, <2>3 DEF Registered
<1>3. CASE ConnectSnmp \/ ConnectActor \/ ConnectDial
  BY <1>3 DEF Registered, ConnectSnmp, ConnectActor, ConnectDial, Step, latencyVars
<1>4. ASSUME NEW d \in Dirs, Ask(d, "askCli", "waitCli") \/ Ask(d, "askSvr", "waitSvr")
      PROVE  Registered'
  BY <1>4 DEF Registered, Ask, SendMail, Step
<1>5. CASE Answer("in", "waitCli", "askSvr")
  BY <1>5 DEF Registered, Answer, Step, latencyVars
<1>6. CASE Answer("out", "waitSvr", "serve")
  <2>1. stage = "waitSvr" /\ stage' = "serve" /\ "out" \in sendTo /\ sendTo' = sendTo
    BY <1>6 DEF Answer, Step, latencyVars
  <2>2. sendTo = Dirs
    BY <1>1, <2>1 DEF Registered, Dirs
  <2>3. QED
    BY <2>1, <2>2 DEF Registered
<1>7. CASE OnConnect
  BY <1>3, <1>4, <1>5, <1>6, <1>7 DEF OnConnect, Dirs
<1>8. CASE OnMsgSend \/ ClientSend
  BY <1>8 DEF Registered, OnMsgSend, ClientSend, SendMail, Step
<1>9. CASE Close \/ CloseReturn
  BY <1>9 DEF Registered, Close, CloseReturn, CloseActor, JoinActor, Step
<1>10. CASE NewSession \/ OnMsg \/ OnMsgFails \/ Expire \/ DelSession \/ CloseCli \/ CloseSnmp
  BY <1>10 DEF Registered, NewSession, OnMsg, OnMsgFails, Expire, DelSession, CloseCli,
               CloseSnmp, Step, latencyVars
<1>11. CASE ClientOnMsg \/ ClientEnds \/ UNCHANGED vars
  BY <1>11 DEF Registered, ClientOnMsg, ClientEnds, vars, tunVars, latencyVars
<1>12. QED
  BY <1>2, <1>7, <1>8, <1>9, <1>10, <1>11 DEF Next, OnDisconnect

(* Only tickLoop and a new actor take packets out of l.msgs.               *)
LEMMA PendingShrinks ==
  ASSUME TypeOK, [Next]_vars, NEW d \in Dirs, ~ pending[d] \subseteq pending'[d]
  PROVE  ConnectActor \/ Forward(d)
<1>1. ASSUME NEW e \in Dirs, HandlePacket(e)
      PROVE  pending[d] \subseteq pending'[d]
  <2>1. UNCHANGED pending \/ pending' = [pending EXCEPT ![e] = pending[e] \cup {Head(mailbox).num}]
    BY <1>1 DEF HandlePacket
  <2>2. QED
    BY <2>1 DEF TypeOK, LatencyTypeOK
<1>2. ASSUME NEW e \in Dirs, Forward(e), e # d
      PROVE  pending[d] \subseteq pending'[d]
  <2>1. PICK n \in pending[e] : pending' = [pending EXCEPT ![e] = pending[e] \ {n}]
    BY <1>2 DEF Forward
  <2>2. QED
    BY <1>2, <2>1 DEF TypeOK, LatencyTypeOK
<1>3. CASE Actor
  BY <1>1, <1>2, <1>3 DEF Actor, LogicLoop, HandleRegister, Ticker, TickEnd, BreakLoop
<1>4. CASE OnConnect
  BY <1>4 DEF OnConnect, ConnectSnmp, ConnectDial, Ask, SendMail, Answer, latencyVars
<1>5. CASE OnMsgSend \/ ClientSend \/ OnDisconnect
  BY <1>5 DEF OnMsgSend, ClientSend, SendMail, OnDisconnect, CloseCli, CloseSnmp, Close,
              CloseActor, CloseReturn, JoinActor, latencyVars
<1>6. QED
  BY <1>3, <1>4, <1>5
     DEF Next, vars, NewSession, OnMsg, OnMsgFails, ClientOnMsg, ClientEnds, Expire,
         DelSession, latencyVars

LEMMA ForwardPasses ==
  ASSUME TypeOK, NEW d \in Dirs, d \in sendTo, Forward(d)
  PROVE  sent'[d] # sent[d]
<1>1. PICK n \in pending[d] : sent' = [sent EXCEPT ![d] = Append(sent[d], n)]
  BY DEF Forward
<1>2. n \in Nat /\ sent[d] \in Seq(Nat) /\ sent \in [Dirs -> Seq(Nat)]
  BY DEF TypeOK, LatencyTypeOK
<1>3. Len(Append(sent[d], n)) = Len(sent[d]) + 1 /\ Len(sent[d]) \in Nat
  BY <1>2, AppendProperties, LenProperties
<1>4. Append(sent[d], n) # sent[d]
  BY <1>3
<1>5. QED
  BY <1>1, <1>2, <1>4

(* A packet that leaves l.msgs while the session is served has been passed *)
(* to its send function: the two SyncRequests of OnConnect have returned.  *)
THEOREM ServedForwards == Spec => ServedIsForwarded
<1>1. Init => TypeOK /\ Registered
  <2>1. Init => Registered
    BY DEF Init, Registered
  <2>2. QED
    BY <2>1, TypeInit
<1>2. TypeOK /\ Registered /\ [Next]_vars => (TypeOK /\ Registered)'
  BY TypeNext, RegisteredNext
<1>3. TypeOK /\ Registered /\ [Next]_vars =>
        [\A d \in Dirs :
           /\ stage \in {"serve", "send", "closeCli"} /\ cli
           /\ ~ pending[d] \subseteq pending'[d]
           => sent'[d] # sent[d]]_vars
  <2>1. SUFFICES ASSUME TypeOK, Registered, [Next]_vars, NEW d \in Dirs,
                        stage \in {"serve", "send", "closeCli"}, cli,
                        ~ pending[d] \subseteq pending'[d]
                 PROVE  sent'[d] # sent[d]
    OBVIOUS
  <2>2. ~ConnectActor
    BY <2>1 DEF ConnectActor, Step
  <2>3. Forward(d)
    BY <2>1, <2>2, PendingShrinks
  <2>4. d \in sendTo
    BY <2>1 DEF Registered
  <2>5. QED
    BY <2>1, <2>3, <2>4, ForwardPasses
<1>4. QED
  BY <1>1, <1>2, <1>3, PTL DEF Spec, ServedIsForwarded

-----------------------------------------------------------------------------
(* The callbacks of registry.go run as a server of SessionCallbacks runs   *)
(* them.                                                                   *)
running == [a \in {"remote"} |-> Running]

LEMMA RunningMoves ==
  ASSUME TypeOK, NEW s, NEW from, NEW to,
         Running = {<<s, from>>} /\ Running' = {<<s, to>>}, <<from, to>> \in Server!Follows,
         s \in 1..MaxSessions, UNCHANGED sessions
  PROVE  Server!Next
<1>1. /\ running["remote"] = {<<s, from>>}
      /\ running' = [running EXCEPT !["remote"] = {<<s, to>>}]
  BY DEF running
<1>2. Server!Continue("remote", s)
  BY <1>1 DEF Server!Continue, running
<1>3. QED
  BY <1>2 DEF Server!Next

(* A session has begun while its callbacks run.                            *)
Begun == stage \notin {"none", "done"} => sessions \in 1..MaxSessions

LEMMA StageMoves ==
  ASSUME TypeOK, [Next]_vars
  PROVE  \/ NewSession
         \/ /\ UNCHANGED sessions
            /\ \/ UNCHANGED stage
               \/ <<stage, stage'>> \in
                    {<<"snmp", "actor">>, <<"actor", "dial">>, <<"dial", "askCli">>,
                     <<"askCli", "waitCli">>, <<"waitCli", "askSvr">>, <<"askSvr", "waitSvr">>,
                     <<"dial", "serve">>, <<"waitSvr", "serve">>,
                     <<"serve", "send">>, <<"send", "serve">>, <<"serve", "closeCli">>,
                     <<"closeCli", "closeSnmp">>, <<"closeCli", "panic">>,
                     <<"closeSnmp", "closeActor">>, <<"closeActor", "joinActor">>,
                     <<"joinActor", "done">>, <<"done", "none">>}
<1>1. CASE OnConnect
  BY <1>1 DEF OnConnect, ConnectSnmp, ConnectActor, ConnectDial, Ask, Answer, Step
<1>2. CASE OnMsg \/ OnMsgFails \/ OnMsgSend \/ Expire \/ DelSession
  BY <1>2 DEF OnMsg, OnMsgFails, OnMsgSend, Expire, DelSession, Step
<1>3. CASE OnDisconnect
  BY <1>3 DEF OnDisconnect, CloseCli, CloseSnmp, Close, CloseReturn, Step
<1>4. CASE ClientOnMsg \/ ClientEnds \/ ClientSend \/ Actor \/ UNCHANGED vars
  BY <1>4 DEF ClientOnMsg, ClientEnds, ClientSend, Actor, tunVars, vars
<1>5. QED
  BY <1>1, <1>2, <1>3, <1>4 DEF Next

LEMMA ServerStep ==
  ASSUME TypeOK, Begun, [Next]_vars
  PROVE  [Server!Next]_<<1..sessions, running>> /\ Begun'
<1>1. CASE NewSession
  <2>1. /\ stage = "none" /\ stage' = "snmp"
        /\ sessions < MaxSessions /\ sessions' = sessions + 1
        /\ sessions \in Nat /\ MaxSessions \in Nat
    BY <1>1, TunAssumption DEF NewSession, Step, TypeOK
  <2>2. sessions' \in 1..MaxSessions
    BY <2>1
  <2>3. sessions' \notin 1..sessions /\ 1..sessions' = (1..sessions) \cup {sessions'}
    BY <2>1
  <2>4. Running = {} /\ Running' = {<<sessions', "connect">>}
    BY <2>1 DEF Running, Callback
  <2>5. /\ running["remote"] = {}
        /\ running' = [running EXCEPT !["remote"] = {<<sessions', "connect">>}]
    BY <2>4 DEF running
  <2>6. Server!Begin("remote", sessions')
    BY <2>3, <2>5 DEF Server!Begin, running
  <2>7. QED
    BY <2>2, <2>6 DEF Server!Next, Begun
<1>2. CASE UNCHANGED <<stage, sessions>>
  BY <1>2 DEF running, Running, Callback, Begun
<1>3. ASSUME UNCHANGED sessions,
             <<stage, stage'>> \in
               {<<"snmp", "actor">>, <<"actor", "dial">>, <<"dial", "askCli">>,
                <<"askCli", "waitCli">>, <<"waitCli", "askSvr">>, <<"askSvr", "waitSvr">>,
                <<"closeCli", "closeSnmp">>, <<"closeCli", "panic">>,
                <<"closeSnmp", "closeActor">>, <<"closeActor", "joinActor">>, <<"done", "none">>}
      PROVE  [Server!Next]_<<1..sessions, running>> /\ Begun'
  <2>1. Running' = Running
    BY <1>3 DEF Running, Callback
  <2>2. Begun'
    BY <1>3 DEF Begun
  <2>3. QED
    BY <1>3, <2>1, <2>2 DEF running
<1>4. ASSUME UNCHANGED sessions,
             <<stage, stage'>> \in
               {<<"dial", "serve">>, <<"waitSvr", "serve">>, <<"serve", "send">>,
                <<"send", "serve">>, <<"serve", "closeCli">>}
      PROVE  Server!Next /\ Begun'
  <2>1. sessions \in 1..MaxSessions /\ Begun'
    BY <1>4 DEF Begun
  <2>2. /\ Running = {<<sessions, Callback>>} /\ Running' = {<<sessions, Callback'>>}
        /\ <<Callback, Callback'>> \in Server!Follows
    BY <1>4 DEF Running, Callback, Server!Follows
  <2>3. QED
    BY <1>4, <2>1, <2>2, RunningMoves
<1>5. ASSUME UNCHANGED sessions, stage = "joinActor", stage' = "done"
      PROVE  Server!Next /\ Begun'
  <2>1. sessions \in 1..MaxSessions /\ Begun'
    BY <1>5 DEF Begun
  <2>2. Running = {<<sessions, "disconnect">>} /\ Running' = {}
    BY <1>5 DEF Running, Callback
  <2>3. /\ running["remote"] = {<<sessions, "disconnect">>}
        /\ running' = [running EXCEPT !["remote"] = {}]
    BY <2>2 DEF running
  <2>4. Server!End("remote", sessions)
    BY <1>5, <2>3 DEF Server!End, running
  <2>5. QED
    BY <2>1, <2>4 DEF Server!Next
<1>6. QED
  BY <1>1, <1>2, <1>3, <1>4, <1>5, StageMoves

(* The tunnel asks no more of the UDP server than RunsCallbacks says of    *)
(* it: one session after the other, onConnect, messages, onDisconnect.     *)
THEOREM IsServed == Spec => ServerSpec
<1>1. Init => TypeOK /\ Begun
  <2>1. Init => Begun
    BY DEF Init, Begun
  <2>2. QED
    BY <2>1, TypeInit
<1>2. TypeOK /\ Begun /\ [Next]_vars => (TypeOK /\ Begun)'
  BY TypeNext, ServerStep
<1>3. Init => Server!Init
  <2>1. ASSUME Init PROVE 1..sessions = {} /\ Running = {}
    BY <2>1 DEF Init, Running
  <2>2. QED
    BY <2>1 DEF Server!Init
<1>4. TypeOK /\ Begun /\ [Next]_vars =>
        [Server!Next]_<<1..sessions, [a \in {"remote"} |-> Running]>>
  BY ServerStep DEF running
<1>5. QED
  BY <1>1, <1>2, <1>3, <1>4, PTL DEF Spec, ServerSpec, Server!Spec
=============================================================================
