----------------------------- MODULE ActorProofs ----------------------------
(***************************************************************************)
(* Proofs about Actor, for any actors, names, callers and bounds: state    *)
(* types, one served actor per name, closed actors leave nothing behind,   *)
(* nothing is closed twice; mails are handled in order, every request is   *)
(* accounted for, and it gets its own answer.                              *)
(*                                                                         *)
(* The argument for the first ones: an actor is in the registry exactly    *)
(* while it is Held, from registerActor until deregisterActor, and is      *)
(* served only while it is held, or else has started late, when wg.Wait    *)
(* had nobody to wait for.  This is kept because an actor is only ever     *)
(* closed by the one goroutine CloserOf names, and by it once.             *)
(*                                                                         *)
(* For the others: the mail in hand and the mailbox are one sequence,      *)
(* Unhandled, that sending extends and handling shortens.  The mails of a  *)
(* caller in it increase and none is past its last request, and a caller   *)
(* that waits has its mail in it exactly as long as it has no result.      *)
(***************************************************************************)
EXTENDS Actor, SequenceTheorems, TLAPS

(* A caller inside a request has a target and a mail.                      *)
Calling == \A c \in Callers : caller[c] # "idle" => target[c] \in Actors /\ call[c] \in Mails

Typed == TypeOK /\ Calling

CloserOf(a) == IF closer[All] = "idle" THEN a ELSE All

Alive == {"registered", "running", "late"}

Held(a) ==
  /\ owner[a] \in Alive
  /\ closeCh[a] => closing[CloserOf(a)] = a

Registry == \A n \in Names : actors[n] # NoActor => NameOf[actors[n]] = n

Holding == \A a \in Actors : actors[NameOf[a]] = a <=> Held(a)

(* The goroutine runs from wg.Add to wg.Done, and wg.Wait waits for it if  *)
(* it has been counted by then.                                            *)
Loops ==
  \A a \in Actors :
    /\ owner[a] \in {"running", "late"} <=> loop[a] # "none"
    /\ owner[a] = "running" /\ Waited(a) => loop[a] = "done"
    /\ owner[a] = "late" => Waited(a)

(* What a closer has still to close is open, and only it closes it.        *)
ToClose ==
  \A p \in Closers, a \in Actors :
    a \in as[p] =>
      p = CloserOf(a) /\ closer[p] # "idle" /\ ~closeCh[a] /\ owner[a] \in Alive

WaitsFor ==
  \A p \in Closers, a \in Actors : closing[p] = a => p = CloserOf(a) /\ closeCh[a]

IdleOpen == \A a \in Actors : closer[CloserOf(a)] = "idle" => ~closeCh[a]

ClosedAlive == \A a \in Actors : closeCh[a] => owner[a] \in Alive

Closing == ToClose /\ WaitsFor /\ IdleOpen /\ ClosedAlive

IInv == Registry /\ Holding /\ Loops /\ Closing /\ NoPanic

-----------------------------------------------------------------------------
LEMMA InitTyped == ASSUME Init PROVE Typed
<1>1. \A S : <<>> \in Seq(S)
  OBVIOUS
<1>2. Len(<<>>) = 0
  OBVIOUS
<1> QED
  BY <1>1, <1>2, ActorAssumption DEF Init, Typed, TypeOK, Calling, Kinds, Closers

LEMMA NextTyped == ASSUME Typed, [Next]_vars PROVE Typed'
<1> USE DEF Typed, TypeOK, Calling
<1>1. CASE UNCHANGED vars
  BY <1>1 DEF vars, callVars, closeVars
<1>2. ASSUME NEW a \in Actors, RegisterActor(a) PROVE Typed'
  <2>1. NameOf[a] \in Names
    BY ActorAssumption
  <2>2. /\ actors' \in [Names -> Actors \cup {NoActor}]
        /\ owner' \in [Actors -> {"new", "registered", "running", "late", "failed"}]
    <3>1. CASE actors' = [actors EXCEPT ![NameOf[a]] = a]
      <4>1. actors' \in [Names -> Actors \cup {NoActor}]
        BY <2>1, <3>1
      <4>2. owner' = [owner EXCEPT ![a] = "registered"]
            \/ owner' = [owner EXCEPT ![a] = "failed"]
        BY <1>2 DEF RegisterActor
      <4> QED
        BY <4>1, <4>2
    <3>2. CASE UNCHANGED actors
      BY <1>2, <3>2 DEF RegisterActor
    <3> QED
      BY <1>2, <3>1, <3>2 DEF RegisterActor
  <2> QED
    BY <1>2, <2>2 DEF RegisterActor, callVars, closeVars
<1>3. ASSUME NEW a \in Actors, Start(a) PROVE Typed'
  BY <1>3 DEF Start, callVars, closeVars
<1>4. ASSUME NEW a \in Actors, RecvMail(a) PROVE Typed'
  <2>1. /\ box[a] \in Seq(Mails) /\ box[a] # <<>>
        /\ Head(box[a]) \in Mails /\ Tail(box[a]) \in Seq(Mails)
        /\ Len(Tail(box[a])) <= MailMax
    BY <1>4, HeadTailProperties, ActorAssumption DEF RecvMail
  <2>2. <<Head(box[a])>> \in Seq(Mails)
    BY <2>1
  <2>3. /\ mail' \in [Actors -> Seq(Mails)] /\ box' \in [Actors -> Seq(Mails)]
        /\ \A b \in Actors : Len(box'[b]) <= MailMax
    BY <1>4, <2>1, <2>2 DEF RecvMail
  <2> QED
    BY <1>4, <2>3 DEF RecvMail, callVars, closeVars
<1>5. ASSUME NEW a \in Actors, Handle(a) PROVE Typed'
  <2>1. <<>> \in Seq(Mails)
    OBVIOUS
  <2>2. result' \in [Callers -> BOOLEAN]
    BY <1>5 DEF Handle, Awaits
  <2> QED
    BY <1>5, <2>1, <2>2 DEF Handle, closeVars
<1>6. ASSUME NEW a \in Actors, Ticker(a) \/ Tick(a) \/ BreakLoop(a) \/ CloseState(a)
      PROVE Typed'
  <2>1. CASE Ticker(a)
    BY <2>1 DEF Ticker, callVars, closeVars
  <2>2. CASE Tick(a)
    BY <2>2 DEF Tick, callVars, closeVars
  <2>3. CASE BreakLoop(a)
    BY <2>3 DEF BreakLoop, callVars, closeVars
  <2>4. CASE CloseState(a)
    BY <2>4 DEF CloseState, callVars, closeVars
  <2> QED
    BY <1>6, <2>1, <2>2, <2>3, <2>4
<1>7. ASSUME NEW c \in Callers, NEW n \in Names, NEW kind \in Kinds, Request(c, n, kind)
      PROVE Typed'
  <2>1. actors[n] \in Actors
    BY <1>7 DEF Request
  <2>2. [from |-> c, n |-> call[c].n + 1, kind |-> kind] \in Mails
    BY <1>7, ActorAssumption DEF Request, Mails
  <2>3. \A m \in Mails : m \in [from : Callers, n : 0..MaxCalls, kind : Kinds]
    BY ActorAssumption DEF Mails
  <2>4. call' \in [Callers -> [from : Callers, n : 0..MaxCalls, kind : Kinds]]
    BY <1>7, <2>2, <2>3 DEF Request
  <2>5. Calling'
    BY <1>7, <2>1, <2>2 DEF Request
  <2> QED
    BY <1>7, <2>1, <2>4, <2>5 DEF Request, closeVars
<1>8. ASSUME NEW c \in Callers, SendMail(c) PROVE Typed'
  <2>1. target[c] \in Actors /\ call[c] \in Mails /\ Len(box[target[c]]) < MailMax
    BY <1>8 DEF SendMail
  <2>2. /\ Append(box[target[c]], call[c]) \in Seq(Mails)
        /\ Len(Append(box[target[c]], call[c])) <= MailMax
    <3> DEFINE s == box[target[c]]
    <3>1. s \in Seq(Mails) /\ Len(s) \in Nat
      BY <2>1
    <3> HIDE DEF s
    <3>2. Append(s, call[c]) \in Seq(Mails) /\ Len(Append(s, call[c])) = Len(s) + 1
      BY <2>1, <3>1, AppendProperties
    <3>3. Len(s) + 1 <= MailMax
      BY <2>1, <3>1, ActorAssumption DEF s
    <3> QED
      BY <3>2, <3>3 DEF s
  <2>3. box' \in [Actors -> Seq(Mails)] /\ \A b \in Actors : Len(box'[b]) <= MailMax
    BY <1>8, <2>1, <2>2 DEF SendMail
  <2> QED
    BY <1>8, <2>3 DEF SendMail, closeVars
<1>9. ASSUME NEW c \in Callers, Return(c) \/ Cancel(c) PROVE Typed'
  <2>1. \A d \in Callers : caller'[d] # "idle" => caller[d] # "idle"
    BY <1>9 DEF Return, Cancel
  <2>2. CASE Return(c)
    BY <2>1, <2>2 DEF Return, closeVars
  <2>3. CASE Cancel(c)
    BY <2>1, <2>3 DEF Cancel, closeVars
  <2> QED
    BY <1>9, <2>2, <2>3
<1>10. ASSUME NEW p \in Closers, CloserNext(p) PROVE Typed'
  <2>1. ASSUME NEW a \in Actors, Close(p, a) PROVE Typed'
    <3>1. CASE closeCh[a]
      BY <2>1, <3>1 DEF Close, callVars
    <3>2. CASE ~closeCh[a]
      BY <2>1, <3>2 DEF Close, callVars
    <3> QED
      BY <3>1, <3>2
  <2>2. ASSUME NEW a \in Actors, Deregister(p, a) PROVE Typed'
    <3>1. NameOf[a] \in Names
      BY ActorAssumption
    <3>2. /\ actors' \in [Names -> Actors \cup {NoActor}]
          /\ closing' \in [Closers -> Actors \cup {NoActor}]
      BY <2>2, <3>1 DEF Deregister
    <3> QED
      BY <2>2, <3>2 DEF Deregister, callVars
  <2>3. ASSUME NEW a \in Actors, Wait(p, a) PROVE Typed'
    BY <2>3 DEF Wait, callVars
  <2>4. CASE CloseReturn(p)
    BY <2>4 DEF CloseReturn, callVars
  <2> QED
    BY <1>10, <2>1, <2>2, <2>3, <2>4 DEF CloserNext
<1>11. ASSUME NEW p \in Actors, CloseCall(p) PROVE Typed'
  <2>1. p \in Closers
    BY <1>11 DEF CloseCall, Closers
  <2> QED
    <3>1. {actors[NameOf[p]]} \ {NoActor} \in SUBSET Actors
      BY ActorAssumption
    <3> QED
      BY <1>11, <2>1, <3>1 DEF CloseCall, callVars
<1>12. CASE CloseAll
  <2>1. All \in Closers
    BY <1>12 DEF CloseAll, Closers
  <2> QED
    <3>1. Registered \in SUBSET Actors
      BY DEF Registered
    <3> QED
      BY <1>12, <2>1, <3>1 DEF CloseAll, callVars
<1> QED
  BY <1>1, <1>2, <1>3, <1>4, <1>5, <1>6, <1>7, <1>8, <1>9, <1>10, <1>11, <1>12
  DEF Next, LoopNext, CallerNext

(* Mailboxes stay within capacity, every goroutine is where the code can   *)
(* put it, and a request in progress has an actor and a mail.              *)
THEOREM TypeCorrect == Spec => []TypeOK
<1>1. Init => Typed
  BY InitTyped
<1>2. Typed /\ [Next]_vars => Typed'
  BY NextTyped
<1>3. Typed => TypeOK
  BY DEF Typed
<1> QED
  BY <1>1, <1>2, <1>3, PTL DEF Spec

-----------------------------------------------------------------------------
LEMMA CloserOfType == \A a \in Actors : CloserOf(a) \in Closers
BY DEF CloserOf, Closers

(* Only CloseAll changes who closes.                                       *)
LEMMA CloserOfStays ==
  ASSUME closer'[All] = "idle" <=> closer[All] = "idle"
  PROVE  \A a \in Actors : CloserOf(a)' = CloserOf(a)
BY DEF CloserOf

LEMMA InitIInv == ASSUME Init PROVE IInv
<1>1. Registry /\ Holding /\ Loops /\ NoPanic
  BY ActorAssumption DEF Init, Registry, Holding, Loops, NoPanic, Held, Alive
<1>2. Closing
  BY ActorAssumption DEF Init, Closing, ToClose, WaitsFor, IdleOpen, ClosedAlive
<1> QED
  BY <1>1, <1>2 DEF IInv

(* Whether wg.Wait has returned depends on the closers alone.              *)
LEMMA WaitedStays ==
  ASSUME UNCHANGED <<closeCh, closer, closing>>
  PROVE  \A a \in Actors : Waited(a)' <=> Waited(a)
BY DEF Waited

(* wg.Wait returns in no other step of Close and CloseAll.                 *)
LEMMA WaitedKept ==
  ASSUME Typed, IInv,
         \/ \E p \in Closers, a \in Actors : Close(p, a) \/ Deregister(p, a)
         \/ \E p \in Closers : CloseReturn(p)
         \/ \E p \in Actors : CloseCall(p)
         \/ CloseAll
  PROVE  \A b \in Actors : Waited(b)' <=> Waited(b)
<1> USE DEF Typed, TypeOK, Waited
<1>1. ASSUME NEW p \in Closers, NEW a \in Actors, Close(p, a)
      PROVE  \A b \in Actors : Waited(b)' <=> Waited(b)
  <2>1. ~closeCh[a] /\ closer[p] = "busy" /\ closing[p] = NoActor
    BY <1>1 DEF Close, IInv, Closing, ToClose
  <2>2. closeCh' = [closeCh EXCEPT ![a] = TRUE] /\ closing' = [closing EXCEPT ![p] = a]
        /\ UNCHANGED closer
    BY <1>1, <2>1 DEF Close
  <2>3. ~Waited(a) /\ ~Waited(a)'
    BY <2>1, <2>2
  <2>4. \A b \in Actors : b # a => (Waited(b)' <=> Waited(b))
    BY <2>1, <2>2, ActorAssumption
  <2> QED
    BY <2>3, <2>4
<1>2. ASSUME NEW p \in Closers, NEW a \in Actors, Deregister(p, a)
      PROVE  \A b \in Actors : Waited(b)' <=> Waited(b)
  <2>1. closing[p] = a /\ closer[p] = "remove" /\ closing' = [closing EXCEPT ![p] = NoActor]
        /\ closer' = [closer EXCEPT ![p] = "busy"] /\ UNCHANGED closeCh
    BY <1>2 DEF Deregister
  <2>2. Waited(a) /\ Waited(a)'
    BY <2>1, ActorAssumption DEF IInv, Closing, WaitsFor
  <2>3. \A b \in Actors : b # a => (Waited(b)' <=> Waited(b))
    BY <2>1, ActorAssumption
  <2> QED
    BY <2>2, <2>3
<1>3. ASSUME NEW p \in Closers, CloseReturn(p)
      PROVE  \A b \in Actors : Waited(b)' <=> Waited(b)
  BY <1>3, ActorAssumption DEF CloseReturn
<1>4. ASSUME NEW p \in Closers, closer[p] = "idle", closer' = [closer EXCEPT ![p] = "busy"],
             UNCHANGED <<closeCh, closing>>
      PROVE  \A b \in Actors : Waited(b)' <=> Waited(b)
  BY <1>4 DEF IInv, Closing, WaitsFor, IdleOpen
<1>5. ASSUME NEW p \in Actors, CloseCall(p)
      PROVE  \A b \in Actors : Waited(b)' <=> Waited(b)
  BY <1>4, <1>5 DEF CloseCall, Closers
<1>6. CASE CloseAll
  BY <1>4, <1>6 DEF CloseAll, Closers
<1> QED
  BY <1>1, <1>2, <1>3, <1>5, <1>6

LEMMA UnchangedKeepsIInv ==
  ASSUME IInv, UNCHANGED <<actors, owner, loop, closeCh, closeVars>>
  PROVE  IInv'
<1>0. \A b \in Actors : CloserOf(b)' = CloserOf(b) /\ (Waited(b)' <=> Waited(b))
  BY CloserOfStays, WaitedStays DEF closeVars
<1>1. Registry' /\ NoPanic'
  BY DEF IInv, Registry, NoPanic, closeVars
<1>2. Holding'
  BY <1>0 DEF IInv, Holding, Held, closeVars
<1>3. Loops'
  BY <1>0 DEF IInv, Loops
<1>4. Closing'
  BY <1>0 DEF IInv, Closing, ToClose, WaitsFor, IdleOpen, ClosedAlive, closeVars
<1> QED
  BY <1>1, <1>2, <1>3, <1>4 DEF IInv

(* The steps that only move a goroutine along: neither the registry nor    *)
(* what is held changes.                                                   *)
LEMMA LoopKeepsIInv ==
  ASSUME Typed, IInv, NEW a \in Actors,
         LoopNext(a)
  PROVE  IInv'
<1>1. /\ UNCHANGED <<actors, owner, closeCh, closeVars>>
      /\ loop[a] \notin {"none", "done"} /\ loop'[a] # "none"
      /\ \A b \in Actors : b # a => loop'[b] = loop[b]
  BY DEF LoopNext, RecvMail, Handle, Ticker, Tick, BreakLoop, CloseState, callVars,
         Typed, TypeOK
<1>2. \A b \in Actors : CloserOf(b)' = CloserOf(b) /\ (Waited(b)' <=> Waited(b))
  BY <1>1, CloserOfStays, WaitedStays DEF closeVars
<1>3. Registry' /\ Holding' /\ NoPanic'
  BY <1>1, <1>2 DEF IInv, Registry, Holding, Held, NoPanic, closeVars
<1>4. Loops'
  BY <1>1, <1>2 DEF IInv, Loops
<1>5. Closing'
  BY <1>1, <1>2 DEF IInv, Closing, ToClose, WaitsFor, IdleOpen, ClosedAlive, closeVars
<1> QED
  BY <1>3, <1>4, <1>5 DEF IInv

LEMMA CallerKeepsIInv ==
  ASSUME IInv, NEW c \in Callers, CallerNext(c)
  PROVE  IInv'
<1>1. UNCHANGED <<actors, owner, loop, closeCh, closeVars>>
  BY DEF CallerNext, Request, SendMail, Return, Cancel
<1> QED
  BY <1>1, UnchangedKeepsIInv

(* NewActorGroutine takes an actor further and never out of the living.    *)
LEMMA OwnerKeepsClosing ==
  ASSUME IInv, NEW a \in Actors, owner[a] \in Alive => owner'[a] \in Alive,
         UNCHANGED <<closeCh, closer, as, closing>>,
         \A b \in Actors : b # a => owner'[b] = owner[b]
  PROVE  Closing'
<1>1. \A b \in Actors : CloserOf(b)' = CloserOf(b)
  BY CloserOfStays
<1> QED
  BY <1>1 DEF IInv, Closing, ToClose, WaitsFor, IdleOpen, ClosedAlive

LEMMA RegisterKeepsIInv ==
  ASSUME Typed, IInv, NEW a \in Actors, RegisterActor(a)
  PROVE  IInv'
<1> USE DEF RegisterActor, Typed, TypeOK
<1>0. \A b \in Actors : CloserOf(b)' = CloserOf(b) /\ (Waited(b)' <=> Waited(b))
  BY CloserOfStays, WaitedStays DEF closeVars
<1>1. ~closeCh[a] /\ owner[a] \notin Alive
  BY DEF IInv, Closing, ClosedAlive, Alive
<1>2. /\ UNCHANGED <<loop, closeCh, closer, as, closing>>
      /\ \A b \in Actors : b # a => owner'[b] = owner[b]
  BY DEF closeVars
<1>3. CASE actors[NameOf[a]] = NoActor /\ actors' = [actors EXCEPT ![NameOf[a]] = a]
           /\ owner' = [owner EXCEPT ![a] = "registered"]
  <2>1. Registry'
    BY <1>3, ActorAssumption DEF IInv, Registry
  <2>2. Held(a)' /\ \A b \in Actors : b # a => (Held(b)' <=> Held(b))
    BY <1>0, <1>1, <1>2, <1>3 DEF Held, Alive
  <2>3. Holding'
    <3> SUFFICES ASSUME NEW b \in Actors
                 PROVE  actors'[NameOf[b]] = b <=> Held(b)'
      BY DEF Holding
    <3>1. CASE b = a
      BY <1>3, <2>2, <3>1, ActorAssumption
    <3>2. CASE b # a
      <4>1. NameOf[b] = NameOf[a] => ~Held(b)
        BY <1>3, <3>2, ActorAssumption DEF IInv, Holding
      <4> QED
        BY <1>3, <2>2, <3>2, <4>1, ActorAssumption DEF IInv, Holding
    <3> QED
      BY <3>1, <3>2
  <2>4. Loops'
    BY <1>0, <1>2, <1>3 DEF IInv, Loops
  <2>5. Closing'
    BY <1>1, <1>2, <1>3, OwnerKeepsClosing
  <2>6. NoPanic'
    BY <1>2 DEF IInv, NoPanic
  <2> QED
    BY <2>1, <2>3, <2>4, <2>5, <2>6 DEF IInv
<1>4. CASE UNCHANGED actors /\ owner' = [owner EXCEPT ![a] = "failed"]
  <2>1. \A b \in Actors : Held(b)' <=> Held(b)
    BY <1>0, <1>1, <1>2, <1>4 DEF Held, Alive
  <2>2. Registry' /\ Holding' /\ NoPanic'
    BY <1>2, <1>4, <2>1 DEF IInv, Registry, Holding, NoPanic
  <2>3. Loops'
    BY <1>0, <1>2, <1>4 DEF IInv, Loops
  <2>4. Closing'
    BY <1>1, <1>2, <1>4, OwnerKeepsClosing
  <2> QED
    BY <2>2, <2>3, <2>4 DEF IInv
<1> QED
  BY <1>3, <1>4

LEMMA StartKeepsIInv ==
  ASSUME Typed, IInv, NEW a \in Actors, Start(a)
  PROVE  IInv'
<1> USE DEF Start, Typed, TypeOK
<1>0. \A b \in Actors : CloserOf(b)' = CloserOf(b) /\ (Waited(b)' <=> Waited(b))
  BY CloserOfStays, WaitedStays DEF closeVars
<1>1. /\ UNCHANGED <<actors, closeCh, closer, as, closing>>
      /\ \A b \in Actors : b # a => owner'[b] = owner[b] /\ loop'[b] = loop[b]
      /\ owner'[a] = IF Waited(a) THEN "late" ELSE "running"
      /\ loop'[a] = "select" /\ owner[a] = "registered"
  BY DEF closeVars
<1>2. owner[a] \in Alive /\ owner'[a] \in Alive
  BY <1>1 DEF Alive
<1>3. \A b \in Actors : Held(b)' <=> Held(b)
  BY <1>0, <1>1, <1>2 DEF Held
<1>4. Registry' /\ Holding' /\ NoPanic'
  BY <1>1, <1>3 DEF IInv, Registry, Holding, NoPanic
<1>5. Loops'
  BY <1>0, <1>1 DEF IInv, Loops
<1>6. Closing'
  BY <1>1, <1>2, OwnerKeepsClosing
<1> QED
  BY <1>4, <1>5, <1>6 DEF IInv

LEMMA CloseKeepsIInv ==
  ASSUME Typed, IInv, NEW p \in Closers, NEW a \in Actors, Close(p, a)
  PROVE  IInv'
<1> USE DEF Close, Typed, TypeOK
<1>1. p = CloserOf(a) /\ ~closeCh[a] /\ owner[a] \in Alive /\ closer[p] = "busy"
  BY DEF IInv, Closing, ToClose
<1>2. /\ UNCHANGED <<actors, owner, loop, closer>>
      /\ closeCh' = [closeCh EXCEPT ![a] = TRUE]
      /\ closing' = [closing EXCEPT ![p] = a]
      /\ as' = [as EXCEPT ![p] = @ \ {a}]
      /\ closing[p] = NoActor
  BY <1>1
<1>0. \A b \in Actors : CloserOf(b)' = CloserOf(b)
  BY <1>2, CloserOfStays
<1>3. \A b \in Actors : Held(b)' <=> Held(b)
  BY <1>0, <1>1, <1>2, CloserOfType, ActorAssumption
  DEF Held, IInv, Closing, WaitsFor, ClosedAlive
<1>4. Registry' /\ Holding' /\ NoPanic'
  BY <1>2, <1>3 DEF IInv, Registry, Holding, NoPanic
<1>10. Loops'
  BY <1>2, WaitedKept DEF IInv, Loops
<1>5. ToClose'
  <2> SUFFICES ASSUME NEW q \in Closers, NEW b \in Actors, b \in as'[q]
               PROVE  /\ q = CloserOf(b)' /\ closer'[q] # "idle"
                      /\ ~closeCh'[b] /\ owner'[b] \in Alive
    BY DEF ToClose
  <2>1. b \in as[q]
    BY <1>2
  <2>2. q = CloserOf(b) /\ closer[q] # "idle" /\ ~closeCh[b] /\ owner[b] \in Alive
    BY <2>1 DEF IInv, Closing, ToClose
  <2>3. a \notin as'[p]
    BY <1>2
  <2>4. b # a
    BY <1>1, <2>2, <2>3
  <2> QED
    BY <1>0, <1>2, <2>2, <2>4
<1>6. WaitsFor'
  BY <1>0, <1>1, <1>2 DEF IInv, Closing, WaitsFor
<1>7. IdleOpen'
  BY <1>0, <1>1, <1>2 DEF IInv, Closing, IdleOpen
<1>8. ClosedAlive'
  BY <1>1, <1>2 DEF IInv, Closing, ClosedAlive
<1>9. Closing'
  BY <1>5, <1>6, <1>7, <1>8 DEF Closing
<1> QED
  BY <1>4, <1>9, <1>10 DEF IInv

LEMMA WaitKeepsIInv ==
  ASSUME Typed, IInv, NEW p \in Closers, NEW a \in Actors, Wait(p, a)
  PROVE  IInv'
<1> USE DEF Wait, Typed, TypeOK
<1>1. p = CloserOf(a) /\ closeCh[a]
  BY DEF IInv, Closing, WaitsFor
<1>2. /\ UNCHANGED <<actors, owner, loop, closeCh, as, closing>>
      /\ closer' = [closer EXCEPT ![p] = "remove"]
      /\ closing[p] = a /\ closer[p] = "busy" /\ loop[a] \in {"none", "done"}
  OBVIOUS
<1>3. \A q \in Closers : closer'[q] = "idle" <=> closer[q] = "idle"
  BY <1>2
<1>4. \A b \in Actors : CloserOf(b)' = CloserOf(b)
  BY <1>3, CloserOfStays DEF Closers
<1>5. Registry' /\ Holding'
  BY <1>2, <1>4 DEF IInv, Registry, Holding, Held
<1>6. Loops'
  <2>1. \A b \in Actors : b # a => (Waited(b)' <=> Waited(b))
    BY <1>2 DEF Waited
  <2>2. Waited(a)'
    BY <1>1, <1>2 DEF Waited, IInv, Closing, WaitsFor
  <2>3. owner[a] = "running" => loop[a] = "done"
    BY <1>2 DEF IInv, Loops
  <2> QED
    BY <1>2, <2>1, <2>2, <2>3 DEF IInv, Loops
<1>7. Closing'
  <2> HIDE DEF Wait, Typed, TypeOK
  <2>1. ToClose'
    BY <1>2, <1>3, <1>4 DEF IInv, Closing, ToClose
  <2>2. WaitsFor' /\ ClosedAlive'
    BY <1>2, <1>4 DEF IInv, Closing, WaitsFor, ClosedAlive
  <2>3. IdleOpen'
    BY <1>2, <1>3, <1>4, CloserOfType DEF IInv, Closing, IdleOpen
  <2> QED
    BY <2>1, <2>2, <2>3 DEF Closing
<1>8. NoPanic'
  BY <1>2 DEF IInv, NoPanic
<1> QED
  BY <1>5, <1>6, <1>7, <1>8 DEF IInv

LEMMA DeregisterKeepsIInv ==
  ASSUME Typed, IInv, NEW p \in Closers, NEW a \in Actors, Deregister(p, a)
  PROVE  IInv'
<1> USE DEF Deregister, Typed, TypeOK
<1>1. p = CloserOf(a) /\ closeCh[a] /\ owner[a] \in Alive
  BY DEF IInv, Closing, WaitsFor, ClosedAlive
<1>2. /\ UNCHANGED <<owner, loop, closeCh, as>>
      /\ actors' = [actors EXCEPT ![NameOf[a]] = NoActor]
      /\ closing' = [closing EXCEPT ![p] = NoActor]
      /\ closer' = [closer EXCEPT ![p] = "busy"]
      /\ closing[p] = a /\ closer[p] = "remove"
  OBVIOUS
<1>10. \A q \in Closers : closer'[q] = "idle" <=> closer[q] = "idle"
  BY <1>2
<1>0. \A b \in Actors : CloserOf(b)' = CloserOf(b)
  BY <1>10, CloserOfStays DEF Closers
<1>3. ~Held(a)' /\ \A b \in Actors : b # a => (Held(b)' <=> Held(b))
  BY <1>0, <1>1, <1>2, CloserOfType, ActorAssumption DEF Held
<1>4. actors[NameOf[a]] = a
  BY <1>1, <1>2 DEF Held, IInv, Holding
<1>5. Registry'
  BY <1>2, ActorAssumption DEF IInv, Registry
<1>6. Holding'
  <2> SUFFICES ASSUME NEW b \in Actors
               PROVE  actors'[NameOf[b]] = b <=> Held(b)'
    BY DEF Holding
  <2>1. CASE NameOf[b] = NameOf[a]
    <3>1. actors'[NameOf[b]] # b
      BY <1>2, <2>1, ActorAssumption
    <3>2. CASE b = a
      BY <1>3, <3>1, <3>2
    <3>3. CASE b # a
      <4>1. ~Held(b)
        BY <1>4, <2>1, <3>3 DEF IInv, Holding
      <4> QED
        BY <1>3, <3>1, <3>3, <4>1
    <3> QED
      BY <3>2, <3>3
  <2>2. CASE NameOf[b] # NameOf[a]
    BY <1>2, <1>3, <2>2, ActorAssumption DEF IInv, Holding
  <2> QED
    BY <2>1, <2>2
<1>7. Loops'
  BY <1>2, WaitedKept DEF IInv, Loops
<1>8. Closing'
  <2>1. \A q \in Closers, b \in Actors : closing'[q] = b => closing[q] = b
    BY <1>2, ActorAssumption
  <2>2. ToClose'
    <3> SUFFICES ASSUME NEW q \in Closers, NEW b \in Actors, b \in as'[q]
                 PROVE  /\ q = CloserOf(b)' /\ closer'[q] # "idle"
                        /\ ~closeCh'[b] /\ owner'[b] \in Alive
      BY DEF ToClose
    <3> HIDE DEF Deregister, Typed, TypeOK
    <3>1. b \in as[q]
      BY <1>2
    <3>2. q = CloserOf(b) /\ closer[q] # "idle" /\ ~closeCh[b] /\ owner[b] \in Alive
      BY <3>1 DEF IInv, Closing, ToClose
    <3> QED
      BY <1>0, <1>2, <1>10, <3>2
  <2>3. WaitsFor'
    <3> HIDE DEF Deregister, Typed, TypeOK
    <3> QED
      BY <1>0, <1>2, <2>1 DEF IInv, Closing, WaitsFor
  <2>4. IdleOpen' /\ ClosedAlive'
    BY <1>0, <1>2, <1>10, CloserOfType DEF IInv, Closing, IdleOpen, ClosedAlive
  <2> QED
    BY <2>2, <2>3, <2>4 DEF Closing
<1>9. NoPanic'
  BY <1>2 DEF IInv, NoPanic
<1> QED
  BY <1>5, <1>6, <1>7, <1>8, <1>9 DEF IInv

LEMMA CloseReturnKeepsIInv ==
  ASSUME Typed, IInv, NEW p \in Closers, CloseReturn(p)
  PROVE  IInv'
<1>1. /\ UNCHANGED <<actors, owner, loop, closeCh, as, closing>>
      /\ closer' = [closer EXCEPT ![p] = "done"]
  BY DEF CloseReturn
<1>0. \A b \in Actors : CloserOf(b)' = CloserOf(b)
  BY <1>1, CloserOfStays DEF CloseReturn, Typed, TypeOK
<1>2. \A b \in Actors : Held(b)' <=> Held(b)
  BY <1>0, <1>1 DEF Held
<1>3. \A q \in Closers : closer'[q] = "idle" <=> closer[q] = "idle"
  BY <1>1 DEF CloseReturn, Typed, TypeOK
<1>4. ToClose'
  BY <1>0, <1>1, <1>3 DEF IInv, Closing, ToClose
<1>5. WaitsFor' /\ ClosedAlive'
  BY <1>0, <1>1 DEF IInv, Closing, WaitsFor, ClosedAlive
<1>6. IdleOpen'
  BY <1>0, <1>1, <1>3, CloserOfType DEF IInv, Closing, IdleOpen
<1>7. NoPanic'
  BY <1>1 DEF IInv, NoPanic, Typed, TypeOK
<1>8. Loops'
  BY <1>1, WaitedKept DEF IInv, Loops
<1> QED
  BY <1>1, <1>2, <1>4, <1>5, <1>6, <1>7, <1>8 DEF IInv, Closing, Registry, Holding

(* GetActor gives a creator that has not closed yet its own actor.         *)
LEMMA CloseCallKeepsIInv ==
  ASSUME Typed, IInv, NEW p \in Actors, CloseCall(p)
  PROVE  IInv'
<1> USE DEF CloseCall, Typed, TypeOK
<1>1. p = CloserOf(p) /\ p \in Closers /\ owner[p] = "running" /\ closer[p] = "idle"
  BY DEF CloserOf, Closers
<1>2. ~closeCh[p]
  BY <1>1 DEF IInv, Closing, IdleOpen
<1>3. actors[NameOf[p]] = p
  BY <1>1, <1>2 DEF IInv, Holding, Held, Alive
<1>4. /\ UNCHANGED <<actors, owner, loop, closeCh, closing>>
      /\ as' = [as EXCEPT ![p] = {p}]
      /\ closer' = [closer EXCEPT ![p] = "busy"]
  <2>1. {actors[NameOf[p]]} \ {NoActor} = {p}
    BY <1>3, ActorAssumption
  <2> QED
    BY <2>1
<1>0. \A b \in Actors : CloserOf(b)' = CloserOf(b)
  BY <1>4, CloserOfStays, ActorAssumption
<1>5. \A b \in Actors : Held(b)' <=> Held(b)
  BY <1>0, <1>4 DEF Held
<1>6. Closing'
  <2>1. \A q \in Closers, b \in Actors : b \in as'[q] => b \in as[q] \/ (q = p /\ b = p)
    <3>1. as'[p] = {p} /\ \A q \in Closers : q # p => as'[q] = as[q]
      BY <1>1, <1>4
    <3> QED
      BY <3>1
  <2>2. ToClose'
    <3> SUFFICES ASSUME NEW q \in Closers, NEW b \in Actors, b \in as'[q]
                 PROVE  /\ q = CloserOf(b)' /\ closer'[q] # "idle"
                        /\ ~closeCh'[b] /\ owner'[b] \in Alive
      BY DEF ToClose
    <3>1. CASE b \in as[q]
      <4>1. q = CloserOf(b) /\ closer[q] # "idle" /\ ~closeCh[b] /\ owner[b] \in Alive
        BY <3>1 DEF IInv, Closing, ToClose
      <4> QED
        BY <1>0, <1>1, <1>4, <4>1
    <3>2. CASE q = p /\ b = p
      BY <1>0, <1>1, <1>2, <1>4, <3>2 DEF Alive
    <3> QED
      BY <2>1, <3>1, <3>2
  <2>4. WaitsFor' /\ ClosedAlive'
    BY <1>0, <1>4 DEF IInv, Closing, WaitsFor, ClosedAlive
  <2>5. IdleOpen'
    BY <1>0, <1>1, <1>4, CloserOfType DEF IInv, Closing, IdleOpen
  <2> QED
    BY <2>2, <2>4, <2>5 DEF Closing
<1>7. NoPanic'
  BY <1>4 DEF IInv, NoPanic
<1>8. Loops'
  BY <1>4, WaitedKept DEF IInv, Loops
<1> QED
  BY <1>4, <1>5, <1>6, <1>7, <1>8 DEF IInv, Registry, Holding

(* What is in the registry when CloseAll runs is open, served or not yet.  *)
LEMMA CloseAllKeepsIInv ==
  ASSUME Typed, IInv, CloseAll
  PROVE  IInv'
<1> USE DEF CloseAll, Typed, TypeOK
<1>1. All \in Closers /\ \A a \in Actors : a \in Closers /\ CloserOf(a) = a
  BY DEF CloserOf, Closers
<1>2. \A a \in Actors : ~closeCh[a] /\ \A q \in Closers : closing[q] # a
  BY <1>1 DEF IInv, Closing, IdleOpen, WaitsFor
<1>3. \A a \in Registered : a \in Actors /\ owner[a] \in Alive
  BY ActorAssumption DEF Registered, IInv, Registry, Holding, Held
<1>4. /\ UNCHANGED <<actors, owner, loop, closeCh, closing>>
      /\ as' = [as EXCEPT ![All] = Registered]
      /\ closer' = [closer EXCEPT ![All] = "busy"]
  OBVIOUS
<1>5. \A b \in Actors : CloserOf(b)' = All
  BY <1>1, <1>4 DEF CloserOf
<1>6. \A b \in Actors : Held(b)' <=> Held(b)
  BY <1>2, <1>4 DEF Held
<1>7. \A p \in Closers, a \in Actors : a \notin as[p]
  BY DEF IInv, Closing, ToClose
<1>8. Closing'
  <2>1. ToClose'
    <3> SUFFICES ASSUME NEW q \in Closers, NEW b \in Actors, b \in as'[q]
                 PROVE  /\ q = CloserOf(b)' /\ closer'[q] # "idle"
                        /\ ~closeCh'[b] /\ owner'[b] \in Alive
      BY DEF ToClose
    <3>1. q = All /\ b \in Registered
      BY <1>4, <1>7
    <3> QED
      BY <1>1, <1>2, <1>3, <1>4, <1>5, <3>1
  <2>2. WaitsFor' /\ IdleOpen' /\ ClosedAlive'
    BY <1>2, <1>4 DEF IInv, Closing, WaitsFor, IdleOpen, ClosedAlive
  <2> QED
    BY <2>1, <2>2 DEF Closing
<1>9. NoPanic'
  BY <1>4 DEF IInv, NoPanic
<1>10. Loops'
  BY <1>4, WaitedKept DEF IInv, Loops
<1> QED
  BY <1>4, <1>6, <1>8, <1>9, <1>10 DEF IInv, Registry, Holding

LEMMA NextIInv == ASSUME Typed, IInv, [Next]_vars PROVE IInv'
<1>1. CASE UNCHANGED vars
  BY <1>1, UnchangedKeepsIInv DEF vars
<1>2. CASE Next
  BY <1>2, LoopKeepsIInv, CallerKeepsIInv, RegisterKeepsIInv, StartKeepsIInv,
     CloseKeepsIInv, WaitKeepsIInv, DeregisterKeepsIInv, CloseReturnKeepsIInv,
     CloseCallKeepsIInv, CloseAllKeepsIInv
  DEF Next, CloserNext
<1> QED
  BY <1>1, <1>2

LEMMA Invariance == Spec => [](Typed /\ IInv)
<1>1. Init => Typed /\ IInv
  BY InitTyped, InitIInv
<1>2. Typed /\ IInv /\ [Next]_vars => Typed' /\ IInv'
  BY NextTyped, NextIInv
<1> QED
  BY <1>1, <1>2, PTL DEF Spec

-----------------------------------------------------------------------------
(* An actor is in the registry until its Close has waited for it.          *)
LEMMA ServedHeld ==
  ASSUME IInv, NEW a \in Actors, Serving(a), owner[a] # "late"
  PROVE  Held(a)
<1>1. owner[a] = "running" /\ ~Waited(a)
  BY DEF IInv, Loops, Serving
<1>2. closeCh[a] => \E p \in Closers : closing[p] = a
  BY <1>1 DEF Waited
<1>3. closeCh[a] => closing[CloserOf(a)] = a
  BY <1>2 DEF IInv, Closing, WaitsFor
<1> QED
  BY <1>1, <1>3 DEF Held, Alive

(* Two actors of one name are served at the same time only if one started  *)
(* late, after CloseAll had closed it and freed its name: registerActor    *)
(* refuses the name of any other until Close has waited for its goroutine, *)
(* whoever registers and closes concurrently.                              *)
THEOREM OneLoop == Spec => []OneLoopPerName
<1>1. IInv => OneLoopPerName
  <2> SUFFICES ASSUME IInv, NEW a \in Actors, NEW b \in Actors, NameOf[a] = NameOf[b],
                      Serving(a), Serving(b), owner[a] # "late", owner[b] # "late"
               PROVE  a = b
    BY DEF OneLoopPerName
  <2>1. Held(a) /\ Held(b)
    BY ServedHeld
  <2> QED
    BY <2>1 DEF IInv, Holding
<1> QED
  BY <1>1, Invariance, PTL

(* When Close has returned, or wherever it has got past deregisterActor,   *)
(* GetActor does not find the actor, and its goroutine has ended unless it *)
(* started late.                                                           *)
THEOREM ClosedGone == Spec => []ClosedIsGone
<1>1. Typed /\ IInv => ClosedIsGone
  <2> SUFFICES ASSUME Typed, IInv, NEW a \in Actors, closeCh[a],
                      \A p \in Closers : closing[p] # a
               PROVE  a \notin Registered /\ (Serving(a) => owner[a] = "late")
    BY DEF ClosedIsGone
  <2>1. ~Held(a)
    BY CloserOfType DEF Held
  <2>2. a \notin Registered
    BY <2>1, ActorAssumption DEF IInv, Registry, Holding, Registered
  <2> QED
    BY <2>1, <2>2, ServedHeld
<1> QED
  BY <1>1, Invariance, PTL

(* Close never runs twice for one actor, so close(actor.closeCh) does not  *)
(* panic, under either way of closing.                                     *)
THEOREM ClosedOnce == Spec => []NoPanic
<1>1. IInv => NoPanic
  BY DEF IInv
<1> QED
  BY <1>1, Invariance, PTL

-----------------------------------------------------------------------------
(* The mails                                                               *)

(* Unhandled(a): to receive a mail does not change it, to handle one takes *)
(* the first off, to send one appends it.                                  *)

InHand ==
  \A a \in Actors : IF loop[a] = "handle" THEN Len(mail[a]) = 1 ELSE mail[a] = <<>>

Ordered(u) ==
  \A i, j \in 1..Len(u) : i < j /\ u[i].from = u[j].from => u[i].n < u[j].n

In(u, m) == \E i \in 1..Len(u) : u[i] = m

(* A mail is of an earlier request of its caller, or of the present one,   *)
(* and then it is with the actor that request is for.                      *)
Known(a, m) ==
  \/ m.n < call[m.from].n
  \/ m = call[m.from] /\ a = target[m.from] /\ caller[m.from] # "send"

AllKnown == \A a \in Actors : \A m \in Mails : In(Unhandled(a), m) => Known(a, m)

AllOrdered == \A a \in Actors : Ordered(Unhandled(a))

Results ==
  \A c \in Callers :
    /\ call[c].from = c
    /\ result[c] => caller[c] = "await"
    /\ caller[c] = "await" => (result[c] <=> ~In(Unhandled(target[c]), call[c]))

Mailing == InHand /\ AllKnown /\ AllOrdered /\ Results

LEMMA OrderedTail ==
  ASSUME NEW u \in Seq(Mails), u # <<>>, Ordered(u)
  PROVE  Ordered(Tail(u))
<1> DEFINE t == Tail(u)
<1>1. t \in Seq(Mails) /\ Len(u) \in Nat /\ Len(t) = Len(u) - 1
  BY HeadTailProperties
<1>2. \A i \in 1..Len(t) : t[i] = u[i + 1]
  BY HeadTailProperties
<1> HIDE DEF t
<1>3. \A i \in 1..Len(t) : i + 1 \in 1..Len(u)
  BY <1>1
<1>4. \A i, j \in 1..Len(t) : i < j => i + 1 < j + 1
  BY <1>1
<1>5. Ordered(t)
  BY <1>2, <1>3, <1>4 DEF Ordered
<1> QED
  BY <1>5 DEF t

LEMMA OrderedAppend ==
  ASSUME NEW u \in Seq(Mails), NEW m \in Mails, Ordered(u),
         \A i \in 1..Len(u) : u[i].from = m.from => u[i].n < m.n
  PROVE  Ordered(Append(u, m))
<1> DEFINE v == Append(u, m)
<1>1. Len(u) \in Nat /\ Len(v) = Len(u) + 1 /\ v[Len(u) + 1] = m
  BY AppendProperties
<1>2. \A i \in 1..Len(u) : v[i] = u[i]
  BY AppendProperties
<1> HIDE DEF v
<1>3. ASSUME NEW i \in 1..Len(v), NEW j \in 1..Len(v), i < j, v[i].from = v[j].from
      PROVE  v[i].n < v[j].n
  <2>1. i \in 1..Len(u)
    BY <1>1, <1>3
  <2>2. CASE j \in 1..Len(u)
    BY <1>2, <1>3, <2>1, <2>2 DEF Ordered
  <2>3. CASE j = Len(u) + 1
    BY <1>1, <1>2, <1>3, <2>1, <2>3
  <2> QED
    BY <1>1, <2>2, <2>3
<1>4. Ordered(v)
  BY <1>3 DEF Ordered
<1> QED
  BY <1>4 DEF v

(* Of two equal mails one would not be in order.                           *)
LEMMA HeadOnce ==
  ASSUME NEW u \in Seq(Mails), u # <<>>, Ordered(u), NEW m \in Mails
  PROVE  In(Tail(u), m) <=> In(u, m) /\ m # u[1]
<1> DEFINE t == Tail(u)
<1>1. t \in Seq(Mails) /\ Len(u) \in Nat /\ Len(t) = Len(u) - 1
  BY HeadTailProperties
<1>2. \A i \in 1..Len(t) : t[i] = u[i + 1]
  BY HeadTailProperties
<1>3. Len(u) # 0
  BY EmptySeq
<1>4. \A i \in 1..Len(u) : u[i] \in Mails
  BY ElementOfSeq
<1> HIDE DEF t
<1>5. ASSUME NEW i \in 1..Len(t), t[i] = m PROVE In(u, m) /\ m # u[1]
  <2>1. i + 1 \in 1..Len(u) /\ 1 \in 1..Len(u) /\ 1 < i + 1
    BY <1>1, <1>3
  <2>2. u[i + 1] = m
    BY <1>2, <1>5
  <2>3. u[1].from = u[i + 1].from => u[1].n < u[i + 1].n
    BY <2>1 DEF Ordered
  <2>4. m.n \in Int
    BY DEF Mails
  <2>5. m # u[1]
    BY <2>2, <2>3, <2>4
  <2> QED
    BY <2>1, <2>2, <2>5 DEF In
<1>6. ASSUME NEW i \in 1..Len(u), u[i] = m, m # u[1] PROVE In(t, m)
  <2>1. i - 1 \in 1..Len(t) /\ (i - 1) + 1 = i
    BY <1>1, <1>6
  <2>2. t[i - 1] = m
    BY <1>2, <1>6, <2>1
  <2> QED
    BY <2>1, <2>2 DEF In
<1>7. In(t, m) <=> In(u, m) /\ m # u[1]
  BY <1>5, <1>6 DEF In
<1> QED
  BY <1>7 DEF t

LEMMA InAppend ==
  ASSUME NEW u \in Seq(Mails), NEW m \in Mails, NEW x
  PROVE  In(Append(u, m), x) <=> In(u, x) \/ x = m
<1> DEFINE v == Append(u, m)
<1>1. Len(u) \in Nat /\ Len(v) = Len(u) + 1 /\ v[Len(u) + 1] = m
  BY AppendProperties
<1>2. \A i \in 1..Len(u) : v[i] = u[i]
  BY AppendProperties
<1> HIDE DEF v
<1>3. 1..Len(v) = 1..Len(u) \cup {Len(u) + 1}
  BY <1>1
<1>4. In(v, x) <=> In(u, x) \/ x = m
  BY <1>1, <1>2, <1>3 DEF In
<1> QED
  BY <1>4 DEF v

LEMMA UnhandledType ==
  ASSUME Typed
  PROVE  \A a \in Actors : /\ Unhandled(a) \in Seq(Mails)
                           /\ \A i \in 1..Len(Unhandled(a)) : Unhandled(a)[i] \in Mails
<1> TAKE a \in Actors
<1>1. mail[a] \in Seq(Mails) /\ box[a] \in Seq(Mails)
  BY DEF Typed, TypeOK
<1>2. Unhandled(a) \in Seq(Mails)
  BY <1>1, ConcatProperties DEF Unhandled
<1>3. \A i \in 1..Len(Unhandled(a)) : Unhandled(a)[i] \in Mails
  BY <1>2, ElementOfSeq
<1> QED
  BY <1>2, <1>3

(* RecvMail: the first mail of the box is the mail in hand.                *)
LEMMA RecvSame ==
  ASSUME NEW q \in Seq(Mails), q # <<>>
  PROVE  <<Head(q)>> \o Tail(q) = <<>> \o q
<1> DEFINE h == <<Head(q)>>
           t == Tail(q)
           v == h \o t
<1>1. /\ Head(q) \in Mails /\ t \in Seq(Mails) /\ Len(q) \in Nat /\ Len(t) = Len(q) - 1
      /\ Head(q) = q[1]
  BY HeadTailProperties
<1>2. \A i \in 1..Len(t) : t[i] = q[i + 1]
  BY HeadTailProperties
<1>3. h \in Seq(Mails) /\ Len(h) = 1 /\ h[1] = q[1]
  BY <1>1
<1> HIDE DEF h, t
<1>4. /\ v \in Seq(Mails) /\ Len(v) = Len(h) + Len(t)
      /\ \A i \in 1..Len(h) + Len(t) : v[i] = IF i <= Len(h) THEN h[i] ELSE t[i - Len(h)]
  BY <1>1, <1>3, ConcatProperties
<1> HIDE DEF v
<1>5. Len(v) = Len(q)
  BY <1>1, <1>3, <1>4
<1>6. ASSUME NEW i \in 1..Len(v) PROVE v[i] = q[i]
  <2>1. CASE i = 1
    BY <1>1, <1>3, <1>4, <1>5, <2>1
  <2>2. CASE i # 1
    <3>1. i \in Int /\ i - 1 \in 1..Len(t) /\ (i - 1) + 1 = i /\ ~(i <= 1)
          /\ i \in 1..Len(h) + Len(t)
      BY <1>1, <1>3, <1>4, <2>2
    <3>2. v[i] = t[i - 1]
      BY <1>3, <1>4, <3>1
    <3>3. t[i - 1] = q[(i - 1) + 1]
      BY <1>2, <3>1
    <3> QED
      BY <3>1, <3>2, <3>3
  <2> QED
    BY <2>1, <2>2
<1>7. v = q
  BY <1>4, <1>5, <1>6, SeqEqual
<1>8. <<>> \o q = q
  BY ConcatEmptySeq
<1> QED
  BY <1>7, <1>8 DEF v, h, t

LEMMA HandleTakes ==
  ASSUME NEW h \in Seq(Mails), Len(h) = 1, NEW q \in Seq(Mails)
  PROVE  /\ h \o q # <<>> /\ (h \o q)[1] = Head(h) /\ Tail(h \o q) = <<>> \o q
<1> DEFINE v == h \o q
           t == Tail(v)
<1>1. /\ v \in Seq(Mails) /\ Len(v) = 1 + Len(q) /\ Len(q) \in Nat
      /\ \A i \in 1..Len(h) + Len(q) : v[i] = IF i <= Len(h) THEN h[i] ELSE q[i - Len(h)]
  <2>1. v \in Seq(Mails) /\ Len(v) = Len(h) + Len(q)
    BY ConcatProperties
  <2>2. \A i \in 1..Len(h) + Len(q) : v[i] = IF i <= Len(h) THEN h[i] ELSE q[i - Len(h)]
    BY ConcatProperties
  <2>3. Len(q) \in Nat
    BY LenProperties
  <2> HIDE DEF v
  <2> QED
    BY <2>1, <2>2, <2>3
<1>2. \A i \in 1..(1 + Len(q)) : v[i] = IF i <= 1 THEN h[i] ELSE q[i - 1]
  BY <1>1
<1> HIDE DEF v
<1>3. Len(v) # 0 /\ v # <<>>
  <2>1. Len(v) # 0
    BY <1>1
  <2>2. Len(<<>>) = 0
    OBVIOUS
  <2> QED
    BY <2>1, <2>2
<1>4. v[1] = h[1] /\ h[1] = Head(h)
  <2>1. h # <<>>
    OBVIOUS
  <2>2. 1 \in 1..(1 + Len(q))
    BY <1>1
  <2> QED
    BY <1>2, <2>1, <2>2
<1>5. /\ t \in Seq(Mails) /\ Len(t) = Len(v) - 1
      /\ \A i \in 1..Len(t) : t[i] = v[i + 1]
  BY <1>1, <1>3, HeadTailProperties
<1> HIDE DEF t
<1>6. Len(t) = Len(q)
  BY <1>1, <1>5
<1>7. ASSUME NEW i \in 1..Len(t) PROVE t[i] = q[i]
  <2>1. i \in Int /\ i + 1 \in 1..(1 + Len(q)) /\ ~(i + 1 <= 1) /\ (i + 1) - 1 = i
    BY <1>1, <1>6
  <2>2. v[i + 1] = q[(i + 1) - 1]
    BY <1>2, <2>1
  <2> QED
    BY <1>5, <2>1, <2>2
<1>8. t = q
  BY <1>5, <1>6, <1>7, SeqEqual
<1>9. <<>> \o q = q
  BY ConcatEmptySeq
<1>10. v # <<>> /\ v[1] = Head(h) /\ Tail(v) = <<>> \o q
  BY <1>3, <1>4, <1>8, <1>9 DEF t
<1> QED
  BY <1>10 DEF v

LEMMA SendAppends ==
  ASSUME NEW h \in Seq(Mails), NEW q \in Seq(Mails), NEW m \in Mails
  PROVE  h \o Append(q, m) = Append(h \o q, m)
<1>1. <<m>> \in Seq(Mails)
  OBVIOUS
<1>2. Append(q, m) = q \o <<m>>
  BY AppendIsConcat
<1>3. h \o q \in Seq(Mails)
  BY ConcatProperties
<1>4. Append(h \o q, m) = (h \o q) \o <<m>>
  BY <1>3, AppendIsConcat
<1>5. (h \o q) \o <<m>> = h \o (q \o <<m>>)
  BY <1>1, ConcatAssociative
<1> QED
  BY <1>2, <1>4, <1>5

(* What the steps do to what is unhandled.                                 *)
LEMMA RecvUnhandled ==
  ASSUME Typed, Mailing, NEW a \in Actors, RecvMail(a)
  PROVE  \A b \in Actors : Unhandled(b)' = Unhandled(b)
<1>1. /\ mail[a] = <<>> /\ box[a] \in Seq(Mails) /\ box[a] # <<>>
      /\ mail' = [mail EXCEPT ![a] = <<Head(box[a])>>]
      /\ box' = [box EXCEPT ![a] = Tail(box[a])]
      /\ mail \in [Actors -> Seq(Mails)] /\ box \in [Actors -> Seq(Mails)]
  BY DEF RecvMail, Typed, TypeOK, Mailing, InHand
<1> TAKE b \in Actors
<1>2. CASE b = a
  BY <1>1, <1>2, RecvSame DEF Unhandled
<1>3. CASE b # a
  BY <1>1, <1>3 DEF Unhandled
<1> QED
  BY <1>2, <1>3

LEMMA HandleUnhandled ==
  ASSUME Typed, Mailing, NEW a \in Actors, Handle(a)
  PROVE  /\ Unhandled(a) \in Seq(Mails) /\ Unhandled(a) # <<>>
         /\ Unhandled(a)[1] = Head(mail[a]) /\ Unhandled(a)' = Tail(Unhandled(a))
         /\ \A b \in Actors \ {a} : Unhandled(b)' = Unhandled(b)
<1>1. /\ mail[a] \in Seq(Mails) /\ Len(mail[a]) = 1 /\ box[a] \in Seq(Mails)
      /\ mail' = [mail EXCEPT ![a] = <<>>] /\ UNCHANGED box
      /\ mail \in [Actors -> Seq(Mails)]
  BY DEF Handle, Typed, TypeOK, Mailing, InHand
<1>2. /\ Unhandled(a) \in Seq(Mails) /\ Unhandled(a) # <<>>
      /\ Unhandled(a)[1] = Head(mail[a]) /\ Unhandled(a)' = Tail(Unhandled(a))
  BY <1>1, HandleTakes, ConcatProperties DEF Unhandled
<1>3. \A b \in Actors \ {a} : Unhandled(b)' = Unhandled(b)
  BY <1>1 DEF Unhandled
<1> QED
  BY <1>2, <1>3

LEMMA SendUnhandled ==
  ASSUME Typed, NEW c \in Callers, SendMail(c),
         NEW a \in Actors, NEW m \in Mails, target[c] = a, call[c] = m
  PROVE  /\ Unhandled(a)' = Append(Unhandled(a), m)
         /\ \A b \in Actors \ {a} : Unhandled(b)' = Unhandled(b)
<1>1. /\ box' = [box EXCEPT ![a] = Append(box[a], m)] /\ UNCHANGED mail
      /\ mail \in [Actors -> Seq(Mails)] /\ box \in [Actors -> Seq(Mails)]
  BY DEF SendMail, Typed, TypeOK
<1>2. Unhandled(a)' = Append(Unhandled(a), m)
  BY <1>1, SendAppends DEF Unhandled
<1>3. \A b \in Actors \ {a} : Unhandled(b)' = Unhandled(b)
  BY <1>1 DEF Unhandled
<1> QED
  BY <1>2, <1>3

LEMMA InitMailing == ASSUME Init PROVE Mailing
<1>1. /\ \A a \in Actors : mail[a] = <<>> /\ box[a] = <<>> /\ loop[a] = "none"
      /\ \A c \in Callers : caller[c] = "idle" /\ ~result[c] /\ call[c].from = c
  BY DEF Init
<1>2. \A a \in Actors : Unhandled(a) = <<>>
  <2>1. <<>> \o <<>> = <<>>
    <3>1. <<>> \in Seq(Mails)
      OBVIOUS
    <3> QED
      BY <3>1, ConcatEmptySeq
  <2> QED
    BY <1>1, <2>1 DEF Unhandled
<1>3. Len(<<>>) = 0
  OBVIOUS
<1>4. InHand /\ Results
  BY <1>1 DEF InHand, Results
<1>5. AllKnown /\ AllOrdered
  BY <1>2, <1>3 DEF AllKnown, AllOrdered, Ordered, In
<1> QED
  BY <1>4, <1>5 DEF Mailing

(* The loops, apart from Handle, and the closers move no mail and no call. *)
LEMMA SameMailing ==
  ASSUME Mailing, UNCHANGED callVars, InHand',
         \A a \in Actors : Unhandled(a)' = Unhandled(a), Typed
  PROVE  Mailing'
<1>1. UNCHANGED <<caller, target, call, result>>
  BY DEF callVars
<1>2. AllKnown'
  BY <1>1 DEF Mailing, AllKnown, Known
<1>3. AllOrdered'
  BY DEF Mailing, AllOrdered
<1>4. Results'
  <2>1. ASSUME NEW c \in Callers, caller[c] = "await" PROVE target[c] \in Actors
    BY <2>1 DEF Typed, Calling
  <2> QED
    BY <1>1, <2>1 DEF Mailing, Results
<1> QED
  BY <1>2, <1>3, <1>4 DEF Mailing

LEMMA RecvMailing ==
  ASSUME Typed, Mailing, NEW a \in Actors, RecvMail(a)
  PROVE  Mailing'
<1>1. /\ mail[a] = <<>> /\ box[a] \in Seq(Mails) /\ box[a] # <<>>
      /\ mail' = [mail EXCEPT ![a] = <<Head(box[a])>>]
      /\ box' = [box EXCEPT ![a] = Tail(box[a])]
      /\ loop' = [loop EXCEPT ![a] = "handle"] /\ UNCHANGED callVars
  BY DEF RecvMail, Typed, TypeOK, Mailing, InHand
<1>2. mail \in [Actors -> Seq(Mails)] /\ box \in [Actors -> Seq(Mails)]
      /\ DOMAIN loop = Actors
  BY DEF Typed, TypeOK
<1>3. \A b \in Actors : Unhandled(b)' = Unhandled(b)
  BY RecvUnhandled
<1>4. InHand'
  <2>1. Len(<<Head(box[a])>>) = 1
    OBVIOUS
  <2> QED
    BY <1>1, <1>2, <2>1 DEF Mailing, InHand
<1> QED
  BY <1>1, <1>3, <1>4, SameMailing

LEMMA HandleMailing ==
  ASSUME Typed, Mailing, NEW a \in Actors, Handle(a)
  PROVE  Mailing'
<1> DEFINE u == Unhandled(a)
<1>1. /\ mail[a] \in Seq(Mails) /\ Len(mail[a]) = 1 /\ box[a] \in Seq(Mails)
      /\ mail' = [mail EXCEPT ![a] = <<>>] /\ loop' = [loop EXCEPT ![a] = "tick"]
      /\ result' = [c \in Callers |-> result[c] \/ Awaits(c, Head(mail[a]))]
      /\ UNCHANGED <<box, caller, target, call>>
  BY DEF Handle, Typed, TypeOK, Mailing, InHand
<1>2. /\ mail \in [Actors -> Seq(Mails)] /\ box \in [Actors -> Seq(Mails)]
      /\ DOMAIN loop = Actors
      /\ result \in [Callers -> BOOLEAN]
      /\ \A c \in Callers : caller[c] # "idle" => target[c] \in Actors /\ call[c] \in Mails
  BY DEF Typed, TypeOK, Calling
<1>3. u \in Seq(Mails) /\ u # <<>> /\ u[1] = Head(mail[a]) /\ Unhandled(a)' = Tail(u)
  BY HandleUnhandled
<1>4. \A b \in Actors \ {a} : Unhandled(b)' = Unhandled(b)
  BY HandleUnhandled
<1>5. u[1] \in Mails /\ In(u, u[1])
  <2>1. 1 \in 1..Len(u)
    BY <1>3, EmptySeq
  <2> QED
    BY <1>3, <2>1, ElementOfSeq DEF In
<1>6. \A m \in Mails : In(Tail(u), m) <=> In(u, m) /\ m # u[1]
  BY <1>3, HeadOnce DEF Mailing, AllOrdered
<1>7. Ordered(Tail(u))
  BY <1>3, OrderedTail DEF Mailing, AllOrdered
<1>8. InHand'
  BY <1>1, <1>2 DEF Mailing, InHand
<1>9. AllKnown'
  <2>1. \A b \in Actors : \A m \in Mails : In(Unhandled(b), m)' => In(Unhandled(b), m)
    BY <1>3, <1>4, <1>6
  <2> QED
    BY <1>1, <2>1 DEF Mailing, AllKnown, Known
<1>10. AllOrdered'
  BY <1>3, <1>4, <1>7 DEF Mailing, AllOrdered
<1>11. ASSUME NEW c \in Callers
       PROVE /\ call'[c].from = c
             /\ result'[c] => caller'[c] = "await"
             /\ caller'[c] = "await" => (result'[c] <=> ~In(Unhandled(target[c]), call[c])')
  <2>1. call'[c].from = c /\ (result'[c] => caller'[c] = "await")
    BY <1>1 DEF Mailing, Results, Awaits
  <2>2. ASSUME caller[c] = "await"
        PROVE result'[c] <=> ~In(Unhandled(target[c]), call[c])'
    <3>1. call[c] \in Mails /\ target[c] \in Actors /\ call[c].from = c
      BY <1>2, <2>2 DEF Mailing, Results
    <3>2. result[c] <=> ~In(Unhandled(target[c]), call[c])
      BY <2>2 DEF Mailing, Results
    <3>3. result'[c] <=> result[c] \/ call[c] = u[1]
      BY <1>1, <1>3, <2>2 DEF Awaits
    <3>4. call[c] = u[1] => target[c] = a
      <4>1. Known(a, u[1])
        BY <1>5 DEF Mailing, AllKnown
      <4>2. call[c].n \in Int
        BY <3>1 DEF Mails
      <4> QED
        BY <3>1, <4>1, <4>2 DEF Known
    <3>5. CASE target[c] = a
      <4>1. In(Unhandled(target[c]), call[c])' <=> In(u, call[c]) /\ call[c] # u[1]
        BY <1>1, <1>3, <1>6, <3>1, <3>5
      <4> QED
        BY <3>2, <3>3, <3>5, <4>1
    <3>6. CASE target[c] # a
      <4>1. In(Unhandled(target[c]), call[c])' <=> In(Unhandled(target[c]), call[c])
        BY <1>1, <1>4, <3>1, <3>6
      <4> QED
        BY <3>2, <3>3, <3>4, <3>6, <4>1
    <3> QED
      BY <3>5, <3>6
  <2> QED
    BY <1>1, <2>1, <2>2
<1>12. Results'
  BY <1>11 DEF Results
<1> QED
  BY <1>8, <1>9, <1>10, <1>12 DEF Mailing

LEMMA SendMailing ==
  ASSUME Typed, Mailing, NEW c \in Callers, SendMail(c),
         NEW a \in Actors, NEW m \in Mails, target[c] = a, call[c] = m
  PROVE  Mailing'
<1> DEFINE u == Unhandled(a)
<1>1. /\ caller[c] = "send" /\ box' = [box EXCEPT ![a] = Append(box[a], m)]
      /\ caller' = [caller EXCEPT ![c] = IF m.kind = "sync" THEN "await" ELSE "idle"]
      /\ UNCHANGED <<loop, mail, target, call, result>>
  BY DEF SendMail
<1>2. /\ mail \in [Actors -> Seq(Mails)] /\ box \in [Actors -> Seq(Mails)]
      /\ a \in Actors /\ m \in Mails /\ m.from = c
      /\ caller \in [Callers -> {"idle", "send", "await"}]
      /\ \A d \in Callers : caller[d] # "idle" => target[d] \in Actors /\ call[d] \in Mails
  BY <1>1 DEF Typed, TypeOK, Calling, Mailing, Results
<1>3. u \in Seq(Mails) /\ \A i \in 1..Len(u) : u[i] \in Mails
  BY <1>2, UnhandledType
<1>4. Unhandled(a)' = Append(u, m)
  BY SendUnhandled
<1>5. \A b \in Actors \ {a} : Unhandled(b)' = Unhandled(b)
  BY SendUnhandled
<1> HIDE DEF u
<1>6. \A x : In(Append(u, m), x) <=> In(u, x) \/ x = m
  BY <1>2, <1>3, InAppend
<1>7. call'[c] = m /\ target'[c] = a
  BY <1>1
(* The caller has sent nothing of this request before.                     *)
<1>8. ASSUME NEW b \in Actors, NEW x \in Mails, In(Unhandled(b), x), x.from = c
      PROVE  x.n < m.n
  BY <1>1, <1>7, <1>8 DEF Mailing, AllKnown, Known
<1>9. m.n \in Int
  BY <1>2 DEF Mails
<1>10. InHand'
  BY <1>1 DEF Mailing, InHand
<1>11. AllKnown'
  <2> SUFFICES ASSUME NEW b \in Actors, NEW x \in Mails, In(Unhandled(b), x)'
               PROVE  Known(b, x)'
    BY DEF AllKnown
  <2>1. CASE In(Unhandled(b), x)
    <3>1. Known(b, x)
      BY <2>1 DEF Mailing, AllKnown
    <3> QED
      BY <3>1, <1>1, <1>2 DEF Known
  <2>2. CASE ~In(Unhandled(b), x)
    <3>1. b = a /\ x = m
      BY <1>4, <1>5, <1>6, <2>2 DEF u
    <3>2. caller'[c] # "send"
      BY <1>1, <1>2
    <3> QED
      BY <3>1, <3>2, <1>1, <1>2, <1>7 DEF Known
  <2> QED
    BY <2>1, <2>2
<1>12. AllOrdered'
  <2>1. Ordered(u)
    BY <1>2 DEF Mailing, AllOrdered, u
  <2>2. \A i \in 1..Len(u) : u[i].from = m.from => u[i].n < m.n
    <3> TAKE i \in 1..Len(u)
    <3>1. u[i] \in Mails /\ In(u, u[i])
      BY <1>3 DEF In
    <3> QED
      BY <3>1, <1>2, <1>8 DEF u
  <2>3. Ordered(Append(u, m))
    BY <2>1, <2>2, <1>2, <1>3, OrderedAppend
  <2> QED
    BY <2>3, <1>4, <1>5 DEF Mailing, AllOrdered
<1>13. Results'
  <2> SUFFICES ASSUME NEW d \in Callers
               PROVE /\ call'[d].from = d
                     /\ result'[d] => caller'[d] = "await"
                     /\ caller'[d] = "await" =>
                          (result'[d] <=> ~In(Unhandled(target[d]), call[d])')
    BY DEF Results
  <2>1. call'[d].from = d /\ (result[d] => caller[d] = "await")
    BY <1>1 DEF Mailing, Results
  <2>2. CASE d = c
    <3>1. ~result[c]
      BY <1>1, <2>1, <2>2
    <3>2. In(Unhandled(target[c]), call[c])'
      BY <1>1, <1>4, <1>6, <1>7
    <3> QED
      BY <1>1, <2>1, <2>2, <3>1, <3>2
  <2>3. CASE d # c
    <3>1. caller'[d] = caller[d]
      BY <1>1, <1>2, <2>3
    <3>2. ASSUME caller[d] = "await"
          PROVE  In(Unhandled(target[d]), call[d])' <=> In(Unhandled(target[d]), call[d])
      <4>1. target[d] \in Actors /\ call[d].from = d
        BY <1>2, <2>1, <1>1, <3>2
      <4>2. call[d] # m
        BY <1>2, <2>3, <4>1
      <4>3. CASE target[d] = a
        BY <1>1, <1>4, <1>6, <4>2, <4>3 DEF u
      <4>4. CASE target[d] # a
        BY <1>1, <1>5, <4>1, <4>4
      <4> QED
        BY <4>3, <4>4
    <3>3. caller[d] = "await" => (result[d] <=> ~In(Unhandled(target[d]), call[d]))
      BY DEF Mailing, Results
    <3> QED
      BY <1>1, <2>1, <3>1, <3>2, <3>3
  <2> QED
    BY <2>2, <2>3
<1> QED
  BY <1>10, <1>11, <1>12, <1>13 DEF Mailing

(* Request, Return and Cancel move a call, and no mail.                    *)
LEMMA CallMailing ==
  ASSUME Typed, Mailing, NEW c \in Callers,
         \/ \E x \in Names, kind \in Kinds : Request(c, x, kind)
         \/ Return(c)
         \/ Cancel(c)
  PROVE  Mailing'
<1>1. UNCHANGED <<loop, mail, box>>
  BY DEF Request, Return, Cancel
<1>2. /\ caller \in [Callers -> {"idle", "send", "await"}]
      /\ call \in [Callers -> [from : Callers, n : 0..MaxCalls, kind : Kinds]]
      /\ target \in [Callers -> Actors \cup {NoActor}] /\ result \in [Callers -> BOOLEAN]
      /\ \A d \in Callers : caller[d] # "idle" => target[d] \in Actors /\ call[d] \in Mails
  BY DEF Typed, TypeOK, Calling
<1>3. \A a \in Actors : Unhandled(a)' = Unhandled(a)
  BY <1>1 DEF Unhandled
<1>4. InHand' /\ AllOrdered'
  BY <1>1, <1>3 DEF Mailing, InHand, AllOrdered
<1>5. \A d \in Callers \ {c} : /\ caller'[d] = caller[d] /\ call'[d] = call[d]
                              /\ target'[d] = target[d] /\ result'[d] = result[d]
  BY <1>2 DEF Request, Return, Cancel
<1>6. CASE \E x \in Names, kind \in Kinds : Request(c, x, kind)
  <2>1. /\ caller[c] = "idle" /\ caller'[c] = "send" /\ UNCHANGED result
        /\ call'[c].from = c /\ call'[c].n = call[c].n + 1
    BY <1>2, <1>6 DEF Request
  <2>2. AllKnown'
    <3> SUFFICES ASSUME NEW a \in Actors, NEW m \in Mails, In(Unhandled(a), m)
                 PROVE  Known(a, m)'
      BY <1>3 DEF AllKnown
    <3>1. Known(a, m)
      BY DEF Mailing, AllKnown
    <3>2. CASE m.from = c
      <4>1. m.n \in Int /\ call[c].n \in Int
        BY <1>2 DEF Mails
      <4>2. m.n <= call[c].n
        BY <3>1, <3>2, <4>1 DEF Known
      <4> QED
        BY <2>1, <3>2, <4>1, <4>2 DEF Known
    <3>3. CASE m.from # c
      <4>1. m.from \in Callers
        BY DEF Mails
      <4> QED
        BY <1>5, <3>1, <3>3, <4>1 DEF Known
    <3> QED
      BY <3>2, <3>3
  <2>3. Results'
    <3> SUFFICES ASSUME NEW d \in Callers
                 PROVE /\ call'[d].from = d
                       /\ result'[d] => caller'[d] = "await"
                       /\ caller'[d] = "await" =>
                            (result'[d] <=> ~In(Unhandled(target[d]), call[d])')
      BY DEF Results
    <3>1. CASE d = c
      BY <2>1, <3>1 DEF Mailing, Results
    <3>2. CASE d # c
      <4>1. caller[d] = "await" =>
              (In(Unhandled(target[d]), call[d])' <=> In(Unhandled(target[d]), call[d]))
        BY <1>2, <1>3, <1>5, <3>2
      <4> QED
        BY <1>5, <3>2, <4>1 DEF Mailing, Results
    <3> QED
      BY <3>1, <3>2
  <2> QED
    BY <1>4, <2>2, <2>3 DEF Mailing
<1>7. CASE Return(c) \/ Cancel(c)
  <2>1. /\ caller[c] = "await" /\ caller'[c] = "idle" /\ ~result'[c]
        /\ UNCHANGED <<call, target>>
    BY <1>2, <1>7 DEF Return, Cancel
  <2>2. AllKnown'
    <3> SUFFICES ASSUME NEW a \in Actors, NEW m \in Mails, In(Unhandled(a), m)
                 PROVE  Known(a, m)'
      BY <1>3 DEF AllKnown
    <3>1. Known(a, m) /\ m.from \in Callers
      BY DEF Mailing, AllKnown, Mails
    <3>2. caller[m.from] # "send" => caller'[m.from] # "send"
      BY <1>5, <2>1, <3>1
    <3> QED
      BY <2>1, <3>1, <3>2 DEF Known
  <2>3. Results'
    <3> SUFFICES ASSUME NEW d \in Callers
                 PROVE /\ call'[d].from = d
                       /\ result'[d] => caller'[d] = "await"
                       /\ caller'[d] = "await" =>
                            (result'[d] <=> ~In(Unhandled(target[d]), call[d])')
      BY DEF Results
    <3>1. CASE d = c
      BY <2>1, <3>1 DEF Mailing, Results
    <3>2. CASE d # c
      <4>1. caller[d] = "await" =>
              (In(Unhandled(target[d]), call[d])' <=> In(Unhandled(target[d]), call[d]))
        BY <1>2, <1>3, <1>5, <3>2
      <4> QED
        BY <1>5, <3>2, <4>1 DEF Mailing, Results
    <3> QED
      BY <3>1, <3>2
  <2> QED
    BY <1>4, <2>2, <2>3 DEF Mailing
<1> QED
  BY <1>6, <1>7

LEMMA NextMailing == ASSUME Typed, IInv, Mailing, [Next]_vars PROVE Mailing'
<1>t. DOMAIN loop = Actors
  BY DEF Typed, TypeOK
<1>1. ASSUME UNCHANGED <<mail, box, callVars>>,
             \A a \in Actors : loop'[a] = "handle" <=> loop[a] = "handle"
      PROVE Mailing'
  <2>1. \A a \in Actors : Unhandled(a)' = Unhandled(a)
    BY <1>1 DEF Unhandled
  <2>2. InHand'
    BY <1>1 DEF Mailing, InHand
  <2> QED
    BY <1>1, <2>1, <2>2, SameMailing
<1>2. ASSUME NEW a \in Actors, LoopNext(a) PROVE Mailing'
  <2>1. CASE Ticker(a) \/ Tick(a) \/ BreakLoop(a) \/ CloseState(a)
    BY <1>1, <1>t, <2>1 DEF Ticker, Tick, BreakLoop, CloseState
  <2> QED
    BY <1>2, <2>1, RecvMailing, HandleMailing DEF LoopNext
<1>3. ASSUME NEW c \in Callers, CallerNext(c) PROVE Mailing'
  <2>1. CASE SendMail(c)
    <3>1. target[c] \in Actors /\ call[c] \in Mails
      BY <2>1 DEF SendMail, Typed, Calling
    <3> QED
      BY <2>1, <3>1, SendMailing
  <2> QED
    BY <1>3, <2>1, CallMailing DEF CallerNext
<1>4. ASSUME NEW a \in Actors, RegisterActor(a) PROVE Mailing'
  BY <1>1, <1>4 DEF RegisterActor
<1>5. ASSUME NEW a \in Actors, Start(a) PROVE Mailing'
  <2>1. loop[a] = "none"
    BY <1>5 DEF Start, IInv, Loops
  <2> QED
    BY <1>1, <1>5, <1>t, <2>1 DEF Start
<1>6. ASSUME NEW p \in Closers, CloserNext(p) PROVE Mailing'
  BY <1>1, <1>6 DEF CloserNext, Close, Wait, Deregister, CloseReturn
<1>7. CASE CloseAll \/ \E a \in Actors : CloseCall(a)
  BY <1>1, <1>7 DEF CloseAll, CloseCall
<1>8. CASE UNCHANGED vars
  BY <1>1, <1>8 DEF vars
<1> QED
  BY <1>2, <1>3, <1>4, <1>5, <1>6, <1>7, <1>8 DEF Next

LEMMA MailInvariance == Spec => [](Typed /\ Mailing)
<1>1. Typed /\ IInv /\ Mailing /\ [Next]_vars => Mailing'
  BY NextMailing
<1> QED
  BY InitMailing, Invariance, <1>1, PTL DEF Spec

(* Each actor gets the mails of one caller in the order they were sent and *)
(* each once: those it has still to handle bear growing numbers.           *)
THEOREM MailsInOrder == Spec => []InOrder
<1>1. Mailing => InOrder
  BY DEF Mailing, AllOrdered, Ordered, Unhandled, InOrder
<1> QED
  BY <1>1, MailInvariance, PTL

(* A SyncRequest in its select has a result in resultCh exactly if its     *)
(* actor no longer has its mail: no result is lost, made up or given to a  *)
(* later request, however many requests were cancelled before.             *)
THEOREM CallsAccounted == Spec => []CallAccounted
<1>1. Mailing => CallAccounted
  BY DEF Mailing, Results, In, Unhandled, CallAccounted, Holds
<1> QED
  BY <1>1, MailInvariance, PTL

(* A SyncRequest gets its result when the actor it asked has handled the   *)
(* mail of this very request, and in no other step.                        *)
AnswersOwn ==
  [][\A c \in Callers :
       result'[c] /\ ~result[c] =>
         /\ loop[target[c]] = "handle" /\ loop'[target[c]] = "tick"
         /\ caller[c] = "await" /\ Head(mail[target[c]]) = call[c]]_vars

LEMMA HandleAnswers ==
  ASSUME Typed, Mailing, NEW a \in Actors, Handle(a), NEW c \in Callers,
         result'[c], ~result[c]
  PROVE  /\ loop[target[c]] = "handle" /\ loop'[target[c]] = "tick"
         /\ caller[c] = "await" /\ Head(mail[target[c]]) = call[c]
<1>1. /\ mail[a] \in Seq(Mails) /\ Len(mail[a]) = 1 /\ box[a] \in Seq(Mails)
      /\ loop[a] = "handle" /\ loop' = [loop EXCEPT ![a] = "tick"] /\ DOMAIN loop = Actors
      /\ caller[c] = "await" /\ Head(mail[a]) = call[c]
  BY DEF Handle, Awaits, Typed, TypeOK, Mailing, InHand
<1>2. Unhandled(a) # <<>> /\ Unhandled(a)[1] = call[c]
  BY <1>1, HandleTakes DEF Unhandled
<1>3. call[c] \in Mails /\ In(Unhandled(a), call[c])
  <2>1. call[c] \in Mails
    BY <1>1 DEF Typed, Calling
  <2>2. Unhandled(a) \in Seq(Mails)
    BY UnhandledType
  <2>3. 1 \in 1..Len(Unhandled(a))
    BY <1>2, <2>2, EmptySeq
  <2> QED
    BY <1>2, <2>1, <2>3 DEF In
<1>4. Known(a, call[c]) /\ call[c].from = c /\ call[c].n \in Int
  BY <1>3 DEF Mailing, AllKnown, Results, Mails
<1>5. target[c] = a
  BY <1>4 DEF Known
<1> QED
  BY <1>1, <1>5

THEOREM OwnAnswer == Spec => AnswersOwn
<1> DEFINE Own(c) == result'[c] /\ ~result[c] =>
                       /\ loop[target[c]] = "handle" /\ loop'[target[c]] = "tick"
                       /\ caller[c] = "await" /\ Head(mail[target[c]]) = call[c]
<1>1. ASSUME Typed, Mailing, Next, NEW c \in Callers PROVE Own(c)
  <2>1. CASE result'[c] = result[c]
    BY <2>1
  <2>2. CASE result'[c] # result[c]
    <3>1. \/ \E a \in Actors : Handle(a)
          \/ \E d \in Callers : Return(d) \/ Cancel(d)
      BY <1>1, <2>2
      DEF Next, RegisterActor, Start, LoopNext, RecvMail, Ticker, Tick, BreakLoop, CloseState,
          CallerNext, Request, SendMail, CloserNext, Close, Wait, Deregister, CloseReturn,
          CloseCall, CloseAll, callVars
    <3>2. CASE \E a \in Actors : Handle(a)
      BY <1>1, <3>2, HandleAnswers
    <3>3. CASE \E d \in Callers : Return(d) \/ Cancel(d)
      <4>1. PICK d \in Callers : result' = [result EXCEPT ![d] = FALSE]
        BY <3>3 DEF Return, Cancel
      <4>2. ~result'[c]
        BY <1>1, <2>2, <4>1 DEF Typed, TypeOK
      <4> QED
        BY <4>2
    <3> QED
      BY <3>1, <3>2, <3>3
  <2> QED
    BY <2>1, <2>2
<1>2. Typed /\ Mailing /\ [Next]_vars => [\A c \in Callers : Own(c)]_vars
  BY <1>1
<1> QED
  BY <1>2, MailInvariance, PTL DEF Spec, AnswersOwn
-----------------------------------------------------------------------------
(* The package implements Requests: Start, CloseState, Handle, SendMail,   *)
(* Return and Cancel show, and Wait if it has nobody to wait for; the      *)
(* other steps do not.                                                     *)
promise == <<Served, ServingNow, Dropped, Queue, Asked, Waiting, result>>

(* What Served and ServingNow, Queue, and Asked with Waiting depend on.    *)
LEMMA SameServing ==
  ASSUME \A a \in Actors : loop'[a] = "none" <=> loop[a] = "none",
         \A a \in Actors : Serving(a)' <=> Serving(a)
  PROVE  UNCHANGED <<Served, ServingNow>>
<1>1. Served' = Served
  BY DEF Served
<1>2. ServingNow' = {a \in Actors : Serving(a)'}
  BY DEF ServingNow
<1> QED
  BY <1>1, <1>2 DEF ServingNow

(* An actor is dropped when its wg.Wait returns, and only then.            *)
LEMMA SameDropped ==
  ASSUME \A a \in Actors : Waited(a)' <=> Waited(a), UNCHANGED owner
  PROVE  UNCHANGED Dropped
<1>1. Dropped' = {a \in Actors : owner'[a] = "late" \/ (owner'[a] = "registered" /\ Waited(a)')}
  BY DEF Dropped
<1> QED
  BY <1>1 DEF Dropped

LEMMA SameQueue ==
  ASSUME \A a \in Actors : Unhandled(a)' = Unhandled(a) PROVE UNCHANGED Queue
<1>1. Queue' = [a \in Actors |-> Unhandled(a)']
  BY DEF Queue
<1> QED
  BY <1>1 DEF Queue

LEMMA SameCalls == ASSUME UNCHANGED <<caller, call>> PROVE UNCHANGED <<Asked, Waiting>>
BY DEF Asked, Waiting

LEMMA RegisterDropsNone ==
  ASSUME Typed, IInv, NEW a \in Actors, RegisterActor(a)
  PROVE  UNCHANGED Dropped
<1>1. /\ \A b \in Actors : Waited(b)' <=> Waited(b)
      /\ \A b \in Actors : b # a => owner'[b] = owner[b]
      /\ owner[a] = "new" /\ owner'[a] \in {"registered", "failed"}
  BY WaitedStays DEF RegisterActor, closeVars, Typed, TypeOK
<1>2. ~Waited(a)
  BY <1>1 DEF Waited, IInv, Closing, ClosedAlive, Alive
<1>3. Dropped' = {b \in Actors : owner'[b] = "late" \/ (owner'[b] = "registered" /\ Waited(b)')}
  BY DEF Dropped
<1> QED
  BY <1>1, <1>2, <1>3 DEF Dropped

(* The name of an actor that starts in time is its own, so no other of it  *)
(* serves that did.                                                        *)
LEMMA StartServes == ASSUME Typed, IInv, NEW a \in Actors, Start(a) PROVE Promise!Serve(a)
<1>1. /\ owner[a] = "registered" /\ loop[a] = "none"
      /\ loop' = [loop EXCEPT ![a] = "select"] /\ DOMAIN loop = Actors
      /\ UNCHANGED <<mail, box, callVars>>
  BY DEF Start, IInv, Loops, Typed, TypeOK
<1>2. a \in Dropped <=> Waited(a)
  BY <1>1 DEF Dropped
<1>3. ASSUME ~Waited(a), NEW b \in ServingNow \ Dropped PROVE NameOf[b] # NameOf[a]
  <2>1. Serving(b) /\ owner[b] # "late"
    BY <1>3 DEF ServingNow, Dropped
  <2>2. b \in Actors /\ actors[NameOf[b]] = b
    BY <1>3, <2>1, ServedHeld DEF ServingNow, IInv, Holding
  <2>3. closeCh[a] => closing[CloserOf(a)] = a
    BY <1>3 DEF Waited, IInv, Closing, WaitsFor
  <2>4. actors[NameOf[a]] = a
    BY <1>1, <2>3 DEF IInv, Holding, Held, Alive
  <2>5. a # b
    BY <1>1, <2>1 DEF Serving
  <2> QED
    BY <2>2, <2>4, <2>5
<1>4. a \notin Served /\ (a \in Dropped \/ \A b \in ServingNow \ Dropped : NameOf[b] # NameOf[a])
  BY <1>1, <1>2, <1>3 DEF Served
<1>5. Served' = Served \cup {a}
  BY <1>1 DEF Served
<1>6. ServingNow' = ServingNow \cup {a}
  <2>1. \A b \in Actors : Serving(b)' <=> Serving(b) \/ b = a
    BY <1>1 DEF Serving
  <2>2. ServingNow' = {b \in Actors : Serving(b)'}
    BY DEF ServingNow
  <2> QED
    BY <2>1, <2>2 DEF ServingNow
<1>7. UNCHANGED Dropped
  <2>1. \A b \in Actors : Waited(b)' <=> Waited(b)
    BY WaitedStays DEF Start, closeVars
  <2>2. /\ \A b \in Actors : b # a => owner'[b] = owner[b]
        /\ owner'[a] = IF Waited(a) THEN "late" ELSE "running"
    BY DEF Start, Typed, TypeOK
  <2>3. Dropped' = {b \in Actors : owner'[b] = "late" \/ (owner'[b] = "registered" /\ Waited(b)')}
    BY DEF Dropped
  <2> QED
    BY <1>1, <2>1, <2>2, <2>3 DEF Dropped
<1>8. UNCHANGED <<Queue, Asked, Waiting, result>>
  <2>1. UNCHANGED Queue
    BY <1>1, SameQueue DEF Unhandled
  <2> QED
    BY <1>1, <2>1, SameCalls DEF callVars
<1> QED
  BY <1>4, <1>5, <1>6, <1>7, <1>8 DEF Promise!Serve

(* wg.Wait that returns before wg.Add drops the actor.                     *)
LEMMA WaitDrops ==
  ASSUME Typed, IInv, NEW p \in Closers, NEW a \in Actors, Wait(p, a)
  PROVE  Promise!Drop(a) \/ UNCHANGED promise
<1>1. /\ UNCHANGED <<owner, loop, mail, box, closeCh, closing, callVars>>
      /\ closing[p] = a /\ closer[p] = "busy"
      /\ closer' = [closer EXCEPT ![p] = "remove"]
      /\ closer \in [Closers -> {"idle", "busy", "remove", "done", "panic"}]
  BY DEF Wait, Typed, TypeOK
<1>2. \A b \in Actors : b # a => (Waited(b)' <=> Waited(b))
  BY <1>1 DEF Waited
<1>3. Waited(a)' /\ ~Waited(a)
  BY <1>1 DEF Waited, IInv, Closing, WaitsFor
<1>4. UNCHANGED <<Served, ServingNow, Queue, Asked, Waiting, result>>
  BY <1>1, SameServing, SameQueue, SameCalls DEF Serving, Unhandled, callVars
<1>5. Dropped' = {b \in Actors : owner[b] = "late" \/ (owner[b] = "registered" /\ Waited(b)')}
  BY <1>1 DEF Dropped
<1>6. CASE owner[a] = "registered"
  <2>1. a \notin Served
    BY <1>6 DEF Served, IInv, Loops
  <2>2. Dropped' = Dropped \cup {a}
    BY <1>2, <1>3, <1>5, <1>6 DEF Dropped
  <2> QED
    BY <1>4, <2>1, <2>2 DEF Promise!Drop
<1>7. CASE owner[a] # "registered"
  <2>1. Dropped' = Dropped
    BY <1>2, <1>5, <1>7 DEF Dropped
  <2> QED
    BY <1>4, <2>1 DEF promise
<1> QED
  BY <1>6, <1>7

LEMMA CloseStateRetires == ASSUME Typed, NEW a \in Actors, CloseState(a) PROVE Promise!Retire(a)
<1>1. /\ loop[a] = "close" /\ loop' = [loop EXCEPT ![a] = "done"] /\ DOMAIN loop = Actors
      /\ UNCHANGED <<owner, mail, box, closeCh, closeVars, callVars>>
  BY DEF CloseState, Typed, TypeOK
<1>2. a \in ServingNow
  BY <1>1 DEF ServingNow, Serving
<1>3. Served' = Served
  BY <1>1 DEF Served
<1>4. ServingNow' = ServingNow \ {a}
  <2>1. \A b \in Actors : Serving(b)' <=> Serving(b) /\ b # a
    BY <1>1 DEF Serving
  <2>2. ServingNow' = {b \in Actors : Serving(b)'}
    BY DEF ServingNow
  <2> QED
    BY <2>1, <2>2 DEF ServingNow
<1>5. UNCHANGED <<Dropped, Queue, Asked, Waiting, result>>
  <2>1. UNCHANGED <<Dropped, Queue>>
    BY <1>1, WaitedStays, SameDropped, SameQueue DEF Unhandled, closeVars
  <2> QED
    BY <1>1, <2>1, SameCalls DEF callVars
<1> QED
  BY <1>2, <1>3, <1>4, <1>5 DEF Promise!Retire

LEMMA HandleShows ==
  ASSUME Typed, Mailing, NEW a \in Actors, Handle(a) PROVE Promise!Handle(a)
<1>1. /\ loop[a] = "handle" /\ loop' = [loop EXCEPT ![a] = "tick"] /\ DOMAIN loop = Actors
      /\ result' = [c \in Callers |-> result[c] \/ Awaits(c, Head(mail[a]))]
      /\ UNCHANGED <<owner, closeCh, closeVars, caller, call>>
  BY DEF Handle, Typed, TypeOK
<1>2. /\ Unhandled(a) \in Seq(Mails) /\ Unhandled(a) # <<>>
      /\ Unhandled(a)[1] = Head(mail[a]) /\ Unhandled(a)' = Tail(Unhandled(a))
      /\ \A b \in Actors \ {a} : Unhandled(b)' = Unhandled(b)
  BY HandleUnhandled
<1>3. Queue[a] = Unhandled(a) /\ Head(Queue[a]) = Head(mail[a])
  BY <1>2, HeadTailProperties DEF Queue
<1>4. Queue' = [Queue EXCEPT ![a] = Tail(Queue[a])]
  <2>1. Queue' = [b \in Actors |-> Unhandled(b)']
    BY DEF Queue
  <2>2. \A b \in Actors : Unhandled(b)' = IF b = a THEN Tail(Unhandled(a)) ELSE Unhandled(b)
    BY <1>2
  <2> QED
    BY <1>3, <2>1, <2>2 DEF Queue
<1>5. \A c \in Callers : Awaits(c, Head(mail[a])) <=> Waiting[c] = {Head(Queue[a])}
  BY <1>3 DEF Awaits, Waiting
<1>6. result' = [c \in Callers |-> result[c] \/ Waiting[c] = {Head(Queue[a])}]
  BY <1>1, <1>5
<1>7. a \in ServingNow /\ UNCHANGED <<Served, ServingNow, Dropped, Asked, Waiting>>
  <2>1. a \in ServingNow
    BY <1>1 DEF ServingNow, Serving
  <2>2. UNCHANGED <<Served, ServingNow>>
    BY <1>1, SameServing DEF Serving
  <2>3. UNCHANGED Dropped
    BY <1>1, WaitedStays, SameDropped DEF closeVars
  <2> QED
    BY <1>1, <2>1, <2>2, <2>3, SameCalls
<1> QED
  BY <1>2, <1>3, <1>4, <1>6, <1>7 DEF Promise!Handle

LEMMA SendAsks ==
  ASSUME Typed, Mailing, NEW c \in Callers, SendMail(c)
  PROVE  \E a \in Actors, kind \in {"sync", "async"} : Promise!Ask(c, a, kind)
<1>1. PICK a \in Actors, m \in Mails :
        target[c] = a /\ call[c] = m /\ m.from = c /\ caller[c] = "send"
  BY DEF SendMail, Typed, Calling, Mailing, Results
<1>2. /\ Unhandled(a)' = Append(Unhandled(a), m)
      /\ \A b \in Actors \ {a} : Unhandled(b)' = Unhandled(b)
  BY <1>1, SendUnhandled
<1>3. /\ caller' = [caller EXCEPT ![c] = IF m.kind = "sync" THEN "await" ELSE "idle"]
      /\ caller \in [Callers -> {"idle", "send", "await"}]
      /\ UNCHANGED <<owner, loop, closeCh, closeVars, call, result>>
  BY <1>1 DEF SendMail, Typed, TypeOK
<1>4. m.n \in Int /\ m.kind \in {"sync", "async"}
  BY DEF Mails, Kinds
<1>5. Asked[c] = m.n - 1 /\ Waiting[c] = {} /\ m = [from |-> c, n |-> Asked[c] + 1, kind |-> m.kind]
  <2>1. Asked[c] = m.n - 1 /\ Waiting[c] = {}
    BY <1>1 DEF Asked, Waiting
  <2>2. Asked[c] + 1 = m.n
    BY <1>4, <2>1
  <2>3. m = [from |-> m.from, n |-> m.n, kind |-> m.kind]
    BY DEF Mails
  <2> QED
    BY <1>1, <2>1, <2>2, <2>3
<1>6. Queue' = [Queue EXCEPT ![a] = Append(Queue[a], m)]
  <2>1. Queue' = [b \in Actors |-> Unhandled(b)']
    BY DEF Queue
  <2>2. \A b \in Actors : Unhandled(b)' = IF b = a THEN Append(Unhandled(a), m) ELSE Unhandled(b)
    BY <1>2
  <2> QED
    BY <1>1, <2>1, <2>2 DEF Queue
<1>7. \A d \in Callers : /\ d # c => caller'[d] = caller[d]
                         /\ d = c => caller'[d] = IF m.kind = "sync" THEN "await" ELSE "idle"
  BY <1>3
<1>8. Asked' = [Asked EXCEPT ![c] = Asked[c] + 1]
  <2>1. \A d \in Callers : Asked'[d] = IF d = c THEN m.n ELSE Asked[d]
    BY <1>1, <1>3, <1>7 DEF Asked
  <2>2. Asked[c] + 1 = m.n
    BY <1>4, <1>5
  <2>3. Asked' = [d \in Callers |-> Asked'[d]] /\ Asked = [d \in Callers |-> Asked[d]]
    BY DEF Asked
  <2> HIDE DEF Asked
  <2> QED
    BY <2>1, <2>2, <2>3
<1>9. Waiting' = [Waiting EXCEPT ![c] = IF m.kind = "sync" THEN {m} ELSE {}]
  <2>1. \A d \in Callers :
          Waiting'[d] = IF d = c THEN IF m.kind = "sync" THEN {m} ELSE {} ELSE Waiting[d]
    BY <1>1, <1>3, <1>7 DEF Waiting
  <2>2. Waiting' = [d \in Callers |-> Waiting'[d]] /\ Waiting = [d \in Callers |-> Waiting[d]]
    BY DEF Waiting
  <2> HIDE DEF Waiting
  <2> QED
    BY <2>1, <2>2
<1>10. UNCHANGED <<Served, ServingNow, Dropped, result>>
  BY <1>3, SameServing, WaitedStays, SameDropped DEF Serving, closeVars
<1>11. Promise!Ask(c, a, m.kind)
  BY <1>5, <1>6, <1>8, <1>9, <1>10 DEF Promise!Ask
<1> QED
  BY <1>1, <1>4, <1>11

LEMMA ReturnLeaves ==
  ASSUME Typed, NEW c \in Callers, Return(c) \/ Cancel(c) PROVE Promise!Leave(c)
<1>1. /\ caller[c] = "await" /\ (result[c] \/ Cancels)
      /\ caller' = [caller EXCEPT ![c] = "idle"] /\ result' = [result EXCEPT ![c] = FALSE]
      /\ caller \in [Callers -> {"idle", "send", "await"}]
      /\ UNCHANGED <<owner, loop, mail, box, closeCh, closeVars, call>>
  BY DEF Return, Cancel, Typed, TypeOK
<1>2. Waiting[c] # {}
  BY <1>1 DEF Waiting
<1>3. \A d \in Callers : caller'[d] = IF d = c THEN "idle" ELSE caller[d]
  BY <1>1
<1>4. UNCHANGED Asked
  <2>1. \A d \in Callers : caller'[d] = "send" <=> caller[d] = "send"
    BY <1>1, <1>3
  <2> QED
    BY <1>1, <2>1 DEF Asked
<1>5. Waiting' = [Waiting EXCEPT ![c] = {}]
  BY <1>1, <1>3 DEF Waiting
<1>6. UNCHANGED <<Served, ServingNow, Dropped, Queue>>
  <2>1. UNCHANGED <<Served, ServingNow>>
    BY <1>1, SameServing DEF Serving
  <2>2. UNCHANGED Dropped
    BY <1>1, WaitedStays, SameDropped DEF closeVars
  <2> QED
    BY <1>1, <2>1, <2>2, SameQueue DEF Unhandled
<1> QED
  BY <1>1, <1>2, <1>4, <1>5, <1>6 DEF Promise!Leave

(* A request that waits for room is not counted as asked.                  *)
LEMMA RequestHidden ==
  ASSUME Typed, NEW c \in Callers, NEW x \in Names, NEW kind \in Kinds, Request(c, x, kind)
  PROVE  UNCHANGED promise
<1>1. /\ caller[c] = "idle" /\ caller' = [caller EXCEPT ![c] = "send"]
      /\ call' = [call EXCEPT ![c] = [from |-> c, n |-> call[c].n + 1, kind |-> kind]]
      /\ caller \in [Callers -> {"idle", "send", "await"}]
      /\ call \in [Callers -> [from : Callers, n : 0..MaxCalls, kind : Kinds]]
      /\ UNCHANGED <<owner, loop, mail, box, closeCh, closeVars, result>>
  BY DEF Request, Typed, TypeOK
<1>2. call[c].n \in Int /\ (call[c].n + 1) - 1 = call[c].n /\ call'[c].n = call[c].n + 1
  BY <1>1
<1>3. \A d \in Callers : d # c => caller'[d] = caller[d] /\ call'[d] = call[d]
  BY <1>1
<1>4. caller'[c] = "send"
  BY <1>1
<1>5. \A d \in Callers : Asked'[d] = Asked[d] /\ Waiting'[d] = Waiting[d]
  <2> TAKE d \in Callers
  <2>1. CASE d = c
    BY <1>1, <1>2, <1>4, <2>1 DEF Asked, Waiting
  <2>2. CASE d # c
    BY <1>3, <2>2 DEF Asked, Waiting
  <2> QED
    BY <2>1, <2>2
<1>6. UNCHANGED <<Asked, Waiting>>
  <2>1. /\ Asked' = [d \in Callers |-> Asked'[d]] /\ Asked = [d \in Callers |-> Asked[d]]
        /\ Waiting' = [d \in Callers |-> Waiting'[d]] /\ Waiting = [d \in Callers |-> Waiting[d]]
    BY DEF Asked, Waiting
  <2> HIDE DEF Asked, Waiting
  <2> QED
    BY <1>5, <2>1
<1>7. UNCHANGED <<Served, ServingNow, Dropped>>
  BY <1>1, SameServing, WaitedStays, SameDropped DEF Serving, closeVars
<1>8. UNCHANGED Queue
  BY <1>1, SameQueue DEF Unhandled
<1> QED
  BY <1>1, <1>6, <1>7, <1>8 DEF promise

LEMMA PromiseStep ==
  ASSUME Typed, IInv, Mailing, [Next]_vars PROVE [Promise!Next]_promise
<1>t. DOMAIN loop = Actors
  BY DEF Typed, TypeOK
<1>1. ASSUME \A a \in Actors : loop'[a] = "none" <=> loop[a] = "none",
             \A a \in Actors : Serving(a)' <=> Serving(a),
             \A a \in Actors : Unhandled(a)' = Unhandled(a),
             UNCHANGED <<Dropped, callVars>>
      PROVE  UNCHANGED promise
  BY <1>1, SameServing, SameQueue, SameCalls DEF promise, callVars
<1>2. ASSUME UNCHANGED <<Dropped, loop, mail, box, callVars>> PROVE UNCHANGED promise
  BY <1>1, <1>2 DEF Serving, Unhandled
<1>d. ASSUME UNCHANGED <<owner, closeCh, closeVars>> PROVE UNCHANGED Dropped
  BY <1>d, WaitedStays, SameDropped DEF closeVars
<1>3. ASSUME NEW a \in Actors, LoopNext(a) PROVE [Promise!Next]_promise
  <2>1. CASE RecvMail(a)
    <3>1. \A b \in Actors : Unhandled(b)' = Unhandled(b)
      BY <2>1, RecvUnhandled
    <3>2. loop[a] = "select" /\ loop' = [loop EXCEPT ![a] = "handle"] /\ UNCHANGED <<Dropped, callVars>>
      BY <1>d, <2>1 DEF RecvMail
    <3> QED
      BY <1>t, <1>1, <3>1, <3>2 DEF Serving
  <2>2. CASE Ticker(a) \/ Tick(a) \/ BreakLoop(a)
    <3>1. /\ loop[a] \in {"select", "tick"} /\ UNCHANGED <<Dropped, mail, box, callVars>>
          /\ \E st \in {"tick", "select", "close"} : loop' = [loop EXCEPT ![a] = st]
      BY <1>d, <2>2 DEF Ticker, Tick, BreakLoop
    <3> QED
      BY <1>t, <1>1, <3>1 DEF Serving, Unhandled
  <2>3. CASE Handle(a)
    BY <2>3, HandleShows DEF Promise!Next
  <2>4. CASE CloseState(a)
    BY <2>4, CloseStateRetires DEF Promise!Next
  <2> QED
    BY <1>3, <2>1, <2>2, <2>3, <2>4 DEF LoopNext
<1>4. ASSUME NEW c \in Callers, CallerNext(c) PROVE [Promise!Next]_promise
  <2>1. CASE SendMail(c)
    BY <2>1, SendAsks DEF Promise!Next
  <2>2. CASE Return(c) \/ Cancel(c)
    BY <2>2, ReturnLeaves DEF Promise!Next
  <2> QED
    BY <1>4, <2>1, <2>2, RequestHidden DEF CallerNext
<1>5. ASSUME NEW a \in Actors, Start(a) PROVE Promise!Next
  BY <1>5, StartServes DEF Promise!Next
<1>6. ASSUME NEW a \in Actors, RegisterActor(a) PROVE UNCHANGED promise
  BY <1>2, <1>6, RegisterDropsNone DEF RegisterActor
<1>7. ASSUME NEW p \in Closers, CloserNext(p), \A a \in Actors : ~Wait(p, a)
      PROVE  UNCHANGED promise
  <2>1. \A b \in Actors : Waited(b)' <=> Waited(b)
    BY <1>7, WaitedKept DEF CloserNext
  <2>2. UNCHANGED <<owner, loop, mail, box, callVars>>
    BY <1>7 DEF CloserNext, Close, Deregister, CloseReturn
  <2> QED
    BY <1>2, <2>1, <2>2, SameDropped
<1>8. ASSUME NEW p \in Closers, NEW a \in Actors, Wait(p, a) PROVE [Promise!Next]_promise
  BY <1>8, WaitDrops DEF Promise!Next
<1>9. CASE CloseAll \/ \E a \in Actors : CloseCall(a)
  <2>1. \A b \in Actors : Waited(b)' <=> Waited(b)
    BY <1>9, WaitedKept
  <2>2. UNCHANGED <<owner, loop, mail, box, callVars>>
    BY <1>9 DEF CloseAll, CloseCall
  <2> QED
    BY <1>2, <2>1, <2>2, SameDropped
<1>10. CASE UNCHANGED vars
  BY <1>2, <1>d, <1>10 DEF vars
<1> QED
  BY <1>3, <1>4, <1>5, <1>6, <1>7, <1>8, <1>9, <1>10 DEF Next

LEMMA PromiseInit == ASSUME Init PROVE Promise!Init
<1>1. /\ \A a \in Actors : mail[a] = <<>> /\ box[a] = <<>> /\ loop[a] = "none"
      /\ \A c \in Callers : caller[c] = "idle" /\ call[c].n = 0
      /\ result = [c \in Callers |-> FALSE]
  BY DEF Init
<1>2. Served = {} /\ ServingNow = {} /\ Dropped = {}
  <2>1. \A a \in Actors : owner[a] = "new"
    BY DEF Init
  <2> QED
    BY <1>1, <2>1 DEF Served, ServingNow, Serving, Dropped
<1>3. <<>> \o <<>> = <<>>
  <2>1. <<>> \in Seq(Mails)
    OBVIOUS
  <2> QED
    BY <2>1, ConcatEmptySeq
<1>4. Queue = [a \in Actors |-> <<>>]
  BY <1>1, <1>3 DEF Queue, Unhandled
<1>5. Asked = [c \in Callers |-> 0] /\ Waiting = [c \in Callers |-> {}]
  BY <1>1 DEF Asked, Waiting
<1> QED
  BY <1>1, <1>2, <1>4, <1>5 DEF Promise!Init

(* Package xactor does what its users may count on: an actor is served     *)
(* once, and alone under its name but for those CloseAll closed before     *)
(* their goroutines were counted; it handles what it accepted in order and *)
(* each once, and a call that waits has its answer exactly when its own    *)
(* request was handled, whatever is closed, cancelled or blocked meanwhile. *)
THEOREM KeepsPromise == Spec => RequestsSpec
<1>1. Typed /\ IInv /\ Mailing /\ [Next]_vars => [Promise!Next]_promise
  BY PromiseStep
<1>2. Init => Promise!Init
  BY PromiseInit
<1>3. Spec => [](Typed /\ IInv /\ Mailing)
  BY Invariance, MailInvariance, PTL
<1> QED
  BY <1>1, <1>2, <1>3, PTL DEF Spec, RequestsSpec, Promise!Spec, promise
=============================================================================
