------------------------------- MODULE Actor --------------------------------
(***************************************************************************)
(* The actors of pkg/xactor: the registry of names (manager.go), the       *)
(* mailbox (mailbox.go) and the goroutine that serves one actor            *)
(* (actor_groutine.go), used by concurrent callers.                        *)
(*                                                                         *)
(* An element of Actors is one ActorGroutine, that is one call of          *)
(* NewActorGroutine; a name can be used again by a later one.  The program *)
(* closes its actors in one of two ways, never both: each by its own       *)
(* creator, as Registry.OnDisconnect of cmd/udp_tun does, or all at once   *)
(* by CloseAll, as actor_test.go does.  CloseAll may find an actor whose   *)
(* creator has registered it and not yet counted its goroutine: wg.Wait    *)
(* then waits for nobody, and the goroutine starts late, for an actor that *)
(* has been closed.  Handlers and ticks are user code that returns and     *)
(* does not call its own actor; what a request carries and what a handler  *)
(* computes are left out.                                                  *)
(***************************************************************************)
EXTENDS Integers, Sequences

CONSTANTS
  Actors,      \* the ActorGroutines
  Names, NameOf, \* ActorState.Name() of each
  NoActor,     \* the nil entry of the registry
  Callers,     \* goroutines that call SyncRequest and AsyncRequest
  All,         \* the goroutine that calls CloseAll
  Cancels,     \* whether the context of a SyncRequest may be cancelled
  MailMax,     \* capacity of mailCh (mailMaxCount, 100)
  MaxCalls     \* bound: requests a caller makes

ASSUME ActorAssumption ==
  /\ NameOf \in [Actors -> Names]
  /\ NoActor \notin Actors /\ All \notin Actors
  /\ Cancels \in BOOLEAN
  /\ MailMax \in Nat \ {0} /\ MaxCalls \in Nat

Kinds == {"sync", "async"}
Closers == Actors \cup {All}

(* mail: who sent it, as which of its requests, and mail.t.                *)
Mails == [from : Callers, n : 1..MaxCalls, kind : Kinds]

VARIABLES
  actors,   \* manager.go's map: the actor registered under a name
  owner,    \* NewActorGroutine; "late" if wg.Wait returned before wg.Add
  loop,     \* logicLoop; actor.wg counts it from "select" to "done"
  mail,     \* the mail logicLoop is handling
  box,      \* mailBox.mailCh
  closeCh,  \* whether actor.closeCh is closed
  closer,   \* the goroutines that close: "busy" inside Close or CloseAll,
            \* "remove" between wg.Wait and deregisterActor
  as,       \* the actors such a goroutine has still to close
  closing,  \* the actor it is closing
  caller,   \* the goroutines that call: "send" in sendMail, "await" in select
  target,   \* the actor GetActor gave such a goroutine
  call,     \* its current request, as the mail made of it
  result    \* whether resultCh of its current request holds a result

callVars == <<caller, target, call, result>>
closeVars == <<closer, as, closing>>
vars == <<actors, owner, loop, mail, box, closeCh, closeVars, callVars>>

Init ==
  /\ actors = [x \in Names |-> NoActor]
  /\ owner = [a \in Actors |-> "new"]
  /\ loop = [a \in Actors |-> "none"]
  /\ mail = [a \in Actors |-> <<>>]
  /\ box = [a \in Actors |-> <<>>]
  /\ closeCh = [a \in Actors |-> FALSE]
  /\ closer = [p \in Closers |-> "idle"]
  /\ as = [p \in Closers |-> {}]
  /\ closing = [p \in Closers |-> NoActor]
  /\ caller = [c \in Callers |-> "idle"]
  /\ target = [c \in Callers |-> NoActor]
  /\ call = [c \in Callers |-> [from |-> c, n |-> 0, kind |-> "async"]]
  /\ result = [c \in Callers |-> FALSE]

Registered == {actors[x] : x \in Names} \ {NoActor}

-----------------------------------------------------------------------------
(* NewActorGroutine: registerActor, then wg.Add(1) and the go statement.   *)
MutRegisterAgain(a) ==   \* a name already taken is taken over
  /\ owner[a] = "new"
  /\ actors' = [actors EXCEPT ![NameOf[a]] = a]
  /\ owner' = [owner EXCEPT ![a] = "registered"]
  /\ UNCHANGED <<loop, mail, box, closeCh, closeVars, callVars>>

RegisterActor(a) ==
  /\ owner[a] = "new"
  /\ \/ /\ actors[NameOf[a]] = NoActor
        /\ actors' = [actors EXCEPT ![NameOf[a]] = a]
        /\ owner' = [owner EXCEPT ![a] = "registered"]
     \/ /\ actors[NameOf[a]] # NoActor   \* "actor %v is repeated"
        /\ owner' = [owner EXCEPT ![a] = "failed"]
        /\ UNCHANGED actors
  /\ UNCHANGED <<loop, mail, box, closeCh, closeVars, callVars>>

(* Close has closed the actor and has nobody left to wait for.             *)
Waited(a) ==
  closeCh[a] /\ \A p \in Closers : closing[p] = a => closer[p] = "remove"

Start(a) ==
  /\ owner[a] = "registered"
  /\ owner' = [owner EXCEPT ![a] = IF Waited(a) THEN "late" ELSE "running"]
  /\ loop' = [loop EXCEPT ![a] = "select"]
  /\ UNCHANGED <<actors, mail, box, closeCh, closeVars, callVars>>

-----------------------------------------------------------------------------
(* logicLoop: one of the ready branches of the select, the handler, tick.  *)
RecvMail(a) ==
  /\ loop[a] = "select" /\ box[a] # <<>>
  /\ loop' = [loop EXCEPT ![a] = "handle"]
  /\ mail' = [mail EXCEPT ![a] = <<Head(box[a])>>]
  /\ box' = [box EXCEPT ![a] = Tail(@)]
  /\ UNCHANGED <<actors, owner, closeCh, closeVars, callVars>>

(* The caller of a sync mail is still in its select.                       *)
Awaits(c, m) == caller[c] = "await" /\ call[c] = m

MutHandleNoAnswer(a) ==   \* no result when there is no handler
  /\ loop[a] = "handle"
  /\ loop' = [loop EXCEPT ![a] = "tick"]
  /\ mail' = [mail EXCEPT ![a] = <<>>]
  /\ \E answered \in SUBSET {c \in Callers : Awaits(c, Head(mail[a]))} :
       result' = [c \in Callers |-> result[c] \/ c \in answered]
  /\ UNCHANGED <<actors, owner, box, closeCh, closeVars, caller, target, call>>

MutHandleUnbuffered(a) ==   \* resultCh made without a buffer
  /\ loop[a] = "handle"
  /\ Head(mail[a]).kind = "sync" => \E c \in Callers : Awaits(c, Head(mail[a]))
  /\ loop' = [loop EXCEPT ![a] = "tick"]
  /\ mail' = [mail EXCEPT ![a] = <<>>]
  /\ result' = [c \in Callers |-> result[c] \/ Awaits(c, Head(mail[a]))]
  /\ UNCHANGED <<actors, owner, box, closeCh, closeVars, caller, target, call>>

(* The handler returns.  resultCh has room for the result of a sync mail,  *)
(* which nobody reads when its caller has been cancelled.                  *)
Handle(a) ==
  /\ loop[a] = "handle"
  /\ loop' = [loop EXCEPT ![a] = "tick"]
  /\ mail' = [mail EXCEPT ![a] = <<>>]
  /\ result' = [c \in Callers |-> result[c] \/ Awaits(c, Head(mail[a]))]
  /\ UNCHANGED <<actors, owner, box, closeCh, closeVars, caller, target, call>>

Ticker(a) ==
  /\ loop[a] = "select"
  /\ loop' = [loop EXCEPT ![a] = "tick"]
  /\ UNCHANGED <<actors, owner, mail, box, closeCh, closeVars, callVars>>

Tick(a) ==
  /\ loop[a] = "tick"
  /\ loop' = [loop EXCEPT ![a] = "select"]
  /\ UNCHANGED <<actors, owner, mail, box, closeCh, closeVars, callVars>>

BreakLoop(a) ==
  /\ loop[a] = "select" /\ closeCh[a]
  /\ loop' = [loop EXCEPT ![a] = "close"]
  /\ UNCHANGED <<actors, owner, mail, box, closeCh, closeVars, callVars>>

(* state.Close, then wg.Done.                                              *)
CloseState(a) ==
  /\ loop[a] = "close"
  /\ loop' = [loop EXCEPT ![a] = "done"]
  /\ UNCHANGED <<actors, owner, mail, box, closeCh, closeVars, callVars>>

-----------------------------------------------------------------------------
(* SyncRequest and AsyncRequest: GetActor, then sendMail, which blocks     *)
(* while mailCh is full, then for a sync mail a select.                    *)
Request(c, x, kind) ==
  /\ caller[c] = "idle" /\ call[c].n < MaxCalls
  /\ actors[x] # NoActor
  /\ caller' = [caller EXCEPT ![c] = "send"]
  /\ target' = [target EXCEPT ![c] = actors[x]]
  /\ call' = [call EXCEPT ![c] = [from |-> c, n |-> @.n + 1, kind |-> kind]]
  /\ UNCHANGED <<actors, owner, loop, mail, box, closeCh, closeVars, result>>

MutSendMailUnbounded(c) ==   \* no room is waited for
  /\ caller[c] = "send"
  /\ box' = [box EXCEPT ![target[c]] = Append(@, call[c])]
  /\ caller' = [caller EXCEPT ![c] = IF call[c].kind = "sync" THEN "await" ELSE "idle"]
  /\ UNCHANGED <<actors, owner, loop, mail, closeCh, closeVars, target, call, result>>

MutSendMailFirst(c) ==   \* a new mail overtakes those in the box
  /\ caller[c] = "send" /\ Len(box[target[c]]) < MailMax
  /\ box' = [box EXCEPT ![target[c]] = <<call[c]>> \o @]
  /\ caller' = [caller EXCEPT ![c] = IF call[c].kind = "sync" THEN "await" ELSE "idle"]
  /\ UNCHANGED <<actors, owner, loop, mail, closeCh, closeVars, target, call, result>>

SendMail(c) ==
  /\ caller[c] = "send" /\ Len(box[target[c]]) < MailMax
  /\ box' = [box EXCEPT ![target[c]] = Append(@, call[c])]
  /\ caller' = [caller EXCEPT ![c] = IF call[c].kind = "sync" THEN "await" ELSE "idle"]
  /\ UNCHANGED <<actors, owner, loop, mail, closeCh, closeVars, target, call, result>>

Return(c) ==
  /\ caller[c] = "await" /\ result[c]
  /\ caller' = [caller EXCEPT ![c] = "idle"]
  /\ result' = [result EXCEPT ![c] = FALSE]
  /\ UNCHANGED <<actors, owner, loop, mail, box, closeCh, closeVars, target, call>>

(* ctx.Done(): resultCh is abandoned, with what it may hold.               *)
Cancel(c) ==
  /\ Cancels
  /\ caller[c] = "await"
  /\ caller' = [caller EXCEPT ![c] = "idle"]
  /\ result' = [result EXCEPT ![c] = FALSE]
  /\ UNCHANGED <<actors, owner, loop, mail, box, closeCh, closeVars, target, call>>

-----------------------------------------------------------------------------
(* GetActor(name) and Close by the actor's creator.  GetActor finds it.    *)
CloseCall(p) ==
  /\ owner[p] = "running" /\ closer[p] = "idle" /\ closer[All] = "idle"
  /\ closer' = [closer EXCEPT ![p] = "busy"]
  /\ as' = [as EXCEPT ![p] = {actors[NameOf[p]]} \ {NoActor}]
  /\ UNCHANGED <<actors, owner, loop, mail, box, closeCh, closing, callVars>>

(* CloseAll takes a snapshot of the registry.                              *)
CloseAll ==
  /\ \A p \in Closers : closer[p] = "idle"
  /\ closer' = [closer EXCEPT ![All] = "busy"]
  /\ as' = [as EXCEPT ![All] = Registered]
  /\ UNCHANGED <<actors, owner, loop, mail, box, closeCh, closing, callVars>>

(* ActorGroutine.Close: closing a closed channel panics.                   *)
Close(p, a) ==
  /\ closer[p] = "busy" /\ closing[p] = NoActor /\ a \in as[p]
  /\ as' = [as EXCEPT ![p] = @ \ {a}]
  /\ IF closeCh[a]
     THEN closer' = [closer EXCEPT ![p] = "panic"] /\ UNCHANGED <<closeCh, closing>>
     ELSE /\ closeCh' = [closeCh EXCEPT ![a] = TRUE]
          /\ closing' = [closing EXCEPT ![p] = a]
          /\ UNCHANGED closer
  /\ UNCHANGED <<actors, owner, loop, mail, box, callVars>>

MutWaitNot(p, a) ==   \* wg.Wait left out
  /\ closer[p] = "busy" /\ closing[p] = a
  /\ closer' = [closer EXCEPT ![p] = "remove"]
  /\ UNCHANGED <<actors, owner, loop, mail, box, closeCh, as, closing, callVars>>

(* wg.Wait returns, also when the goroutine has not been counted yet.      *)
Wait(p, a) ==
  /\ closer[p] = "busy" /\ closing[p] = a
  /\ loop[a] \in {"none", "done"}
  /\ closer' = [closer EXCEPT ![p] = "remove"]
  /\ UNCHANGED <<actors, owner, loop, mail, box, closeCh, as, closing, callVars>>

MutDeregisterNot(p, a) ==   \* deregisterActor left out
  /\ closer[p] = "remove" /\ closing[p] = a
  /\ closer' = [closer EXCEPT ![p] = "busy"]
  /\ closing' = [closing EXCEPT ![p] = NoActor]
  /\ UNCHANGED <<actors, owner, loop, mail, box, closeCh, as, callVars>>

Deregister(p, a) ==
  /\ closer[p] = "remove" /\ closing[p] = a
  /\ actors' = [actors EXCEPT ![NameOf[a]] = NoActor]
  /\ closer' = [closer EXCEPT ![p] = "busy"]
  /\ closing' = [closing EXCEPT ![p] = NoActor]
  /\ UNCHANGED <<owner, loop, mail, box, closeCh, as, callVars>>

CloseReturn(p) ==
  /\ closer[p] = "busy" /\ closing[p] = NoActor /\ as[p] = {}
  /\ closer' = [closer EXCEPT ![p] = "done"]
  /\ UNCHANGED <<actors, owner, loop, mail, box, closeCh, as, closing, callVars>>

-----------------------------------------------------------------------------
LoopNext(a) ==
  \/ RecvMail(a) \/ Handle(a) \/ Ticker(a) \/ Tick(a) \/ BreakLoop(a) \/ CloseState(a)
CallerNext(c) ==
  \/ \E x \in Names, kind \in Kinds : Request(c, x, kind)
  \/ SendMail(c) \/ Return(c) \/ Cancel(c)
CloserNext(p) ==
  \/ \E a \in Actors : Close(p, a) \/ Wait(p, a) \/ Deregister(p, a)
  \/ CloseReturn(p)

Next ==
  \/ \E a \in Actors : RegisterActor(a) \/ Start(a) \/ LoopNext(a)
  \/ \E c \in Callers : CallerNext(c)
  \/ \E p \in Closers : CloserNext(p)
  \/ \E a \in Actors : CloseCall(a)
  \/ CloseAll

Spec == Init /\ [][Next]_vars

(* A goroutine that can run does run.  Go's select picks at random among   *)
(* the ready branches, so none is passed over for ever; goroutines that    *)
(* wait for room in a channel are served in order.                         *)
Fairness ==
  /\ \A a \in Actors :
       /\ WF_vars(Start(a)) /\ WF_vars(LoopNext(a))
       /\ SF_vars(RecvMail(a)) /\ SF_vars(BreakLoop(a))
  /\ \A c \in Callers : SF_vars(SendMail(c)) /\ WF_vars(Return(c))
  /\ \A p \in Closers : WF_vars(CloserNext(p))

FairSpec == Spec /\ Fairness

-----------------------------------------------------------------------------
TypeOK ==
  /\ actors \in [Names -> Actors \cup {NoActor}]
  /\ owner \in [Actors -> {"new", "registered", "running", "late", "failed"}]
  /\ loop \in [Actors -> {"none", "select", "handle", "tick", "close", "done"}]
  /\ mail \in [Actors -> Seq(Mails)]
  /\ box \in [Actors -> Seq(Mails)] /\ \A a \in Actors : Len(box[a]) <= MailMax
  /\ closeCh \in [Actors -> BOOLEAN]
  /\ closer \in [Closers -> {"idle", "busy", "remove", "done", "panic"}]
  /\ as \in [Closers -> SUBSET Actors]
  /\ closing \in [Closers -> Actors \cup {NoActor}]
  /\ caller \in [Callers -> {"idle", "send", "await"}]
  /\ target \in [Callers -> Actors \cup {NoActor}]
  /\ call \in [Callers -> [from : Callers, n : 0..MaxCalls, kind : Kinds]]
  /\ result \in [Callers -> BOOLEAN]

Serving(a) == loop[a] \notin {"none", "done"}

(* Of two actors of one name that are served at the same time one started  *)
(* late: Close frees the name only when the old goroutine has run          *)
(* state.Close and ended, unless wg.Wait came before wg.Add.               *)
OneLoopPerName ==
  \A a, b \in Actors :
    NameOf[a] = NameOf[b] /\ Serving(a) /\ Serving(b)
    => a = b \/ "late" \in {owner[a], owner[b]}

(* An actor that has been closed, and whose Close is over, is no longer    *)
(* found by GetActor and has no goroutine, or one that started late.       *)
ClosedIsGone ==
  \A a \in Actors :
    closeCh[a] /\ (\A p \in Closers : closing[p] # a)
    => a \notin Registered /\ (Serving(a) => owner[a] = "late")

(* No Close closes a channel that is closed already: a creator's GetActor  *)
(* gives it its own actor, CloseAll's snapshot holds each actor once.      *)
NoPanic == \A p \in Closers : closer[p] # "panic"

(* What an actor has to handle: the mail in hand, then its mailbox.        *)
Unhandled(a) == mail[a] \o box[a]

(* The package keeps the promise of Requests: an accepted mail is asked, a *)
(* request that waits for room in the box is not yet made.                 *)
Served == {a \in Actors : loop[a] # "none"}
ServingNow == {a \in Actors : Serving(a)}
Dropped == {a \in Actors : owner[a] = "late" \/ (owner[a] = "registered" /\ Waited(a))}
Queue == [a \in Actors |-> Unhandled(a)]
Asked == [c \in Callers |-> IF caller[c] = "send" THEN call[c].n - 1 ELSE call[c].n]
Waiting == [c \in Callers |-> IF caller[c] = "await" THEN {call[c]} ELSE {}]

Promise == INSTANCE Requests WITH
  served <- Served, serving <- ServingNow, dropped <- Dropped, queue <- Queue,
  asked <- Asked, waiting <- Waiting, answered <- result
RequestsSpec == Promise!Spec

(* An actor gets the mails of one caller in the order they were sent, and  *)
(* each of them once.                                                      *)
InOrder ==
  \A a \in Actors :
    \A i, j \in 1..Len(Unhandled(a)) :
      i < j /\ Unhandled(a)[i].from = Unhandled(a)[j].from
      => Unhandled(a)[i].n < Unhandled(a)[j].n

(* A SyncRequest that waits has its mail still to be handled, or its       *)
(* result in resultCh: it waits in vain only for a goroutine that ended.   *)
Holds(a, m) == \E i \in 1..Len(Unhandled(a)) : Unhandled(a)[i] = m

CallAccounted ==
  \A c \in Callers : caller[c] = "await" => (result[c] <=> ~Holds(target[c], call[c]))

(* Every Close and CloseAll returns, with mails left in the box, with      *)
(* callers blocked on it and with cancelled requests.                      *)
CloseReturns == \A p \in Closers : []<>(closer[p] \notin {"busy", "remove"})

(* Every request returns unless its actor is closed meanwhile.             *)
CallsReturn ==
  \A c \in Callers : []<>(caller[c] = "idle" \/ closeCh[target[c]])

(* handler.go: an async call does not block.                               *)
AsyncReturns ==
  \A c \in Callers : []<>~(caller[c] = "send" /\ call[c].kind = "async")
=============================================================================
