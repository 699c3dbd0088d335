------------------------------ MODULE Requests ------------------------------
(***************************************************************************)
(* What the package xactor promises those who use actors.  Each actor is   *)
(* served at most once, and never while another of its name is, but for    *)
(* one that was dropped, that is closed before it was served.  A caller    *)
(* makes one request after the other, each to an actor of its choice; an   *)
(* actor handles what it was asked in that order, one request at a time    *)
(* and each once, only while it is served.  A caller that waits for an     *)
(* answer has it when its own request is handled, and leaves with it, or   *)
(* without it where requests can be cancelled.                             *)
(***************************************************************************)
EXTENDS Naturals, Sequences

CONSTANTS
  Actors, NameOf,  \* the actors and their names
  Callers,
  Cancels          \* whether a caller may leave without its answer

VARIABLES
  served, serving,  \* the actors that have ever been served, and that are
  dropped,          \* the actors that were closed before they were served
  queue,            \* by actor, what it was asked and has not handled
  asked,            \* by caller, how many requests it has made
  waiting,          \* by caller, the request it waits for, if any
  answered          \* by caller, whether that one was handled

Init ==
  /\ served = {} /\ serving = {} /\ dropped = {}
  /\ queue = [a \in Actors |-> <<>>]
  /\ asked = [c \in Callers |-> 0]
  /\ waiting = [c \in Callers |-> {}]
  /\ answered = [c \in Callers |-> FALSE]

Drop(a) ==
  /\ a \notin served
  /\ dropped' = dropped \cup {a}
  /\ UNCHANGED <<served, serving, queue, asked, waiting, answered>>

Serve(a) ==
  /\ a \notin served
  /\ a \in dropped \/ \A b \in serving \ dropped : NameOf[b] # NameOf[a]
  /\ served' = served \cup {a} /\ serving' = serving \cup {a}
  /\ UNCHANGED <<dropped, queue, asked, waiting, answered>>

Retire(a) ==
  /\ a \in serving
  /\ serving' = serving \ {a}
  /\ UNCHANGED <<served, dropped, queue, asked, waiting, answered>>

Ask(c, a, kind) ==
  LET request == [from |-> c, n |-> asked[c] + 1, kind |-> kind] IN
  /\ waiting[c] = {}
  /\ queue' = [queue EXCEPT ![a] = Append(@, request)]
  /\ asked' = [asked EXCEPT ![c] = @ + 1]
  /\ waiting' = [waiting EXCEPT ![c] = IF kind = "sync" THEN {request} ELSE {}]
  /\ UNCHANGED <<served, serving, dropped, answered>>

Handle(a) ==
  /\ a \in serving /\ queue[a] # <<>>
  /\ queue' = [queue EXCEPT ![a] = Tail(@)]
  /\ answered' = [c \in Callers |-> answered[c] \/ waiting[c] = {Head(queue[a])}]
  /\ UNCHANGED <<served, serving, dropped, asked, waiting>>

Leave(c) ==
  /\ waiting[c] # {} /\ (answered[c] \/ Cancels)
  /\ waiting' = [waiting EXCEPT ![c] = {}]
  /\ answered' = [answered EXCEPT ![c] = FALSE]
  /\ UNCHANGED <<served, serving, dropped, queue, asked>>

Next ==
  \/ \E a \in Actors : Drop(a) \/ Serve(a) \/ Retire(a) \/ Handle(a)
  \/ \E c \in Callers : Leave(c) \/ \E a \in Actors, kind \in {"sync", "async"} : Ask(c, a, kind)

Spec == Init /\ [][Next]_<<served, serving, dropped, queue, asked, waiting, answered>>
=============================================================================
