---------------------------- MODULE MessageChannel ----------------------------
(***************************************************************************)
(* What one direction of a connection promises: the messages sent are      *)
(* handled whole, in order and once each, until the connection breaks, and *)
(* none waits for ever while it does not.                                  *)
(***************************************************************************)
EXTENDS Integers, Sequences

CONSTANT Values   \* the messages

VARIABLES
  sent,     \* the messages sent
  handled,  \* those handled
  open      \* whether the receiver still handles messages

vars == <<sent, handled, open>>

Init == sent = <<>> /\ handled = <<>> /\ open = TRUE

Send ==
  /\ \E v \in Values : sent' = Append(sent, v)
  /\ UNCHANGED <<handled, open>>

(* A handler that fails breaks the connection with the message it handled. *)
Handle ==
  /\ open /\ Len(handled) < Len(sent)
  /\ handled' = Append(handled, sent[Len(handled) + 1])
  /\ open' \in BOOLEAN
  /\ UNCHANGED sent

Break == open /\ open' = FALSE /\ UNCHANGED <<sent, handled>>

Next == Send \/ Handle \/ Break

Spec == Init /\ [][Next]_vars /\ WF_vars(Handle)
=============================================================================
