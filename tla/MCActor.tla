------------------------------ MODULE MCActor -------------------------------
(* Actor on a small instance: all actors bear one name, one after another. *)
EXTENDS Actor

MCNameOf == [a \in Actors |-> CHOOSE x \in Names : TRUE]
=============================================================================
