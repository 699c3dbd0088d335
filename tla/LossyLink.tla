------------------------------ MODULE LossyLink ------------------------------
(***************************************************************************)
(* What a link that may lose and delay packets promises: packets are       *)
(* numbered by direction as they are offered, each is sent on at most once,*)
(* and a direction without delay keeps them in order.                      *)
(***************************************************************************)
EXTENDS Integers, Sequences

CONSTANTS
  Dirs,    \* directions
  Ordered  \* the directions that keep the order

VARIABLES
  offered,  \* number of packets offered
  sent      \* the packets sent on, in that order

Init == offered = [d \in Dirs |-> 0] /\ sent = [d \in Dirs |-> <<>>]

Offer(d) ==
  /\ offered' = [offered EXCEPT ![d] = @ + 1]
  /\ UNCHANGED sent

(* A packet that has not been sent may be; in an ordered direction only    *)
(* behind earlier ones.                                                    *)
Forward(d) ==
  \E p \in 1..offered[d] :
    /\ \A i \in 1..Len(sent[d]) : sent[d][i] # p
    /\ d \in Ordered => \A i \in 1..Len(sent[d]) : sent[d][i] < p
    /\ sent' = [sent EXCEPT ![d] = Append(@, p)]
    /\ UNCHANGED offered

Next == \E d \in Dirs : Offer(d) \/ Forward(d)

Spec == Init /\ [][Next]_<<offered, sent>>
=============================================================================
