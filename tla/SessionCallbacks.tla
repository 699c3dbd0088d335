-------------------------- MODULE SessionCallbacks --------------------------
(***************************************************************************)
(* What a server of sessions promises the handler behind it (registry.go,  *)
(* say): the sessions of an address come one after the other, each once,   *)
(* and each runs onConnect, then onMsg for one message after the other,    *)
(* then onDisconnect, never two of them at a time.                         *)
(***************************************************************************)
CONSTANTS
  Addrs,    \* remote addresses
  Sessions  \* sessions

VARIABLES
  begun,   \* the sessions that have begun
  running  \* by address, the sessions that run with what each is in

Init == begun = {} /\ running = [a \in Addrs |-> {}]

Begin(a, s) ==
  /\ s \notin begun /\ running[a] = {}
  /\ begun' = begun \cup {s}
  /\ running' = [running EXCEPT ![a] = {<<s, "connect">>}]

(* "select" is between two callbacks.  A callback's error ends the session.*)
Follows ==
  {<<"connect", "select">>, <<"select", "onMsg">>, <<"onMsg", "select">>,
   <<"select", "disconnect">>, <<"onMsg", "disconnect">>}

Continue(a, s) ==
  \E f \in Follows :
    /\ running[a] = {<<s, f[1]>>}
    /\ running' = [running EXCEPT ![a] = {<<s, f[2]>>}]
    /\ UNCHANGED begun

End(a, s) ==
  /\ running[a] = {<<s, "disconnect">>}
  /\ running' = [running EXCEPT ![a] = {}]
  /\ UNCHANGED begun

Next == \E a \in Addrs, s \in Sessions : Begin(a, s) \/ Continue(a, s) \/ End(a, s)

Spec == Init /\ [][Next]_<<begun, running>>
=============================================================================
