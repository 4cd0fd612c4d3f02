------------------------------ MODULE Custody -------------------------------
(***************************************************************************)
(* What routing promises of several orchestrators: a schema is taken by an *)
(* orchestrator only when no other holds it, so it changes hands through   *)
(* being held nowhere.  The one exception is a schema at large: a request  *)
(* for it has lost its sender and been overtaken by another command.       *)
(***************************************************************************)
CONSTANTS Schema, Dest

VARIABLES
    held,       \* the orchestrators holding each schema
    loose       \* schemas that are or have been at large

Init ==
    /\ \E d \in Dest, S \in SUBSET Schema : held = [s \in Schema |-> IF s \in S THEN {d} ELSE {}]
    /\ loose = {}

\* One hand-over brings an orchestrator several schemas.
Take(S, d) ==
    /\ \A s \in S : held[s] \subseteq {d} \/ s \in loose
    /\ held' = [s \in Schema |-> held[s] \cup (IF s \in S THEN {d} ELSE {})]
    /\ UNCHANGED loose

Release(s, d) ==
    /\ held' = [held EXCEPT ![s] = @ \ {d}]
    /\ UNCHANGED loose

\* Senders are lost and overtaken.
Wander ==
    /\ loose \subseteq loose' /\ loose' \subseteq Schema
    /\ UNCHANGED held

Next ==
    \/ \E S \in SUBSET Schema, d \in Dest : Take(S, d)
    \/ \E s \in Schema, d \in Dest : Release(s, d)
    \/ Wander

Spec == Init /\ [][Next]_<<held, loose>>
=============================================================================
