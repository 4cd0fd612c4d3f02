------------------------------ MODULE MCPreload ------------------------------
(***************************************************************************)
(* Preload on one worker, with one pull slot to share with the rest of the *)
(* fleet; two schemas launch one challenge.                                *)
(***************************************************************************)
EXTENDS Preload

CONSTANT w1

MCWorker == {w1}
MCSchema == {"s", "u"}
MCChallenge == {"c"}

=============================================================================
