----------------------------- MODULE MCRebuild -----------------------------
(***************************************************************************)
(* Rebuild with three instances on two workers of two ports each.          *)
(***************************************************************************)
EXTENDS Rebuild, TLC

CONSTANTS w1, w2, p1, p2

MCCounts == {DYNAMIC_INSTANCES, 0, 1, 2}
Symmetry == {f @@ g : f \in Permutations({w1, w2}), g \in Permutations({p1, p2})}
=============================================================================
