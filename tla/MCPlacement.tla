---------------------------- MODULE MCPlacement ----------------------------
EXTENDS Placement, TLC
Symmetry == Permutations(Worker)
=============================================================================
