---------------------------- MODULE MCInstances ----------------------------
EXTENDS Instances, TLC
Symmetry == Permutations(Id) \cup Permutations(Stopper) \cup Permutations(Port)
=============================================================================
