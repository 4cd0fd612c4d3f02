------------------------------ MODULE MCPoller ------------------------------
EXTENDS Poller, TLC
Symmetry == Permutations(Caller)
=============================================================================
