--------------------------- MODULE MCWorkerConns ---------------------------
EXTENDS WorkerConns, TLC
Symmetry == Permutations(Conn) \cup Permutations(Caller)
=============================================================================
