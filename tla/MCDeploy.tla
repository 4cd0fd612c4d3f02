------------------------------ MODULE MCDeploy ------------------------------
(* Two schemas of the same content, two destinations.                      *)
EXTENDS Deploy

\* Up to the names of the schemas and of the destinations: the first schema is for A,
\* or is the one deployed there before files named destinations.
MCInit == Init /\ dest["s1"] \in {"A", "none"} /\ dest["s2"] # "none" /\ ~servesSchema("B", "s1")

MCSpec == MCInit /\ [][Next]_vars /\ Fairness
=============================================================================
