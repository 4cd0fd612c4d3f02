----------------------------- MODULE LaunchRing -----------------------------
(***************************************************************************)
(* The ring of recent launches a daemon keeps (launchRing in               *)
(* cork/launchmetrics.go).                                                 *)
(***************************************************************************)
EXTENDS Naturals

CONSTANT launchRingSize

ASSUME RingAssumption == launchRingSize \in Nat \ {0}

\* The ring.  Only launches that succeeded have a duration in it; all are counted.
EmptyRing == [buf |-> [i \in 0..launchRingSize - 1 |-> 0], next |-> 0, filled |-> 0,
              total |-> 0, failed |-> 0]

\* Mutant: the next place is not taken modulo the size once the ring is full.
addKeepsLast(r, d, ok) ==
    IF ~ok THEN [r EXCEPT !.total = @ + 1, !.failed = @ + 1]
    ELSE [r EXCEPT !.total = @ + 1, !.buf[r.next] = d,
                   !.next = IF @ + 1 < launchRingSize THEN @ + 1 ELSE @,
                   !.filled = IF @ < launchRingSize THEN @ + 1 ELSE @]

add(r, d, ok) ==
    IF ~ok THEN [r EXCEPT !.total = @ + 1, !.failed = @ + 1]
    ELSE [r EXCEPT !.total = @ + 1, !.buf[r.next] = d,
                   !.next = (@ + 1) % launchRingSize,
                   !.filled = IF @ < launchRingSize THEN @ + 1 ELSE @]
=============================================================================
