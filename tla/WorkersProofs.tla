--------------------------- MODULE WorkersProofs ---------------------------
(***************************************************************************)
(* The fleet.  First the placement: a selection fails only when nobody can *)
(* be picked, starves nobody, and goes by load verdicts that are fresh,    *)
(* for any fleet.  Then the health of one worker: a stay out of placement  *)
(* that ends in a recovery has been counted, and a recovery is earned, for *)
(* any number of callers, any thresholds and any backoff.                  *)
(***************************************************************************)
EXTENDS Placement, Poller, FiniteSetTheorems, TLAPS

\* Whatever the cursor, its round meets every place of an order of n.
LEMMA Round ==
  ASSUME NEW n \in Nat \ {0}, NEW c \in Nat, NEW k \in 0..n - 1
  PROVE  \E i \in 0..n - 1 : (c + i) % n = k
  <1> DEFINE r == c % n
             q == c \div n
  <1>1. r \in 0..n - 1 /\ q \in Nat /\ c = q * n + r
    OBVIOUS
  <1>2. ASSUME NEW p \in Nat PROVE (p * n + k) % n = k
    OBVIOUS
  <1>3. CASE r <= k
    <2>1. k - r \in 0..n - 1 /\ c + (k - r) = q * n + k
      BY <1>1, <1>3
    <2> QED
      BY Zenon, <1>1, <1>2, <2>1
  <1>4. CASE r > k
    <2>1. (q + 1) * n = q * n + n /\ q * n \in Nat /\ q + 1 \in Nat
      BY <1>1
    <2>2. n + k - r \in 0..n - 1
      BY <1>1, <1>4
    <2>3. c + (n + k - r) = (q + 1) * n + k
      <3> HIDE DEF r, q
      <3> QED
        BY <1>1, <2>1
    <2>4. ((q + 1) * n + k) % n = k
      BY Zenon, <1>2, <2>1
    <2> QED
      BY Zenon, <2>2, <2>3, <2>4
  <1> QED
    BY <1>1, <1>3, <1>4

\* Two sequences, one after the other.
LEMMA Joined ==
  ASSUME NEW S, NEW a \in Seq(S), NEW b \in Seq(S)
  PROVE  /\ a \o b \in Seq(S) /\ Len(a \o b) = Len(a) + Len(b)
         /\ \A k \in 1..Len(a) + Len(b) :
               (a \o b)[k] = IF k <= Len(a) THEN a[k] ELSE b[k - Len(a)]
  OBVIOUS

\* A part of a sequence.
LEMMA Part ==
  ASSUME NEW S, NEW o \in Seq(S), NEW i \in 1..Len(o) + 1, NEW j \in i - 1..Len(o)
  PROVE  /\ SubSeq(o, i, j) \in Seq(S) /\ Len(SubSeq(o, i, j)) = j - i + 1
         /\ \A k \in 1..j - i + 1 : SubSeq(o, i, j)[k] = o[k + i - 1]
  OBVIOUS

\* The order without its i-th worker: those after it move up by one.
LEMMA Shortened ==
  ASSUME NEW S, NEW o \in Seq(S), NEW i \in 1..Len(o)
  PROVE  /\ Without(o, i) \in Seq(S) /\ Len(Without(o, i)) = Len(o) - 1
         /\ \A k \in 1..Len(o) - 1 : Without(o, i)[k] = IF k < i THEN o[k] ELSE o[k + 1]
  <1> DEFINE a == SubSeq(o, 1, i - 1)
             b == SubSeq(o, i + 1, Len(o))
  <1>1. a \in Seq(S) /\ Len(a) = i - 1 /\ \A k \in 1..i - 1 : a[k] = o[k]
    BY Part
  <1>2. b \in Seq(S) /\ Len(b) = Len(o) - i /\ \A k \in 1..Len(o) - i : b[k] = o[k + i]
    BY Part
  <1>3. Without(o, i) = a \o b
    BY DEF Without
  <1> HIDE DEF a, b
  <1>4. /\ a \o b \in Seq(S) /\ Len(a \o b) = Len(a) + Len(b)
        /\ \A k \in 1..Len(a) + Len(b) :
              (a \o b)[k] = IF k <= Len(a) THEN a[k] ELSE b[k - Len(a)]
    BY Zenon, <1>1, <1>2, Joined
  <1>5. Len(a) + Len(b) = Len(o) - 1 /\ Len(o) \in Nat
    BY <1>1, <1>2
  <1>6. ASSUME NEW k \in 1..Len(o) - 1 PROVE (a \o b)[k] = IF k < i THEN o[k] ELSE o[k + 1]
    <2>1. (a \o b)[k] = IF k <= Len(a) THEN a[k] ELSE b[k - Len(a)]
      BY Zenon, <1>4, <1>5
    <2>2. CASE k < i
      BY <1>1, <2>1, <2>2
    <2>3. CASE ~(k < i)
      <3>1. k - Len(a) \in 1..Len(o) - i /\ (k - Len(a)) + i = k + 1 /\ ~(k <= Len(a))
        BY <1>1, <1>5, <2>3
      <3> QED
        BY Zenon, <1>2, <2>1, <2>3, <3>1
    <2> QED
      BY Zenon, <2>2, <2>3
  <1> QED
    BY Zenon, <1>3, <1>4, <1>5, <1>6

-----------------------------------------------------------------------------
Level == 0..loadMissesToUnknown

PlacementType ==
    /\ workerOrder \in Seq(Worker) /\ rrCursor \in Nat
    /\ stage \in [Worker -> {"joining", "ok", "ejected", "down"}]
    /\ load \in [Worker -> {"unknown", "ok", "overloaded"}]
    /\ loadMisses \in [Worker -> Level] /\ unheard \in [Worker -> Level]
    /\ passed \in [Worker -> Nat] /\ removals \in Nat

\* While a verdict is held the misses are the probes since the agent answered.
Held ==
    \A w \in Worker :
        /\ load[w] = "unknown" <=> unheard[w] = loadMissesToUnknown
        /\ load[w] # "unknown" => loadMisses[w] = unheard[w]

PlacementInv == PlacementType /\ Held /\ FailsOnlyExhausted

\* Nothing is placed at the start.
LEMMA PlacementInitInv == PlacementInit => PlacementInv
  <1> SUFFICES ASSUME PlacementInit PROVE PlacementInv
    OBVIOUS
  <1> USE PlacementAssumption DEF PlacementInit
  <1>1. PlacementType
    BY DEF PlacementType, Level
  <1>2. Held
    BY DEF Held
  <1>3. FailsOnlyExhausted
    BY DEF FailsOnlyExhausted, Error
  <1> QED
    BY <1>1, <1>2, <1>3 DEF PlacementInv

\* Nobody was refused by a step that is not a selection.
LEMMA NotRefused ==
  ASSUME picked' = NoWorker PROVE FailsOnlyExhausted'
  BY PlacementAssumption DEF FailsOnlyExhausted, Error

\* A fresh conn has no verdict, and an agent that has yet to answer.
LEMMA FreshConn ==
  ASSUME PlacementType, Held, NEW w \in Worker, freshConn(w),
         workerOrder' \in Seq(Worker), rrCursor' = rrCursor, removals' \in Nat
  PROVE  PlacementType' /\ Held'
  <1> USE PlacementAssumption DEF freshConn
  <1>1. PlacementType'
    BY DEF PlacementType, Level
  <1>2. Held'
    BY DEF PlacementType, Level, Held
  <1> QED
    BY <1>1, <1>2

\* A turn is a place of the order.
LEMMA TurnIn ==
  ASSUME PlacementType, workerOrder # <<>>, NEW i \in Nat
  PROVE  Turn(i) \in 1..Len(workerOrder)
  <1> DEFINE n == Len(workerOrder)
  <1>1. n \in Nat \ {0} /\ rrCursor + i \in Nat
    BY DEF PlacementType
  <1>2. (rrCursor + i) % n \in 0..n - 1
    <2> HIDE DEF n
    <2> QED
      BY <1>1
  <1> QED
    BY <1>1, <1>2 DEF Turn

\* A fleet with a worker in it has a size of at least one.
LEMMA Fleet ==
  Cardinality(Worker) \in Nat /\ \A w \in Worker : Cardinality(Worker) >= 1
  BY PlacementAssumption, FS_CardinalityType, FS_EmptySet

\* Being passed over adds one at most.
LEMMA PassedType ==
  ASSUME PlacementType, NEW w, PassOver(w)
  PROVE  /\ passed' \in [Worker -> Nat]
         /\ \A v \in Worker : passed'[v] = 0 \/ (v # w /\ placeable(v) /\ passed'[v] <= passed[v] + 1)
  <1> SUFFICES ASSUME NEW v \in Worker
               PROVE  /\ passed'[v] \in Nat
                      /\ passed'[v] = 0 \/ (v # w /\ placeable(v) /\ passed'[v] <= passed[v] + 1)
    BY DEF PassOver
  <1>1. MaxPassed + 1 \in Nat /\ passed[v] \in Nat
    <2>1. Cardinality(Worker) - 1 \in Nat /\ 1 + MaxRemovals \in Nat
      BY Fleet, PlacementAssumption
    <2>2. \A a, b \in Nat : a * b + 1 \in Nat
      OBVIOUS
    <2>3. MaxPassed + 1 \in Nat
      BY Zenon, <2>1, <2>2 DEF MaxPassed
    <2> QED
      BY <2>3 DEF PlacementType
  <1>2. UpTo(passed[v], MaxPassed + 1) \in Nat /\ UpTo(passed[v], MaxPassed + 1) <= passed[v] + 1
    BY <1>1 DEF UpTo
  <1> QED
    BY <1>2 DEF PassOver

\* A selection keeps the invariant.
LEMMA SelectInv ==
  ASSUME PlacementInv, selectWorker PROVE PlacementInv'
  <1> DEFINE n == Len(workerOrder)
             free == {i \in Turns : placeable(workerOrder[Turn(i)])}
  <1>1. n \in Nat \ {0} /\ DOMAIN workerOrder = 1..n
    BY DEF selectWorker, PlacementInv, PlacementType
  <1>2. CASE free = {}
    <2>1. ASSUME NEW w \in Order PROVE ~placeable(w)
      <3>1. PICK k \in 1..n : workerOrder[k] = w
        BY <1>1 DEF Order
      <3>2. PICK i \in 0..n - 1 : (rrCursor + i) % n = k - 1
        <4>1. rrCursor \in Nat /\ k - 1 \in 0..n - 1
          BY DEF PlacementInv, PlacementType
        <4> HIDE DEF n
        <4> QED
          BY Zenon, <1>1, <4>1, Round
      <3>3. Turn(i) = k /\ i \in Turns
        BY <1>1, <3>2 DEF Turn, Turns
      <3> QED
        BY <1>2, <3>1, <3>3
    <2>2. picked' = Exhausted /\ UNCHANGED <<rrCursor, workerOrder, stage, load, loadMisses, unheard, passed, removals>>
      BY <1>2 DEF selectWorker
    <2>3. picked' = "down" => \A w \in Order : stage[w] = "down"
      <3>1. ASSUME NEW w \in Order PROVE stage[w] \in {"joining", "ok", "ejected", "down"}
        <4>1. w \in Worker
          BY <1>1 DEF Order, PlacementInv, PlacementType
        <4> QED
          BY Zenon, <4>1 DEF PlacementInv, PlacementType
      <3> QED
        BY Zenon, <2>2, <3>1 DEF Exhausted, unresponsive
    <2>4. FailsOnlyExhausted'
      BY <2>1, <2>2, <2>3 DEF FailsOnlyExhausted, Order, placeable
    <2> QED
      BY <2>2, <2>4 DEF PlacementInv, PlacementType, Held
  <1>3. CASE free # {}
    <2>1. PICK i \in free :
             /\ picked' = workerOrder[Turn(i)] /\ rrCursor' = Turn(i) % n
             /\ PassOver(picked')
      BY <1>3 DEF selectWorker
    <2>2. UNCHANGED <<workerOrder, stage, load, loadMisses, removals, unheard>>
      BY DEF selectWorker
    <2>3. Turn(i) \in 1..n
      BY <1>1, TurnIn DEF PlacementInv, Turns
    <2>4. picked' \in Worker /\ rrCursor' \in Nat
      BY <1>1, <2>1, <2>2, <2>3 DEF PlacementInv, PlacementType
    <2>5. passed' \in [Worker -> Nat]
      BY <2>1, PassedType DEF PlacementInv
    <2>6. FailsOnlyExhausted'
      BY <2>4, PlacementAssumption DEF FailsOnlyExhausted, Error
    <2> QED
      BY <2>2, <2>4, <2>5, <2>6 DEF PlacementInv, PlacementType, Held
  <1> QED
    BY <1>2, <1>3

\* A telemetry report keeps the invariant.
LEMMA TelemetryInv ==
  ASSUME PlacementInv, NEW w \in Worker, pollTelemetry(w) PROVE PlacementInv'
  <1> DEFINE L == loadMissesToUnknown
  <1> USE PlacementAssumption
  <1>1. /\ loadMisses[w] \in 0..L /\ unheard[w] \in 0..L
        /\ UNCHANGED <<workerOrder, rrCursor, stage, removals>> /\ picked' = NoWorker
        /\ passed' \in [Worker -> Nat]
    BY DEF pollTelemetry, PlacementInv, PlacementType, Level
  <1>3. CASE /\ load' = IF loadMisses[w] + 1 >= L THEN [load EXCEPT ![w] = "unknown"] ELSE load
             /\ loadMisses' = [loadMisses EXCEPT ![w] = UpTo(@, L)]
             /\ unheard' = [unheard EXCEPT ![w] = UpTo(@, L)]
    <2>1. /\ loadMisses' = [loadMisses EXCEPT ![w] = IF @ < L THEN @ + 1 ELSE L]
          /\ unheard' = [unheard EXCEPT ![w] = IF @ < L THEN @ + 1 ELSE L]
      BY <1>1, <1>3 DEF UpTo
    <2>2. PlacementType'
      BY <1>1, <1>3, <2>1 DEF PlacementInv, PlacementType, Level
    <2>3. Held'
      BY <1>1, <1>3, <2>1 DEF PlacementInv, PlacementType, Level, Held
    <2> QED
      BY <1>1, <2>2, <2>3, NotRefused DEF PlacementInv
  <1>4. CASE /\ \E verdict \in {"ok", "overloaded"} : load' = [load EXCEPT ![w] = verdict]
             /\ loadMisses' = [loadMisses EXCEPT ![w] = 0]
             /\ unheard' = [unheard EXCEPT ![w] = 0]
    <2>1. PlacementType'
      BY <1>1, <1>4 DEF PlacementInv, PlacementType, Level
    <2>2. Held'
      BY <1>1, <1>4 DEF PlacementInv, PlacementType, Level, Held
    <2> QED
      BY <1>1, <2>1, <2>2, NotRefused DEF PlacementInv
  <1> QED
    BY <1>3, <1>4 DEF pollTelemetry

\* Every step keeps the invariant.
LEMMA PlacementNextInv == PlacementInv /\ [PlacementNext]_placementVars => PlacementInv'
  <1> SUFFICES ASSUME PlacementInv, [PlacementNext]_placementVars PROVE PlacementInv'
    OBVIOUS
  <1>1. CASE selectWorker
    BY <1>1, SelectInv
  <1>2. CASE selectLocal
    BY <1>2, NotRefused DEF selectLocal, PlacementInv, PlacementType, Held
  <1>3. ASSUME NEW w \in Worker, AddWorker(w) PROVE PlacementInv'
    <2>1. workerOrder' \in Seq(Worker)
      BY <1>3 DEF AddWorker, PlacementInv, PlacementType
    <2> QED
      BY <1>3, <2>1, FreshConn, NotRefused DEF AddWorker, PlacementInv, PlacementType
  <1>4. ASSUME NEW w \in Worker, RemoveWorker(w) PROVE PlacementInv'
    <2>1. PICK i \in DOMAIN workerOrder : workerOrder' = Without(workerOrder, i)
      BY <1>4 DEF RemoveWorker
    <2>2. removals' \in Nat /\ workerOrder \in Seq(Worker) /\ i \in 1..Len(workerOrder)
      BY <1>4 DEF RemoveWorker, PlacementInv, PlacementType
    <2>3. workerOrder' \in Seq(Worker)
      BY Zenon, <2>1, <2>2, Shortened
    <2> QED
      BY Zenon, <1>4, <2>2, <2>3, FreshConn, NotRefused DEF RemoveWorker, PlacementInv
  <1>5. ASSUME NEW w \in Worker, pollTelemetry(w) PROVE PlacementInv'
    BY <1>5, TelemetryInv
  <1>6. ASSUME NEW w \in Worker, setReachable(w) PROVE PlacementInv'
    <2>1. PICK to \in {"ok", "ejected", "down"} : stage' = [stage EXCEPT ![w] = to]
      BY Zenon, <1>6 DEF setReachable, PlacementInv, PlacementType
    <2>2. PlacementType' /\ Held'
      BY <1>6, <2>1 DEF setReachable, PlacementInv, PlacementType, Held
    <2> QED
      BY <1>6, <2>2, NotRefused DEF setReachable, PlacementInv
  <1>7. ASSUME NEW w \in Worker, Recover(w) PROVE PlacementInv'
    BY <1>7, FreshConn, NotRefused DEF Recover, PlacementInv, PlacementType
  <1>8. CASE UNCHANGED placementVars
    BY <1>8 DEF placementVars, PlacementInv, PlacementType, Held, FailsOnlyExhausted, Order, placeable
  <1> QED
    BY <1>1, <1>2, <1>3, <1>4, <1>5, <1>6, <1>7, <1>8 DEF PlacementNext

-----------------------------------------------------------------------------
(* The round robin.  A worker at place k of an order of n still has to     *)
(* wait for the places from the cursor up to its own.  A cursor past the   *)
(* end, which only a removal leaves there, may put it anywhere.            *)

\* The places from the cursor c up to place k.
Wait(k, c, n) == IF k - 1 >= c THEN (k - 1) - c ELSE (k - 1) + n - c

\* A worker passed over p times fits, its wait included, in a budget of b; the workers
\* of the fleet of m that are not in the order may still join before it.
Fits(k, p, c, n, m, b) ==
    IF c < n THEN p + Wait(k, c, n) + (m - n) <= b ELSE p + (m - 1) <= b

Budget == (Cardinality(Worker) - 1) * (1 + removals)

\* The order lists a worker once.
Once ==
    \A i, j \in 1..Len(workerOrder) : workerOrder[i] = workerOrder[j] => i = j

TurnsInv ==
    /\ Once
    /\ \A k \in 1..Len(workerOrder) :
          Fits(k, passed[workerOrder[k]], rrCursor, Len(workerOrder), Cardinality(Worker), Budget)

\* An order that lists each worker once is no longer than the fleet is large.
LEMMA OrderFits ==
  ASSUME NEW S, IsFiniteSet(S), NEW o \in Seq(S),
         \A i, j \in 1..Len(o) : o[i] = o[j] => i = j
  PROVE  Len(o) <= Cardinality(S)
  <1>1. o \in [1..Len(o) -> S] /\ Len(o) \in Nat
    OBVIOUS
  <1>2. o \in Injection(1..Len(o), S)
    BY <1>1 DEF Injection, IsInjective
  <1>3. Cardinality(1..Len(o)) = Len(o)
    <2>1. \A n \in Nat : Cardinality(1..n) = n
      BY FS_Interval
    <2> QED
      BY Zenon, <1>1, <2>1
  <1> QED
    BY <1>2, <1>3, FS_Injection

\* The budget grows by a round of the others with every removal.
LEMMA BudgetGrows ==
  ASSUME NEW m \in Nat \ {0}, NEW r \in Nat
  PROVE  /\ (m - 1) * (1 + r) \in Nat /\ m - 1 <= (m - 1) * (1 + r)
         /\ (m - 1) * (1 + (r + 1)) = (m - 1) * (1 + r) + (m - 1)
  OBVIOUS

\* Who fits was passed over no more than the budget allows.
LEMMA FitsBound ==
  ASSUME NEW m \in Nat, NEW n \in Nat, n <= m, NEW k \in 1..n, NEW c \in Nat, NEW b \in Nat,
         NEW p \in Nat, Fits(k, p, c, n, m, b)
  PROVE  p <= b
  BY DEF Fits, Wait

\* Who was passed over less often fits too.
LEMMA FitsLess ==
  ASSUME NEW m \in Nat, NEW n \in Nat, NEW k \in 1..n, NEW c \in Nat, NEW b \in Nat,
         NEW p \in Nat, NEW q \in Nat, q <= p, Fits(k, p, c, n, m, b)
  PROVE  Fits(k, q, c, n, m, b)
  BY DEF Fits, Wait

\* Who fits does so when another worker has joined the order.
LEMMA FitsJoin ==
  ASSUME NEW m \in Nat, NEW n \in Nat, n + 1 <= m, NEW k \in 1..n, NEW c \in Nat, NEW b \in Nat,
         NEW p \in Nat, Fits(k, p, c, n, m, b)
  PROVE  Fits(k, p, c, n + 1, m, b)
  BY DEF Fits, Wait

\* A whole round to spare fits wherever the cursor is.
LEMMA FitsAnywhere ==
  ASSUME NEW m \in Nat, NEW n \in Nat, n <= m, NEW k \in 1..n, NEW c \in Nat, NEW b \in Nat,
         NEW p \in Nat, p + (m - 1) <= b
  PROVE  Fits(k, p, c, n, m, b)
  BY DEF Fits, Wait

\* The cursor moves on from the turn t it stopped at: who was further on than that,
\* or anywhere but there when the cursor was past the end, fits as one passed over.
LEMMA FitsPassed ==
  ASSUME NEW m \in Nat, NEW n \in Nat \ {0}, n <= m, NEW k \in 1..n, NEW c \in Nat,
         NEW b \in Nat, NEW p \in Nat, Fits(k, p, c, n, m, b),
         NEW i \in 0..n - 1, NEW t \in 0..n - 1, t = (c + i) % n,
         NEW d \in Nat, d = (t + 1) % n, k - 1 # t,
         c < n => i < Wait(k, c, n)
  PROVE  Fits(k, p + 1, d, n, m, b)
  <1>1. d = IF t + 1 < n THEN t + 1 ELSE 0
    OBVIOUS
  <1>2. CASE c < n
    <2>1. t = IF c + i < n THEN c + i ELSE c + i - n
      BY <1>2
    <2> QED
      BY <1>1, <1>2, <2>1 DEF Fits, Wait
  <1>3. CASE ~(c < n)
    BY <1>1, <1>3 DEF Fits, Wait
  <1> QED
    BY <1>2, <1>3

\* The place k is the turn its wait counts to.
LEMMA WaitIsTurn ==
  ASSUME NEW n \in Nat \ {0}, NEW k \in 1..n, NEW c \in Nat, c < n
  PROVE  Wait(k, c, n) \in 0..n - 1 /\ (c + Wait(k, c, n)) % n = k - 1
  BY DEF Wait

\* The sizes a place of the order is counted with.
LEMMA Sizes ==
  ASSUME PlacementType, Once, NEW k \in 1..Len(workerOrder)
  PROVE  /\ Len(workerOrder) \in Nat \ {0} /\ Cardinality(Worker) \in Nat \ {0}
         /\ Len(workerOrder) <= Cardinality(Worker)
         /\ Budget \in Nat /\ Cardinality(Worker) - 1 <= Budget
         /\ workerOrder[k] \in Worker /\ passed[workerOrder[k]] \in Nat
         /\ rrCursor \in Nat /\ removals \in Nat
  <1>1. /\ workerOrder \in Seq(Worker) /\ workerOrder[k] \in Worker /\ removals \in Nat
        /\ Len(workerOrder) \in Nat \ {0} /\ rrCursor \in Nat /\ passed[workerOrder[k]] \in Nat
    BY DEF PlacementType
  <1>2. Len(workerOrder) <= Cardinality(Worker)
    BY Zenon, <1>1, OrderFits, PlacementAssumption DEF Once
  <1>3. Cardinality(Worker) \in Nat \ {0}
    BY <1>1, Fleet
  <1>4. Budget \in Nat /\ Cardinality(Worker) - 1 <= Budget
    BY Zenon, <1>1, <1>3, BudgetGrows DEF Budget
  <1> QED
    BY Zenon, <1>1, <1>2, <1>3, <1>4

\* A step that leaves the order and the cursor alone, and counts nobody up.
LEMMA TurnsKept ==
  ASSUME PlacementInv, TurnsInv, UNCHANGED <<workerOrder, rrCursor, removals>>,
         \A w \in Worker : passed'[w] \in Nat /\ passed'[w] <= passed[w]
  PROVE  TurnsInv'
  <1>1. PlacementType /\ Once
    BY DEF PlacementInv, TurnsInv
  <1>2. ASSUME NEW k \in 1..Len(workerOrder)
        PROVE  Fits(k, passed'[workerOrder[k]], rrCursor, Len(workerOrder), Cardinality(Worker), Budget)
    <2>1. Fits(k, passed[workerOrder[k]], rrCursor, Len(workerOrder), Cardinality(Worker), Budget)
      BY DEF TurnsInv
    <2>2. /\ workerOrder[k] \in Worker /\ passed[workerOrder[k]] \in Nat
          /\ Len(workerOrder) \in Nat /\ Cardinality(Worker) \in Nat /\ Budget \in Nat
          /\ rrCursor \in Nat
      BY <1>1, Sizes
    <2> QED
      BY Zenon, <2>1, <2>2, FitsLess
  <1> QED
    BY Zenon, <1>1, <1>2 DEF TurnsInv, Once, Budget

\* A selection moves the cursor past the one it picks: whoever it passed over is nearer.
LEMMA SelectTurns ==
  ASSUME PlacementInv, TurnsInv, selectWorker
  PROVE  TurnsInv'
  <1> DEFINE n == Len(workerOrder)
             free == {i \in Turns : placeable(workerOrder[Turn(i)])}
  <1>1. PlacementType /\ Once /\ workerOrder # <<>>
    BY DEF PlacementInv, TurnsInv, selectWorker
  <1>2. UNCHANGED <<workerOrder, removals>>
    BY DEF selectWorker
  <1>3. CASE free = {}
    <2>1. UNCHANGED <<rrCursor, passed>>
      BY <1>3 DEF selectWorker
    <2>2. \A w \in Worker : passed'[w] \in Nat /\ passed'[w] <= passed[w]
      BY <1>1, <2>1 DEF PlacementType
    <2> QED
      BY Zenon, <1>2, <2>1, <2>2, TurnsKept
  <1>4. CASE free # {}
    <2>1. PICK i \in free :
             /\ \A j \in free : i <= j
             /\ picked' = workerOrder[Turn(i)] /\ rrCursor' = Turn(i) % n
             /\ PassOver(picked')
      BY <1>4 DEF selectWorker
    <2> DEFINE t == (rrCursor + i) % n
    <2>2. /\ i \in 0..n - 1 /\ Turn(i) = 1 + t /\ Turn(i) \in 1..n
          /\ n \in Nat \ {0} /\ rrCursor \in Nat
      BY <1>1, TurnIn DEF Turn, Turns, PlacementType
    <2>3. t \in 0..n - 1 /\ rrCursor' = (t + 1) % n /\ rrCursor' \in Nat
      <3>1. t \in 0..n - 1
        BY <2>2
      <3> HIDE DEF t, n
      <3> QED
        BY <2>1, <2>2, <3>1
    <2>4. ASSUME NEW k \in 1..n
          PROVE  Fits(k, passed'[workerOrder[k]], rrCursor', n, Cardinality(Worker), Budget)
      <3> DEFINE v == workerOrder[k]
                 m == Cardinality(Worker)
      <3>1. /\ m \in Nat \ {0} /\ n <= m /\ Budget \in Nat /\ m - 1 <= Budget
            /\ v \in Worker /\ passed[v] \in Nat
        BY Zenon, <1>1, Sizes
      <3>2. /\ passed'[v] \in Nat
            /\ passed'[v] = 0 \/ (v # picked' /\ placeable(v) /\ passed'[v] <= passed[v] + 1)
        BY <1>1, <2>1, <3>1, PassedType
      <3>3. Fits(k, passed[v], rrCursor, n, m, Budget)
        BY DEF TurnsInv
      <3>4. CASE passed'[v] = 0
        <4>1. m - 1 <= Budget /\ 0 + (m - 1) <= Budget /\ 0 \in Nat /\ m \in Nat /\ n \in Nat
          BY <2>2, <3>1
        <4> HIDE DEF n, m, v
        <4>2. Fits(k, passed'[v], rrCursor', n, m, Budget)
          BY Zenon, <2>3, <3>1, <3>4, <4>1, FitsAnywhere
        <4> QED
          BY Zenon, <4>2 DEF n, m, v
      <3>5. CASE v # picked' /\ placeable(v) /\ passed'[v] <= passed[v] + 1
        <4>1. k - 1 # t
          BY <2>1, <2>2, <3>5
        <4>2. ASSUME rrCursor < n PROVE i < Wait(k, rrCursor, n)
          <5> DEFINE j == Wait(k, rrCursor, n)
          <5>1. j \in 0..n - 1 /\ (rrCursor + j) % n = k - 1
            BY Zenon, <2>2, <4>2, WaitIsTurn
          <5>2. j \in Turns /\ Turn(j) = k
            <6> HIDE DEF j
            <6> QED
              BY <2>2, <5>1 DEF Turns, Turn
          <5>3. i <= j
            BY Zenon, <2>1, <3>5, <5>2
          <5>4. i # j
            BY Zenon, <4>1, <5>1
          <5> HIDE DEF j, n
          <5> QED
            BY <2>2, <5>1, <5>3, <5>4 DEF j
        <4> HIDE DEF n, m, v
        <4>3. m \in Nat /\ n \in Nat /\ rrCursor' = (t + 1) % n
          BY <2>2, <2>3, <3>1
        <4>4. Fits(k, passed[v] + 1, rrCursor', n, m, Budget)
          BY Zenon, <2>2, <2>3, <3>1, <3>3, <4>1, <4>2, <4>3, FitsPassed
        <4>5. passed[v] + 1 \in Nat
          BY <3>1
        <4>6. Fits(k, passed'[v], rrCursor', n, m, Budget)
          BY Zenon, <2>3, <3>1, <3>2, <3>5, <4>3, <4>4, <4>5, FitsLess
        <4> QED
          BY Zenon, <4>6 DEF n, m, v
      <3> QED
        BY Zenon, <3>2, <3>4, <3>5
    <2> QED
      BY Zenon, <1>1, <1>2, <2>4 DEF TurnsInv, Once, Budget
  <1> QED
    BY <1>3, <1>4

\* A worker that joins is last; nobody's wait grows by more than the place it takes.
LEMMA AddTurns ==
  ASSUME PlacementInv, TurnsInv, NEW w \in Worker, AddWorker(w)
  PROVE  TurnsInv'
  <1> DEFINE n == Len(workerOrder)
             m == Cardinality(Worker)
  <1>1. PlacementType /\ Once /\ workerOrder \in Seq(Worker) /\ n \in Nat
    BY DEF PlacementInv, TurnsInv, PlacementType
  <1>2. /\ UNCHANGED <<rrCursor, removals>> /\ rrCursor \in Nat
        /\ passed' = [passed EXCEPT ![w] = 0] /\ passed \in [Worker -> Nat]
    BY <1>1 DEF AddWorker, freshConn, PlacementType
  <1>3. CASE w \in Order
    <2>1. \A v \in Worker : passed'[v] \in Nat /\ passed'[v] <= passed[v]
      BY <1>2
    <2>2. workerOrder' = workerOrder
      BY <1>3 DEF AddWorker
    <2> QED
      BY Zenon, <1>2, <2>1, <2>2, TurnsKept
  <1>4. CASE w \notin Order
    <2>1. workerOrder' = Append(workerOrder, w)
      BY <1>4 DEF AddWorker
    <2>2. /\ workerOrder' \in Seq(Worker) /\ Len(workerOrder') = n + 1
          /\ \A k \in 1..n : workerOrder'[k] = workerOrder[k]
          /\ workerOrder'[n + 1] = w
      BY <1>1, <2>1
    <2>3. \A k \in 1..n : workerOrder[k] # w
      BY <1>1, <1>4 DEF Order
    <2>4. Once'
      <3> SUFFICES ASSUME NEW i \in 1..n + 1, NEW j \in 1..n + 1, workerOrder'[i] = workerOrder'[j]
                   PROVE  i = j
        BY Zenon, <2>2 DEF Once
      <3>1. i \in 1..n \/ i = n + 1
        BY <1>1
      <3>2. j \in 1..n \/ j = n + 1
        BY <1>1
      <3> QED
        BY Zenon, <1>1, <2>2, <2>3, <3>1, <3>2 DEF Once
    <2>5. n + 1 <= m /\ m \in Nat \ {0} /\ removals \in Nat
      <3>1. Len(workerOrder') <= m
        BY Zenon, <2>2, <2>4, OrderFits, PlacementAssumption DEF Once
      <3> QED
        BY <1>1, <2>2, <3>1, Fleet DEF PlacementType
    <2>6. Budget \in Nat /\ m - 1 <= Budget /\ Budget' = Budget
      BY Zenon, <1>2, <2>5, BudgetGrows DEF Budget
    <2>7. ASSUME NEW k \in 1..n + 1
          PROVE  Fits(k, passed'[workerOrder'[k]], rrCursor, n + 1, m, Budget)
      <3>1. CASE k \in 1..n
        <4>1. /\ workerOrder'[k] = workerOrder[k] /\ workerOrder[k] \in Worker
              /\ passed'[workerOrder[k]] = passed[workerOrder[k]] /\ passed[workerOrder[k]] \in Nat
          BY <1>1, <1>2, <2>2, <2>3, <3>1
        <4>2. Fits(k, passed[workerOrder[k]], rrCursor, n, m, Budget)
          BY <3>1 DEF TurnsInv
        <4> HIDE DEF n, m
        <4> QED
          BY Zenon, <1>1, <1>2, <2>5, <2>6, <3>1, <4>1, <4>2, FitsJoin
      <3>2. CASE k = n + 1
        <4>1. passed'[workerOrder'[k]] = 0
          BY <1>2, <2>2, <3>2
        <4> HIDE DEF n, m
        <4>2. n + 1 \in Nat /\ m \in Nat /\ 0 \in Nat /\ 0 + (m - 1) <= Budget
          BY <1>1, <2>5, <2>6
        <4> QED
          BY Zenon, <1>2, <2>5, <2>6, <4>1, <4>2, FitsAnywhere
      <3>3. k \in 1..n \/ k = n + 1
        BY <1>1
      <3> QED
        BY Zenon, <3>1, <3>2, <3>3
    <2> QED
      BY Zenon, <1>2, <2>2, <2>4, <2>6, <2>7 DEF TurnsInv
  <1> QED
    BY <1>3, <1>4

\* A removal can move the cursor past a worker, or past the end of the order: the round
\* it may cost is what the removal adds to the budget.
LEMMA RemoveTurns ==
  ASSUME PlacementInv, TurnsInv, NEW w \in Worker, RemoveWorker(w)
  PROVE  TurnsInv'
  <1> DEFINE n == Len(workerOrder)
             m == Cardinality(Worker)
  <1>1. /\ PlacementType /\ Once /\ workerOrder \in Seq(Worker) /\ n \in Nat
        /\ rrCursor \in Nat /\ removals \in Nat /\ passed \in [Worker -> Nat]
    BY DEF PlacementInv, TurnsInv, PlacementType
  <1>2. PICK i \in 1..n : workerOrder' = Without(workerOrder, i)
    BY <1>1 DEF RemoveWorker
  <1>3. rrCursor' = rrCursor /\ removals' = removals + 1 /\ passed' = [passed EXCEPT ![w] = 0]
    BY DEF RemoveWorker, freshConn
  <1>4. /\ Len(workerOrder') = n - 1
        /\ \A k \in 1..n - 1 : workerOrder'[k] = IF k < i THEN workerOrder[k] ELSE workerOrder[k + 1]
    BY Zenon, <1>1, <1>2, Shortened
  <1>5. ASSUME NEW k \in 1..n - 1
        PROVE  \E l \in 1..n : workerOrder'[k] = workerOrder[l] /\ l = IF k < i THEN k ELSE k + 1
    <2> HIDE DEF n
    <2>1. (IF k < i THEN k ELSE k + 1) \in 1..n
      BY <1>1
    <2> QED
      BY <1>4, <2>1
  <1>6. Once'
    <2> SUFFICES ASSUME NEW k \in 1..n - 1, NEW l \in 1..n - 1, workerOrder'[k] = workerOrder'[l]
                 PROVE  k = l
      BY Zenon, <1>4 DEF Once
    <2>1. PICK a \in 1..n : workerOrder'[k] = workerOrder[a] /\ a = IF k < i THEN k ELSE k + 1
      BY Zenon, <1>5
    <2>2. PICK b \in 1..n : workerOrder'[l] = workerOrder[b] /\ b = IF l < i THEN l ELSE l + 1
      BY Zenon, <1>5
    <2>3. a = b
      BY Zenon, <1>1, <2>1, <2>2 DEF Once
    <2> HIDE DEF n
    <2> QED
      BY <1>1, <2>1, <2>2, <2>3
  <1>7. /\ m \in Nat \ {0} /\ n \in Nat \ {0} /\ n <= m /\ Budget \in Nat
        /\ Budget' = Budget + (m - 1)
    <2>1. m \in Nat \ {0} /\ n \in Nat \ {0} /\ n <= m /\ Budget \in Nat
      BY Zenon, <1>1, <1>2, Sizes
    <2>2. Budget' = (m - 1) * (1 + (removals + 1))
      BY Zenon, <1>3 DEF Budget
    <2>3. (m - 1) * (1 + (removals + 1)) = Budget + (m - 1)
      BY Zenon, <1>1, <2>1, BudgetGrows DEF Budget
    <2> QED
      BY Zenon, <2>1, <2>2, <2>3
  <1>8. ASSUME NEW k \in 1..n - 1
        PROVE  Fits(k, passed'[workerOrder'[k]], rrCursor', n - 1, m, Budget')
    <2> DEFINE v == workerOrder'[k]
    <2>1. PICK l \in 1..n : v = workerOrder[l]
      BY Zenon, <1>5
    <2>2. v \in Worker /\ passed[v] \in Nat
      BY Zenon, <1>1, <2>1, Sizes
    <2>3. passed[v] <= Budget
      <3>1. Fits(l, passed[v], rrCursor, n, m, Budget)
        BY <2>1 DEF TurnsInv
      <3>2. m \in Nat /\ n \in Nat
        BY <1>7
      <3> HIDE DEF n, m, v
      <3> QED
        BY Zenon, <1>1, <1>7, <2>2, <3>1, <3>2, FitsBound
    <2>4. passed'[v] \in Nat /\ passed'[v] <= passed[v]
      BY <1>1, <1>3, <2>2
    <2> HIDE DEF n, m, v
    <2>5. /\ passed'[v] + (m - 1) <= Budget' /\ m \in Nat /\ n - 1 \in Nat /\ n - 1 <= m
          /\ Budget' \in Nat
      BY <1>7, <2>2, <2>3, <2>4
    <2>6. Fits(k, passed'[v], rrCursor, n - 1, m, Budget')
      BY Zenon, <1>1, <2>4, <2>5, FitsAnywhere
    <2> QED
      BY Zenon, <1>3, <2>6 DEF v
  <1> QED
    BY Zenon, <1>4, <1>6, <1>8 DEF TurnsInv

\* Every step keeps the turns.
LEMMA TurnsNext == PlacementInv /\ TurnsInv /\ [PlacementNext]_placementVars => TurnsInv'
  <1> SUFFICES ASSUME PlacementInv, TurnsInv, [PlacementNext]_placementVars PROVE TurnsInv'
    OBVIOUS
  <1>1. passed \in [Worker -> Nat]
    BY DEF PlacementInv, PlacementType
  <1>2. CASE selectWorker
    BY <1>2, SelectTurns
  <1>3. CASE selectLocal \/ UNCHANGED placementVars
    <2>1. UNCHANGED <<workerOrder, rrCursor, removals, passed>>
      BY <1>3 DEF selectLocal, placementVars
    <2>2. \A v \in Worker : passed'[v] \in Nat /\ passed'[v] <= passed[v]
      BY <1>1, <2>1
    <2> QED
      BY Zenon, <2>1, <2>2, TurnsKept
  <1>4. ASSUME NEW w \in Worker, AddWorker(w) PROVE TurnsInv'
    BY Zenon, <1>4, AddTurns
  <1>5. ASSUME NEW w \in Worker, RemoveWorker(w) PROVE TurnsInv'
    BY Zenon, <1>5, RemoveTurns
  <1>6. ASSUME NEW w \in Worker, pollTelemetry(w) \/ setReachable(w) \/ Recover(w)
        PROVE  TurnsInv'
    <2>1. UNCHANGED <<workerOrder, rrCursor, removals>>
      BY <1>6 DEF pollTelemetry, setReachable, Recover
    <2>2. \E p \in {0, passed[w]} : passed' = [passed EXCEPT ![w] = p]
      BY Zenon, <1>6 DEF pollTelemetry, setReachable, Recover, freshConn
    <2>3. \A v \in Worker : passed'[v] \in Nat /\ passed'[v] <= passed[v]
      BY <1>1, <2>2
    <2> QED
      BY Zenon, <2>1, <2>3, TurnsKept
  <1> QED
    BY Zenon, <1>2, <1>3, <1>4, <1>5, <1>6 DEF PlacementNext

-----------------------------------------------------------------------------
\* selectWorker fails only when nobody can be picked, and says that all are down only
\* when all are, whatever was added to the order or removed from it while the cursor
\* stood where it was: the round meets every place (Round).
THEOREM RefusalSound == PlacementSpec => []FailsOnlyExhausted
  <1>1. PlacementInv => FailsOnlyExhausted
    BY DEF PlacementInv
  <1> QED
    BY PlacementInitInv, PlacementNextInv, <1>1, PTL DEF PlacementSpec

\* A worker that can be picked all along is passed over by one selection for each of
\* the others at most, and by as many again for each removal: selectWorker's round robin
\* starves nobody, for any fleet, though RemoveWorker leaves the cursor where it was.
THEOREM TurnsSound == PlacementSpec => []TurnsComeRound
  <1>1. PlacementInit => TurnsInv
    BY DEF PlacementInit, TurnsInv, Once
  <1>2. PlacementInv /\ TurnsInv => TurnsComeRound
    <2> SUFFICES ASSUME PlacementInv, TurnsInv, NEW w \in Order PROVE passed[w] <= Budget
      BY Zenon DEF TurnsComeRound, Budget
    <2>1. PlacementType /\ Once /\ workerOrder \in Seq(Worker)
      BY DEF PlacementInv, TurnsInv, PlacementType
    <2>2. PICK k \in 1..Len(workerOrder) : workerOrder[k] = w
      BY <2>1 DEF Order
    <2>3. Fits(k, passed[w], rrCursor, Len(workerOrder), Cardinality(Worker), Budget)
      BY <2>2 DEF TurnsInv
    <2> QED
      BY Zenon, <2>1, <2>2, <2>3, Sizes, FitsBound
  <1> QED
    BY PlacementInitInv, PlacementNextInv, TurnsNext, <1>1, <1>2, PTL DEF PlacementSpec

\* A load verdict is held exactly while the agent answered one of the last loadMisses
\* probes of this conn (the load half of probe), for any threshold.
THEOREM VerdictSound == PlacementSpec => []VerdictIsFresh
  <1>1. PlacementInv => VerdictIsFresh
    BY DEF PlacementInv, PlacementType, Held, VerdictIsFresh, Order
  <1> QED
    BY PlacementInitInv, PlacementNextInv, <1>1, PTL DEF PlacementSpec

-----------------------------------------------------------------------------
(* The health of a worker.  From here on the leaves are Zenon's, but for   *)
(* arithmetic.                                                             *)
USE Zenon

Types ==
    /\ ejections \in Nat /\ waited \in Nat /\ out \in Nat
    /\ goodProbes \in Nat /\ answers \in Nat /\ counts \in Nat
    /\ DOMAIN ejPc = Agent

\* The worker's own goroutine is inside eject only when its loop has called it.
OwnTurn == run # "ejecting" => ejPc[Self] = "none"

\* A conn that has not been in placement: until it is reconciled no control call
\* goes out on it, so nobody but its own goroutine ejects it.
Fresh ==
    /\ ~placed => reachable # "ok"
    /\ run = "reconciling" => ~reconciled /\ ~daemonFailed /\ ~placed
    /\ run = "admitting" => reconciled /\ ~placed
    /\ ~placed /\ run # "admitting" => ~reconciled
    /\ ~reconciled => \A k \in Caller : ejPc[k] = "none"

\* The stay is counted, or the eject that counts it is on its way.  A conn made by a
\* recovery and not placed since is counted by the first eject, whoever wins it.
Counted ==
    /\ placed /\ reachable # "ok" => counts >= 1 \/ MidEject
    /\ fromRecovery /\ ~placed /\ run \notin {"reconciling", "admitting"} =>
          \/ counts >= 1 \/ ejPc[Self] \in {"casFirst", "count"}
          \/ ejPc[Self] = "flag" /\ ~daemonFailed

NoStamp == \A a \in Agent : ejPc[a] # "stamp"

\* The wait is not longer than the stay, once it is measured from its start; and it is
\* nothing when the worker has left placement under a probe.
Waits ==
    /\ reachable # "ok" /\ NoStamp => waited <= out
    /\ run \in {"probing", "judging"} /\ reachable # "ok" /\ lastSeen = "ok" /\ NoStamp => waited = 0

\* The run of good probes of a poller that has seen the worker out began since.
Probes ==
    /\ reachable = "ok" => lastSeen = "ok"
    /\ lastSeen # "ok" => goodProbes <= answers
    /\ run \in {"reconciling", "admitting", "ejecting"} => goodProbes = 0

Leaving == run = "recovering" => reachable # "ok"

IInv == Types /\ OwnTurn /\ Fresh /\ Counted /\ Waits /\ Probes /\ Leaving

\* The step moves a, and nobody else, within eject.
Moves(a, x) ==
    /\ DOMAIN ejPc' = Agent /\ ejPc'[a] = x
    /\ \A b \in Agent : b # a => ejPc'[b] = ejPc[b]

-----------------------------------------------------------------------------
\* A step of one ejection moves no other.
LEMMA MovesOne ==
  ASSUME DOMAIN ejPc = Agent, NEW a \in Agent, NEW x, ejPc' = [ejPc EXCEPT ![a] = x]
  PROVE  Moves(a, x)
  BY DEF Moves

\* The callers are not the worker's own goroutine.
LEMMA Agents ==
  /\ Self \in Agent /\ Caller \subseteq Agent
  /\ \A a \in Agent : a # Self => a \in Caller
  /\ \A k \in Caller : k # Self
  BY PollerAssumption DEF Agent

\* A count that saturates.
LEMMA CappedIs ==
  ASSUME NEW n \in Nat, NEW bound \in Nat
  PROVE  Capped(n, bound) = IF n <= bound THEN n ELSE bound
  <1>1. Min({n, bound}) \in {n, bound} /\ \A y \in {n, bound} : Min({n, bound}) <= y
    <2>1. \E x \in {n, bound} : \A y \in {n, bound} : x <= y
      BY SMT
    <2> QED
      BY <2>1 DEF Min
  <1> QED
    BY SMT, <1>1 DEF Capped

\* The backoff is a unit at least.
LEMMA BackoffPositive ==
  ASSUME ejections \in Nat
  PROVE  recoverBackoffFor \in Nat /\ recoverBackoffFor >= 1
  <1>1. Max({ejections, 1}) \in {ejections, 1} /\ \A y \in {ejections, 1} : Max({ejections, 1}) >= y
    <2>1. \E x \in {ejections, 1} : \A y \in {ejections, 1} : x >= y
      BY SMT
    <2> QED
      BY <2>1 DEF Max
  <1>2. Max({ejections, 1}) \in Nat /\ Max({ejections, 1}) >= 1
    BY SMT, <1>1
  <1>3. BackoffMax \in Nat /\ BackoffMax >= 1
    BY SMT, PollerAssumption
  <1>4. recoverBackoffFor = IF Max({ejections, 1}) <= BackoffMax THEN Max({ejections, 1}) ELSE BackoffMax
    BY <1>2, <1>3, CappedIs DEF recoverBackoffFor, Capped
  <1> QED
    BY SMT, <1>2, <1>3, <1>4

-----------------------------------------------------------------------------
(* eject: one lemma per step, which keeps the inductive invariant.         *)

\* The flag is set.
LEMMA EjectFlagKeeps ==
  ASSUME IInv, NEW a \in Agent, EjectFlag(a)
  PROVE  IInv'
  <1> DEFINE x == IF daemonFailed THEN "cas" ELSE "casFirst"
  <1>1. Moves(a, x) /\ ejPc[a] = "flag" /\ x \in {"cas", "casFirst"}
    BY MovesOne DEF IInv, Types, EjectFlag
  <1>2. /\ UNCHANGED <<reachable, reconciled, fromRecovery, ejections, waited, run, goodProbes,
                       lastSeen, placed, out, answers, counts>>
        /\ daemonFailed'
    BY DEF EjectFlag, pollVars, stayVars
  <1>3. (reconciled \/ a = Self) /\ (a = Self => run = "ejecting") /\ run # "reconciling"
    BY <1>1, Agents DEF IInv, OwnTurn, Fresh
  <1>4. Types' /\ OwnTurn'
    BY <1>1, <1>2, <1>3, Agents DEF IInv, Types, OwnTurn, Moves
  <1>5. Fresh'
    BY <1>1, <1>2, <1>3, Agents DEF IInv, Fresh, Moves
  <1>6. MidEject' <=> MidEject
    BY <1>1 DEF MidEject, Moves
  <1>7. Counted'
    <2>1. ASSUME fromRecovery, ~placed, run \notin {"reconciling", "admitting"}, ~(counts >= 1)
          PROVE  ejPc'[Self] \in {"casFirst", "count"}
      <3>1. a = Self
        BY <1>3, <2>1 DEF IInv, Fresh
      <3>2. ~daemonFailed
        BY <1>1, <2>1, <3>1 DEF IInv, Counted
      <3> QED
        BY <1>1, <3>1, <3>2 DEF Moves
    <2> QED
      BY <1>2, <1>6, <2>1 DEF IInv, Counted
  <1>8. NoStamp' => NoStamp
    BY <1>1 DEF NoStamp, Moves
  <1>9. Waits' /\ Probes' /\ Leaving'
    BY <1>2, <1>8 DEF IInv, Waits, Probes, Leaving
  <1> QED
    BY <1>4, <1>5, <1>7, <1>9 DEF IInv

\* Only a conn in placement leaves it; the stay begins, and nobody has counted it yet.
LEMMA EjectMoveKeeps ==
  ASSUME IInv, NEW a \in Agent, EjectMove(a)
  PROVE  IInv'
  <1>1. Moves(a, "stamp") /\ ejPc[a] \in {"casFirst", "cas"} /\ reachable = "ok" /\ reachable' = "unresponsive"
    BY MovesOne DEF IInv, Types, EjectMove
  <1>2. /\ UNCHANGED <<reconciled, daemonFailed, fromRecovery, ejections, waited, run, goodProbes,
                       lastSeen, placed>>
        /\ out' = 0 /\ answers' = 0 /\ counts' = 0
    BY DEF EjectMove, pollVars
  <1>3. placed /\ (reconciled \/ a = Self) /\ (a = Self => run = "ejecting")
    BY <1>1, Agents DEF IInv, OwnTurn, Fresh
  <1>4. 0 \in Nat
    BY SMT
  <1>5. Types' /\ OwnTurn'
    BY <1>1, <1>2, <1>3, <1>4, Agents DEF IInv, Types, OwnTurn, Moves
  <1>6. Fresh'
    BY <1>1, <1>2, <1>3, Agents DEF IInv, Fresh, Moves
  <1>7. MidEject' /\ ~NoStamp'
    BY <1>1 DEF MidEject, NoStamp, Moves
  <1>8. Counted' /\ Waits'
    BY <1>2, <1>3, <1>7 DEF Counted, Waits
  <1>9. Probes' /\ Leaving'
    BY <1>1, <1>2 DEF IInv, Probes, Leaving
  <1> QED
    BY <1>5, <1>6, <1>8, <1>9 DEF IInv

\* eject returns: the poller, if it was the poller's, is back in its loop.
LEMMA ReturnKeeps ==
  ASSUME IInv, NEW a \in Agent, EjectReturns(a), ejPc[a] # "none"
  PROVE  /\ Moves(a, "none") /\ (run' = IF a = Self THEN "idle" ELSE run)
         /\ OwnTurn' /\ (run' \in {"probing", "judging"} => run' = run /\ lastSeen' = lastSeen)
         /\ (run' \in {"reconciling", "admitting", "ejecting", "recovering"} => run' = run)
         /\ (run \in {"reconciling", "admitting"} => run' = run) /\ (run' # "ejecting" \/ a # Self)
         /\ (lastSeen' = lastSeen \/ (lastSeen' = reachable /\ goodProbes = 0))
  <1>1. Moves(a, "none")
    BY MovesOne DEF IInv, Types, EjectReturns
  <1>2. a = Self => run = "ejecting"
    BY DEF IInv, OwnTurn
  <1>3. /\ run' = IF a = Self THEN "idle" ELSE run
        /\ lastSeen' = IF a = Self THEN reachable ELSE lastSeen
    BY DEF EjectReturns
  <1>4. CASE a = Self
    BY <1>1, <1>2, <1>3, <1>4 DEF IInv, OwnTurn, Moves, Probes
  <1>5. CASE a # Self
    BY <1>1, <1>3, <1>5, Agents DEF IInv, OwnTurn, Moves
  <1> QED
    BY <1>4, <1>5

\* An ejection finds the worker out already.
LEMMA EjectMootKeeps ==
  ASSUME IInv, NEW a \in Agent, EjectMoot(a)
  PROVE  IInv'
  <1>1. /\ UNCHANGED <<reachable, reconciled, daemonFailed, fromRecovery, ejections, waited,
                       goodProbes, placed, out, answers, counts>>
        /\ ejPc[a] \in {"casFirst", "cas"} /\ reachable # "ok"
    BY DEF EjectMoot, connVars, stayVars
  <1>2. (reconciled \/ a = Self) /\ (a = Self => run = "ejecting")
    BY <1>1, Agents DEF IInv, OwnTurn, Fresh
  <1>3. CASE ejPc[a] = "casFirst" /\ fromRecovery
    <2>1. Moves(a, "count") /\ UNCHANGED <<run, lastSeen>>
      BY <1>3, MovesOne DEF IInv, Types, EjectMoot
    <2>2. Types' /\ OwnTurn'
      BY <1>1, <1>2, <2>1, Agents DEF IInv, Types, OwnTurn, Moves
    <2>3. Fresh'
      BY <1>1, <1>2, <2>1, Agents DEF IInv, Fresh, Moves
    <2>4. MidEject' /\ (NoStamp' => NoStamp)
      BY <1>1, <2>1 DEF MidEject, NoStamp, Moves
    <2>5. Counted'
      <3>1. ASSUME fromRecovery, ~placed, run \notin {"reconciling", "admitting"}, ~(counts >= 1)
            PROVE  ejPc'[Self] \in {"casFirst", "count"}
        <4>1. a = Self
          BY <1>2, <3>1 DEF IInv, Fresh
        <4> QED
          BY <2>1, <4>1 DEF Moves
      <3> QED
        BY <1>1, <2>1, <2>4, <3>1 DEF Counted
    <2>6. Waits' /\ Probes' /\ Leaving'
      BY <1>1, <2>1, <2>4 DEF IInv, Waits, Probes, Leaving
    <2> QED
      BY <2>2, <2>3, <2>5, <2>6 DEF IInv
  <1>4. CASE ~(ejPc[a] = "casFirst" /\ fromRecovery)
    <2>1. EjectReturns(a)
      BY <1>4 DEF EjectMoot
    <2>2. /\ Moves(a, "none") /\ (run' = IF a = Self THEN "idle" ELSE run)
          /\ OwnTurn' /\ (run' \in {"probing", "judging"} => run' = run /\ lastSeen' = lastSeen)
          /\ (run' \in {"reconciling", "admitting", "ejecting", "recovering"} => run' = run)
          /\ (run \in {"reconciling", "admitting"} => run' = run)
          /\ (lastSeen' = lastSeen \/ (lastSeen' = reachable /\ goodProbes = 0))
      BY <1>1, <2>1, ReturnKeeps
    <2>3. Types'
      BY <1>1, <2>2 DEF IInv, Types, Moves
    <2>4. Fresh'
      BY <1>1, <2>2, Agents DEF IInv, Fresh, Moves
    <2>5. (MidEject <=> MidEject') /\ (NoStamp' => NoStamp)
      BY <1>1, <2>2 DEF MidEject, NoStamp, Moves
    <2>6. Counted'
      <3>1. ASSUME fromRecovery, ~placed, run' \notin {"reconciling", "admitting"}
            PROVE  counts >= 1
        <4>1. run \notin {"reconciling", "admitting"} /\ a = Self
          BY <1>2, <2>2, <3>1 DEF IInv, Fresh
        <4> QED
          BY <1>1, <1>4, <3>1, <4>1 DEF IInv, Counted
      <3> QED
        BY <1>1, <2>5, <3>1 DEF IInv, Counted
    <2>7. Waits' /\ Leaving'
      BY <1>1, <2>2, <2>5 DEF IInv, Waits, Leaving
    <2>8. 0 <= answers
      BY SMT DEF IInv, Types
    <2>9. Probes'
      BY <1>1, <2>2, <2>8 DEF IInv, Probes
    <2> QED
      BY <2>2, <2>3, <2>4, <2>6, <2>7, <2>9 DEF IInv
  <1> QED
    BY <1>3, <1>4

\* The ejection is stamped.
LEMMA EjectStampKeeps ==
  ASSUME IInv, NEW a \in Agent, EjectStamp(a)
  PROVE  IInv'
  <1>1. Moves(a, "count") /\ ejPc[a] = "stamp" /\ waited' = 0
    BY MovesOne DEF IInv, Types, EjectStamp
  <1>2. UNCHANGED <<reachable, reconciled, daemonFailed, fromRecovery, ejections, run, goodProbes,
                    lastSeen, placed, out, answers, counts>>
    BY DEF EjectStamp, pollVars, stayVars
  <1>3. (reconciled \/ a = Self) /\ (a = Self => run = "ejecting")
    BY <1>1, Agents DEF IInv, OwnTurn, Fresh
  <1>4. 0 \in Nat /\ 0 <= out
    BY SMT DEF IInv, Types
  <1>5. Types' /\ OwnTurn'
    BY <1>1, <1>2, <1>3, <1>4, Agents DEF IInv, Types, OwnTurn, Moves
  <1>6. Fresh'
    BY <1>1, <1>2, <1>3, Agents DEF IInv, Fresh, Moves
  <1>7. MidEject'
    BY <1>1 DEF MidEject, Moves
  <1>8. Counted'
    <2>1. ejPc'[Self] = "count" \/ ejPc'[Self] = ejPc[Self]
      BY <1>1, Agents DEF Moves
    <2> QED
      BY <1>2, <1>7, <2>1 DEF IInv, Counted
  <1>9. Waits'
    BY <1>1, <1>2, <1>4 DEF Waits
  <1>10. Probes' /\ Leaving'
    BY <1>2 DEF IInv, Probes, Leaving
  <1> QED
    BY <1>5, <1>6, <1>8, <1>9, <1>10 DEF IInv

\* The ejection is counted.
LEMMA EjectCountKeeps ==
  ASSUME IInv, NEW a \in Agent, EjectCount(a)
  PROVE  IInv'
  <1>1. /\ UNCHANGED <<reachable, reconciled, daemonFailed, fromRecovery, waited, goodProbes,
                       placed, out, answers>>
        /\ ejPc[a] = "count" /\ EjectReturns(a)
    BY DEF EjectCount
  <1>2. ejections' \in Nat /\ counts' \in Nat /\ counts' >= 1
    <2>1. ejections + 1 \in Nat /\ counts + 1 \in Nat /\ MaxEjections \in Nat /\ 2 \in Nat
      BY SMT, PollerAssumption DEF IInv, Types
    <2>2. /\ ejections' = IF ejections + 1 <= MaxEjections THEN ejections + 1 ELSE MaxEjections
          /\ counts' = IF counts + 1 <= 2 THEN counts + 1 ELSE 2
      BY <2>1, CappedIs DEF EjectCount
    <2> QED
      BY SMT, <2>1, <2>2 DEF IInv, Types
  <1>3. /\ Moves(a, "none") /\ (run' = IF a = Self THEN "idle" ELSE run)
        /\ OwnTurn' /\ (run' \in {"probing", "judging"} => run' = run /\ lastSeen' = lastSeen)
        /\ (run' \in {"reconciling", "admitting", "ejecting", "recovering"} => run' = run)
        /\ (run \in {"reconciling", "admitting"} => run' = run)
        /\ (lastSeen' = lastSeen \/ (lastSeen' = reachable /\ goodProbes = 0))
    BY <1>1, ReturnKeeps
  <1>4. Types'
    BY <1>1, <1>2, <1>3 DEF IInv, Types, Moves
  <1>5. Fresh'
    BY <1>1, <1>3, Agents DEF IInv, Fresh, Moves
  <1>6. NoStamp' => NoStamp
    BY <1>1, <1>3 DEF NoStamp, Moves
  <1>7. Counted'
    BY <1>2 DEF Counted
  <1>8. Waits' /\ Leaving'
    BY <1>1, <1>3, <1>6 DEF IInv, Waits, Leaving
  <1>9. 0 <= answers
    BY SMT DEF IInv, Types
  <1>10. Probes'
    BY <1>1, <1>3, <1>9 DEF IInv, Probes
  <1> QED
    BY <1>3, <1>4, <1>5, <1>7, <1>8, <1>10 DEF IInv

-----------------------------------------------------------------------------
(* runWorker and pollWorker.                                               *)

\* The reconcile is done.
LEMMA ReconcileReadyKeeps ==
  ASSUME IInv, ReconcileReady
  PROVE  IInv'
  <1>1. /\ UNCHANGED <<reachable, daemonFailed, fromRecovery, ejections, waited, goodProbes,
                       lastSeen, ejPc, placed, out, answers, counts>>
        /\ run = "reconciling" /\ run' = "admitting" /\ reconciled'
    BY DEF ReconcileReady, pollVars, stayVars
  <1>2. Types' /\ OwnTurn' /\ Fresh'
    BY <1>1 DEF IInv, Types, OwnTurn, Fresh
  <1>3. Counted'
    BY <1>1 DEF IInv, Fresh, Counted
  <1>4. Waits' /\ Probes' /\ Leaving'
    BY <1>1 DEF IInv, NoStamp, Waits, Probes, Leaving
  <1> QED
    BY <1>2, <1>3, <1>4 DEF IInv

\* The loop of the worker's own goroutine calls eject.
LEMMA SelfEjects ==
  ASSUME IInv, run # "ejecting", ejPc' = [ejPc EXCEPT ![Self] = "flag"]
  PROVE  /\ DOMAIN ejPc' = Agent /\ ejPc[Self] = "none" /\ ejPc'[Self] = "flag"
         /\ \A k \in Caller : ejPc'[k] = ejPc[k]
         /\ MidEject' <=> MidEject
         /\ NoStamp' <=> NoStamp
  <1>1. Moves(Self, "flag") /\ ejPc[Self] = "none"
    BY MovesOne, Agents DEF IInv, Types, OwnTurn
  <1>2. MidEject' <=> MidEject
    BY <1>1, Agents DEF MidEject, Moves
  <1>3. NoStamp' <=> NoStamp
    BY <1>1, Agents DEF NoStamp, Moves
  <1> QED
    BY <1>1, <1>2, <1>3, Agents DEF Moves

\* The reconcile finds that the worker has to go.
LEMMA ReconcileEjectedKeeps ==
  ASSUME IInv, ReconcileEjected
  PROVE  IInv'
  <1>1. /\ UNCHANGED <<reachable, reconciled, daemonFailed, fromRecovery, ejections, waited,
                       goodProbes, lastSeen, placed, out, answers, counts>>
        /\ run = "reconciling" /\ run' = "ejecting" /\ ejPc' = [ejPc EXCEPT ![Self] = "flag"]
    BY DEF ReconcileEjected, connVars, pollVars, stayVars
  <1>2. /\ DOMAIN ejPc' = Agent /\ ejPc'[Self] = "flag"
        /\ \A k \in Caller : ejPc'[k] = ejPc[k]
        /\ NoStamp' => NoStamp
    BY <1>1, SelfEjects
  <1>3. ~reconciled /\ ~daemonFailed /\ ~placed
    BY <1>1 DEF IInv, Fresh
  <1>4. Types' /\ OwnTurn' /\ Fresh'
    BY <1>1, <1>2, <1>3 DEF IInv, Types, OwnTurn, Fresh
  <1>5. Counted'
    BY <1>1, <1>2, <1>3 DEF Counted
  <1>6. Waits' /\ Probes' /\ Leaving'
    BY <1>1, <1>2 DEF IInv, Waits, Probes, Leaving
  <1> QED
    BY <1>4, <1>5, <1>6 DEF IInv

\* The worker is admitted.
LEMMA AdmitKeeps ==
  ASSUME IInv, Admit
  PROVE  IInv'
  <1>1. /\ UNCHANGED <<reconciled, daemonFailed, fromRecovery, ejections, goodProbes, ejPc, out,
                       answers, counts>>
        /\ reachable' = "ok" /\ lastSeen' = "ok" /\ waited' = 0 /\ placed'
        /\ run = "admitting" /\ run' = "idle"
    BY DEF Admit
  <1>2. 0 \in Nat
    BY SMT
  <1>3. Types' /\ OwnTurn' /\ Fresh'
    BY <1>1, <1>2 DEF IInv, Types, OwnTurn, Fresh
  <1>4. Counted' /\ Waits' /\ Probes' /\ Leaving'
    BY <1>1 DEF Counted, Waits, Probes, Leaving
  <1> QED
    BY <1>3, <1>4 DEF IInv

\* A poller that finds the worker out since its last look starts its run again.
LEMMA ProbeStartKeeps ==
  ASSUME IInv, ProbeStart
  PROVE  IInv'
  <1>1. /\ UNCHANGED <<reachable, reconciled, daemonFailed, fromRecovery, ejections, waited, ejPc,
                       placed, out, answers, counts>>
        /\ run = "idle" /\ run' = "probing" /\ lastSeen' = reachable
        /\ goodProbes' = IF reachable # lastSeen /\ reachable # "ok" THEN 0 ELSE goodProbes
    BY DEF ProbeStart, connVars, stayVars
  <1>2. 0 \in Nat /\ 0 <= answers
    BY SMT DEF IInv, Types
  <1>3. Types' /\ OwnTurn' /\ Fresh'
    BY <1>1, <1>2 DEF IInv, Types, OwnTurn, Fresh
  <1>4. Counted'
    BY <1>1 DEF IInv, Counted, MidEject
  <1>5. Waits' /\ Leaving'
    BY <1>1 DEF IInv, NoStamp, Waits, Leaving
  <1>6. Probes'
    BY <1>1, <1>2 DEF IInv, Probes
  <1> QED
    BY <1>3, <1>4, <1>5, <1>6 DEF IInv

\* A probe is answered.
LEMMA ProbeAnsweredKeeps ==
  ASSUME IInv, ProbeAnswered
  PROVE  IInv'
  <1>1. /\ UNCHANGED <<reachable, reconciled, daemonFailed, fromRecovery, ejections, waited, lastSeen,
                       ejPc, placed, out, counts>>
        /\ run = "probing" /\ run' = "judging"
    BY DEF ProbeAnswered, connVars
  <1>2. goodProbes' \in Nat /\ answers' \in Nat /\ (lastSeen # "ok" => goodProbes' <= answers')
    <2>1. goodProbes + 1 \in Nat /\ answers + 1 \in Nat /\ healthyThreshold \in Nat
      BY SMT, PollerAssumption DEF IInv, Types
    <2>2. /\ goodProbes' = IF goodProbes + 1 <= healthyThreshold THEN goodProbes + 1 ELSE healthyThreshold
          /\ lastSeen # "ok" => answers' = IF answers + 1 <= healthyThreshold THEN answers + 1
                                           ELSE healthyThreshold
          /\ lastSeen = "ok" => answers' = answers
      BY <2>1, CappedIs DEF ProbeAnswered
    <2>3. lastSeen # "ok" => goodProbes <= answers
      BY DEF IInv, Probes
    <2> QED
      BY SMT, <2>1, <2>2, <2>3 DEF IInv, Types
  <1>3. Types' /\ OwnTurn' /\ Fresh'
    BY <1>1, <1>2 DEF IInv, Types, OwnTurn, Fresh
  <1>4. Counted'
    BY <1>1 DEF IInv, Counted, MidEject
  <1>5. Waits' /\ Leaving'
    BY <1>1 DEF IInv, NoStamp, Waits, Leaving
  <1>6. Probes'
    BY <1>1, <1>2 DEF IInv, Probes
  <1> QED
    BY <1>3, <1>4, <1>5, <1>6 DEF IInv

\* A probe is missed.
LEMMA ProbeMissedKeeps ==
  ASSUME IInv, ProbeMissed
  PROVE  IInv'
  <1>1. /\ UNCHANGED <<reachable, reconciled, daemonFailed, fromRecovery, ejections, waited, lastSeen,
                       placed, out, counts>>
        /\ run = "probing" /\ goodProbes' = 0 /\ answers' = 0
        /\ \/ run' = "ejecting" /\ ejPc' = [ejPc EXCEPT ![Self] = "flag"]
           \/ run' = "idle" /\ ejPc' = ejPc
    BY DEF ProbeMissed, connVars
  <1>2. /\ DOMAIN ejPc' = Agent /\ ejPc[Self] = "none" /\ (run' # "ejecting" => ejPc'[Self] = "none")
        /\ \A k \in Caller : ejPc'[k] = ejPc[k]
        /\ MidEject' <=> MidEject
        /\ NoStamp' <=> NoStamp
    <2>1. CASE run' = "ejecting" /\ ejPc' = [ejPc EXCEPT ![Self] = "flag"]
      BY <1>1, <2>1, SelfEjects
    <2>2. CASE run' = "idle" /\ ejPc' = ejPc
      BY <1>1, <2>2 DEF IInv, Types, OwnTurn, MidEject, NoStamp
    <2> QED
      BY <1>1, <2>1, <2>2
  <1>3. 0 \in Nat /\ 0 <= 0
    BY SMT
  <1>4. Types' /\ OwnTurn'
    BY <1>1, <1>2, <1>3 DEF IInv, Types, OwnTurn
  <1>5. Fresh'
    BY <1>1, <1>2 DEF IInv, Fresh
  <1>6. Counted'
    <2>1. fromRecovery /\ ~placed => counts >= 1
      BY <1>1, <1>2 DEF IInv, Counted
    <2> QED
      BY <1>1, <1>2, <2>1 DEF IInv, Counted
  <1>7. Waits' /\ Leaving'
    BY <1>1, <1>2 DEF IInv, Waits, Leaving
  <1>8. Probes'
    BY <1>1, <1>3 DEF IInv, Probes
  <1> QED
    BY <1>4, <1>5, <1>6, <1>7, <1>8 DEF IInv

\* The poll gives its verdict, and a recovery that fails is dropped.
LEMMA JudgeKeeps ==
  ASSUME IInv, JudgeOk \/ JudgeUnresponsive \/ recoverFails
  PROVE  IInv'
  <1>1. /\ UNCHANGED <<reachable, reconciled, daemonFailed, fromRecovery, waited, goodProbes, lastSeen,
                       ejPc, placed, out, answers, counts>>
        /\ run \in {"judging", "recovering"} /\ run' \in {"idle", "recovering"}
        /\ run' = "recovering" => reachable # "ok"
    BY DEF JudgeOk, JudgeUnresponsive, recoverFails, connVars, pollVars, stayVars
  <1>2. ejections' \in Nat
    <2>1. ejections' = ejections \/ ejections' = IF ejections > 0 THEN ejections - 1 ELSE 0
      BY DEF JudgeOk, JudgeUnresponsive, recoverFails, connVars
    <2> QED
      BY SMT, <2>1 DEF IInv, Types
  <1>3. Types' /\ OwnTurn' /\ Fresh'
    BY <1>1, <1>2 DEF IInv, Types, OwnTurn, Fresh
  <1>4. Counted'
    BY <1>1 DEF IInv, Counted, MidEject
  <1>5. Waits' /\ Probes' /\ Leaving'
    BY <1>1 DEF IInv, NoStamp, Waits, Probes, Leaving
  <1> QED
    BY <1>3, <1>4, <1>5 DEF IInv

\* A conn as newWorkerConn makes it.
LEMMA NewConnHolds ==
  ASSUME ejections \in Nat, reachable = "unresponsive", ~reconciled, ~daemonFailed, waited = 0,
         run = "reconciling", goodProbes = 0, lastSeen = "unresponsive",
         ejPc = [a \in Agent |-> "none"], ~placed, out = 0, answers = 0, counts = 0
  PROVE  IInv
  <1>1. 0 \in Nat /\ 0 <= 0
    BY SMT
  <1>2. DOMAIN ejPc = Agent /\ \A a \in Agent : ejPc[a] = "none"
    OBVIOUS
  <1>3. Types /\ OwnTurn /\ Fresh
    BY <1>1, <1>2, Agents DEF Types, OwnTurn, Fresh
  <1>4. Counted /\ Waits /\ Probes /\ Leaving
    BY <1>1 DEF Counted, Waits, Probes, Leaving
  <1> QED
    BY <1>3, <1>4 DEF IInv

\* A fresh connection, after the step.
LEMMA NewConnHoldsNext ==
  (ejections \in Nat /\ reachable = "unresponsive" /\ ~reconciled /\ ~daemonFailed /\ waited = 0
   /\ run = "reconciling" /\ goodProbes = 0 /\ lastSeen = "unresponsive"
   /\ ejPc = [a \in Agent |-> "none"] /\ ~placed /\ out = 0 /\ answers = 0 /\ counts = 0 => IInv)'
  BY NewConnHolds, PTL

\* The poller's first state.
LEMMA InitHolds == Init => IInv
  <1>1. 0 \in Nat
    BY SMT
  <1> QED
    BY <1>1, NewConnHolds DEF Init

\* A recovery replaces the connection.
LEMMA RecoverKeeps ==
  ASSUME IInv, recoverWorker
  PROVE  IInv'
  BY NewConnHoldsNext DEF IInv, Types, recoverWorker, newWorkerConn

-----------------------------------------------------------------------------
(* The calls, the clock and the box.                                       *)

\* A call fails.
LEMMA CallFailsKeeps ==
  ASSUME IInv, NEW k \in Caller, CallFails(k)
  PROVE  IInv'
  <1>1. Moves(k, "flag") /\ ejPc[k] = "none" /\ reconciled
    BY MovesOne, Agents DEF IInv, Types, CallFails
  <1>2. UNCHANGED <<reachable, reconciled, daemonFailed, fromRecovery, ejections, waited, run,
                    goodProbes, lastSeen, placed, out, answers, counts>>
    BY DEF CallFails, connVars, pollVars, stayVars
  <1>3. ejPc'[Self] = ejPc[Self]
    BY <1>1, Agents DEF Moves
  <1>4. (MidEject => MidEject') /\ (NoStamp' => NoStamp)
    BY <1>1, Agents DEF MidEject, NoStamp, Moves
  <1>5. Types' /\ OwnTurn' /\ Fresh'
    BY <1>1, <1>2, <1>3 DEF IInv, Types, OwnTurn, Fresh, Moves
  <1>6. Counted'
    BY <1>2, <1>3, <1>4 DEF IInv, Counted
  <1>7. Waits' /\ Probes' /\ Leaving'
    BY <1>2, <1>4 DEF IInv, Waits, Probes, Leaving
  <1> QED
    BY <1>5, <1>6, <1>7 DEF IInv

\* The wait and the stay pass together, and not under a probe.
LEMMA TickKeeps ==
  ASSUME IInv, Tick
  PROVE  IInv'
  <1>1. /\ UNCHANGED <<reachable, reconciled, daemonFailed, fromRecovery, ejections, run, goodProbes,
                       lastSeen, ejPc, placed, answers, counts>>
        /\ run \notin {"probing", "judging"}
    BY DEF Tick, pollVars
  <1>2. waited' \in Nat /\ out' \in Nat /\ (waited <= out => waited' <= out')
    <2>1. waited + 1 \in Nat /\ out + 1 \in Nat /\ BackoffMax \in Nat
      BY SMT, PollerAssumption DEF IInv, Types
    <2>2. /\ waited' = IF waited + 1 <= BackoffMax THEN waited + 1 ELSE BackoffMax
          /\ out' = IF out + 1 <= BackoffMax THEN out + 1 ELSE BackoffMax
      BY <2>1, CappedIs DEF Tick
    <2> QED
      BY SMT, <2>1, <2>2 DEF IInv, Types
  <1>3. Types' /\ OwnTurn' /\ Fresh'
    BY <1>1, <1>2 DEF IInv, Types, OwnTurn, Fresh
  <1>4. Counted'
    BY <1>1 DEF IInv, Counted, MidEject
  <1>5. Waits' /\ Probes' /\ Leaving'
    BY <1>1, <1>2 DEF IInv, NoStamp, Waits, Probes, Leaving
  <1> QED
    BY <1>3, <1>4, <1>5 DEF IInv

\* The steps that leave the poller alone.
LEMMA RestKeeps ==
  ASSUME IInv, deepProbeInterval \/ DaemonChanges \/ UNCHANGED vars
  PROVE  IInv'
  <1>1. UNCHANGED <<reachable, reconciled, daemonFailed, fromRecovery, ejections, waited, run,
                    goodProbes, lastSeen, ejPc, placed, out, answers, counts>>
    BY DEF deepProbeInterval, DaemonChanges, vars, connVars, pollVars, stayVars
  <1>2. Types' /\ OwnTurn' /\ Fresh'
    BY <1>1 DEF IInv, Types, OwnTurn, Fresh
  <1>3. Counted'
    BY <1>1 DEF IInv, Counted, MidEject
  <1>4. Waits' /\ Probes' /\ Leaving'
    BY <1>1 DEF IInv, NoStamp, Waits, Probes, Leaving
  <1> QED
    BY <1>2, <1>3, <1>4 DEF IInv

\* Every step keeps the invariant.
LEMMA NextKeeps == IInv /\ [Next]_vars => IInv'
  <1> SUFFICES ASSUME IInv, [Next]_vars
               PROVE  IInv'
    OBVIOUS
  <1>1. CASE \E a \in Agent : Eject(a)
    BY <1>1, EjectFlagKeeps, EjectMoveKeeps, EjectMootKeeps, EjectStampKeeps, EjectCountKeeps DEF Eject
  <1>2. CASE Runner
    BY <1>2, ReconcileReadyKeeps, ReconcileEjectedKeeps, AdmitKeeps, ProbeStartKeeps,
       ProbeAnsweredKeeps, ProbeMissedKeeps, JudgeKeeps DEF Runner
  <1>3. CASE recoverWorker \/ recoverFails \/ Tick
    BY <1>3, RecoverKeeps, JudgeKeeps, TickKeeps
  <1>4. CASE \E k \in Caller : CallFails(k)
    BY <1>4, CallFailsKeeps
  <1>5. CASE deepProbeInterval \/ DaemonChanges \/ UNCHANGED vars
    BY <1>5, RestKeeps
  <1> QED
    BY <1>1, <1>2, <1>3, <1>4, <1>5 DEF Next

-----------------------------------------------------------------------------
\* The inductive invariant holds in every reachable state of a worker's health.
THEOREM PollerInductive == Spec => []IInv
  BY InitHolds, NextKeeps, PTL DEF Spec

\* Whatever the thresholds and however many control calls eject the worker, at whatever
\* moments, a stay that ends in a recovery has been counted (eject, recoverWorker): on
\* a placed conn by the eject that moved it, on one a recovery made by the first.
THEOREM StayIsCounted == Spec => []EscalationKept
  <1>1. IInv => EscalationKept
    <2> SUFFICES ASSUME IInv, run = "recovering", placed \/ fromRecovery, \A a \in Agent : ejPc[a] = "none"
                 PROVE  counts >= 1
      BY DEF EscalationKept
    <2>1. ~MidEject /\ ejPc[Self] = "none"
      BY Agents DEF MidEject
    <2>2. reachable # "ok"
      BY DEF IInv, Leaving
    <2> QED
      BY <2>1, <2>2 DEF IInv, Counted
  <1> QED
    BY <1>1, PollerInductive, PTL

\* The poller decides for a recovery.
LEMMA DecisionIsEarned ==
  ASSUME IInv, [Next]_vars, run # "recovering", run' = "recovering"
  PROVE  MidEject \/ Earned
  <1>1. JudgeUnresponsive
    <2>1. ASSUME NEW a \in Agent PROVE ~Eject(a)
      BY DEF Eject, EjectFlag, EjectMove, EjectMoot, EjectStamp, EjectCount, EjectReturns
    <2>2. ~(ReconcileReady \/ ReconcileEjected \/ Admit \/ ProbeStart \/ ProbeAnswered \/ JudgeOk)
      BY DEF ReconcileReady, ReconcileEjected, Admit, ProbeStart, ProbeAnswered, JudgeOk
    <2>3. ~(ProbeMissed \/ recoverWorker \/ recoverFails \/ \E k \in Caller : CallFails(k))
      BY DEF ProbeMissed, recoverWorker, recoverFails, CallFails
    <2>4. ~(Tick \/ deepProbeInterval \/ DaemonChanges \/ UNCHANGED vars)
      BY DEF Tick, deepProbeInterval, DaemonChanges, vars
    <2> QED
      BY <2>1, <2>2, <2>3, <2>4 DEF Next, Runner
  <1>2. /\ run = "judging" /\ reachable # "ok"
        /\ goodProbes >= healthyThreshold /\ waited >= recoverBackoffFor
    BY <1>1 DEF JudgeUnresponsive, readyToRecover
  <1>3. recoverBackoffFor \in Nat /\ recoverBackoffFor >= 1 /\ healthyThreshold \in Nat
    BY BackoffPositive, PollerAssumption DEF IInv, Types
  <1> SUFFICES ASSUME ~MidEject
               PROVE  Earned
    OBVIOUS
  <1>4. NoStamp
    BY DEF MidEject, NoStamp
  <1>5. waited <= out
    BY <1>2, <1>4 DEF IInv, Waits
  <1>6. lastSeen # "ok"
    <2>1. waited # 0
      BY SMT, <1>2, <1>3
    <2> QED
      BY <1>2, <1>4, <2>1 DEF IInv, Waits
  <1>7. goodProbes <= answers
    BY <1>6 DEF IInv, Probes
  <1>8. waited \in Nat /\ out \in Nat /\ goodProbes \in Nat /\ answers \in Nat
    BY DEF IInv, Types
  <1> HIDE DEF recoverBackoffFor
  <1> QED
    BY SMT, <1>2, <1>3, <1>5, <1>7, <1>8 DEF Earned

\* Whatever the thresholds and whoever ejected the worker, the poller decides for a
\* recovery only after the backoff and with a run of answered probes that are all of
\* this stay (readyToRecover, and the reset of goodProbes at the start of a probe).
THEOREM RecoveriesEarned == Spec => RecoveryIsEarned
  <1>1. IInv /\ [Next]_vars => [run # "recovering" /\ run' = "recovering" => MidEject \/ Earned]_vars
    BY DecisionIsEarned
  <1> QED
    BY <1>1, PollerInductive, PTL DEF Spec, RecoveryIsEarned
=============================================================================
