----------------------------- MODULE Placement -----------------------------
(***************************************************************************)
(* Placement over the fleet (cork/workers.go): selectWorker's round robin  *)
(* over workerOrder while workers are added and removed, and the load axis *)
(* the probe keeps from telemetry.  What makes a conn move along its       *)
(* stages is the subject of modules Poller and WorkerConns; here it moves  *)
(* whenever it may.                                                        *)
(***************************************************************************)
EXTENDS Naturals, Sequences, FiniteSets

CONSTANTS
    Worker,
    NoWorker,
    loadMissesToUnknown,    \* timing.loadMisses
    MaxRemovals             \* bound: worker-removes

ASSUME PlacementAssumption ==
    /\ NoWorker \notin Worker
    /\ {"overloaded", "unresponsive", "down"} \cap (Worker \cup {NoWorker}) = {}
    /\ loadMissesToUnknown \in Nat \ {0} /\ MaxRemovals \in Nat /\ IsFiniteSet(Worker)

VARIABLES
    workerOrder, rrCursor,
    stage,          \* where the worker's conn stands: its joining pass runs, it is
                    \* in placement, ejected, or taken down by an operator
    load,           \* the load axis
    loadMisses,     \* pollWorker's count, per worker
    picked,         \* the worker the last selection returned, or the error
    removals,       \* worker-removes so far
    \* history
    passed,         \* selections in a row that passed a placeable worker over
    unheard         \* probes since the agent last answered, up to the threshold

placementVars == <<workerOrder, rrCursor, stage, load, loadMisses, picked, removals, passed,
                   unheard>>

Order == {workerOrder[i] : i \in DOMAIN workerOrder}
Error == {"overloaded", "unresponsive", "down"}

\* A round of the others, and one more for every removal.
MaxPassed == (Cardinality(Worker) - 1) * (1 + MaxRemovals)

\* One more, up to a cap.
UpTo(n, cap) == IF n < cap THEN n + 1 ELSE cap

PlacementInit ==
    /\ workerOrder = <<>> /\ rrCursor = 0
    /\ stage = [w \in Worker |-> "joining"]
    /\ load = [w \in Worker |-> "unknown"]
    /\ loadMisses = [w \in Worker |-> 0]
    /\ picked = NoWorker
    /\ removals = 0
    /\ passed = [w \in Worker |-> 0]
    /\ unheard = [w \in Worker |-> loadMissesToUnknown]

\* The reachable axis is "ok" or "down" in the stage of that name.
placeable(w) == stage[w] = "ok" /\ load[w] # "overloaded"

\* A conn is unresponsive until its joining pass is through, and once it is ejected.
unresponsive(w) == stage[w] \in {"joining", "ejected"}

-----------------------------------------------------------------------------
\* The places of the order, from the cursor on and around.
Turn(i) == 1 + ((rrCursor + i) % Len(workerOrder))
Turns == 0..Len(workerOrder) - 1

\* What a selection that finds nobody says: the state a worker is most likely to
\* leave by itself first.
Exhausted ==
    IF \E w \in Order : stage[w] = "ok" THEN "overloaded"
    ELSE IF \E w \in Order : unresponsive(w) THEN "unresponsive"
    ELSE "down"

\* Those that could have been picked, and were not, were passed over.
PassOver(w) ==
    passed' = [v \in Worker |-> IF v \in Order /\ placeable(v) /\ v # w
                                THEN UpTo(passed[v], MaxPassed + 1) ELSE 0]

\* Mutant: the search starts at the first worker every time.
selectWorkerFromFirst ==
    /\ workerOrder # <<>>
    /\ LET free == {i \in Turns : placeable(workerOrder[1 + i])}
       IN  IF free = {} THEN picked' = Exhausted /\ UNCHANGED <<rrCursor, passed>>
           ELSE \E i \in free :
                    /\ \A j \in free : i <= j
                    /\ picked' = workerOrder[1 + i]
                    /\ rrCursor' = (i + 1) % Len(workerOrder)
                    /\ PassOver(picked')
    /\ UNCHANGED <<workerOrder, stage, load, loadMisses, removals, unheard>>

\* Mutant: the loop stops one short of the worker before the cursor.
selectWorkerShort ==
    /\ workerOrder # <<>>
    /\ LET free == {i \in Turns \ {Len(workerOrder) - 1} : placeable(workerOrder[Turn(i)])}
       IN  IF free = {} THEN picked' = Exhausted /\ UNCHANGED <<rrCursor, passed>>
           ELSE \E i \in free :
                    /\ \A j \in free : i <= j
                    /\ picked' = workerOrder[Turn(i)]
                    /\ rrCursor' = Turn(i) % Len(workerOrder)
                    /\ PassOver(picked')
    /\ UNCHANGED <<workerOrder, stage, load, loadMisses, removals, unheard>>

selectWorker ==
    /\ workerOrder # <<>>
    /\ LET free == {i \in Turns : placeable(workerOrder[Turn(i)])}
       IN  IF free = {} THEN picked' = Exhausted /\ UNCHANGED <<rrCursor, passed>>
           ELSE \E i \in free :
                    /\ \A j \in free : i <= j
                    /\ picked' = workerOrder[Turn(i)]
                    /\ rrCursor' = Turn(i) % Len(workerOrder)
                    /\ PassOver(picked')
    /\ UNCHANGED <<workerOrder, stage, load, loadMisses, removals, unheard>>

\* With no worker registered the instance is placed locally.
selectLocal ==
    /\ workerOrder = <<>>
    /\ picked' = NoWorker
    /\ UNCHANGED <<workerOrder, rrCursor, stage, load, loadMisses, removals,
                   passed, unheard>>

-----------------------------------------------------------------------------
\* newWorkerConn: out of placement, its load unknown.
freshConn(w) ==
    /\ stage' = [stage EXCEPT ![w] = "joining"]
    /\ load' = [load EXCEPT ![w] = "unknown"]
    /\ loadMisses' = [loadMisses EXCEPT ![w] = 0]
    /\ unheard' = [unheard EXCEPT ![w] = loadMissesToUnknown]
    /\ passed' = [passed EXCEPT ![w] = 0]

\* A worker that is in the order already keeps its place.
AddWorker(w) ==
    /\ workerOrder' = IF w \in Order THEN workerOrder ELSE Append(workerOrder, w)
    /\ freshConn(w)
    /\ picked' = NoWorker
    /\ UNCHANGED <<rrCursor, removals>>

\* The order without its i-th worker.
Without(o, i) == SubSeq(o, 1, i - 1) \o SubSeq(o, i + 1, Len(o))

\* The cursor stays where it is.
RemoveWorker(w) ==
    /\ w \in Order
    /\ removals < MaxRemovals
    /\ removals' = removals + 1
    /\ \E i \in DOMAIN workerOrder :
          /\ workerOrder[i] = w
          /\ workerOrder' = Without(workerOrder, i)
    /\ freshConn(w)
    /\ picked' = NoWorker
    /\ UNCHANGED <<rrCursor>>

\* Mutant: a blip that follows an answer still adds to the misses before it.
pollTelemetryKeepsMisses(w) ==
    /\ w \in Order /\ stage[w] \in {"ok", "ejected"}
    /\ \/ /\ load' = IF loadMisses[w] + 1 >= loadMissesToUnknown
                     THEN [load EXCEPT ![w] = "unknown"] ELSE load
          /\ loadMisses' = [loadMisses EXCEPT ![w] = UpTo(@, loadMissesToUnknown)]
          /\ unheard' = [unheard EXCEPT ![w] = UpTo(@, loadMissesToUnknown)]
       \/ /\ \E verdict \in {"ok", "overloaded"} : load' = [load EXCEPT ![w] = verdict]
          /\ loadMisses' = loadMisses
          /\ unheard' = [unheard EXCEPT ![w] = 0]
    /\ passed' = [passed EXCEPT ![w] = IF load'[w] = "overloaded" THEN 0 ELSE @]
    /\ picked' = NoWorker
    /\ UNCHANGED <<workerOrder, rrCursor, stage, removals>>

\* The load part of a probe: a verdict is kept over a blip, and given up once
\* telemetry has not answered loadMisses times in a row.  A down worker is not
\* probed.  (The count goes on in the code; it is not read past the threshold.)
pollTelemetry(w) ==
    /\ w \in Order /\ stage[w] \in {"ok", "ejected"}
    /\ \/ /\ load' = IF loadMisses[w] + 1 >= loadMissesToUnknown
                     THEN [load EXCEPT ![w] = "unknown"] ELSE load
          /\ loadMisses' = [loadMisses EXCEPT ![w] = UpTo(@, loadMissesToUnknown)]
          /\ unheard' = [unheard EXCEPT ![w] = UpTo(@, loadMissesToUnknown)]
       \/ /\ \E verdict \in {"ok", "overloaded"} : load' = [load EXCEPT ![w] = verdict]
          /\ loadMisses' = [loadMisses EXCEPT ![w] = 0]
          /\ unheard' = [unheard EXCEPT ![w] = 0]
    /\ passed' = [passed EXCEPT ![w] = IF load'[w] = "overloaded" THEN 0 ELSE @]
    /\ picked' = NoWorker
    /\ UNCHANGED <<workerOrder, rrCursor, stage, removals>>

\* runWorker's end of the joining pass, an ejection, and worker-down.
setReachable(w) ==
    /\ w \in Order
    /\ \E to \in (CASE stage[w] = "joining" -> {"ok", "ejected", "down"}
                    [] stage[w] = "ok"      -> {"ejected", "down"}
                    [] stage[w] = "ejected" -> {"down"}
                    [] stage[w] = "down"    -> {}) :
          stage' = [stage EXCEPT ![w] = to]
    /\ passed' = [passed EXCEPT ![w] = 0]
    /\ picked' = NoWorker
    /\ UNCHANGED <<workerOrder, rrCursor, load, loadMisses, removals, unheard>>

\* recoverWorker replaces the conn, load verdict and all; the order is left alone.
Recover(w) ==
    /\ w \in Order /\ stage[w] = "ejected"
    /\ freshConn(w)
    /\ picked' = NoWorker
    /\ UNCHANGED <<workerOrder, rrCursor, removals>>

PlacementNext ==
    \/ selectWorker \/ selectLocal
    \/ \E w \in Worker :
          \/ AddWorker(w) \/ RemoveWorker(w)
          \/ pollTelemetry(w) \/ setReachable(w) \/ Recover(w)

PlacementSpec == PlacementInit /\ [][PlacementNext]_placementVars

-----------------------------------------------------------------------------
(* Properties.                                                             *)

\* No starvation in the round robin: a worker that can be picked all along is
\* passed over by one selection for each of the others at most, and by as many
\* again for each removal, which can move the cursor past it.
TurnsComeRound ==
    \A w \in Order : passed[w] <= (Cardinality(Worker) - 1) * (1 + removals)

\* A selection that fails had nobody to pick, wherever the cursor stood when
\* the order last changed; and every worker being down, the one error that is not
\* retryable, is said only of a fleet no worker of which comes back by itself.
FailsOnlyExhausted ==
    /\ picked \in Error => \A w \in Order : ~placeable(w)
    /\ picked = "down" => \A w \in Order : stage[w] = "down"

\* A load verdict is held exactly as long as the agent has answered one of the
\* last loadMisses probes of this conn: a hot worker is not held out on a verdict
\* from before its agent died, and a blip does not lose one.
VerdictIsFresh ==
    \A w \in Order : load[w] = "unknown" <=> unheard[w] = loadMissesToUnknown
=============================================================================
