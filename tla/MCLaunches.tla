----------------------------- MODULE MCLaunches -----------------------------
(***************************************************************************)
(* What happens to launches on a worker and what is measured of them: the  *)
(* slots, with two jobs (a requested and a rebuild's, launches or          *)
(* teardowns, or two requested launches); the exporter of samples; and,    *)
(* over every history of a bounded length, the ring of recent launches and *)
(* the count of stalls.  The four share no step; `which' is chosen once.   *)
(***************************************************************************)
EXTENDS LaunchQueue, LaunchMetrics, LaunchStats, Stalls

CONSTANTS
    j1, j2,
    MaxLaunches, MaxTimeouts,       \* bounds: the length of a history
    Durations, MaxTime              \* of launches, 0 for one that failed; of timeouts

VARIABLES which, history

allVars == <<vars, metricsVars, stallVars, which, history>>

MCKinds ==
    {j1 :> <<p, "request">> @@ j2 :> <<p, "rebuild">> : p \in {"launch", "teardown"}}
        \cup {[j \in Job |-> <<"launch", "request">>]}

\* The worker's first conn has launched before, any later one has not; the jobs begin
\* in one way where they take no step.
MCInit ==
    /\ which \in {"queue", "export", "ring", "stalls"}
    /\ Init /\ MetricsInit /\ StallsInit /\ history = <<>>
    /\ holdNanos[1] # 0
    /\ which # "queue" => kind = (CHOOSE k \in Kinds : TRUE)

Slotted == which = "queue" /\ Next /\ UNCHANGED <<metricsVars, stallVars, which, history>>

Exported == which = "export" /\ MetricsNext /\ UNCHANGED <<vars, stallVars, which, history>>

LaunchEnds ==
    /\ which = "ring" /\ Len(history) < MaxLaunches
    /\ \E d \in Durations : history' = Append(history, d)
    /\ UNCHANGED <<vars, metricsVars, stallVars, which>>

Stalled ==
    /\ which = "stalls" /\ Len(times) < MaxTimeouts
    /\ \E now \in 0..MaxTime : CallTimesOut(now)
    /\ UNCHANGED <<vars, metricsVars, which, history>>

MCNext == Slotted \/ Exported \/ LaunchEnds \/ Stalled

MCSpec == MCInit /\ [][MCNext]_allVars /\ \A j \in Job : WF_vars(which = "queue" /\ JobStep(j))

-----------------------------------------------------------------------------
\* However far the ring has wrapped and whichever launches failed, worker-list shows
\* the counts of all launches and the quantiles of the latest successful ones
\* (launchRing.add, quantileIndex and stats).
RingIsRecent == which = "ring" => stats(RingOf(history)) = StatsOf(history)
=============================================================================
