------------------------------- MODULE Poller -------------------------------
(***************************************************************************)
(* One worker's health over its whole life (cork/workers.go): the probe    *)
(* loop of pollWorker with its misses, its run of good probes and its deep *)
(* probe; eject and the count of ejections it keeps; readyToRecover with   *)
(* the backoff that count buys; and recoverWorker, which hands the count   *)
(* to a fresh conn.                                                        *)
(*                                                                         *)
(* The variables describe the conn the worker has now.  A control call     *)
(* that is inside eject when the conn is replaced goes on with the old     *)
(* one, which nobody reads any more: it is dropped here.  Taking a worker  *)
(* down, removing it and adding it again are in module WorkerConns, the    *)
(* load axis of the probe is in module Placement.                          *)
(*                                                                         *)
(* Time is counted in units of recoverBackoff.                             *)
(***************************************************************************)
EXTENDS Naturals, FiniteSetsExt

CONSTANTS
    Caller,             \* goroutines whose control calls can fail
    Self,               \* the worker's own goroutine
    maxMisses,          \* failed probes in a row that eject
    healthyThreshold,   \* answered probes in a row that a recovery takes
    BackoffMax,         \* recoverBackoffMax, in units of recoverBackoff
    MaxEjections        \* bound: the count of ejections saturates here

ASSUME PollerAssumption ==
    /\ Self \notin Caller
    /\ {maxMisses, healthyThreshold, BackoffMax} \subseteq Nat \ {0}
    /\ MaxEjections \in Nat /\ MaxEjections > BackoffMax

VARIABLES
    daemon,         \* the worker's dockerd (environment)
    \* the fields of the conn
    reachable, reconciled, daemonFailed, fromRecovery, ejections,
    waited,         \* time since `since`, as far as it matters
    run,            \* where the conn's own goroutine is
    \* pollWorker's locals
    misses, goodProbes, lastSeen,
    deep,           \* deepWedged, or whether deepProbeInterval has passed since lastDeep
    ejPc,           \* inside eject: at the swap of daemonFailed, at setReachable having
                    \* won that swap or not, at the store of since, at the count
    \* history, of the present stay out of placement
    placed,         \* the conn has been in placement
    out,            \* how long it has lasted
    answers,        \* probes begun in it and answered, in a row
    counts          \* how often it was counted as an ejection

connVars == <<reachable, reconciled, daemonFailed, fromRecovery, ejections, waited>>
pollVars == <<misses, goodProbes, lastSeen, deep>>
stayVars == <<placed, out, answers, counts>>
vars == <<daemon, connVars, run, pollVars, ejPc, stayVars>>

Agent == Caller \cup {Self}

\* A wedged daemon answers /_ping and cannot list containers.
DaemonState == {"up", "wedged", "dead"}

Capped(n, bound) == Min({n, bound})

-----------------------------------------------------------------------------
\* newWorkerConn, and the locals of the pollWorker it will run.
newWorkerConn ==
    /\ reachable' = "unresponsive"
    /\ reconciled' = FALSE /\ daemonFailed' = FALSE
    /\ waited' = 0
    /\ run' = "reconciling"
    /\ misses' = 0 /\ goodProbes' = 0 /\ lastSeen' = "unresponsive" /\ deep' = "due"
    /\ ejPc' = [a \in Agent |-> "none"]
    /\ placed' = FALSE /\ out' = 0 /\ answers' = 0 /\ counts' = 0

\* A worker-add, or the start of corkd.
Init ==
    /\ daemon = "up"
    /\ reachable = "unresponsive"
    /\ reconciled = FALSE /\ daemonFailed = FALSE
    /\ fromRecovery = FALSE
    /\ ejections = 0
    /\ waited = 0
    /\ run = "reconciling"
    /\ misses = 0 /\ goodProbes = 0 /\ lastSeen = "unresponsive" /\ deep = "due"
    /\ ejPc = [a \in Agent |-> "none"]
    /\ placed = FALSE /\ out = 0 /\ answers = 0 /\ counts = 0

-----------------------------------------------------------------------------
(* eject.                                                                  *)

\* first := daemonFailed.CompareAndSwap(false, true)
EjectFlag(a) ==
    /\ ejPc[a] = "flag"
    /\ daemonFailed' = TRUE
    /\ ejPc' = [ejPc EXCEPT ![a] = IF daemonFailed THEN "cas" ELSE "casFirst"]
    /\ UNCHANGED <<daemon, reachable, reconciled, fromRecovery, ejections, waited,
                   run, pollVars, stayVars>>

\* setReachable, up to its CompareAndSwap.
EjectMove(a) ==
    /\ ejPc[a] \in {"casFirst", "cas"}
    /\ reachable = "ok"
    /\ reachable' = "unresponsive"
    /\ ejPc' = [ejPc EXCEPT ![a] = "stamp"]
    /\ out' = 0 /\ answers' = 0 /\ counts' = 0
    /\ UNCHANGED <<daemon, reconciled, daemonFailed, fromRecovery, ejections,
                   waited, run, pollVars, placed>>

\* The goroutine goes on: the poller reads what it has just made of the worker.
EjectReturns(a) ==
    /\ ejPc' = [ejPc EXCEPT ![a] = "none"]
    /\ run' = IF a = Self THEN "idle" ELSE run
    /\ lastSeen' = IF a = Self THEN reachable ELSE lastSeen

\* Mutant: only a transition is counted.
EjectMootNotCounted(a) ==
    /\ ejPc[a] \in {"casFirst", "cas"}
    /\ reachable # "ok"
    /\ EjectReturns(a)
    /\ UNCHANGED <<daemon, connVars, misses, goodProbes, deep, stayVars>>

\* No transition.  On a conn made by a recovery, the first eject is counted all
\* the same.
EjectMoot(a) ==
    /\ ejPc[a] \in {"casFirst", "cas"}
    /\ reachable # "ok"
    /\ IF ejPc[a] = "casFirst" /\ fromRecovery
       THEN /\ ejPc' = [ejPc EXCEPT ![a] = "count"]
            /\ UNCHANGED <<run, lastSeen>>
       ELSE EjectReturns(a)
    /\ UNCHANGED <<daemon, connVars, misses, goodProbes, deep, stayVars>>

\* Mutant: the wait is not measured from this transition.
EjectStampMissing(a) ==
    /\ ejPc[a] = "stamp"
    /\ ejPc' = [ejPc EXCEPT ![a] = "count"]
    /\ UNCHANGED <<daemon, connVars, run, pollVars, stayVars>>

\* since.Store(now)
EjectStamp(a) ==
    /\ ejPc[a] = "stamp"
    /\ waited' = 0
    /\ ejPc' = [ejPc EXCEPT ![a] = "count"]
    /\ UNCHANGED <<daemon, reachable, reconciled, daemonFailed, fromRecovery,
                   ejections, run, pollVars, stayVars>>

\* ejections.Add(1)
EjectCount(a) ==
    /\ ejPc[a] = "count"
    /\ ejections' = Capped(ejections + 1, MaxEjections)
    /\ counts' = Capped(counts + 1, 2)
    /\ EjectReturns(a)
    /\ UNCHANGED <<daemon, reachable, reconciled, daemonFailed, fromRecovery, waited,
                   misses, goodProbes, deep, placed, out, answers>>

-----------------------------------------------------------------------------
(* runWorker and pollWorker.                                               *)

\* The reconcile pass is over, or has run out its budget: a wedged daemon does
\* not list its containers, so the pass does not reach it.
ReconcileReady ==
    /\ run = "reconciling"
    /\ daemon = "up"
    /\ reconciled' = TRUE
    /\ run' = "admitting"
    /\ UNCHANGED <<daemon, reachable, daemonFailed, fromRecovery, ejections, waited,
                   pollVars, ejPc, stayVars>>

ReconcileEjected ==
    /\ run = "reconciling"
    /\ daemon # "up"
    /\ run' = "ejecting"
    /\ ejPc' = [ejPc EXCEPT ![Self] = "flag"]
    /\ UNCHANGED <<daemon, connVars, pollVars, stayVars>>

\* setReachable(w, workerReachableOk), then the start of pollWorker.
Admit ==
    /\ run = "admitting"
    /\ reachable' = "ok" /\ lastSeen' = "ok"
    /\ waited' = 0
    /\ run' = "idle"
    /\ placed' = TRUE
    /\ UNCHANGED <<daemon, reconciled, daemonFailed, fromRecovery, ejections,
                   misses, goodProbes, deep, ejPc, out, answers, counts>>

\* Mutant: an unresponsive worker loses its run of good probes at every probe.
ProbeStartForgets ==
    /\ run = "idle"
    /\ goodProbes' = IF reachable # "ok" THEN 0 ELSE goodProbes
    /\ lastSeen' = reachable
    /\ run' = "probing"
    /\ UNCHANGED <<daemon, connVars, misses, deep, ejPc, stayVars>>

\* probe(), on a tick or because a control call asked for it: it notices an
\* ejection made under it.
ProbeStart ==
    /\ run = "idle"
    /\ goodProbes' = IF reachable # lastSeen /\ reachable # "ok" THEN 0 ELSE goodProbes
    /\ lastSeen' = reachable
    /\ run' = "probing"
    /\ UNCHANGED <<daemon, connVars, misses, deep, ejPc, stayVars>>

\* Mutant: a suspicion waits for the next deep probe's turn.
DeepProbedOnItsTurn == daemon # "dead" /\ deep = "due"

\* The ping, and, if it is answered and the deep probe is due or the last one
\* failed, the listing.
DeepProbed == daemon # "dead" /\ deep \in {"due", "wedged"}
Answered == daemon # "dead" /\ (DeepProbed => daemon = "up")

ProbeAnswered ==
    /\ run = "probing"
    /\ Answered
    /\ deep' = IF DeepProbed THEN "rested" ELSE deep
    /\ misses' = 0
    /\ goodProbes' = Capped(goodProbes + 1, healthyThreshold)
    /\ answers' = IF lastSeen # "ok" THEN Capped(answers + 1, healthyThreshold)
                  ELSE answers
    /\ run' = "judging"
    /\ UNCHANGED <<daemon, connVars, lastSeen, ejPc, placed, out, counts>>

\* A miss; enough of them eject.
ProbeMissed ==
    /\ run = "probing"
    /\ ~Answered
    /\ deep' = IF DeepProbed THEN "wedged" ELSE deep
    /\ misses' = Capped(misses + 1, maxMisses)
    /\ goodProbes' = 0 /\ answers' = 0
    /\ IF misses' = maxMisses
       THEN run' = "ejecting" /\ ejPc' = [ejPc EXCEPT ![Self] = "flag"]
       ELSE run' = "idle" /\ ejPc' = ejPc
    /\ UNCHANGED <<daemon, connVars, lastSeen, placed, out, counts>>

\* The steady state; ejectionDecay having passed, one ejection is forgiven.
JudgeOk ==
    /\ run = "judging"
    /\ reachable = "ok"
    /\ run' = "idle"
    /\ ejections' \in {ejections, IF ejections > 0 THEN ejections - 1 ELSE 0}
    /\ UNCHANGED <<daemon, reachable, reconciled, daemonFailed, fromRecovery, waited,
                   pollVars, ejPc, stayVars>>

\* recoverBackoffFor and readyToRecover.
recoverBackoffFor == Min({Max({ejections, 1}), BackoffMax})
readyToRecover == goodProbes >= healthyThreshold /\ waited >= recoverBackoffFor

JudgeUnresponsive ==
    /\ run = "judging"
    /\ reachable # "ok"
    /\ run' = IF readyToRecover THEN "recovering" ELSE "idle"
    /\ UNCHANGED <<daemon, connVars, pollVars, ejPc, stayVars>>

\* recoverWorker: a fresh conn that inherits the count, or a client that could
\* not be built.
recoverWorker ==
    /\ run = "recovering"
    /\ newWorkerConn
    /\ fromRecovery' = TRUE
    /\ UNCHANGED <<daemon, ejections>>

recoverFails ==
    /\ run = "recovering"
    /\ run' = "idle"
    /\ UNCHANGED <<daemon, connVars, pollVars, ejPc, stayVars>>

-----------------------------------------------------------------------------
(* The calls, the clock and the box.                                       *)

\* noteWorkerTransportError, on this conn: refused, or timed out and settled
\* by a ping that is not answered or by the stalls of a wedged daemon.
CallFails(k) ==
    /\ ejPc[k] = "none"
    /\ reconciled
    /\ daemon # "up"
    /\ ejPc' = [ejPc EXCEPT ![k] = "flag"]
    /\ UNCHANGED <<daemon, connVars, run, pollVars, stayVars>>

\* A unit of recoverBackoff passes.  A probe is shorter than that (a second for
\* the ping, one for the listing, a quarter for telemetry, against ten).
Tick ==
    /\ run \notin {"probing", "judging"}
    /\ waited < BackoffMax \/ out < BackoffMax
    /\ waited' = Capped(waited + 1, BackoffMax)
    /\ out' = Capped(out + 1, BackoffMax)
    /\ UNCHANGED <<daemon, reachable, reconciled, daemonFailed, fromRecovery,
                   ejections, run, pollVars, ejPc, placed, answers, counts>>

deepProbeInterval ==
    /\ deep = "rested"
    /\ deep' = "due"
    /\ UNCHANGED <<daemon, connVars, run, misses, goodProbes, lastSeen, ejPc, stayVars>>

DaemonChanges ==
    /\ daemon' \in DaemonState \ {daemon}
    /\ UNCHANGED <<connVars, run, pollVars, ejPc, stayVars>>

-----------------------------------------------------------------------------
Eject(a) ==
    EjectFlag(a) \/ EjectMove(a) \/ EjectMoot(a) \/ EjectStamp(a) \/ EjectCount(a)

Runner ==
    \/ ReconcileReady \/ ReconcileEjected \/ Admit
    \/ ProbeStart \/ ProbeAnswered \/ ProbeMissed \/ JudgeOk \/ JudgeUnresponsive

Next ==
    \/ \E a \in Agent : Eject(a)
    \/ Runner \/ recoverWorker \/ recoverFails
    \/ \E k \in Caller : CallFails(k)
    \/ Tick \/ deepProbeInterval \/ DaemonChanges

Spec == Init /\ [][Next]_vars

\* Goroutines that can run do, time passes (in the gaps between probes), and the
\* client is not impossible to build for ever.
Fairness ==
    /\ \A a \in Agent : WF_vars(Eject(a))
    /\ WF_vars(Runner)
    /\ SF_vars(recoverWorker)
    /\ SF_vars(Tick)
    /\ WF_vars(deepProbeInterval)

FairSpec == Spec /\ Fairness

-----------------------------------------------------------------------------
(* Properties.                                                             *)

\* setReachable has taken the worker out and eject has not returned yet.
MidEject == \E a \in Agent : ejPc[a] \in {"stamp", "count"}

\* The worker has been out for the backoff that its ejections buy and has
\* answered healthyThreshold probes in a row, all since it left placement.
Earned == out >= recoverBackoffFor /\ answers >= healthyThreshold

\* No conn is rebuilt before it is due, whoever ejected the worker: once the
\* eject that took it out has returned, the poller decides for a recovery only
\* when it is earned (readyToRecover's comment: a control call's ejection must
\* not skip the backoff).
RecoveryIsEarned ==
    [][run # "recovering" /\ run' = "recovering" => MidEject \/ Earned]_vars

\* A stay out of placement that ends in a recovery, after placement or after a
\* recovery that failed, has been counted: the next wait is longer.
EscalationKept ==
    run = "recovering" /\ (placed \/ fromRecovery) /\ (\A a \in Agent : ejPc[a] = "none")
        => counts >= 1

\* A worker whose daemon stays up is back in placement in the end, and stays.
Recovers == <>[](daemon = "up") => <>[](reachable = "ok")

\* A worker whose daemon never does its work again, whether it is dead, wedged
\* or now one and now the other, leaves placement for good.
Leaves == <>[](daemon # "up") => <>[](reachable # "ok")

=============================================================================
