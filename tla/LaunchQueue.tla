---------------------------- MODULE LaunchQueue ----------------------------
(***************************************************************************)
(* The slots of a worker's daemon (daemonQueue in cork/workers.go) and the *)
(* jobs that take them (cork/launch.go, teardown in cork/docker.go):       *)
(* admission, the wait for a slot, and what a conn replaced meanwhile does *)
(* to both.  Every conn brings a queue of its own, so a job's queue, the   *)
(* channel it waits on and the conn that is current may all differ.  A job *)
(* ends in a ring (module LaunchRing) and as a sample handed to the        *)
(* exporter (module LaunchMetrics).                                        *)
(***************************************************************************)
EXTENDS FiniteSets, LaunchRing

CONSTANTS
    Job,
    Kinds,              \* what the jobs may be: launch or teardown, requested or a rebuild's
    Slots,              \* CORK_CONCURRENT_LAUNCHES
    slotWait,           \* the bound of a requested launch's wait
    Holds,              \* how long a slot is held
    MaxConns            \* bound: conns of the worker

ASSUME LaunchQueueAssumption ==
    /\ Kinds \subseteq [Job -> {"launch", "teardown"} \X {"request", "rebuild"}]
    /\ Slots \in Nat \ {0} /\ slotWait \in Nat /\ Holds \subseteq Nat \ {0}
    /\ MaxConns \in Nat \ {0} /\ IsFiniteSet(Job)

VARIABLES
    cur,            \* the worker's conn; 0: the worker is not in the map
    made,           \* conns made so far
    out,            \* the conns that failed or were taken down
    sem,            \* slots taken, per pool and queue; queue 0 is the local one
    waiting,        \* waiting and teardownWaiting
    holdNanos,      \* the estimate of a launch slot's hold time, per queue
    kind,
    job,
    ring,           \* launchRing, per queue
    \* history
    stranded,       \* jobs in progress that were in a queue when its conn was replaced
    fit             \* per launch, the conns the worker had since it was over; 0: none

vars == <<cur, made, out, sem, waiting, holdNanos, kind, job, ring, stranded, fit>>

Conn == 1..MaxConns
Queue == 0..MaxConns
Pool == {"launch", "teardown"}
PoolOf(j) == kind[j][1]
Launches == {j \in Job : PoolOf(j) = "launch"}

\* A rebuild's job waits as long as it takes.
Bounded(j) == kind[j][2] = "request"

\* The launches a player waits for.
Counted == {j \in Launches : Bounded(j)}

Idle == [pc |-> "idle", q |-> 0, ch |-> 0, n |-> 0, hold |-> 0, ok |-> TRUE]
InQueue == {"queued", "checked", "select", "taken", "leave", "refused"}
InSlot == {"taken", "leave", "running"}

\* The worker's first conn may have launched before.
Init ==
    /\ cur = 1 /\ made = 1 /\ out = {}
    /\ sem = [p \in Pool |-> [q \in Queue |-> 0]]
    /\ waiting = [p \in Pool |-> [q \in Queue |-> 0]]
    /\ \E h \in Holds \cup {0} : holdNanos = [q \in Queue |-> IF q = 1 THEN h ELSE 0]
    /\ kind \in Kinds
    /\ job = [j \in Job |-> Idle]
    /\ ring = [q \in Queue |-> EmptyRing]
    /\ stranded = {} /\ fit = [j \in Job |-> {}]

workerUnreachable == cur = 0 \/ cur \in out

\* The queue of a worker that is not in the map is the local daemon's.
daemonQueue == cur

At(j, pc) == job[j].pc = pc
Goto(j, pc) == job' = [job EXCEPT ![j].pc = pc]
Fail(j, pc) == job' = [job EXCEPT ![j].pc = pc, ![j].ok = FALSE]

-----------------------------------------------------------------------------
\* Admission of a requested launch: expectedWait loads the hold time and the waiting
\* count, then the slots taken, so a launch moving from one count to the other may
\* be in both.  A launch without a bound on its wait is always admitted.
admitReads(j) ==
    /\ At(j, "idle") /\ j \in Launches
    /\ IF Bounded(j)
       THEN job' = [job EXCEPT ![j].pc = "admit", ![j].q = daemonQueue,
                               ![j].n = waiting["launch"][daemonQueue],
                               ![j].hold = holdNanos[daemonQueue]]
       ELSE Goto(j, "images")
    /\ UNCHANGED <<kind, cur, made, out, sem, waiting, holdNanos, ring, stranded, fit>>

expectedWait(hold, ahead) ==
    IF hold = 0 \/ ahead < Slots THEN 0 ELSE (hold * (ahead - Slots + 1)) \div Slots

\* A refused launch is counted all the same.
admit(j) ==
    /\ At(j, "admit")
    /\ IF expectedWait(job[j].hold, job[j].n + sem["launch"][job[j].q]) <= slotWait
       THEN job' = [job EXCEPT ![j].pc = "images", ![j].n = 0, ![j].hold = 0]
       ELSE Fail(j, "finish")
    /\ UNCHANGED <<kind, cur, made, out, sem, waiting, holdNanos, ring, stranded, fit>>

\* The image stage: refused on an unreachable worker, and a pull may fail or take
\* long enough for the worker to be replaced meanwhile.
ensureImages(j) ==
    /\ At(j, "images")
    /\ IF workerUnreachable THEN Fail(j, "finish")
       ELSE \/ Goto(j, "join")
            \/ Fail(j, "finish")
    /\ UNCHANGED <<kind, cur, made, out, sem, waiting, holdNanos, ring, stranded, fit>>

\* Mutant: the slot is taken on the queue seen when the launch was admitted.
acquireLaunchSlotCaptured(j) ==
    /\ At(j, "join") \/ (At(j, "idle") /\ j \notin Launches)
    /\ LET q == IF job[j].q = 0 THEN daemonQueue ELSE job[j].q
       IN  /\ job' = [job EXCEPT ![j].pc = "queued", ![j].q = q]
           /\ waiting' = [waiting EXCEPT ![PoolOf(j)][q] = @ + 1]
    /\ UNCHANGED <<kind, cur, made, out, sem, holdNanos, ring, stranded, fit>>

\* The job joins the queue of the conn that is current now; a teardown begins here.
acquireLaunchSlot(j) ==
    /\ At(j, "join") \/ (At(j, "idle") /\ j \notin Launches)
    /\ job' = [job EXCEPT ![j].pc = "queued", ![j].q = daemonQueue]
    /\ waiting' = [waiting EXCEPT ![PoolOf(j)][daemonQueue] = @ + 1]
    /\ UNCHANGED <<kind, cur, made, out, sem, holdNanos, ring, stranded, fit>>

\* acquireSlot looks at the worker, and then takes the channel of the conn that is
\* current by then: none for a worker that has gone.
acquireSlot(j) ==
    /\ At(j, "queued")
    /\ IF workerUnreachable THEN Fail(j, "refused") ELSE Goto(j, "checked")
    /\ UNCHANGED <<kind, cur, made, out, sem, waiting, holdNanos, ring, stranded, fit>>

workerUnreachableCh(j) ==
    /\ At(j, "checked")
    /\ job' = [job EXCEPT ![j].pc = "select", ![j].ch = cur]
    /\ UNCHANGED <<kind, cur, made, out, sem, waiting, holdNanos, ring, stranded, fit>>

takesSlot(j) ==
    /\ At(j, "select")
    /\ sem[PoolOf(j)][job[j].q] < Slots
    /\ sem' = [sem EXCEPT ![PoolOf(j)][job[j].q] = @ + 1]
    /\ Goto(j, "taken")
    /\ UNCHANGED <<kind, cur, made, out, waiting, holdNanos, ring, stranded, fit>>

waitEnds(j) ==
    /\ At(j, "select")
    /\ \/ job[j].ch \in out /\ Fail(j, "refused")
       \/ Bounded(j) /\ Fail(j, "refused")
    /\ UNCHANGED <<kind, cur, made, out, sem, waiting, holdNanos, ring, stranded, fit>>

\* The worker may have gone while the job waited: the slot is given back.
recheck(j) ==
    /\ At(j, "taken")
    /\ IF workerUnreachable
       THEN /\ sem' = [sem EXCEPT ![PoolOf(j)][job[j].q] = @ - 1]
            /\ Fail(j, "refused")
       ELSE Goto(j, "leave") /\ UNCHANGED sem
    /\ UNCHANGED <<kind, cur, made, out, waiting, holdNanos, ring, stranded, fit>>

\* Mutant: a refused job stays counted among the waiting.
leaveQueueCounted(j) ==
    /\ job[j].pc \in {"leave", "refused"}
    /\ waiting' = [waiting EXCEPT ![PoolOf(j)][job[j].q] = IF At(j, "leave") THEN @ - 1 ELSE @]
    /\ Goto(j, IF At(j, "leave") THEN "running" ELSE "finish")
    /\ UNCHANGED <<kind, cur, made, out, sem, holdNanos, ring, stranded, fit>>

leaveQueue(j) ==
    /\ job[j].pc \in {"leave", "refused"}
    /\ waiting' = [waiting EXCEPT ![PoolOf(j)][job[j].q] = @ - 1]
    /\ Goto(j, IF At(j, "leave") THEN "running" ELSE "finish")
    /\ UNCHANGED <<kind, cur, made, out, sem, holdNanos, ring, stranded, fit>>

\* Mutant: a job that fails under its slot keeps it.
releaseOnSuccess(j) ==
    /\ At(j, "running")
    /\ \E ok \in BOOLEAN :
        /\ sem' = [sem EXCEPT ![PoolOf(j)][job[j].q] = IF ok THEN @ - 1 ELSE @]
        /\ job' = [job EXCEPT ![j].pc = IF j \in Launches THEN "held" ELSE "finish",
                              ![j].n = holdNanos[job[j].q], ![j].ok = ok]
    /\ UNCHANGED <<kind, cur, made, out, waiting, holdNanos, ring, stranded, fit>>

\* The stages under the slot end, every docker call in them being bounded, and the
\* slot goes back.  A launch then loads the estimate to fold its hold time in.
release(j) ==
    /\ At(j, "running")
    /\ sem' = [sem EXCEPT ![PoolOf(j)][job[j].q] = @ - 1]
    /\ \E ok \in BOOLEAN :
        job' = [job EXCEPT ![j].pc = IF j \in Launches THEN "held" ELSE "finish",
                           ![j].n = holdNanos[job[j].q], ![j].ok = ok]
    /\ UNCHANGED <<kind, cur, made, out, waiting, holdNanos, ring, stranded, fit>>

\* The store may overwrite another launch's: a sample lost.
recordHold(j) ==
    /\ At(j, "held")
    /\ \E d \in Holds :
        holdNanos' = [holdNanos EXCEPT ![job[j].q] =
                          IF job[j].n = 0 THEN d ELSE (job[j].n * 3) \div 4 + d \div 4]
    /\ job' = [job EXCEPT ![j].pc = "finish", ![j].n = 0, ![j].ch = 0, ![j].q = 0]
    /\ UNCHANGED <<kind, cur, made, out, sem, waiting, ring, stranded, fit>>

\* The stages are over.  A restart and a teardown are exported only; the exporter
\* (module LaunchMetrics) never makes a job wait.
finish(j) ==
    /\ At(j, "finish") /\ stranded' = stranded \ {j}
    /\ IF j \in Counted
       THEN Goto(j, "ring") /\ fit' = [fit EXCEPT ![j] = {cur}]
       ELSE job' = [job EXCEPT ![j] = [Idle EXCEPT !.pc = "done"]] /\ UNCHANGED fit
    /\ UNCHANGED <<kind, cur, made, out, sem, waiting, holdNanos, ring>>

\* The sample of j is added to the ring of q, none for 0.
CountOn(j, q) ==
    /\ At(j, "ring")
    /\ job' = [job EXCEPT ![j] = [Idle EXCEPT !.pc = "done", !.q = q]]
    /\ ring' = IF q = 0 THEN ring ELSE [ring EXCEPT ![q] = add(@, 1, job[j].ok)]
    /\ UNCHANGED <<kind, cur, made, out, sem, waiting, holdNanos, stranded, fit>>

\* Mutant: the sample goes to the conn the launch last held, where it held one.
ringCaptured(j) == CountOn(j, IF job[j].q # 0 THEN job[j].q ELSE cur)

\* launchTimer.ring looks the worker up anew: no ring for one that is not in the map.
ringOf(j) == CountOn(j, cur)

-----------------------------------------------------------------------------
\* The worker: its conn fails or is taken down; it is removed; it is added or
\* recovers, on a new conn, while jobs are still in the old one's queue.
WorkerOut ==
    /\ ~workerUnreachable
    /\ out' = out \cup {cur}
    /\ UNCHANGED <<cur, made, sem, waiting, holdNanos, kind, job, ring, stranded, fit>>

FitNow == [j \in Job |-> IF At(j, "ring") THEN fit[j] \cup {cur'} ELSE fit[j]]

RemoveWorker ==
    /\ cur # 0 /\ cur' = 0 /\ fit' = FitNow
    /\ UNCHANGED <<made, out, sem, waiting, holdNanos, kind, job, ring, stranded>>

NewConn ==
    /\ made < MaxConns
    /\ made' = made + 1 /\ cur' = made + 1 /\ fit' = FitNow
    /\ stranded' = stranded \cup {j \in Job : job[j].pc \in InQueue \cup InSlot}
    /\ UNCHANGED <<out, sem, waiting, holdNanos, kind, job, ring>>

JobStep(j) ==
    \/ admit(j) \/ ensureImages(j) \/ (At(j, "join") /\ acquireLaunchSlot(j))
    \/ acquireSlot(j) \/ workerUnreachableCh(j) \/ takesSlot(j) \/ waitEnds(j)
    \/ recheck(j) \/ leaveQueue(j) \/ release(j) \/ recordHold(j)
    \/ finish(j) \/ ringOf(j)

Next ==
    \/ \E j \in Job : JobStep(j) \/ admitReads(j) \/ (At(j, "idle") /\ acquireLaunchSlot(j))
    \/ WorkerOut \/ RemoveWorker \/ NewConn

\* A job in progress goes on: a docker call is bounded by its context, a slot that is
\* free is taken by a goroutine blocked on the channel, and a timer fires.
Spec == Init /\ [][Next]_vars /\ \A j \in Job : WF_vars(JobStep(j))

-----------------------------------------------------------------------------
\* A slot is taken exactly by the jobs between taking and releasing it, at most Slots of
\* a pool are, and the waiting counts are those of the jobs in the queue, across refusals at every stage
\* and conns replaced in between (acquireSlot gives a slot back, acquireLaunchSlot
\* and teardown leave the count on every path).
QueuesBalance ==
    \A p \in Pool, q \in Queue :
        LET of(pcs) == Cardinality({j \in Job : PoolOf(j) = p /\ job[j].q = q /\ job[j].pc \in pcs})
        IN  sem[p][q] = of(InSlot) /\ sem[p][q] <= Slots /\ waiting[p][q] = of(InQueue)

\* The launches at work on a worker exceed CORK_CONCURRENT_LAUNCHES only by those
\* that were in a queue when its conn was replaced: a launch that pulled images for
\* minutes meanwhile takes its slot on the live queue (launchStages resolves the
\* queue after ensureImages).
OnlyStrandedExceed ==
    \A p \in Pool :
        Cardinality({j \in Job \ stranded : PoolOf(j) = p /\ job[j].pc \in {"leave", "running"}}) <= Slots

\* The rings hold every requested launch that ended exactly once, in the ring of a conn
\* that was the worker's at some moment after the launch was over, whichever conn it
\* was admitted and queued on; only a launch whose worker was gone at such a moment is
\* in none, and none is in the local daemon's (launchTimer.finish and ring).
LaunchesCounted ==
    LET ended == {j \in Counted : At(j, "done")}
    IN  /\ \A j \in ended : job[j].q \in fit[j]
        /\ ring[0].total = 0
        /\ \A q \in Conn : ring[q].total = Cardinality({j \in ended : job[j].q = q})

\* Every job that began ends, whether its worker is ejected, replaced or removed
\* while it waits, and also one without a bound on its wait: no slot is leaked that
\* it could be waiting for (acquireSlot).
JobsEnd == \A j \in Job : ~At(j, "idle") ~> At(j, "done")
=============================================================================
