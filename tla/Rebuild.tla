------------------------------ MODULE Rebuild ------------------------------
(***************************************************************************)
(* The instances of one build of a service challenge while the operations  *)
(* that hold updateMu change the build: an update that lands a new         *)
(* generation and restarts what runs (reconcileBuild, restartInstance,     *)
(* reassignPorts), a converge to a new instance count (convergeSchema,     *)
(* convergeBuildInstances) and a removal (DeleteSchema, or a converge of a *)
(* schema that names the build no more).  Beside them run the requests     *)
(* that take no lock (Start, Stop), the prune with its crash-GC, workers   *)
(* that leave and come back, and crashes of corkd.                         *)
(*                                                                         *)
(* Images and their tags are those of Builds, and the steps of one launch  *)
(* or one stop on the daemon those of Instances: here a generation is a    *)
(* number, a stop is one step, and a launch takes its port and then runs.  *)
(***************************************************************************)
EXTENDS Integers, FiniteSets

CONSTANTS
    Id,                     \* instance ids, 1 .. n: AUTOINCREMENT, each handed out once
    Worker, Port,
    NoWorker, NoPort,
    Starter, Stopper,       \* goroutines serving Start and Stop requests
    Counts,                 \* the instance counts a schema may ask for
    MaxGen, MaxOps, MaxRequests, MaxFaults       \* bounds

DYNAMIC_INSTANCES == -1
LOCKED == -2

ASSUME RebuildAssumption ==
    /\ Id \subseteq Nat /\ NoPort \notin Port /\ NoWorker \notin Worker
    /\ Counts \subseteq Nat \cup {DYNAMIC_INSTANCES}

VARIABLES
    build,      \* the builds row: whether it is there, its count and generation
    row,        \* instances: is_finalized, or no row (before and after)
    last,       \* the latest id handed out
    on, port,   \* the worker and the host port of an instance, or none
    runs,       \* the generation its containers serve, 0 when there are none
    launch,     \* a launch under way: where it is, its generation, whose it is
    reads,      \* the generation a Start has read, before it has a row
    stops,      \* the instance a Stop is about to stop
    op,         \* the operation that holds updateMu
    out,        \* the workers that are unreachable
    ops, requests, faults,
    \* history
    was,        \* the address each instance had when the operation began
    taken,      \* instances whose port was taken while they were being restarted
    late,       \* instances of a launch that a rebuild's snapshot has missed
    cut,        \* instances a rebuild could not bring along, by an error or a crash, and
                \* those a stop has failed on
    raced,      \* requests were under way when the operation looked, or a worker was
                \* removed since
    settled     \* the last operation ended and reported no error

recVars == <<last, row, on, port, runs>>
histVars == <<was, taken, late, cut, raced, settled>>
vars == <<build, recVars, launch, reads, stops, op, out, ops, requests, faults, histVars>>

NoLaunch == [at |-> "idle", gen |-> 0, by |-> "op"]
NoOp == [at |-> "idle", kind |-> "none", todo |-> {}, need |-> 0, prev |-> NoPort, count |-> 0, errs |-> FALSE]

Rows == {i \in Id : row[i] # "none"}
Free(w) == Port \ {port[j] : j \in {k \in Id : on[k] = w}}
Placeable == Worker \ out

\* Requests that decided on what the build was before the operation at hand: a Start or
\* a Stop that has read it, a launch without a finalized row (a crashed one included).
UnderWay ==
    \/ \E s \in Starter : reads[s] # 0
    \/ \E s \in Stopper : stops[s] # 0
    \/ \E i \in Id : row[i] = "open" \/ launch[i].at # "idle"

Init ==
    /\ \E there \in BOOLEAN : build = [there |-> there, count |-> DYNAMIC_INSTANCES, gen |-> 1]
    /\ row = [i \in Id |-> "none"]
    /\ last = 0
    /\ on = [i \in Id |-> NoWorker]
    /\ port = [i \in Id |-> NoPort] /\ runs = [i \in Id |-> 0]
    /\ launch = [i \in Id |-> NoLaunch]
    /\ reads = [s \in Starter |-> 0] /\ stops = [s \in Stopper |-> 0]
    /\ op = NoOp
    /\ out = {} /\ ops = 0 /\ requests = 0 /\ faults = 0
    /\ was = <<>> /\ taken = {} /\ late = {} /\ cut = {}
    /\ raced = FALSE /\ settled = FALSE

-----------------------------------------------------------------------------
(* What the actions share.                                                 *)

Request == requests < MaxRequests /\ requests' = requests + 1
Fault == faults < MaxFaults /\ faults' = faults + 1

\* openInstance: the next id, on the worker that placement picked.
openInstance(i, gen, by) ==
    /\ i = last + 1 /\ last' = i
    /\ \E w \in Placeable : on' = [on EXCEPT ![i] = w]
    /\ row' = [row EXCEPT ![i] = "open"]
    /\ launch' = [launch EXCEPT ![i] = [at |-> "reserve", gen |-> gen, by |-> by]]
    /\ UNCHANGED <<port, runs>>

\* The rows of S are deleted; their port rows cascade.
Deleted(S) ==
    /\ row' = [i \in Id |-> IF i \in S THEN "none" ELSE row[i]]
    /\ port' = [i \in Id |-> IF i \in S THEN NoPort ELSE port[i]]
    /\ runs' = [i \in Id |-> IF i \in S THEN 0 ELSE runs[i]]
    /\ late' = late \ S /\ cut' = cut \ S
    /\ on' = [i \in Id |-> IF i \in S THEN NoWorker ELSE on[i]]
    /\ last' = last

\* stopInstance: the instance is gone from the records, its worker unreachable or not;
\* or the teardown was refused its slot, or failed at the containers, the network or
\* the records, and the row stays, perhaps without its port or its containers.
stopInstance(i, stopped) ==
    \/ stopped /\ Deleted({i}) /\ UNCHANGED faults
    \/ /\ ~stopped /\ Fault
       /\ port' \in {port, [port EXCEPT ![i] = NoPort]}
       /\ runs' \in {runs, [runs EXCEPT ![i] = 0]}
       /\ on[i] \in out => UNCHANGED <<port, runs>>
       /\ cut' = cut \cup {i}
       /\ UNCHANGED <<last, row, on, late>>

\* The instances an operation has listed are by rowid: i is the next of them.
NextListed(i) == i \in op.todo /\ \A j \in op.todo : i <= j

\* The operation goes on at `where', with an error to report or without.
Goes(where, err) == op' = [op EXCEPT !.at = where, !.errs = @ \/ err]
GoesPast(i, where, err) == op' = [op EXCEPT !.at = where, !.todo = @ \ {i}, !.errs = @ \/ err]

Ends(err) ==
    /\ op' = [NoOp EXCEPT !.kind = op.kind]
    /\ settled' = ~(op.errs \/ err)

\* lockUpdates: one operation at a time.
Begins(kind, where, count) ==
    /\ op.at = "idle" /\ ops < MaxOps
    /\ op' = [NoOp EXCEPT !.at = where, !.kind = kind, !.count = count]
    /\ ops' = ops + 1
    /\ was' = [i \in {j \in Id : kind = "update" /\ row[j] = "final"} |-> <<on[i], port[i]>>]
    /\ taken' = {} /\ raced' = UnderWay /\ settled' = FALSE
    /\ UNCHANGED <<build, recVars, launch, reads, stops, out, requests, faults, late, cut>>

\* What every step of an operation leaves alone.
requestVars == <<reads, stops, out, ops, requests, was>>

-----------------------------------------------------------------------------
(* An update whose source has changed, once it has built: reconcileBuild.  *)

Update == build.there /\ build.gen < MaxGen /\ Begins("update", "finalize", build.count)

finalizeBuild ==
    /\ op.at = "finalize"
    /\ build' = [build EXCEPT !.gen = @ + 1]
    /\ Goes("list", FALSE)
    /\ UNCHANGED <<requestVars, recVars, launch, faults, taken, late, cut, raced, settled>>

getBuildInstances ==
    /\ op.at = "list"
    /\ op' = [op EXCEPT !.at = "visit", !.todo = Rows]
    /\ UNCHANGED <<requestVars, build, recVars, launch, faults, taken, late, cut, raced, settled>>

\* The list cannot be read, by the update or by convergeBuildInstances: it ends with
\* the error.
listFails ==
    /\ op.at \in {"list", "count"}
    /\ Fault
    /\ cut' = IF op.at = "list" THEN cut \cup {i \in Id : row[i] = "final"} ELSE cut
    /\ Ends(TRUE)
    /\ UNCHANGED <<requestVars, build, recVars, launch, taken, late, raced>>

Visits(i) == op.at = "visit" /\ NextListed(i)

\* An instance that has gone meanwhile, or a launch still under way, is left alone.
PassedOver(i) == row[i] # "final"

passOver(i) ==
    /\ Visits(i) /\ PassedOver(i)
    /\ GoesPast(i, "visit", FALSE)
    /\ UNCHANGED <<requestVars, build, recVars, launch, faults, taken, late, cut, raced, settled>>

\* An on-demand instance cannot be restarted: it is stopped.
stopOnDemand(i) ==
    /\ Visits(i) /\ ~PassedOver(i)
    /\ build.count = DYNAMIC_INSTANCES
    /\ \E stopped \in BOOLEAN : stopInstance(i, stopped) /\ GoesPast(i, "visit", ~stopped)
    /\ UNCHANGED <<requestVars, build, launch, taken, raced, settled>>

\* Mutant: an instance on an unreachable worker is left in place.
notReachableLeft(i) ==
    /\ Visits(i) /\ ~PassedOver(i)
    /\ build.count # DYNAMIC_INSTANCES /\ on[i] \in out
    /\ GoesPast(i, "visit", TRUE)
    /\ UNCHANGED <<requestVars, build, recVars, launch, faults, taken, late, cut, raced, settled>>

\* A persistent instance on an unreachable worker is not even tried.
notReachable(i) ==
    /\ Visits(i) /\ ~PassedOver(i)
    /\ build.count # DYNAMIC_INSTANCES /\ on[i] \in out
    /\ Goes("remove", FALSE)
    /\ UNCHANGED <<requestVars, build, recVars, launch, faults, taken, late, cut, raced, settled>>

\* restartInstance: the images are pulled while the old containers serve; then they are
\* torn down and the port is released, for reassignPorts to claim.
restartInstance(i) ==
    /\ Visits(i) /\ ~PassedOver(i)
    /\ build.count # DYNAMIC_INSTANCES /\ on[i] \notin out
    /\ runs' = [runs EXCEPT ![i] = 0]
    /\ port' = [port EXCEPT ![i] = NoPort]
    /\ op' = [op EXCEPT !.at = "reassign", !.prev = port[i]]
    /\ late' = late \ {i} /\ cut' = cut \ {i}
    /\ UNCHANGED <<requestVars, build, last, row, on, launch, faults, taken, raced, settled>>

\* The pull fails, with the old containers as they were; or the teardown does, after
\* which the port rows are gone and the containers may be.
restartFails(i) ==
    /\ Visits(i) /\ ~PassedOver(i)
    /\ build.count # DYNAMIC_INSTANCES /\ on[i] \notin out
    /\ Fault
    /\ \/ UNCHANGED <<port, runs>>
       \/ port' = [port EXCEPT ![i] = NoPort] /\ runs' \in {runs, [runs EXCEPT ![i] = 0]}
    /\ Goes("remove", FALSE)
    /\ UNCHANGED <<requestVars, build, last, row, on, launch, taken, late, cut, raced, settled>>

\* reassignPorts: the number it had (op.prev) when that is free, else another; without
\* the row the foreign key of the claim refuses it.
reassignPorts(i) ==
    /\ op.at = "reassign" /\ NextListed(i)
    /\ LET free == IF op.prev \in Free(on[i]) THEN {op.prev} ELSE Free(on[i]) IN
       IF row[i] = "none" \/ free = {}
       THEN Goes("remove", FALSE) /\ UNCHANGED <<port, taken>>
       ELSE /\ \E p \in free : port' = [port EXCEPT ![i] = p]
            /\ taken' = IF op.prev \in free \cup {NoPort} THEN taken ELSE taken \cup {i}
            /\ Goes("relaunch", FALSE)
    /\ UNCHANGED <<requestVars, build, last, row, on, runs, launch, faults, late, cut, raced, settled>>

relaunch(i) ==
    /\ op.at = "relaunch" /\ NextListed(i)
    /\ row[i] = "final" /\ on[i] \notin out
    /\ runs' = [runs EXCEPT ![i] = build.gen]
    /\ op' = [op EXCEPT !.at = "visit", !.todo = @ \ {i}, !.prev = NoPort]
    /\ UNCHANGED <<requestVars, build, last, row, on, port, launch, faults, taken, late, cut, raced, settled>>

relaunchFails(i) ==
    /\ op.at = "relaunch" /\ NextListed(i)
    /\ IF row[i] = "none" \/ on[i] \in out THEN UNCHANGED faults ELSE Fault
    /\ Goes("remove", FALSE)
    /\ UNCHANGED <<requestVars, build, recVars, launch, taken, late, cut, raced, settled>>

\* Mutant: an instance removed instead of restarted is a warning, not an error.
removeInsteadWarns(i) ==
    /\ op.at = "remove" /\ NextListed(i)
    /\ \E stopped \in BOOLEAN : stopInstance(i, stopped)
    /\ op' = [op EXCEPT !.at = "visit", !.todo = @ \ {i}, !.prev = NoPort]
    /\ UNCHANGED <<requestVars, build, launch, taken, raced, settled>>

\* An instance that could not be restarted is removed, or stays on record: an error
\* of the update either way.
removeInstead(i) ==
    /\ op.at = "remove" /\ NextListed(i)
    /\ \E stopped \in BOOLEAN : stopInstance(i, stopped)
    /\ op' = [op EXCEPT !.at = "visit", !.todo = @ \ {i}, !.prev = NoPort, !.errs = TRUE]
    /\ UNCHANGED <<requestVars, build, launch, taken, raced, settled>>

\* A persistent build is then brought back to its count.
visitEnds ==
    /\ op.at = "visit" /\ op.todo = {}
    /\ IF build.count > 0 THEN Goes("count", FALSE) /\ UNCHANGED settled ELSE Ends(FALSE)
    /\ UNCHANGED <<requestVars, build, recVars, launch, faults, taken, late, cut, raced>>

-----------------------------------------------------------------------------
(* A converge of the schema, and convergeBuildInstances.                   *)

UpdateSchema == \E c \in Counts : Begins("converge", "lock", c)

\* lockSchema, for a converge and for a removal.
lockSchema ==
    /\ op.at = "lock"
    /\ build' = IF build.there THEN [build EXCEPT !.count = LOCKED] ELSE build
    /\ Goes(IF op.kind = "delete" THEN "clean" ELSE "open", FALSE)
    /\ UNCHANGED <<requestVars, recVars, launch, faults, taken, late, cut, raced, settled>>

\* openBuild sets the count of the row, or makes it; generateBuilds builds what is new.
\* The cleanup releases builds still locked: this one no more.
openBuild ==
    /\ op.at \in {"open", "generate"}
    /\ build' = [build EXCEPT !.there = TRUE, !.count = op.count]
    /\ IF op.count = DYNAMIC_INSTANCES THEN Ends(FALSE) ELSE Goes("count", FALSE) /\ UNCHANGED settled
    /\ UNCHANGED <<requestVars, recVars, launch, faults, taken, late, cut, raced>>

\* It fails: the row stays locked, so the cleanup of this converge takes the build for an
\* obsolete one, and generateBuilds is left to open it again.
openFails ==
    /\ op.at = "open"
    /\ Fault
    /\ Goes(IF build.there THEN "clean" ELSE "generate", TRUE)
    /\ UNCHANGED <<requestVars, build, recVars, launch, taken, late, cut, raced, settled>>

\* generateBuilds refuses a tree that has changed, and on an external build plane a
\* build that was not handed over; of a build that fails it removes the row, if nothing
\* refers to it.
generateFails ==
    /\ op.at = "generate"
    /\ build' \in {build, [build EXCEPT !.there = Rows # {}, !.count = op.count]}
    /\ Ends(TRUE)
    /\ UNCHANGED <<requestVars, recVars, launch, faults, taken, late, cut, raced>>

\* Mutant: one more than the count is let stand.
surplusOffByOne(S, target) == {i \in S : Cardinality({j \in S : j < i}) > target}

\* The listed instances past the first `target'.
surplus(S, target) == {i \in S : Cardinality({j \in S : j < i}) >= target}

convergeBuildInstances ==
    /\ op.at = "count"
    /\ op' = [op EXCEPT !.at = "surplus", !.todo = surplus(Rows, build.count),
                        !.need = IF Cardinality(Rows) < build.count THEN build.count - Cardinality(Rows) ELSE 0]
    /\ raced' = (raced \/ UnderWay)
    /\ UNCHANGED <<requestVars, build, recVars, launch, faults, taken, late, cut, settled>>

\* A surplus instance is stopped, finalized or not; one that has gone is an error.
stopSurplus(i) ==
    /\ op.at = "surplus" /\ NextListed(i)
    /\ IF row[i] = "none" THEN GoesPast(i, "surplus", TRUE) /\ UNCHANGED <<recVars, late, cut, faults>>
       ELSE \E stopped \in BOOLEAN : stopInstance(i, stopped) /\ GoesPast(i, "surplus", ~stopped)
    /\ UNCHANGED <<requestVars, build, launch, taken, raced, settled>>

\* newInstance, for a missing instance.
launchMissing(i) ==
    /\ op.at = "surplus" /\ op.todo = {} /\ op.need > 0
    /\ openInstance(i, build.gen, "op")
    /\ Goes("launching", FALSE)
    /\ UNCHANGED <<requestVars, build, faults, taken, late, cut, raced, settled>>

\* The count is reached, or there is no worker to place on, or none that admits it.
countEnds ==
    /\ op.at = "surplus" /\ op.todo = {}
    /\ IF op.need = 0 \/ Placeable = {} THEN UNCHANGED faults ELSE Fault
    /\ Ends(op.need > 0)
    /\ UNCHANGED <<requestVars, build, recVars, launch, taken, late, cut, raced>>

-----------------------------------------------------------------------------
(* A removal: cleanupSchemaResources.                                      *)

DeleteSchema == build.there /\ Begins("delete", "lock", LOCKED)

\* The end of the cleanup, with an error or without: a converge goes on.
Cleaned(err) ==
    IF op.kind = "delete" THEN Ends(err) ELSE Goes("generate", err) /\ UNCHANGED settled

removedSchemaInstances ==
    /\ op.at = "clean"
    /\ op' = [op EXCEPT !.at = "release", !.todo = Rows]
    /\ UNCHANGED <<requestVars, build, recVars, launch, faults, taken, late, cut, raced, settled>>

\* The first that has gone, or that cannot be stopped, ends it.
releaseInstance(i) ==
    /\ op.at = "release" /\ NextListed(i)
    /\ IF row[i] = "none" THEN Cleaned(TRUE) /\ UNCHANGED <<recVars, late, cut, faults>>
       ELSE \E stopped \in BOOLEAN :
                /\ stopInstance(i, stopped)
                /\ IF stopped THEN GoesPast(i, "release", FALSE) /\ UNCHANGED settled ELSE Cleaned(TRUE)
    /\ UNCHANGED <<requestVars, build, launch, taken, raced>>

\* destroyImages: instances.build is ON DELETE RESTRICT.
removeBuildMetadata ==
    /\ op.at = "release" /\ op.todo = {}
    /\ build' = [build EXCEPT !.there = Rows # {}]
    /\ Cleaned(Rows # {})
    /\ UNCHANGED <<requestVars, recVars, launch, faults, taken, late, cut, raced>>

-----------------------------------------------------------------------------
(* Launches, of requests and of a converge.                                *)

\* Start reads the build once.
StartReads(s) ==
    /\ reads[s] = 0
    /\ build.there /\ build.count = DYNAMIC_INSTANCES
    /\ reads' = [reads EXCEPT ![s] = build.gen]
    /\ Request
    /\ UNCHANGED <<build, recVars, launch, stops, op, out, ops, faults, histVars>>

\* Mutant: the row refers to no build.
newInstanceUnchecked(s, i) ==
    /\ reads[s] # 0
    /\ openInstance(i, reads[s], "request")
    /\ reads' = [reads EXCEPT ![s] = 0]
    /\ UNCHANGED <<build, stops, op, out, ops, requests, faults, histVars>>

\* newInstance places the launch and opens its row, if the build is still there.
newInstance(s, i) ==
    /\ reads[s] # 0 /\ build.there
    /\ openInstance(i, reads[s], "request")
    /\ reads' = [reads EXCEPT ![s] = 0]
    /\ UNCHANGED <<build, stops, op, out, ops, requests, faults, histVars>>

\* The build is gone, there is no worker, or admit refuses.
StartFails(s) ==
    /\ reads[s] # 0
    /\ reads' = [reads EXCEPT ![s] = 0]
    /\ UNCHANGED <<build, recVars, launch, stops, op, out, ops, requests, faults, histVars>>

reservePort(i) ==
    /\ launch[i].at = "reserve" /\ row[i] # "none"
    /\ \E p \in Free(on[i]) : port' = [port EXCEPT ![i] = p]
    /\ launch' = [launch EXCEPT ![i].at = "launch"]
    /\ UNCHANGED <<build, last, row, on, runs, reads, stops, op, out, ops, requests, faults, histVars>>

\* A launch of the operation at hand answers to it.
Answers(i, err) ==
    /\ launch' = [launch EXCEPT ![i] = NoLaunch]
    /\ op' = IF launch[i].by # "op" THEN op
             ELSE [op EXCEPT !.at = "surplus", !.need = IF err THEN 0 ELSE @ - 1, !.errs = @ \/ err]

\* launch and finalizeInstance.
finalizeInstance(i) ==
    /\ launch[i].at = "launch" /\ row[i] # "none" /\ on[i] \notin out
    /\ row' = [row EXCEPT ![i] = "final"]
    /\ runs' = [runs EXCEPT ![i] = launch[i].gen]
    /\ late' = IF launch[i].gen # build.gen /\ op.at # "list" THEN late \cup {i} ELSE late
    /\ Answers(i, FALSE)
    /\ UNCHANGED <<build, last, on, port, reads, stops, out, ops, requests, faults, was, taken, cut, raced, settled>>

\* Its row is gone, its worker is unreachable, no port is free, or a stage fails; the
\* records are cleared, unless that fails too (the error is logged or ignored).
launchFails(i) ==
    /\ launch[i].at # "idle"
    /\ \/ /\ row[i] = "none" \/ on[i] \in out \/ (launch[i].at = "reserve" /\ Free(on[i]) = {})
          /\ UNCHANGED faults /\ Deleted({i})
       \/ /\ Fault
          /\ \/ Deleted({i})
             \/ /\ port' \in {port, [port EXCEPT ![i] = NoPort]}
                /\ UNCHANGED <<last, row, on, runs, late, cut>>
    /\ Answers(i, TRUE)
    /\ UNCHANGED <<build, reads, stops, out, ops, requests, was, taken, raced, settled>>

-----------------------------------------------------------------------------
(* Stops, the prune, workers and crashes.                                  *)

\* Stop looks up the instance and its build.
Stop(s, i) ==
    /\ stops[s] = 0 /\ row[i] # "none" /\ build.count = DYNAMIC_INSTANCES
    /\ stops' = [stops EXCEPT ![s] = i]
    /\ Request
    /\ UNCHANGED <<build, recVars, launch, reads, op, out, ops, faults, histVars>>

StopEnds(s) ==
    /\ stops[s] # 0
    /\ \E stopped \in BOOLEAN : stopInstance(stops[s], stopped)
    /\ stops' = [stops EXCEPT ![s] = 0]
    /\ UNCHANGED <<build, launch, reads, op, out, ops, requests, was, taken, raced, settled>>

\* The age prune deletes rows of on-demand builds, the crash-GC those that are not
\* finalized after five minutes.
Prune(i) ==
    /\ \/ row[i] = "final" /\ build.count = DYNAMIC_INSTANCES
       \/ row[i] = "open"
    /\ Deleted({i})
    /\ UNCHANGED <<build, launch, reads, stops, op, out, ops, requests, faults, was, taken, raced, settled>>

WorkerOut ==
    /\ Fault
    /\ \E w \in Placeable : out' = out \cup {w}
    /\ UNCHANGED <<build, recVars, launch, reads, stops, op, ops, requests, histVars>>

\* The pass of a worker that comes back spares what has a row.
WorkerBack ==
    /\ \E w \in out : out' = out \ {w}
    /\ UNCHANGED <<build, recVars, launch, reads, stops, op, ops, requests, faults, histVars>>

\* worker-remove purges the records of the worker's instances, and tells nobody.
RemoveWorker ==
    /\ Fault
    /\ \E w \in Worker : out' = out \cup {w} /\ Deleted({i \in Id : on[i] = w})
    /\ raced' = TRUE
    /\ UNCHANGED <<build, launch, reads, stops, op, ops, requests, was, taken, settled>>

\* A crash of corkd.  What a rebuild had still to restart keeps its record; a later
\* update finds nothing to rebuild.
Crash ==
    /\ Fault
    /\ op' = NoOp
    /\ launch' = [i \in Id |-> NoLaunch]
    /\ reads' = [s \in Starter |-> 0] /\ stops' = [s \in Stopper |-> 0]
    /\ cut' = cut \cup {i \in Id : row[i] = "final" /\ runs[i] # build.gen}
    /\ settled' = FALSE
    /\ UNCHANGED <<build, recVars, out, ops, requests, was, taken, late, raced>>

-----------------------------------------------------------------------------

UpdateStep ==
    \/ Update \/ finalizeBuild \/ getBuildInstances \/ listFails \/ visitEnds
    \/ \E i \in Id : \/ passOver(i) \/ stopOnDemand(i) \/ notReachable(i) \/ restartInstance(i)
                     \/ restartFails(i) \/ reassignPorts(i) \/ relaunch(i) \/ relaunchFails(i)
                     \/ removeInstead(i)

ConvergeStep ==
    \/ UpdateSchema \/ lockSchema \/ openBuild \/ openFails \/ generateFails
    \/ convergeBuildInstances \/ countEnds
    \/ \E i \in Id : stopSurplus(i) \/ launchMissing(i)

RemoveStep ==
    \/ DeleteSchema \/ removedSchemaInstances \/ removeBuildMetadata
    \/ \E i \in Id : releaseInstance(i)

RequestStep ==
    \/ \E s \in Starter : StartReads(s) \/ StartFails(s) \/ \E i \in Id : newInstance(s, i)
    \/ \E i \in Id : reservePort(i) \/ finalizeInstance(i) \/ launchFails(i) \/ Prune(i)
    \/ \E s \in Stopper : StopEnds(s) \/ \E i \in Id : Stop(s, i)

Next == UpdateStep \/ ConvergeStep \/ RemoveStep \/ RequestStep
        \/ WorkerOut \/ WorkerBack \/ RemoveWorker \/ Crash

Spec == Init /\ [][Next]_vars

-----------------------------------------------------------------------------
(* Properties.                                                             *)

\* Between operations no instance serves another generation than the build has on
\* record, but for a launch that finished after the rebuild had listed the instances
\* (the race Start's comment accepts), and what a reported error, or a crash, has left
\* behind (reconcileBuild: an instance "left in place" would
\* "come back serving the old image").
RunsRecorded ==
    op.at = "idle" /\ build.there =>
        \A i \in Id : row[i] = "final" /\ runs[i] \notin {0, build.gen} => i \in late \cup cut

\* After an update or a converge that reported no error a persistent build has exactly
\* the instances its schema asks for, and each of them runs, whatever workers left
\* meanwhile, unless requests from when it was on demand were still under way,
\* worker-remove purged records, or an earlier stop of it failed (convergeBuildInstances
\* counts rows, whatever runs behind them).  An update converges to a positive count
\* only: it leaves what runs of a build whose count is 0.
CountHeld ==
    settled /\ build.there /\ ~raced /\ build.count >= (IF op.kind = "update" THEN 1 ELSE 0) =>
        /\ Cardinality(Rows) = build.count
        /\ \A i \in Rows : row[i] = "final" /\ (runs[i] = build.gen \/ i \in late \cup cut)

\* After a removal that reported no error the build is gone with all its instances, and
\* stays so: no request that had read the build before, or that opened its row after the
\* removal listed the instances, brings one back or outlives it (cleanupSchemaResources,
\* and the foreign key of instances on builds).
RemovalFinal == settled /\ op.kind = "delete" => ~build.there /\ Rows = {}

\* An update that reported no error has kept the address of every persistent instance,
\* unless a launch took its port during the restart: restartInstance reclaims the
\* number, and an instance that was relaunched elsewhere is an error of the update.
MovesReported ==
    settled /\ op.kind = "update" /\ ~raced /\ Cardinality(DOMAIN was) <= build.count =>
        \A i \in DOMAIN was : was[i] \in {<<on[i], port[i]>>, <<on[i], NoPort>>} \/ i \in taken

=============================================================================
