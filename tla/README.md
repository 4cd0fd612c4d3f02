# Specifications of cork, the challenge orchestrator

TLA+ modules for cork's control plane, with TLC runs on small instances and TLAPS
proofs for all instances. Line numbers refer to files under `cork/` unless they say
`cmd/`.

## The system and its parts

`cork-build`, the build plane, builds images from a challenge directory, pushes them to a
registry and hands metadata over to one or more orchestrators. `corkd`, the orchestrator,
can also build for itself. It launches instances of challenges (containers on a network
of their own, with published ports) on a fleet of workers. It keeps its records in SQLite
and its view of the workers in memory. Each worker runs a dockerd that `corkd` calls over
mTLS, a telemetry agent, and a docker-reaper that `corkd` does not control.

| Part | State | Operations | Module |
|---|---|---|---|
| Worker connections (`workers.go`) | `workers` map and table, the fields of a `workerConn` | `AddWorker`, `RemoveWorker`, `SetWorkerDown`, `eject`, `setReachable`, `runWorker`, `recoverWorker`, `noteWorkerTransportError`, `initWorkers` | `WorkerConns`, `Fleet` |
| Health probing (`workers.go`) | `pollWorker`'s locals, `since`, `ejections`, `daemonFailed` | `probe`, `eject`, `readyToRecover`, `recoverWorker` | `Poller` |
| Stalls (`workers.go`) | `timeouts` | `noteTimeout` | `Stalls` |
| Placement (`workers.go`) | `workerOrder`, `rrCursor`, `load` | `selectWorker`, the telemetry half of `probe` | `Placement` |
| Launch slots (`launch.go`, `workers.go`) | `daemonQueue` | `admit`, `acquireSlot`, `recordHold` | `LaunchQueue` |
| Launch metrics (`launchmetrics.go`) | `launchRing`, `launchMetrics` | `add`, `stats`, `finish`, `record`, `run`, `reportDrops`, `emit` | `LaunchRing`, `LaunchStats`, `LaunchMetrics` |
| One worker's instances (`api.go`, `launch.go`, `docker.go`, `database_instances.go`) | tables `instances`, `portAssignments`, `containers`; what the daemon holds | `newInstance`, `launch`, `stopInstance`, `teardown` | `Instances` |
| Reconcile pass, prune (`worker_reconcile.go`, `api.go`) | what a pass has listed, rows by age | `reconcileWorker`, `reclaimAfterGC`, `Prune` | `Instances` |
| One build's instances (`database_challenges.go`, `api.go`) | the build's row, its instances by generation | `reconcileBuild`, `restartInstance`, `reassignPorts`, `convergeSchema`, `DeleteSchema`, `Start`, `Stop` | `Rebuild` |
| Builds and images (`docker.go`, `database_builds.go`, `registry.go`, `basepins.go`) | `builds`, tags in the registry, archives, pins | `UpdateWithOptions`, `executeBuild`, `finalizeBuild`, `pruneReplacedImages`, `destroyImages`, `Build`, `Destroy` | `Builds` |
| Preloading (`preload.go`) | `preloads`, images on workers, pull slots | `preloadPass`, `removeSuperseded`, `markStale`, `lockUpdates` | `Preload` |
| Build plane and hand-over (`cmd/cork-build`, `handover.go`, `buildplane.go`, `filesystem.go`) | rows on both sides, bundles, destinations | `build`, `add-`, `update-`, `migrate-` and `remove-schema`, `HandOverChallenge` | `Deploy`, `Custody` |

How they interact: a launch asks `Placement` for a worker, records itself, waits for a slot
of `LaunchQueue` and makes docker calls on the connection the worker has at that moment. A
call that fails reports to `noteWorkerTransportError`, which may eject the worker under its
own poller. An ejected worker's stops delete records without touching the daemon;
this is safe because the worker comes back only through a new connection, and a
new connection removes what no record names before it takes placements. Updates and
schema operations hold `updateMu`, and launches, stops and manual builds do not: they meet
in the database, in the registry and on the workers.

What makes this hard: `reachable`, `daemonFailed`, `retired`, `since` and the
ejection count are separate atomics written by several goroutines; a hung call
outlives the connection it went out on; records, registry, bundles and daemons are never
changed in one step; and `corkd`, `cork-build` and the daemons crash in between.

## The modules

**`WorkerConns`**. One step per operation another goroutine can see: `eject` takes three
(the swap of `daemonFailed`, the swap of `reachable`, the rest of
`setReachable`), the admission at the end of `runWorker` two, a recovery two.
What runs under `workersMu` is one step. `run[c]` is where the goroutine of conn
`c` is, `call[k]` where a control call is and `on[k]` the conn it went out on,
`ejPc[a]` where an agent is inside `eject`. Whether a failed probe is the last
straw, and an answered one enough, is a choice here. An identity in `Conn` may be
taken again when nothing refers to it. `hurt` is history: the conn's daemon failed
something in its life.

**`Fleet`** is the abstract specification: one status per worker. A worker joins
placement once per connection, and after it has left only a new connection brings
it back. `WorkerConns` implements it under the mapping `status`, `joining`.

**`Poller`** is one worker over its whole life with `pollWorker`'s counters, the deep
probe, the count of ejections and the backoff it buys. Time is counted in units of
`recoverBackoff` (`Tick`), and no unit passes inside a probe: a probe takes at
most 2.25 s with the default timing, the backoff is 10 s.

**`Placement`** is `selectWorker`'s round robin while workers are added, removed,
ejected and replaced, and the load axis. A probe's telemetry answer is an input.

**`LaunchQueue`** is the slots of one worker. Every conn brings its own queue, so the queue
a job counts itself in, the channel it waits on and the conn that is current may all
differ; each is resolved where the code resolves it, the ring a launch is counted in among
them (`ringOf`, after the launch is over). History: `stranded` has the jobs that were in a queue
when its conn was replaced, `fit[j]` the conns that were current between the end of launch `j`
and its counting (0 when the worker was gone).

**`LaunchRing`** and **`LaunchStats`** are pure: the operators of the code (`add`;
`quantileIndex`, `stats`) beside a definition of the same result by sets and quantifiers.
**`Stalls`** is the count of a conn's stalls (`noteTimeout`), one step per control call that
timed out while the daemon answered a ping, beside a definition of the verdict over the
timeouts since the last ejection (`times`, history). Timeouts are noted in the order of the
clock: the code reads it just before it takes `timeoutsMu`, so two calls that overlap there may
be noted the other way round. **`LaunchMetrics`** is the exporter: a bounded channel that drops
what it cannot hold, the report of the drops, whose reading of the count is a step of its own
since launches go on dropping, and a UDP socket that reports a refusal one write late. `told`
(drops the log was told of) and `held` (the last report came too soon after the one before) are
history. The count of samples sent, which only tests read, is left out.

**`Instances`** is one worker's instances: the three tables, the containers and networks
the daemon holds, and every goroutine that touches both. An instance has one
container and one port. `pc[i]` is where the launch of instance `i` is, `pc[s]`
where stop request `s` is; `pass` where the reconcile pass of a joining worker,
or the one after a crash-GC, is. Each docker call and each transaction is a step,
and each can fail; a call that failed on a living daemon may have had its effect.
A stop may be of any instance that has a row, one whose launch is under way included: the
metadata it read name the container only once the launch has finalized it. The age prune deletes
the rows of a finalized instance whatever its container does. `leaked` is history: the containers
the code is known to lose, each at the step where it loses it:

- a stop drops the records of a container whose removal failed, was another's, or that it did not
  know of, and no launch is left to look after it (`Forgotten`);
- a stop deletes the row after a removal that timed out, after the joining pass has read the rows,
  or of a launch that reserved its port after the stop had cleared it (`LeftBehind`);
- a launch whose port a stop, a purge or the crash-GC took back ends with its container up
  (`GivesUp`), or dies in a restart while its row still makes the pass spare it (`Cut`);
- the age prune or the crash-GC deletes the row of a container that is still there; a pass over the
  worker or docker-reaper takes it later;
- the daemon dies and forgets a removal it was sent;
- a worker is let in with an incomplete pass.

**`Rebuild`** is one build's instances on all workers. `op` is the operation that holds
`updateMu` and where it is: an update that has built (`reconcileBuild`), a converge or a
removal. Beside it run requests, the prune, workers that leave and crashes. Once it
has looked the instance up a stop is one step, and a launch two, since `Instances` has the finer grain; a generation is a number,
since `Builds` has the tags. History: `late`, `cut`, `taken` and `raced` name what the code
is known to miss, at the step that misses it.

**`Builds`** is the rows of one challenge and seed: schemas' and manual ones. A tag is
the source generation and the pins it was built from, so the rows share tags. Registry,
archive and row are written by separate steps, in the code's order; every call can fail and
`corkd` can die between any two. `raced` and `taken` are history: a build that is to commit a
tag, as its own or as its rollback target, while somebody is removing it, and the tags that
rows were given by such a build. `taken` is slightly wider: it also has the tag that a failed
build takes back after another build of the same row has committed it.

**`Preload`** is the workers' passes against operations under `updateMu`. An image is a
challenge and a generation; a pass lists, pulls under a slot, reads again what is superseded
and removes it or tags it stale. A worker stands for one conn.

**`Deploy`** is a build plane, two orchestrators and the registry. Every schema names the
same content, so that every conflict routing guards against can occur. A command is a
sequence of questions and requests; a request that has arrived runs to its end whatever
becomes of its sender. `work` is what the operator still has to get done; `adrift` is
history: schemas of a request that another command has overtaken.

**`Custody`** is the abstract specification of routing: an orchestrator takes a schema only
when no other holds it, unless the schema is adrift. `Deploy` implements it.

The `MC*` modules add the symmetry sets and initial states up to renaming; `MCLaunches` puts
the slots, the exporter, the ring and the stalls into one run, chosen by `which`. The `.cfg`
files give the constants.

## What the runs check

| Run | Size | Distinct states | Shows |
|---|---|---|---|
| `worker_conns` | 1 worker, 2 conns, 2 calls | 438,357 | `PlacedIsSound`, `OneLiveConn`, `ClosesOnce`, `UnreachableIsReal`, `DownIsAsserted`, and the refinement of `Fleet` |
| `poller` | 1 call besides the poller; 2 misses, 2 good probes, backoff up to 2 units, 3 ejections | 52,584 | `RecoveryIsEarned`, `EscalationKept`; liveness `Recovers` and `Leaves` |
| `placement` | 3 workers, 2 removals | 359,091 | `TurnsComeRound`, `FailsOnlyExhausted`, `VerdictIsFresh` |
| `launches` | 2 jobs: a request's and a rebuild's, both launches or both teardowns, or two requested launches; 1 slot, 2 conns; 7 samples; histories of 6 launches and 6 timeouts | 243,074 | `QueuesBalance`, `OnlyStrandedExceed`, `LaunchesCounted`, `JobsEnd`; `DropsTold`, `RecoveryIsReal`; `RingIsRecent`; `StallVerdicts` |
| `instances` | 2 instances on 1 port, 1 stop, prune, 1 fault or failed call | 1,430,000 | `BindSucceeds` |
| `instances_races` | 1 instance, 2 stops, prune, daemon deaths, 2 faults or failed calls | 1,810,000 | `PassSparesRecorded`, `Accounted` |
| `rebuild` | 3 instance ids, 2 workers, 2 ports, 1 Start, 1 Stop, counts from 0 up, 2 operations, 1 fault | 594,986 | `RunsRecorded`, `CountHeld`, `MovesReported`, `RemovalFinal` |
| `builds` | 2 rows, 2 sources, 2 pin sets, 1 change, 2 faults | 417,335 | `RowsServedUnlessRaced`, `ArchiveMatches`, liveness `StaleRebuilt` |
| `preload` | 1 worker, 1 slot shared with the fleet, 2 schemas of 1 challenge, 2 operations, 1 fault | 163,422 | `NamedKept`, `UsedTagged`, `CoverageReported`, liveness `PreloadedEverywhere`, `SupersededGone` |
| `deploy` | 2 schemas, 2 destinations, 2 generations, 3 commands or edits, 1 fault | 334,231 | `ServedIsPullable`, `BundlesAddressed`, the refinement of `Custody`, liveness `Redeploys` |

Two runs expect a violation of something a comment says:

- `reserved_while_running`: a stop that looked an instance up before its launch was finalized
  names no container. `stopContainers` removes none, deletes the port and container rows all the
  same, and the network, which is in use, fails the stop; the instance stays recorded with its
  container running, its port free, and nothing for a second stop to remove. No fault is needed.
  With faults a removal that the daemon refused ends the same way.
- `bundles_where_served`: a build for one destination that is cut short before its
  hand-over, and a schema file then pointed at another, end with the schema served by the
  second and its bundle in the directory of the first. `RelocateArtifactBundles` moves
  bundles out of the artifact directory only, and `migrate-schema` refuses a schema nobody
  serves.

What the modules reach and their properties except, each through a history variable:

- an asserted down does not survive a restart of `corkd` (the workers table does not
  record it), though `README.md` says "it stands until `worker-add`";
- one ejection of a conn made by a recovery can be counted twice, by the caller that set
  `daemonFailed` and the one that moved `reachable` (`workers.go:994`);
- a stop that saw the worker unreachable can delete its rows after the recovering
  worker's pass has read them (`api.go:568`);
- a stop of an instance that is being launched frees the port its container will hold; the launch
  finalizes without looking at the port (`docker.go:1791`, `database_instances.go:222`);
- the age prune deletes the rows of a finalized instance whose container docker-reaper has not
  taken yet (`api.go:1050`);
- a launch with the restart limits may wait longer than the five minutes after which the
  crash-GC takes its row for a crashed one's (`api.go:1092`);
- a build can adopt a tag that a concurrent removal has judged unreferenced, and commit a
  row whose tag is then deleted (`docker.go:946`, `registry.go:140`);
- a crash between the commit of a generation and the restarts leaves instances of the old
  generation that no later update restarts (`database_challenges.go:923`);
- a converge counts rows of launches under way, and comes up short when they fail
  (`api.go:795`); a `Start` that read the build while it was on demand can add an instance
  of an old generation to what has become a persistent build;
- a stop that failed leaves a row that a later converge counts as an instance
  (`api.go:795`);
- a converge whose `openBuild` failed takes the build that is still locked for an obsolete
  one, stops its instances and removes it (`api.go:739`); `generateBuilds` then builds it
  again, or the failure is reported;
- an update of a schema whose count is 0 leaves the instances it finds
  (`database_challenges.go:1023` converges a positive count only, though its comment says that a
  persistent build "is brought back to its instance count here"); `CountHeld` speaks of positive
  counts after an update, and of any count after a converge;
- a request that outlives its client can be overtaken by the next command, and then two
  orchestrators may hold a schema.

**Bounds.** Two conns are one and its replacement while calls and goroutines of the first are
still under way. A third identity would be a second replaced conn: the proofs cover any number.
Two calls make two concurrent ejects besides the poller's own. One port for two instances makes
every reservation conflict. The number of faults (`MaxFaults`) bounds every run with failures. In
`Instances` it counts ejections, operator commands, crashes, launches that outlast the crash-GC's
five minutes, and calls, transactions and waits that fail of themselves; a call that fails since
the daemon is dead or the port is taken costs none. One fault goes with two launches and a stop,
two with one instance and two stops; `Mortal` says whether the daemon may die, which the first of
the two leaves out. Three workers are the fewest with which a removal can move the
cursor past a worker that another one then overtakes. `MaxEjections` is above the count at
which the backoff is capped, so saturation is not seen. One slot for two jobs makes every job
wait for the other; the first conn of the worker has launched before and later ones have not, as
after a recovery. A ring of three is overwritten whole by six launches. Three ids are an
instance, its replacement and a request's beside them; two ports on each of two workers let a
restart lose its port to a launch and move. Two sources and two pin sets give a row a current
tag, a rollback target and one that displaces it; more rows that share a tag reach further
interleavings, which the proof covers. Two destinations and two schemas are the fewest for a
conflict. Larger instances passed and are too slow to keep: `launches` with two jobs of any kinds,
`rebuild` with three operations,
three generations and two faults (14.9 million, with its inductive invariant), `builds` with a
second manual row, three changes and one fault (1.0 million), `deploy` with two faults (3.6
million). Deadlock checking is off where ids, commands or histories are handed out once and run
out.

**Fairness.** `poller`: weak for each goroutine's next step, since Go's
scheduler and the ticker run what can run; strong for the clock, which `Tick` lets
pass only between probes; strong for `recoverWorker` against its alternative that
the client cannot be built, which is to say the TLS material is not unreadable
for ever. Nothing is assumed of the daemon: `Recovers` and `Leaves` are
conditional on what it does in the end. `launches`: weak for a job that has begun, since
its docker calls have deadlines, a blocked goroutine gets a free slot and timers fire.
`builds`: weak for a manual build's steps; strong for the operation under `updateMu`, which
waits for `imageMu` and a Go mutex starves nobody, and for `Update`, which the operator runs
again while there is something to do. `preload`: weak for operations,
strong for a worker's loop, which the sweep runs again and which is granted a slot in turn.
`deploy`: weak for commands and handlers; the operator retries what failed and amends what a
refusal names. Faults are finite in number and never fair.

## What is proved

Eight modules hold proofs, with the refinements beside the invariants they rest on; every
safety property of every component but the quantiles of the launch ring is proved. Every
theorem is for all values of the constants under the named assumption of the component's
module, so for any number of workers, conns, jobs, instances, rows, schemas and destinations,
and any number of faults, where the runs have one or two of each. An invariant a run checks is
never inductive as it stands: each proof module defines the strengthening that is (`IInv`, or
one invariant for each of the specifications it treats), proves lemma by lemma that the actions
keep it, and derives the properties from it. The strengthenings were tried with TLC on small
instances first; a conjunct that a proof attempt then asked for was added with the proof.

**`WorkerConnsProofs`** (`ConnAssumption`): `TypeOK`, `PlacedIsSound`, `OneLiveConn`,
`ClosesOnce`, `UnreachableIsReal` as invariants, `DownIsAsserted` as an action property, and
that `Spec` implements `Fleet`. `IInv` joins the invariants with what ties the program counters
together: an agent is inside `eject` exactly when its goroutine says so; a call that is under
way names a conn; a conn that has not been admitted yet is not `ok` and not `retired` (without
this the admission could open a retired conn); and every eject under way or finished is on a
conn whose daemon has failed (without this `UnreachableIsReal` does not survive `EjectFlag`).
The refinement maps each action to the step of `Fleet` it makes, or to a stutter.

**`WorkersProofs`** is about both `Placement` and `Poller`.

Of `Placement` (`PlacementAssumption`, with a finite fleet): `FailsOnlyExhausted`,
`VerdictIsFresh` and `TurnsComeRound`. The first rests on two facts about the round: `(c + i) %
n` meets every place for `i` in `0..n-1` wherever the cursor stands (`Round`), and a nonempty
set of distances has a least one (`LeastNumber`, from the well-foundedness of `<`). The second
needs `Held`: the count of misses is the number of polls since the agent was heard, while a
verdict is held, and none is held once that number is at the threshold. `TurnsComeRound` needs
`TurnsInv`: how often a worker was passed over, its distance from the cursor around the order
(`Wait`) and the number of workers that may still join before its turn together fit the budget,
`(m - 1) * (1 + removals)` for a fleet of `m`. A selection that passes a worker over brings the
cursor nearer to it by at least one; a worker that joins makes the order longer and is one
fewer to join; a removal, which can put the cursor just past a worker or beyond the end of the
order, adds a whole round to the budget.

Of `Poller` (`PollerAssumption`): `EscalationKept`, and `RecoveryIsEarned` as an action
property. `Counted` says that a stay out of placement is counted or that the eject which counts
it is on its way; for a conn that a recovery made and that was never placed it also needs that
only its own goroutine can eject it, since no control call goes out before it is reconciled
(`Fresh`). `Waits` and `Probes` bound the two things a recovery looks at by what they stand
for: once the leaving is stamped, the wait is not longer than the stay, and the run of good
probes of a poller that has seen the worker out began since.

**`InstancesProofs`** (`InstancesAssumption`): `PassSparesRecorded`, `Accounted` and
`BindSucceeds`. What makes `IInv` inductive is a bound on what the records can have lost sight
of (`Covered`). A container without a port, or without a row, is one the daemon is removing, one
counted as leaked, one whose launch is still under way, or, once its row is gone, one that the
pass its worker has to make will find: it has yet to list it, or has listed it and not yet removed
it. A launch that tears down what it began knows as much of its own container (`Stopping`), or its
deletion would break `Covered`; of a stop request, which may know of no container at all, it is
enough that one which does found its instance finalized.

**`LaunchesProofs`** (`LaunchQueueAssumption`, with a finite set of jobs, and
`RingAssumption`): `QueuesBalance`, `OnlyStrandedExceed` and `LaunchesCounted`; of the exporter
(`MetricsAssumption`) `DropsTold` and `RecoveryIsReal`; of the stalls
(`StallsAssumption`, positive settings, which is what `envDuration` and `envCount` let through)
`StallVerdicts`. Between two steps one job moves, so every set of jobs by place changes in that
job at most, and its size by at most one (`DifferInOne`, `JobMoves`, `BalanceKept`).
`OnlyStrandedExceed` needs `OnLatest`, that a job not stranded is in the queue of the latest
conn from the moment it has passed the check of the worker, or waits in the local queue of a
worker that is not in the map and will be refused. The jobs at work are then among the holders
of one queue's slots, which `QueuesBalance` bounds. `LaunchesCounted` is kept by carrying along
the conn each ended launch was counted on (`RingInv`), which is one of those `fit` names because a
launch not yet counted has the conn that is current among them (`FitInv`). Beside it, a ring's
write position and its fill follow from its successes (`RingsFollow`), and a launch added to a
ring that has the latest durations leaves it with the latest (`RingKeepsLatest`). For the exporter
the inductive invariant adds `OpenIsHeard`, that the last write of an open socket that has no
refusal to report reached an agent, and `DropInv`: what the log was told is what the emitter takes
for reported, its reading of the count lies between that and the count, and drops since the
reading leave the channel nonempty until the next one, because only a full channel drops.

For the stalls, `Remembers` relates the stalls kept to the timeouts since the last ejection:
they are some of these, a call timeout apart, and every burst of the window is among them. What
makes it inductive is what it says of the timeouts in the window that no stall kept counts:
they are earlier than all stalls kept and less than a call timeout from each other, so that
they are of one stall, which has left the window while they have not. Hence timeouts that lie a
call timeout apart are at most one more than the stalls kept (`SeparateFew`, by a map that is
one to one), which is why `StallVerdicts` allows a trickle one timeout more than bursts.

**`RebuildProofs`** (`RebuildAssumption`): `RunsRecorded`, `CountHeld`, `MovesReported` and
`RemovalFinal`. The properties speak of what an operation has left when it has ended; `IInv`
says what holds at each of its stages. `Serves` follows an update's list: a finalized instance
that does not run the generation on record is still listed, or is one of the exceptions. `Calm`
says that an operation that no request has met is alone with the instances from the moment it
looks at them until the next one, so that nobody else makes or deletes a row. `Tally` then adds
up: the instances a converge keeps and those it has yet to launch make up the count. `Addresses`
follows each instance's worker and port through its restart: not visited yet and unchanged, its
port released and in the operation's hand, or claimed again, relaunched or recorded as taken.
`RemovalFinal` follows in two parts: the end of a removal without an error finds no instance
(`SettlesRemoved`), since the build's row cannot go while one refers to it; and from then on
there is none (`RemovedStays`), since no request opens an instance of a build that is not there.
The proof changed the model and the property: with counts of 0 in the instance, `CountHeld`
failed after an update, for the reason given among the exceptions above.

**`BuildsProofs`** (`BuildsAssumption`): `RowsServedUnlessRaced` and `ArchiveMatches`. `IInv`
follows a tag from the build that looks it up to the row that names it: what a build is to
commit is in the registry or recorded as raced (`Published`); what a remover is about to delete
belongs to no build in flight and no finished row that is not recorded (`Removals`); and a
bundle promoted but not yet committed is of one build alone (`Bundles`). The proof changed the
model: an earlier history counted a race only on the tag a build was to commit for itself. A
rebuild also commits the tag it displaces as the row's rollback target, and a manual `Destroy`
of another row with that tag can remove it in between. Two manual rows and two changes are
needed, beyond the instance the run has; `raced` now has both tags.

**`PreloadProofs`** (`PreloadAssumption`): `UsedTagged`, `CoverageReported`, and `NamedKept` as
an action property. `Doomed` says of a pass, from its reading on, that what it is to remove no
build launches, unless one landed since. `Covered` says that what preloading has put on a
worker, or a pull under way is about to, is covered, was reported, or is in what the operation
under way will report; and that an operation that takes builds away has recorded all that was
covered before it.

**`DeployProofs`** (`DeployAssumption`): `BundlesAddressed`, `ServedIsPullable`, that `Spec`
implements `Custody`, that `Custody` keeps one holder per schema not at large, and so that
`Spec` does (`OneHolderKept`), which is what an operator of several orchestrators relies on. A
request outlives its sender, so the invariant speaks of requests as well as of commands: one
that no later command has overtaken (`Recent`) is a hand-over at the only orchestrator that may
hold its schemas, under the build plane's ids (`Handing`), or a removal that is alone
(`Removing`, `Apart`); what a command has checked holds until it ends (`Stage`), since whatever
could undo it would be overtaken and its schemas adrift. `ServedIsPullable` needs `Together`:
until a run is handed over that was not shown a schema held elsewhere, one orchestrator holds
everything, and the question a removal asks it is then enough.

Only model-checked, and why:

- liveness, which the prover does not reach: `Recovers`, `Leaves`, `JobsEnd`, `StaleRebuilt`,
  `PreloadedEverywhere`, `SupersededGone`, `Redeploys`;
- `RingIsRecent`, which needs induction over data: the ring of a history is a fold, and the
  quantiles of `stats` are those of a sorted copy. `RingKeepsLatest` proves the step of the
  first part, that the ring has the latest durations; the sort and the share of samples below a
  quantile are only model-checked.

## What is not modelled

Instances of several containers and builds of several images; Docker-assigned ports; the
parsing and validation of challenge sources, archives, payloads and port ranges; the wording
of answers and samples; migrations of the database; the purge of the builder's local
images; how pins are resolved and stored; `RemoveChallenge`; the command line client.
These are sequential code over their inputs, or data the control does not branch on.

In `Deploy`, `--server` (the deliberate override of routing), two `cork-build` processes at
once, the loss of the build plane's database and a commit that fails for some builds of a
hand-over only are left out. So is the retirement of displaced tags that `?prune_old=true` asks
of a hand-over (`handover.go:166`), which no client in the repository sends; `ServedIsPullable`
is about hand-overs without it. `requireInRegistry` is asked before the update lock is taken:
images retired in between are those of a request another command has overtaken, which the
property excepts. `DropOwnRows` takes the build plane's row and its bundle in one step, where
the code commits the row first: a `cork-build` that dies in between leaves a bundle no id names.
In `Builds`, the bytes of an image are its tag. In `Preload`, kicks and timers are left out,
since a pass may always run, and `lockUpdates` and `unlockUpdates` can always read the database:
`CoverageReported` rests on it, since the code logs a failure to read (`preload.go:460`, `470`)
and goes on without a report. In `Rebuild` only launches of the same build compete for ports, so
`MovesReported` does not see a port lost to another build's launch, which the code treats alike.
`Placement` takes the scan of `selectWorker` for one step; the code reads the workers' atomics
one by one under `workersMu` (`workers.go:1458`), so an ejection or a load verdict may fall
between two of its reads, and the worker picked or the error given is right of the moment each
was read. A probe of `Placement` that began before a worker-down may store its load verdict
after it; nobody reads the load of a worker that is down.
