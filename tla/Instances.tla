----------------------------- MODULE Instances -----------------------------
(***************************************************************************)
(* The instances of one worker: their records in SQLite (instances,        *)
(* portAssignments, containers) against what the worker's dockerd holds    *)
(* (containers and cmgr-<id> networks).  Launches (newInstance, launch),   *)
(* stops (stopInstance, teardown), the reconcile pass a worker makes       *)
(* before it joins placement (reconcileWorker), the prune and its crash-GC *)
(* (Prune, reclaimAfterGC), worker-remove, and crashes of corkd and of the *)
(* daemon, all interleaved.                                                *)
(*                                                                         *)
(* An instance is one network and one container that publishes one port.   *)
(* The worker's connection is here only as what the launch and stop paths  *)
(* ask of it: in placement, unreachable (workerUnreachable), joining (a    *)
(* fresh conn: not placed on, worth calling), or not registered.           *)
(***************************************************************************)
EXTENDS Naturals, FiniteSets

CONSTANTS
    Id,                 \* instance ids, each handed out once
    Stopper,            \* goroutines serving stop requests
    Port,               \* the configured port range
    NoPort, NoId,
    Pruning,            \* whether pruning is configured (pruneAge > 0)
    Mortal,             \* whether the worker's daemon may die
    MaxFaults           \* bound: ejections, operator commands, crashes, and calls,
                        \* transactions and waits that fail of themselves

ASSUME InstancesAssumption ==
    /\ NoPort \notin Port /\ NoId \notin Id
    /\ Id \cap Stopper = {}
    /\ Pruning \in BOOLEAN /\ Mortal \in BOOLEAN /\ MaxFaults \in Nat

VARIABLES
    \* the database
    row,            \* instances: open until finalized, stale past 5 minutes
    port,           \* portAssignments
    crow,           \* containers: whether the instance's container is recorded
    \* the worker
    daemon,         \* whether dockerd answers
    net, cont,      \* the networks and the containers it holds
    bound,          \* the host port an instance's container publishes
    removing,       \* containers whose forced removal is under way
    \* corkd
    worker,         \* the worker's connection
    pc,             \* where each agent is: an instance's launch, or a stopper
    on,             \* the instance a stopper stops
    known,          \* whether the agent's metadata names the container
    err,            \* the error its teardown has met so far
    inFlight,       \* whether it met a removal already in progress
    pass,           \* where a reconcile pass is
    seenC, seenN,   \* what it listed; once it has read the rows, the orphans
    prune,          \* where Prune's crash-GC is
    faults,         \* how many faults there have been
    leaked          \* history: containers the records are known to have lost

dbVars == <<row, port, crow>>
boxVars == <<net, cont, bound, removing>>
agentVars == <<pc, on, known, err, inFlight>>
passVars == <<pass, seenC, seenN>>
vars == <<dbVars, daemon, boxVars, worker, agentVars, passVars, prune, leaked,
          faults>>

\* An instance's launch runs on a goroutine of its own, named after it.
Agent == Id \cup Stopper
Tgt(a) == IF a \in Id THEN a ELSE on[a]

\* The pass of a worker that joins, and the one after a crash-GC.
Pass == {"join", "gc"}

Recorded == {"open", "stale", "final"}

\* workerUnreachable, asked of the worker by the launch and stop paths.
workerUnreachable == worker \in {"out", "absent"}

Init ==
    /\ row = [i \in Id |-> "never"]
    /\ port = [i \in Id |-> NoPort] /\ bound = [i \in Id |-> NoPort]
    /\ crow = [i \in Id |-> FALSE]
    /\ daemon = "up"
    /\ net = {} /\ removing = {} /\ leaked = {}
    /\ cont = [i \in Id |-> "none"]
    /\ worker = "absent"
    /\ pc = [a \in Agent |-> "idle"]
    /\ on = [s \in Stopper |-> NoId]
    /\ known = [a \in Agent |-> FALSE] /\ inFlight = [a \in Agent |-> FALSE]
    /\ err = [a \in Agent |-> "none"]
    /\ pass = [p \in Pass |-> "none"]
    /\ seenC = [p \in Pass |-> {}] /\ seenN = [p \in Pass |-> {}]
    /\ prune = "none" /\ faults = 0

-----------------------------------------------------------------------------
(* Steps the actions share.                                                *)

\* One fault more, of the bounded number.
Fault == faults < MaxFaults /\ faults' = faults + 1

\* DELETE FROM instances: port and container rows cascade.
DeleteRows(S) ==
    /\ row' = [i \in Id |-> IF i \in S /\ row[i] # "never" THEN "gone" ELSE row[i]]
    /\ port' = [i \in Id |-> IF i \in S THEN NoPort ELSE port[i]]
    /\ crow' = [i \in Id |-> crow[i] /\ i \notin S]

\* The containers in S are no more.
Gone(S) ==
    /\ cont' = [i \in Id |-> IF i \in S THEN "none" ELSE cont[i]]
    /\ removing' = removing \ S
    /\ leaked' = leaked \ S

\* An agent returns to its caller.
Returns(a) ==
    /\ pc' = [pc EXCEPT ![a] = IF a \in Id THEN "done" ELSE "idle"]
    /\ on' = IF a \in Id THEN on ELSE [on EXCEPT ![a] = NoId]
    /\ known' = [known EXCEPT ![a] = FALSE]
    /\ err' = [err EXCEPT ![a] = "none"]
    /\ inFlight' = [inFlight EXCEPT ![a] = FALSE]

\* errors.Join: what stopInstance asks of the joined error.
Join(e, f) == IF "deadline" \in {e, f} THEN "deadline"
              ELSE IF "transport" \in {e, f} THEN "transport"
              ELSE IF "api" \in {e, f} THEN "api" ELSE "none"

\* The containers in S that are there and whose removal is not under way, of which
\* the records no longer hold what they should.
Lost(S) == {i \in S : cont[i] # "none" /\ i \notin removing}

\* A launch under way looks after its container by itself, whatever happens to its
\* records: it is to start it and to finalize it, or to tear it down.
UnderWay(i) == pc[i] \notin {"idle", "done"}

\* An agent returns, its records as they are.  A launch that does leaves a container
\* whose port a stop, a purge or the crash-GC has taken back from under it.
GivesUp(a) ==
    /\ Returns(a)
    /\ leaked' = leaked \cup Lost({i \in {a} \cap Id : port[i] = NoPort})

\* An agent goes on with an error, joined to what it had.  What it knows of its
\* container is kept as long as it is read: until the container's records are dealt
\* with, a removal in progress until the network is, the error until it is judged.
GoesWith(a, where, e) ==
    /\ pc' = [pc EXCEPT ![a] = where]
    /\ err' = [err EXCEPT ![a] = IF where = "forgetOut" THEN "none" ELSE Join(@, e)]
    /\ known' = [known EXCEPT ![a] = @ /\ where \notin {"rmnet", "decide", "forget", "forgetOut"}]
    /\ inFlight' = [inFlight EXCEPT ![a] = @ /\ where = "rmnet"]
    /\ on' = on

Goes(a, where) == GoesWith(a, where, "none")

\* noteWorkerTransportError: the worker leaves placement; a conn that has yet to
\* be reconciled is left to its pass.
Ejected == IF worker = "ok" THEN "out" ELSE worker

\* How a docker call can fail: refused by the daemon; timed out, by a daemon that
\* may keep its place; or for want of a daemon that answers.  An ejection stops
\* no pass: the one of a joining worker does not run while it is in placement.
CallFails(e) ==
    \/ e = "api" /\ daemon = "up" /\ worker' = worker /\ Fault
    \/ e = "deadline" /\ daemon = "up" /\ worker' \in {worker, Ejected} /\ Fault
    \/ /\ e \in {"transport", "deadline"} /\ daemon = "dead"
       /\ worker' = Ejected /\ UNCHANGED faults

CallError == {"api", "transport", "deadline"}

-----------------------------------------------------------------------------
(* A launch: newInstance, on the goroutine of instance i.                  *)

\* selectWorker found the worker in placement.
selectWorker(i) ==
    /\ pc[i] = "idle" /\ row[i] = "never"
    /\ worker = "ok"
    /\ Goes(i, "placed")
    /\ UNCHANGED <<dbVars, daemon, boxVars, worker, passVars, prune, leaked,
                   faults>>

openInstance(i) ==
    /\ pc[i] = "placed"
    /\ row' = [row EXCEPT ![i] = "open"]
    /\ Goes(i, "reserve")
    /\ UNCHANGED <<port, crow, daemon, boxVars, worker, passVars, prune, leaked,
                   faults>>

\* Mutant: the port is not claimed in the step that finds it free on the worker.
reservePortUnchecked(i) ==
    /\ pc[i] = "reserve" /\ row[i] \in Recorded
    /\ \E p \in Port :
          /\ port' = [port EXCEPT ![i] = p]
          /\ bound' = [bound EXCEPT ![i] = p]
    /\ Goes(i, "waiting")
    /\ UNCHANGED <<row, crow, daemon, net, cont, removing, worker, passVars,
                   prune, leaked, faults>>

\* claimPort: INSERT ... WHERE NOT EXISTS; a foreign key names the instance.
reservePort(i) ==
    /\ pc[i] = "reserve" /\ row[i] \in Recorded
    /\ \E p \in Port \ {port[j] : j \in Id} :
          /\ port' = [port EXCEPT ![i] = p]
          /\ bound' = [bound EXCEPT ![i] = p]
    /\ Goes(i, "waiting")
    /\ UNCHANGED <<row, crow, daemon, net, cont, removing, worker, passVars,
                   prune, leaked, faults>>

\* No port, or a launch that never got to its slot (worker unreachable, images
\* not there, no slot in time): its records are cleared, which can fail.
clearInstanceRecords(i) ==
    /\ pc[i] \in {"reserve", "waiting"}
    /\ \/ DeleteRows({i}) /\ UNCHANGED faults
       \/ UNCHANGED dbVars /\ Fault
    /\ Returns(i)
    /\ UNCHANGED <<daemon, boxVars, worker, passVars, prune, leaked>>

\* launchStages has its images and its slot.
acquireLaunchSlot(i) ==
    /\ pc[i] = "waiting"
    /\ ~workerUnreachable
    /\ Goes(i, "network")
    /\ UNCHANGED <<dbVars, daemon, boxVars, worker, passVars, prune, leaked,
                   faults>>

startNetwork(i) ==
    /\ pc[i] = "network"
    /\ daemon = "up" /\ worker # "absent"
    /\ net' = net \cup {i}
    /\ Goes(i, "create")
    /\ UNCHANGED <<dbVars, daemon, cont, bound, removing, worker, passVars, prune,
                   leaked, faults>>

\* ContainerCreate, and the cid is in the launch's metadata.
createContainer(i) ==
    /\ pc[i] = "create"
    /\ daemon = "up" /\ worker # "absent"
    /\ cont' = [cont EXCEPT ![i] = "created"]
    /\ pc' = [pc EXCEPT ![i] = "start"]
    /\ known' = [known EXCEPT ![i] = TRUE]
    /\ UNCHANGED <<dbVars, daemon, net, bound, removing, worker, on, err,
                   inFlight, passVars, prune, leaked, faults>>

\* The daemon binds the published port when it starts a container, and attaches it to
\* its network, which a stop may have removed.
PortTaken(i) == \E j \in Id \ {i} : cont[j] = "running" /\ bound[j] = bound[i]
CanStart(i) ==
    /\ daemon = "up" /\ i \in net /\ ~PortTaken(i)
    /\ cont[i] = "created" /\ i \notin removing

startContainer(i) ==
    /\ pc[i] = "start"
    /\ CanStart(i)
    /\ cont' = [cont EXCEPT ![i] = "running"]
    /\ Goes(i, "finalize")
    /\ UNCHANGED <<dbVars, daemon, net, bound, removing, worker, passVars, prune,
                   leaked, faults>>

\* A stage fails on the daemon, which may have done what it was asked and not
\* said so; the daemon cannot start the container; or there is no client for a
\* worker that was removed.
launchFails(i) ==
    /\ pc[i] \in {"network", "create", "start"}
    /\ \/ /\ \E e \in CallError : CallFails(e)
          /\ \/ UNCHANGED <<net, cont>>
             \/ /\ daemon = "up" /\ pc[i] = "network"
                /\ net' = net \cup {i} /\ cont' = cont
             \/ /\ daemon = "up" /\ pc[i] = "create"
                /\ cont' = [cont EXCEPT ![i] = "created"] /\ net' = net
             \/ /\ CanStart(i) /\ pc[i] = "start"
                /\ cont' = [cont EXCEPT ![i] = "running"] /\ net' = net
       \/ /\ \/ pc[i] = "start" /\ daemon = "up" /\ ~CanStart(i)
             \/ pc[i] # "start" /\ worker = "absent"
          /\ UNCHANGED <<worker, net, cont, faults>>
    /\ Goes(i, "stop")
    /\ UNCHANGED <<dbVars, daemon, bound, removing, passVars, prune, leaked>>

\* finalizeInstance, in one transaction; without the instance's row the foreign
\* key of its container row refuses it.  It does not look at the instance's port,
\* which a stop of the launching instance has taken back.
finalizeInstance(i) ==
    /\ pc[i] = "finalize"
    /\ row[i] \in Recorded
    /\ row' = [row EXCEPT ![i] = "final"]
    /\ crow' = [crow EXCEPT ![i] = TRUE]
    /\ GivesUp(i)
    /\ UNCHANGED <<port, daemon, boxVars, worker, passVars, prune, faults>>

finalizeFails(i) ==
    /\ pc[i] = "finalize"
    /\ IF row[i] \in Recorded THEN Fault ELSE UNCHANGED faults
    /\ Goes(i, "stop")
    /\ UNCHANGED <<dbVars, daemon, boxVars, worker, passVars, prune, leaked>>

-----------------------------------------------------------------------------
(* stopInstance, by agent a: a stop request, or a launch that failed.      *)

\* Stop, and the stops of a converge and of a schema's cleanup: of any instance that
\* has a row, one whose launch is under way included.  The metadata read here name
\* its container once it is finalized.
Stop(s) ==
    /\ pc[s] = "idle"
    /\ \E i \in Id :
          /\ row[i] \in Recorded
          /\ on' = [on EXCEPT ![s] = i]
          /\ known' = [known EXCEPT ![s] = crow[i]]
    /\ pc' = [pc EXCEPT ![s] = "stop"]
    /\ UNCHANGED <<dbVars, daemon, boxVars, worker, err, inFlight, passVars,
                   prune, leaked, faults>>

\* The worker is unreachable, before the teardown or while it waits for its slot.
stopDbOnly(a) ==
    /\ pc[a] = "stop"
    /\ workerUnreachable
    /\ Goes(a, "forgetOut")
    /\ UNCHANGED <<dbVars, daemon, boxVars, worker, passVars, prune, leaked,
                   faults>>

acquireTeardownSlot(a) ==
    /\ pc[a] = "stop"
    /\ ~workerUnreachable
    /\ Goes(a, "remove")
    /\ UNCHANGED <<dbVars, daemon, boxVars, worker, passVars, prune, leaked,
                   faults>>

\* A refused slot leaves the records as they are.
slotRefused(a) ==
    /\ pc[a] = "stop"
    /\ ~workerUnreachable
    /\ GivesUp(a)
    /\ Fault
    /\ UNCHANGED <<dbVars, daemon, boxVars, worker, passVars, prune>>

\* stopContainers: the container is removed, or was not there, or the metadata
\* names none.
removeContainer(a) ==
    /\ pc[a] = "remove"
    /\ worker # "absent"
    /\ IF known[a] THEN daemon = "up" /\ Tgt(a) \notin removing /\ Gone({Tgt(a)})
       ELSE UNCHANGED <<cont, removing, leaked>>
    /\ Goes(a, "meta")
    /\ UNCHANGED <<dbVars, daemon, net, bound, worker, passVars, prune, faults>>

\* Somebody else's removal is in progress.
removeInFlight(a) ==
    /\ pc[a] = "remove"
    /\ worker # "absent"
    /\ known[a] /\ daemon = "up" /\ Tgt(a) \in removing
    /\ pc' = [pc EXCEPT ![a] = "meta"]
    /\ inFlight' = [inFlight EXCEPT ![a] = TRUE]
    /\ UNCHANGED <<dbVars, daemon, boxVars, worker, on, known, err, passVars,
                   prune, leaked, faults>>

\* The removal fails.  One that timed out was sent, and the daemon finishes it.
removeFails(a) ==
    /\ pc[a] = "remove"
    /\ worker # "absent"
    /\ known[a] /\ cont[Tgt(a)] # "none"
    /\ \E e \in CallError :
          /\ CallFails(e)
          /\ GoesWith(a, "meta", e)
          /\ removing' = IF e = "deadline" /\ daemon = "up"
                         THEN removing \cup {Tgt(a)} ELSE removing
    /\ UNCHANGED <<dbVars, daemon, net, cont, bound, passVars, prune, leaked>>

\* The worker was removed meanwhile: no client, and no record is touched.
removeNoClient(a) ==
    /\ pc[a] = "remove"
    /\ worker = "absent"
    /\ GoesWith(a, "rmnet", "api")
    /\ UNCHANGED <<dbVars, daemon, boxVars, worker, passVars, prune, leaked,
                   faults>>

\* Where teardown goes once stopContainers has returned.
AfterContainers(a) ==
    IF err[a] \in {"transport", "deadline"} /\ workerUnreachable THEN "decide"
    ELSE "rmnet"

\* Whether a is the last to look after its instance's container.
LastWith(a) == a \in Id \/ ~UnderWay(Tgt(a))

\* A container the records are about to forget: its removal failed or was somebody
\* else's, or a stop of an unfinalized instance did not know of it.
Forgotten(a) ==
    Lost({i \in {Tgt(a)} : /\ LastWith(a)
                           /\ err[a] # "none" \/ inFlight[a] \/ ~known[a]})

\* removeContainersMetadata: ports and containers go, whatever the removal
\* reported; the transaction can fail.
removeContainersMetadata(a) ==
    /\ pc[a] = "meta"
    /\ \/ /\ port' = [port EXCEPT ![Tgt(a)] = NoPort]
          /\ crow' = [crow EXCEPT ![Tgt(a)] = FALSE]
          /\ leaked' = leaked \cup Forgotten(a)
          /\ Goes(a, AfterContainers(a))
          /\ UNCHANGED faults
       \/ /\ GoesWith(a, AfterContainers(a), "api")
          /\ Fault
          /\ UNCHANGED <<port, crow, leaked>>
    /\ UNCHANGED <<row, daemon, boxVars, worker, passVars, prune>>

\* stopNetwork.  A network with an endpoint refuses removal, which a removal in
\* flight excuses.
NetBusy(i) == i \in net /\ cont[i] = "running"

stopNetwork(a) ==
    /\ pc[a] = "rmnet"
    /\ \/ /\ daemon = "up" /\ worker # "absent"
          /\ IF NetBusy(Tgt(a))
             THEN /\ net' = net
                  /\ GoesWith(a, "decide", IF inFlight[a] THEN "none" ELSE "api")
             ELSE /\ net' = net \ {Tgt(a)}
                  /\ Goes(a, "decide")
          /\ UNCHANGED <<worker, faults>>
       \/ /\ worker # "absent"
          /\ \E e \in CallError : CallFails(e) /\ GoesWith(a, "decide", e)
          /\ net' = net
       \/ /\ worker = "absent"
          /\ GoesWith(a, "decide", "api")
          /\ UNCHANGED <<net, worker, faults>>
    /\ UNCHANGED <<dbVars, daemon, cont, bound, removing, passVars, prune, leaked>>

\* What stopInstance makes of the teardown's error.
stopSettles(a) ==
    /\ pc[a] = "decide"
    /\ IF err[a] = "none" \/ (err[a] = "deadline" /\ ~workerUnreachable)
       THEN Goes(a, "forget") /\ leaked' = leaked
       ELSE IF workerUnreachable THEN Goes(a, "forgetOut") /\ leaked' = leaked
            ELSE GivesUp(a)
    /\ UNCHANGED <<dbVars, daemon, boxVars, worker, passVars, prune, faults>>

\* A pass that the worker has yet to make, or is making, finds container i once its
\* row is gone: it will list it, or has and not yet removed it.
PassFinds(i) ==
    \/ workerUnreachable
    \/ pass["join"] = "containers" \/ i \in seenC["join"]

\* What a's deletion of its instance's row leaves behind: the removal timed out; the
\* worker was unreachable when the stop asked and no pass finds the container; or the
\* launch reserved its port after this stop had cleared its records, and got ahead.
LeftBehind(a) ==
    Lost({i \in {Tgt(a)} : /\ LastWith(a)
                           /\ \/ pc[a] = "forgetOut" /\ ~PassFinds(i)
                              \/ pc[a] = "forget" /\ err[a] = "deadline"
                              \/ pc[a] = "forget" /\ port[i] # NoPort})

\* removeInstanceMetadata, which can fail.
removeInstanceMetadata(a) ==
    /\ pc[a] \in {"forget", "forgetOut"}
    /\ \/ /\ DeleteRows({Tgt(a)})
          /\ leaked' = leaked \cup LeftBehind(a)
          /\ Returns(a)
          /\ UNCHANGED faults
       \/ /\ GivesUp(a)
          /\ Fault
          /\ UNCHANGED dbVars
    /\ UNCHANGED <<daemon, boxVars, worker, passVars, prune>>

-----------------------------------------------------------------------------
(* reconcileWorker: pass p.                                                *)

\* A pass moves on to `where`.
PassAt(p, where, C, N) ==
    /\ pass' = [pass EXCEPT ![p] = where]
    /\ seenC' = [seenC EXCEPT ![p] = C]
    /\ seenN' = [seenN EXCEPT ![p] = N]

listContainers(p) ==
    /\ pass[p] = "containers"
    /\ daemon = "up"
    /\ PassAt(p, "networks", {i \in Id : cont[i] # "none"}, {})
    /\ UNCHANGED <<dbVars, daemon, boxVars, worker, agentVars, prune, leaked,
                   faults>>

listNetworks(p) ==
    /\ pass[p] = "networks"
    /\ daemon = "up"
    /\ PassAt(p, "rows", seenC[p], net)
    /\ UNCHANGED <<dbVars, daemon, boxVars, worker, agentVars, prune, leaked,
                   faults>>

Live == {i \in Id : row[i] \in Recorded}

\* Mutant: only finalized instances count as live.
findOrphansUnfinalized(p) ==
    /\ pass[p] = "rows"
    /\ LET live == {i \in Id : row[i] = "final"}
       IN  PassAt(p, "rmC", seenC[p] \ live, seenN[p] \ live)
    /\ UNCHANGED <<dbVars, daemon, boxVars, worker, agentVars, prune, leaked,
                   faults>>

\* The rows are read after the listing; findOrphans.
findOrphans(p) ==
    /\ pass[p] = "rows"
    /\ PassAt(p, "rmC", seenC[p] \ Live, seenN[p] \ Live)
    /\ UNCHANGED <<dbVars, daemon, boxVars, worker, agentVars, prune, leaked,
                   faults>>

\* removeOrphans, containers first.  One whose removal is in progress counts as
\* removed.
removeOrphanContainers(p) ==
    /\ pass[p] = "rmC"
    /\ seenC[p] # {} => daemon = "up"
    /\ Gone(seenC[p] \ removing)
    /\ PassAt(p, "rmN", {}, seenN[p])
    /\ UNCHANGED <<dbVars, daemon, net, bound, worker, agentVars, prune, faults>>

\* The pass is done: the worker that made it joins placement.
removeOrphanNetworks(p) ==
    /\ pass[p] = "rmN"
    /\ seenN[p] # {} => daemon = "up"
    /\ \A i \in seenN[p] : ~NetBusy(i)
    /\ net' = net \ seenN[p]
    /\ PassAt(p, "none", {}, {})
    /\ worker' = IF p = "join" THEN "ok" ELSE worker
    /\ UNCHANGED <<dbVars, daemon, cont, bound, removing, agentVars, prune,
                   leaked, faults>>

\* What a pass that does not finish may have removed all the same.
PartlyRemoved(p) ==
    \E C \in SUBSET {i \in seenC[p] \ removing : pass[p] = "rmC" /\ cont[i] # "none"} :
        /\ cont' = [i \in Id |-> IF i \in C THEN "none" ELSE cont[i]]
        /\ \E N \in SUBSET {i \in seenN[p] \cap net : pass[p] \in {"rmC", "rmN"}} :
              /\ \A i \in N : cont'[i] # "running"
              /\ net' = net \ N
              /\ C \cup N # {} => daemon = "up"

\* The daemon does not answer the pass, or will not remove a network.
PassStuck(p) ==
    \/ daemon = "dead" /\ pass[p] # "rows"
    \/ pass[p] = "rmN" /\ \E i \in seenN[p] : NetBusy(i)

\* The pass does not finish: a call fails, or the rows cannot be read.  A
\* joining worker tries again; once its budget is spent it is ejected, if the
\* daemon did not answer, or let in with what the daemon would not remove.
passFails(p) ==
    /\ pass[p] # "none"
    /\ IF PassStuck(p) THEN UNCHANGED faults ELSE Fault
    /\ PartlyRemoved(p)
    /\ \/ worker' = worker
       \/ p = "join" /\ worker' = "out"
       \/ /\ p = "join" /\ worker' = "ok"
          /\ daemon = "up" \/ pass[p] = "rows"
    /\ PassAt(p, IF p = "join" /\ worker' = "joining" THEN "containers" ELSE "none",
              {}, {})
    /\ leaked' = {i \in leaked : cont'[i] = cont[i]} \cup
                    (IF worker' # "ok" \/ p = "gc" THEN {}
                     ELSE {i \in Id : cont'[i] # "none" /\ row[i] = "gone"})
    /\ UNCHANGED <<dbVars, daemon, bound, removing, agentVars, prune>>

-----------------------------------------------------------------------------
(* Prune, the worker's connection, and the crashes.                        *)

\* The age prune of a finalized instance: rows alone.  It does not ask whether
\* docker-reaper has cleared the container away, which is then the reaper's.
pruneOld(i) ==
    /\ Pruning
    /\ row[i] = "final"
    /\ DeleteRows({i})
    /\ leaked' = leaked \cup Lost({i})
    /\ UNCHANGED <<daemon, boxVars, worker, agentVars, passVars, prune, faults>>

\* docker-reaper takes an instance past its lifetime.
Reaper(i) ==
    /\ daemon = "up" /\ cont[i] = "running" /\ row[i] # "open"
    /\ Gone({i})
    /\ net' = net \ {i}
    /\ UNCHANGED <<dbVars, daemon, bound, worker, agentVars, passVars, prune,
                   faults>>

\* Five minutes have passed since an unfinalized row was inserted, by a launch that is
\* gone or by one that is slow: still pulling, say, or waiting for its slot.
Stale(i) ==
    /\ Pruning /\ row[i] = "open"
    /\ row' = [row EXCEPT ![i] = "stale"]
    /\ IF UnderWay(i) THEN Fault ELSE UNCHANGED faults
    /\ UNCHANGED <<port, crow, daemon, boxVars, worker, agentVars, passVars,
                   prune, leaked>>

\* The crash-GC reads the workers of the stale rows, deletes the rows (which can
\* fail), and reclaims what they leave on those workers that are in placement.  The
\* reading misses them when it fails, or when it comes before they are stale.
gcWorkers ==
    /\ Pruning /\ prune = "none"
    /\ \E i \in Id : row[i] = "stale"
    /\ prune' \in {"listed", "missed"}
    /\ UNCHANGED <<dbVars, daemon, boxVars, worker, agentVars, passVars, leaked,
                   faults>>

gcDelete ==
    /\ prune \in {"listed", "missed"}
    /\ LET stale == {i \in Id : row[i] = "stale"}
       IN  \/ /\ DeleteRows(stale)
              /\ leaked' = leaked \cup Lost({i \in stale : ~UnderWay(i)})
              /\ prune' = IF prune = "listed" /\ stale # {} THEN "reclaim" ELSE "none"
              /\ UNCHANGED faults
           \/ /\ prune' = "none"
              /\ Fault
              /\ UNCHANGED <<dbVars, leaked>>
    /\ UNCHANGED <<daemon, boxVars, worker, agentVars, passVars>>

reclaimAfterGC ==
    /\ prune = "reclaim"
    /\ prune' = "none"
    /\ IF worker = "ok" THEN PassAt("gc", "containers", {}, {})
       ELSE UNCHANGED passVars
    /\ UNCHANGED <<dbVars, daemon, boxVars, worker, agentVars, leaked, faults>>

\* The worker is ejected, or an operator takes it down.
WorkerOut ==
    /\ worker \in {"ok", "joining"}
    /\ worker' = "out"
    /\ PassAt("join", "none", {}, {})
    /\ Fault
    /\ UNCHANGED <<dbVars, daemon, boxVars, agentVars, prune, leaked>>

\* A recovery, or worker-add.
WorkerJoins ==
    /\ worker \in {"out", "absent"}
    /\ worker' = "joining"
    /\ PassAt("join", "containers", {}, {})
    /\ UNCHANGED <<dbVars, daemon, boxVars, agentVars, prune, leaked, faults>>

\* worker-add of a worker that is already there: a fresh conn takes its place.
ReplaceWorker ==
    /\ worker \in {"ok", "joining"}
    /\ worker' = "joining"
    /\ PassAt("join", "containers", {}, {})
    /\ Fault
    /\ UNCHANGED <<dbVars, daemon, boxVars, agentVars, prune, leaked>>

\* RemoveWorker purges the worker's rows, those of launches under way included.
RemoveWorker ==
    /\ worker # "absent"
    /\ worker' = "absent"
    /\ DeleteRows(Id)
    /\ PassAt("join", "none", {}, {})
    /\ Fault
    /\ UNCHANGED <<daemon, boxVars, agentVars, prune, leaked>>

\* The launches under way whose port a stop has taken back: their rows make the pass
\* spare what they have on the box.
Cut == Lost({i \in Id : UnderWay(i) /\ row[i] \in Recorded /\ port[i] = NoPort})

\* Mutant: a worker that is loaded at startup is placed on at once.
RestartPlaces ==
    /\ worker' = IF worker = "absent" THEN "absent" ELSE "ok"
    /\ pc' = [a \in Agent |-> IF a \in Id /\ row[a] # "never" THEN "done" ELSE "idle"]
    /\ on' = [s \in Stopper |-> NoId]
    /\ known' = [a \in Agent |-> FALSE] /\ inFlight' = [a \in Agent |-> FALSE]
    /\ err' = [a \in Agent |-> "none"]
    /\ pass' = [p \in Pass |-> "none"]
    /\ seenC' = [p \in Pass |-> {}] /\ seenN' = [p \in Pass |-> {}]
    /\ prune' = "none"
    /\ leaked' = leaked \cup Cut
    /\ Fault
    /\ UNCHANGED <<dbVars, daemon, boxVars>>

\* corkd stops and starts again: the database and the box remain.
Restart ==
    /\ worker' = IF worker = "absent" THEN "absent" ELSE "joining"
    /\ pc' = [a \in Agent |-> IF a \in Id /\ row[a] # "never" THEN "done" ELSE "idle"]
    /\ on' = [s \in Stopper |-> NoId]
    /\ known' = [a \in Agent |-> FALSE] /\ inFlight' = [a \in Agent |-> FALSE]
    /\ err' = [a \in Agent |-> "none"]
    /\ pass' = [p \in Pass |-> IF p = "join" /\ worker # "absent" THEN "containers"
                               ELSE "none"]
    /\ seenC' = [p \in Pass |-> {}] /\ seenN' = [p \in Pass |-> {}]
    /\ prune' = "none"
    /\ leaked' = leaked \cup Cut
    /\ Fault
    /\ UNCHANGED <<dbVars, daemon, boxVars>>

\* A removal the daemon was sent lands; a daemon that dies forgets it.
RemovalLands(i) ==
    /\ i \in removing /\ daemon = "up"
    /\ Gone({i})
    /\ UNCHANGED <<dbVars, daemon, net, bound, worker, agentVars, passVars, prune,
                   faults>>

DaemonDies ==
    /\ Mortal
    /\ daemon = "up" /\ daemon' = "dead"
    /\ removing' = {}
    /\ leaked' = leaked \cup {i \in removing : port[i] = NoPort}
    /\ Fault
    /\ UNCHANGED <<dbVars, net, cont, bound, worker, agentVars, passVars, prune>>

DaemonReturns ==
    /\ daemon = "dead" /\ daemon' = "up"
    /\ UNCHANGED <<dbVars, boxVars, worker, agentVars, passVars, prune, leaked,
                   faults>>

-----------------------------------------------------------------------------
Launch(i) ==
    \/ selectWorker(i) \/ openInstance(i) \/ reservePort(i) \/ clearInstanceRecords(i)
    \/ acquireLaunchSlot(i) \/ startNetwork(i) \/ createContainer(i)
    \/ startContainer(i) \/ launchFails(i) \/ finalizeInstance(i) \/ finalizeFails(i)

stopInstance(a) ==
    \/ stopDbOnly(a) \/ acquireTeardownSlot(a) \/ slotRefused(a)
    \/ removeContainer(a) \/ removeInFlight(a) \/ removeFails(a) \/ removeNoClient(a)
    \/ removeContainersMetadata(a) \/ stopNetwork(a) \/ stopSettles(a)
    \/ removeInstanceMetadata(a)

reconcileWorker(p) ==
    \/ listContainers(p) \/ listNetworks(p) \/ findOrphans(p)
    \/ removeOrphanContainers(p) \/ removeOrphanNetworks(p) \/ passFails(p)

Prune == gcWorkers \/ gcDelete \/ reclaimAfterGC

Next ==
    \/ \E i \in Id : Launch(i) \/ pruneOld(i) \/ Reaper(i) \/ Stale(i) \/ RemovalLands(i)
    \/ \E s \in Stopper : Stop(s)
    \/ \E a \in Agent : stopInstance(a)
    \/ \E p \in Pass : reconcileWorker(p)
    \/ Prune \/ WorkerJoins \/ DaemonReturns
    \/ WorkerOut \/ RemoveWorker \/ ReplaceWorker \/ Restart \/ DaemonDies

Spec == Init /\ [][Next]_vars

-----------------------------------------------------------------------------
(* Properties.                                                             *)

\* On a worker in placement, a container that runs on the port a launch holds is one
\* whose removal the daemon has been sent, one of a launch whose own port a stop has
\* taken back, or one of the leaks: a launch that still has the port it reserved is
\* not refused the bind by anything else, however launches, stops, passes, prunes and
\* crashes interleave.
BindSucceeds ==
    worker = "ok" => \A i, j \in Id :
        /\ pc[i] = "start" /\ cont[i] = "created" /\ port[i] # NoPort
        /\ i # j /\ cont[j] = "running" /\ bound[j] = bound[i]
        => j \in removing \cup leaked \/ (UnderWay(j) /\ port[j] = NoPort)

\* A pass removes only what belongs to no recorded instance, a launch that began
\* after it listed the daemon included.
PassSparesRecorded ==
    \A p \in Pass : pass[p] \in {"rmC", "rmN"} =>
        \A i \in seenC[p] \cup seenN[p] : row[i] = "gone"

\* On a worker in placement nothing is left of an instance without a record, other
\* than what the daemon is removing, what a launch under way has yet to clear away,
\* and the leaks: not by a stop that cleared its records only, nor a launch that
\* failed or lost its row, nor a crash, nor a second stop.
Accounted ==
    worker = "ok" =>
        \A i \in Id : cont[i] # "none" /\ row[i] = "gone"
            => i \in removing \cup leaked \/ UnderWay(i)

-----------------------------------------------------------------------------
(* What a comment says and the code does not keep.                         *)

\* "by then they are removed on the daemon whatever the call reported" (teardown):
\* an instance that is still recorded, and that nobody is stopping, has its port
\* reserved as long as its container runs.
ReservedWhileRunning ==
    \A i \in Id :
        /\ row[i] = "final" /\ cont[i] = "running" /\ i \notin removing
        /\ \A a \in Agent : Tgt(a) = i => pc[a] \in {"idle", "done"}
        => port[i] = bound[i]

=============================================================================
