--------------------------- MODULE InstancesProofs ---------------------------
(***************************************************************************)
(* Proofs about Instances, for every number of instances, stop requests,   *)
(* ports and faults: the three invariants the runs check follow from one   *)
(* inductive invariant.  What makes it inductive is a bound on what the    *)
(* records can have lost sight of.  A container without a port, or without *)
(* a row, is one the daemon is removing, one already counted as leaked,    *)
(* one whose launch is still under way, or, once its row is gone, one that *)
(* the pass its worker has to make will find: the pass has yet to list it, *)
(* or has listed it and has not yet removed it.  A launch that tears down  *)
(* what it began knows as much of its own container.                       *)
(***************************************************************************)
EXTENDS Instances, TLAPS

\* The leaves are first-order and set reasoning: Zenon's, but for a few.
USE Zenon

-----------------------------------------------------------------------------
(* Where an agent is: before its container can be, launching, stopping.    *)

Early == {"reserve", "waiting", "network", "create"}
Launching == Early \cup {"start", "finalize"}
Tearing == {"stop", "remove", "meta", "rmnet", "decide", "forget", "forgetOut"}

\* The functions' domains, and the sets of instances.
Domains ==
    /\ DOMAIN row = Id /\ DOMAIN port = Id /\ DOMAIN crow = Id
    /\ DOMAIN bound = Id /\ DOMAIN cont = Id
    /\ DOMAIN pass = Pass /\ DOMAIN seenC = Pass /\ DOMAIN seenN = Pass
    /\ net \subseteq Id /\ \A p \in Pass : seenC[p] \subseteq Id /\ seenN[p] \subseteq Id

Agents ==
    /\ DOMAIN pc = Agent /\ DOMAIN err = Agent /\ DOMAIN known = Agent
    /\ DOMAIN inFlight = Agent /\ DOMAIN on = Stopper

\* The join pass runs exactly while the worker is joining, and holds a list of
\* containers from its first step to its removals.
Joining ==
    /\ worker \in {"ok", "out", "joining", "absent"}
    /\ pass["join"] \in {"none", "containers", "networks", "rows", "rmC", "rmN"}
    /\ worker = "joining" <=> pass["join"] # "none"
    /\ pass["join"] \in {"none", "containers", "rmN"} => seenC["join"] = {}

\* No two instances hold the same port.
Unique == \A i, j \in Id : port[i] = port[j] /\ port[i] # NoPort => i = j

\* What the daemon and the passes hold of an instance, by how far its launch is.
Stages(i) ==
    /\ row[i] \in {"never", "gone"} \cup Recorded
    /\ row[i] = "never" <=> pc[i] \in {"idle", "placed"}
    /\ row[i] = "final" => pc[i] = "done"
    /\ pc[i] \in {"idle", "placed"} => i \notin net /\ \A p \in Pass : i \notin seenN[p]
    /\ pc[i] \in {"idle", "placed"} \cup Early =>
        cont[i] = "none" /\ \A p \in Pass : i \notin seenC[p]
    /\ pc[i] \in {"idle", "placed"} \cup Launching => i \notin removing

\* A port goes with its row and is the one the container publishes; a container is
\* recorded once its instance is finalized.
Ports(i) ==
    /\ row[i] \in {"never", "gone"} => port[i] = NoPort
    /\ port[i] \in {NoPort, bound[i]}
    /\ crow[i] => row[i] = "final"

\* A container that the records no longer need to account for.
Safe(i) == i \in removing \cup leaked

\* A container that the daemon is removing, that is counted as leaked, or that the
\* pass its worker has to make will find.
Reclaimed(i) == Safe(i) \/ PassFinds(i)

\* What the records have lost sight of.
Covered(i) ==
    /\ cont[i] # "none" /\ port[i] = NoPort /\ row[i] # "gone" => Safe(i) \/ UnderWay(i)
    /\ cont[i] # "none" /\ row[i] = "gone" => Reclaimed(i) \/ UnderWay(i)

\* The orphans of a pass have no row.
Spared(i) ==
    \A p \in Pass : pass[p] \in {"rmC", "rmN"} /\ i \in seenC[p] \cup seenN[p] => row[i] = "gone"

Inst(i) == Stages(i) /\ Ports(i) /\ Covered(i) /\ Spared(i)

\* What an agent that stops an instance knows of it.  A stop request that knows of a
\* container found its instance finalized; a launch that has cleared away its
\* container's records has no container left that it has to remove.
Stopping(a) ==
    /\ err[a] \in {"none"} \cup CallError
    /\ a \in Stopper /\ pc[a] # "idle" =>
        /\ pc[a] \in Tearing /\ on[a] \in Id /\ row[on[a]] # "never"
        /\ known[a] => pc[on[a]] = "done"
    /\ pc[a] = "meta" /\ err[a] = "none" /\ known[a] /\ ~inFlight[a] => cont[Tgt(a)] = "none"
    /\ a \in Id /\ pc[a] \in {"rmnet", "decide", "forget"} /\ err[a] = "none" =>
        port[a] = NoPort /\ (cont[a] = "none" \/ Safe(a))
    /\ pc[a] = "forget" => err[a] \in {"none", "deadline"}

IInv ==
    /\ Domains /\ Agents /\ Joining /\ Unique
    /\ \A i \in Id : Inst(i)
    /\ \A a \in Agent : Stopping(a)

-----------------------------------------------------------------------------
(* What a step leaves alone.                                               *)

\* An agent that does not take the step.
Undisturbed(b) ==
    /\ pc'[b] = pc[b] /\ err'[b] = err[b] /\ known'[b] = known[b] /\ inFlight'[b] = inFlight[b]
    /\ b \in Stopper => on'[b] = on[b]

\* An instance whose records and whose container are as they were.
Untouched(k) ==
    /\ row'[k] = row[k] /\ port'[k] = port[k] /\ (crow'[k] => crow[k])
    /\ bound'[k] = bound[k] /\ cont'[k] = cont[k]
    /\ k \in net' <=> k \in net
    /\ k \in removing' <=> k \in removing
    /\ k \in leaked' <=> k \in leaked

\* An instance that is past its launch.
Past(i) == pc[i] \in Tearing \cup {"done"}

\* A step takes no instance back to before it had a row, and may only take from one
\* that is past its launch.
Kept(i) ==
    /\ row[i] # "never" => row'[i] # "never"
    /\ Past(i) =>
        /\ pc[i] = "done" => pc'[i] = "done"
        /\ port'[i] \in {NoPort, port[i]}
        /\ \/ cont'[i] = "none"
           \/ cont'[i] = cont[i] /\ (Safe(i) /\ port[i] = NoPort => Safe(i)')

\* Agent a moves to `where`.
Moves(a, where) ==
    /\ Agents'
    /\ \A b \in Agent \ {a} : Undisturbed(b)
    /\ pc'[a] = where /\ err'[a] \in {"none"} \cup CallError
    /\ Tgt(a)' = Tgt(a) \/ where = "idle"

\* The passes are where they were, and the worker, unless it has been ejected.
PassesStay == UNCHANGED passVars /\ worker' \in {worker, Ejected}

\* An agent that goes on (GoesWith) moves there, and joins its error.
LEMMA GoesMoves ==
  ASSUME Agents, NEW a \in Agent, NEW where, NEW e, GoesWith(a, where, e)
  PROVE  /\ Moves(a, where) /\ (known'[a] => known[a])
         /\ where # "forgetOut" => err'[a] = Join(err[a], e)
  <1>1. /\ Agents' /\ pc'[a] = where
        /\ err'[a] = IF where = "forgetOut" THEN "none" ELSE Join(err[a], e)
    BY DEF Agents, GoesWith
  <1>2. known'[a] => known[a]
    BY DEF Agents, GoesWith
  <1>3. ASSUME NEW b \in Agent \ {a} PROVE Undisturbed(b)
    BY DEF Agents, GoesWith, Undisturbed
  <1>4. Tgt(a)' = Tgt(a)
    BY DEF GoesWith, Tgt
  <1> QED
    BY <1>1, <1>2, <1>3, <1>4 DEF Moves, Join, CallError

\* An agent that returns to its caller is done, or idle again.
LEMMA ReturnsMoves ==
  ASSUME Agents, NEW a \in Agent, Returns(a)
  PROVE  Moves(a, IF a \in Id THEN "done" ELSE "idle")
  <1>1. Agents' /\ pc'[a] = (IF a \in Id THEN "done" ELSE "idle") /\ err'[a] = "none"
    BY DEF Agents, Returns
  <1>2. ASSUME NEW b \in Agent \ {a} PROVE Undisturbed(b)
    BY DEF Agents, Returns, Undisturbed
  <1>3. a \in Id => Tgt(a)' = Tgt(a)
    BY DEF Tgt
  <1> QED
    BY <1>1, <1>2, <1>3 DEF Moves

\* A stop whose agent and whose instance are left alone, or only taken from.
LEMMA OthersKept ==
  ASSUME IInv, NEW b \in Agent, Undisturbed(b), \A i \in Id : Kept(i)
  PROVE  Stopping(b)'
  <1> DEFINE t == Tgt(b)
  <1>1. Tgt(b)' = t /\ Stopping(b)
    BY DEF Undisturbed, Tgt, Agent, IInv
  <1>2. CASE pc[b] \notin Tearing
    BY <1>1, <1>2 DEF Undisturbed, Stopping, Tearing
  <1>3. CASE pc[b] \in Tearing
    <2>1. t \in Id /\ (b \in Id \/ known[b] => Past(t))
      BY <1>1, <1>3, InstancesAssumption DEF Stopping, Tgt, Agent, Tearing, Past
    <2>2. Kept(t)
      BY <2>1
    <2>3. Tgt(b) = t /\ (b \in Stopper => on[b] = t) /\ (b \in Id => b = t)
      BY InstancesAssumption DEF Tgt
    <2> HIDE DEF t
    <2>4. b \in Stopper => /\ pc'[b] \in Tearing /\ on'[b] \in Id /\ row'[on'[b]] # "never"
                           /\ known'[b] => pc'[on'[b]] = "done"
      BY <1>1, <1>3, <2>1, <2>2, <2>3 DEF Undisturbed, Kept, Stopping, Tearing
    <2>5. pc[b] = "meta" /\ err[b] = "none" /\ known[b] /\ ~inFlight[b] => cont'[t] = "none"
      BY <1>1, <2>1, <2>2, <2>3 DEF Kept, Stopping
    <2>6. b \in Id /\ pc[b] \in {"rmnet", "decide", "forget"} /\ err[b] = "none" =>
              port'[b] = NoPort /\ (cont'[b] = "none" \/ Safe(b)')
      BY <1>1, <2>1, <2>2, <2>3 DEF Kept, Stopping
    <2> QED
      BY <1>1, <2>4, <2>5, <2>6 DEF Undisturbed, Stopping
  <1> QED
    BY <1>2, <1>3

\* An instance that no step touches, as long as the passes stay.
LEMMA UntouchedInst ==
  ASSUME IInv, NEW k \in Id, Untouched(k), pc'[k] = pc[k], PassesStay
  PROVE  Inst(k)'
  <1>1. Inst(k)
    BY DEF IInv
  <1>2. Stages(k)' /\ Ports(k)'
    BY <1>1 DEF Inst, Stages, Ports, Untouched, PassesStay, passVars
  <1>3. Covered(k)' /\ Spared(k)'
    BY <1>1
    DEF Inst, Covered, UnderWay, Reclaimed, PassFinds, workerUnreachable, Spared, Safe, Untouched, PassesStay, passVars, Ejected
  <1> QED
    BY <1>2, <1>3 DEF Inst

\* A step that touches one instance, t.
OneTouched(t) ==
    /\ \A k \in Id \ {t} : Untouched(k)
    /\ PassesStay
    /\ port'[t] \in {NoPort, port[t]} \/ \A k \in Id : port[k] # port'[t]
    /\ row[t] = "gone" => row'[t] = "gone"
    /\ row[t] # "never" => row'[t] # "never"

\* What such a step keeps, once instance t has its own part of the invariant.
LEMMA OneTouchedInv ==
  ASSUME IInv, NEW t \in Id, OneTouched(t), \A k \in Id \ {t} : pc'[k] = pc[k],
         Stages(t)' /\ Ports(t)' /\ Covered(t)', Kept(t)
  PROVE  /\ Joining' /\ Unique'
         /\ \A k \in Id : Inst(k)'
         /\ \A k \in Id : Kept(k)
  <1>1. Joining'
    BY DEF IInv, Joining, OneTouched, PassesStay, passVars, Ejected
  <1>2. Unique'
    BY SMT DEF IInv, Unique, OneTouched, Untouched
  <1>3. ASSUME NEW k \in Id PROVE Inst(k)'
    <2>1. CASE k = t
      BY <2>1 DEF IInv, Inst, Spared, OneTouched, PassesStay, passVars
    <2>2. CASE k # t
      BY <2>2, UntouchedInst DEF OneTouched
    <2> QED
      BY <2>1, <2>2
  <1>4. ASSUME NEW k \in Id PROVE Kept(k)
    BY DEF OneTouched, Untouched, Kept, Safe
  <1> QED
    BY <1>1, <1>2, <1>3, <1>4

\* A step of an agent, on the instance it launches or stops.
LEMMA AgentStep ==
  ASSUME IInv, NEW a \in Agent, NEW where, Moves(a, where), NEW t \in Id, t = Tgt(a),
         Domains', OneTouched(t),
         Stages(t)' /\ Ports(t)' /\ Covered(t)', Kept(t), Stopping(a)'
  PROVE  IInv'
  <1>1. \A k \in Id \ {t} : pc'[k] = pc[k]
    BY InstancesAssumption DEF Moves, Undisturbed, Tgt, Agent
  <1>2. /\ Joining' /\ Unique'
        /\ \A k \in Id : Inst(k)'
        /\ \A k \in Id : Kept(k)
    BY <1>1, OneTouchedInv
  <1>3. ASSUME NEW b \in Agent PROVE Stopping(b)'
    BY <1>2, OthersKept DEF Moves
  <1> QED
    BY <1>2, <1>3 DEF IInv, Moves

\* DELETE FROM instances, of one instance.
LEMMA DeleteOne ==
  ASSUME Domains, NEW t \in Id, DeleteRows({t})
  PROVE  /\ DOMAIN row' = Id /\ DOMAIN port' = Id /\ DOMAIN crow' = Id
         /\ row[t] # "never" => row'[t] = "gone"
         /\ row[t] = "never" => row'[t] = "never"
         /\ port'[t] = NoPort /\ ~crow'[t]
         /\ \A k \in Id \ {t} : row'[k] = row[k] /\ port'[k] = port[k] /\ (crow'[k] => crow[k])
  BY DEF Domains, DeleteRows

\* A step of no agent keeps what the stops know.
LEMMA BackgroundStep ==
  ASSUME IInv, UNCHANGED agentVars, Domains', Joining', Unique',
         \A k \in Id : Inst(k)', \A k \in Id : Kept(k)
  PROVE  IInv'
  <1>1. Agents' /\ \A b \in Agent : Undisturbed(b)
    BY DEF IInv, Agents, Undisturbed, agentVars
  <1>2. ASSUME NEW b \in Agent PROVE Stopping(b)'
    BY <1>1, OthersKept
  <1> QED
    BY <1>1, <1>2 DEF IInv

\* A step of an agent that touches no instance.
LEMMA NoneTouched ==
  ASSUME IInv, NEW t \in Id, UNCHANGED <<dbVars, boxVars, worker, passVars, leaked>>
  PROVE  OneTouched(t) /\ Untouched(t) /\ Domains'
  BY DEF IInv, OneTouched, Untouched, PassesStay, Domains, dbVars, boxVars, passVars

\* A launch that gives up without a port leaves no container but a safe one.
LEMMA GivenUp ==
  ASSUME NEW a \in Agent, GivesUp(a)
  PROVE  /\ \A k \in Id \ {a} : k \in leaked' <=> k \in leaked
         /\ \A k \in Id : k \in leaked => k \in leaked'
         /\ a \in Id /\ cont[a] # "none" /\ port[a] = NoPort => a \in removing \cup leaked'
  BY DEF GivesUp, Lost

-----------------------------------------------------------------------------
(* A launch.                                                               *)

\* A step of a launch, which no stop is waiting on.
LEMMA LaunchStep ==
  ASSUME IInv, NEW i \in Id, ~Past(i),
         NEW where \in {"placed", "done", "stop"} \cup Launching, Moves(i, where),
         Domains', OneTouched(i), Stages(i)' /\ Ports(i)' /\ Covered(i)'
  PROVE  IInv'
  <1>1. i \in Agent /\ Tgt(i) = i /\ i \notin Stopper
    BY InstancesAssumption DEF Agent, Tgt
  <1>2. Stopping(i)'
    BY <1>1 DEF Stopping, Moves, Launching, Early
  <1>3. Kept(i)
    BY DEF Kept, OneTouched
  <1> QED
    BY <1>1, <1>2, <1>3, AgentStep

\* Every step of newInstance, up to its answer, keeps the invariant.
LEMMA LaunchSteps ==
  ASSUME IInv, NEW i \in Id, Launch(i)
  PROVE  IInv'
  <1> DEFINE Own == Stages(i)' /\ Ports(i)' /\ Covered(i)'
  <1>a. i \in Agent /\ Agents /\ Inst(i) /\ Stopping(i) /\ Domains
    BY DEF IInv, Agent
  <1>1. CASE selectWorker(i)
    <2>1. Moves(i, "placed")
      BY <1>a, <1>1, GoesMoves DEF selectWorker, Goes
    <2>2. OneTouched(i) /\ Untouched(i) /\ Domains' /\ UNCHANGED <<passVars, worker>>
          /\ pc[i] = "idle"
      BY <1>1, NoneTouched DEF selectWorker
    <2>3. Own
      BY <1>a, <2>1, <2>2
      DEF Moves, Untouched, Inst, Stages, Ports, Covered, UnderWay, Reclaimed, PassFinds, workerUnreachable, Safe,
          Launching, Early, passVars
    <2> QED
      BY <2>1, <2>2, <2>3, LaunchStep DEF Past, Tearing
  <1>2. CASE openInstance(i)
    <2>1. Moves(i, "reserve") /\ pc[i] = "placed"
      BY <1>a, <1>2, GoesMoves DEF openInstance, Goes, Launching, Early
    <2>2. UNCHANGED <<port, crow, boxVars, leaked, passVars, worker>>
      BY <1>2 DEF openInstance
    <2>3. Domains' /\ row'[i] = "open" /\ \A k \in Id \ {i} : row'[k] = row[k]
      BY <1>a, <1>2, <2>2 DEF openInstance, Domains, boxVars, passVars
    <2>4. OneTouched(i)
      BY <1>a, <2>1, <2>2, <2>3
      DEF OneTouched, Untouched, PassesStay, Inst, Stages, boxVars
    <2>5. Own
      BY <1>a, <2>1, <2>2, <2>3
      DEF Moves, Inst, Stages, Ports, Covered, UnderWay, Reclaimed, PassFinds, workerUnreachable, Safe, Launching, Early,
          Recorded, boxVars, passVars
    <2> QED
      BY <2>1, <2>3, <2>4, <2>5, LaunchStep DEF Past, Tearing, Launching, Early
  <1>3. CASE reservePort(i)
    <2>1. Moves(i, "waiting") /\ pc[i] = "reserve" /\ row[i] \in Recorded
      BY <1>a, <1>3, GoesMoves DEF reservePort, Goes, Launching, Early
    <2>2. PICK p \in Port \ {port[j] : j \in Id} :
              port' = [port EXCEPT ![i] = p] /\ bound' = [bound EXCEPT ![i] = p]
      BY <1>3 DEF reservePort
    <2>3. UNCHANGED <<row, crow, cont, net, removing, leaked, passVars, worker>>
      BY <1>3 DEF reservePort
    <2>4. /\ Domains' /\ port'[i] = p /\ bound'[i] = p
          /\ \A k \in Id \ {i} : port'[k] = port[k] /\ bound'[k] = bound[k]
      BY <1>a, <2>2, <2>3 DEF Domains, passVars
    <2>5. OneTouched(i)
      BY <2>2, <2>3, <2>4 DEF OneTouched, Untouched, PassesStay
    <2>6. Own
      BY <1>a, <2>1, <2>3, <2>4, InstancesAssumption
      DEF Moves, Inst, Stages, Ports, Covered, UnderWay, Reclaimed, PassFinds, workerUnreachable, Safe, Launching, Early,
          Recorded, passVars
    <2> QED
      BY <2>1, <2>4, <2>5, <2>6, LaunchStep DEF Past, Tearing, Launching, Early
  <1>4. CASE clearInstanceRecords(i)
    <2>1. Moves(i, "done") /\ pc[i] \in {"reserve", "waiting"}
      BY <1>a, <1>4, ReturnsMoves DEF clearInstanceRecords
    <2>2. UNCHANGED <<boxVars, leaked, passVars, worker>>
      BY <1>4 DEF clearInstanceRecords
    <2>3. /\ Domains'
          /\ \A k \in Id \ {i} :
                row'[k] = row[k] /\ port'[k] = port[k] /\ (crow'[k] => crow[k])
          /\ \/ row'[i] = "gone" /\ port'[i] = NoPort /\ ~crow'[i]
             \/ row'[i] = row[i] /\ port'[i] = port[i] /\ (crow'[i] => crow[i])
      <3>1. CASE UNCHANGED dbVars
        BY <1>a, <2>2, <3>1 DEF Domains, dbVars, boxVars, passVars
      <3>2. CASE DeleteRows({i})
        BY <1>a, <2>1, <2>2, <3>2, DeleteOne DEF Inst, Stages, Domains, boxVars, passVars
      <3> QED
        BY <1>4, <3>1, <3>2 DEF clearInstanceRecords
    <2>4. OneTouched(i)
      BY <2>2, <2>3 DEF OneTouched, Untouched, PassesStay, boxVars
    <2>5. Own
      BY <1>a, <2>1, <2>2, <2>3
      DEF Moves, Inst, Stages, Ports, Covered, UnderWay, Reclaimed, PassFinds, workerUnreachable, Safe, Launching, Early,
          boxVars, passVars
    <2> QED
      BY <2>1, <2>3, <2>4, <2>5, LaunchStep DEF Past, Tearing
  <1>5. CASE acquireLaunchSlot(i)
    <2>1. Moves(i, "network")
      BY <1>a, <1>5, GoesMoves DEF acquireLaunchSlot, Goes, Launching, Early
    <2>2. OneTouched(i) /\ Untouched(i) /\ Domains' /\ UNCHANGED <<passVars, worker>>
          /\ pc[i] = "waiting"
      BY <1>5, NoneTouched DEF acquireLaunchSlot
    <2>3. Own
      BY <1>a, <2>1, <2>2
      DEF Moves, Untouched, Inst, Stages, Ports, Covered, UnderWay, Reclaimed, PassFinds, workerUnreachable, Safe,
          Launching, Early, passVars
    <2> QED
      BY <2>1, <2>2, <2>3, LaunchStep DEF Past, Tearing, Launching, Early
  <1>6. CASE startNetwork(i)
    <2>1. Moves(i, "create") /\ pc[i] = "network"
      BY <1>a, <1>6, GoesMoves DEF startNetwork, Goes, Launching, Early
    <2>2. UNCHANGED <<row, port, crow, bound, cont, removing, leaked, passVars, worker>>
      BY <1>6 DEF startNetwork, dbVars
    <2>3. OneTouched(i) /\ Domains'
      <3>1. net' \subseteq Id /\ \A k \in Id \ {i} : k \in net' <=> k \in net
        BY <1>a, <1>6 DEF startNetwork, Domains
      <3> QED
        BY <1>a, <2>2, <3>1 DEF OneTouched, Untouched, PassesStay, Domains, passVars
    <2>4. Own
      BY <1>a, <2>1, <2>2
      DEF Moves, Inst, Stages, Ports, Covered, UnderWay, Reclaimed, PassFinds, workerUnreachable, Safe, Launching, Early, passVars
    <2> QED
      BY <2>1, <2>3, <2>4, LaunchStep DEF Past, Tearing, Launching, Early
  <1>7. CASE createContainer(i)
    <2>1. pc[i] = "create" /\ Moves(i, "start")
      <3>1. Agents' /\ pc[i] = "create" /\ pc'[i] = "start"
        BY <1>a, <1>7 DEF createContainer, Agents
      <3>2. ASSUME NEW b \in Agent \ {i} PROVE Undisturbed(b)
        BY <1>a, <1>7 DEF createContainer, Agents, Undisturbed
      <3> QED
        BY <1>a, <1>7, <3>1, <3>2 DEF createContainer, Moves, Tgt, Stopping
    <2>2. UNCHANGED <<row, port, crow, bound, net, removing, leaked, passVars, worker>>
      BY <1>7 DEF createContainer, dbVars
    <2>3. Domains' /\ cont'[i] = "created" /\ \A k \in Id \ {i} : cont'[k] = cont[k]
      BY <1>a, <1>7, <2>2 DEF createContainer, Domains, passVars
    <2>4. OneTouched(i)
      BY <2>2, <2>3 DEF OneTouched, Untouched, PassesStay
    <2>5. Own
      BY <1>a, <2>1, <2>2, <2>3
      DEF Moves, Inst, Stages, Ports, Covered, UnderWay, Reclaimed, PassFinds, workerUnreachable, Safe, Launching, Early, passVars
    <2> QED
      BY <2>1, <2>3, <2>4, <2>5, LaunchStep DEF Past, Tearing, Launching, Early
  <1>8. CASE startContainer(i)
    <2>1. Moves(i, "finalize") /\ pc[i] = "start" /\ cont[i] = "created"
      BY <1>a, <1>8, GoesMoves DEF startContainer, CanStart, Goes, Launching
    <2>2. UNCHANGED <<row, port, crow, bound, net, removing, leaked, passVars, worker>>
      BY <1>8 DEF startContainer, dbVars
    <2>3. Domains' /\ cont'[i] = "running" /\ \A k \in Id \ {i} : cont'[k] = cont[k]
      BY <1>a, <1>8, <2>2 DEF startContainer, Domains, passVars
    <2>4. OneTouched(i)
      BY <2>2, <2>3 DEF OneTouched, Untouched, PassesStay
    <2>5. Own
      BY <1>a, <2>1, <2>2, <2>3
      DEF Moves, Inst, Stages, Ports, Covered, UnderWay, Reclaimed, PassFinds, workerUnreachable, Safe, Launching, Early, passVars
    <2> QED
      BY <2>1, <2>3, <2>4, <2>5, LaunchStep DEF Past, Tearing, Launching
  <1>9. CASE launchFails(i)
    <2>1. Moves(i, "stop") /\ pc[i] \in {"network", "create", "start"}
      BY <1>a, <1>9, GoesMoves DEF launchFails, Goes
    <2>2. UNCHANGED <<row, port, crow, bound, removing, leaked, passVars>> /\ worker' \in {worker, Ejected}
      BY <1>9 DEF launchFails, CallFails, dbVars
    <2>3. net' \subseteq Id /\ \A k \in Id \ {i} : k \in net' <=> k \in net
      BY <1>a, <1>9 DEF launchFails, Domains
    <2>4. /\ DOMAIN cont' = Id
          /\ \A k \in Id \ {i} : cont'[k] = cont[k]
          /\ cont'[i] = cont[i] \/ pc[i] = "create" \/ (pc[i] = "start" /\ cont[i] # "none")
      <3>1. CASE cont' = cont
        BY <1>a, <3>1 DEF Domains
      <3>2. CASE cont' = [cont EXCEPT ![i] = "created"] /\ pc[i] = "create"
        BY <1>a, <3>2 DEF Domains
      <3>3. CASE cont' = [cont EXCEPT ![i] = "running"] /\ pc[i] = "start" /\ cont[i] # "none"
        BY <1>a, <3>3 DEF Domains
      <3> QED
        BY <1>9, <3>1, <3>2, <3>3 DEF launchFails, CanStart
    <2>5. Domains'
      BY <1>a, <2>2, <2>3, <2>4 DEF Domains, passVars
    <2>6. OneTouched(i)
      BY <2>2, <2>3, <2>4 DEF OneTouched, Untouched, PassesStay
    <2>7. Own
      BY <1>a, <2>1, <2>2, <2>4
      DEF Moves, Inst, Stages, Ports, Covered, UnderWay, Reclaimed, PassFinds, workerUnreachable, Safe, Ejected, Launching,
          Early, passVars
    <2> QED
      BY <2>1, <2>5, <2>6, <2>7, LaunchStep DEF Past, Tearing
  <1>10. CASE finalizeInstance(i)
    <2>1. Moves(i, "done") /\ pc[i] = "finalize" /\ row[i] \in Recorded
      BY <1>a, <1>10, ReturnsMoves DEF finalizeInstance, GivesUp
    <2>2. UNCHANGED <<port, boxVars, passVars, worker>>
      BY <1>10 DEF finalizeInstance
    <2>3. /\ Domains' /\ row'[i] = "final"
          /\ \A k \in Id \ {i} : row'[k] = row[k] /\ (crow'[k] => crow[k])
      BY <1>a, <1>10, <2>2 DEF finalizeInstance, Domains, boxVars, passVars
    <2>6. /\ \A k \in Id \ {i} : k \in leaked' <=> k \in leaked
          /\ cont[i] # "none" /\ port[i] = NoPort => i \in removing \cup leaked'
      BY <1>a, <1>10, GivenUp DEF finalizeInstance
    <2>4. OneTouched(i)
      BY <2>1, <2>2, <2>3, <2>6 DEF OneTouched, Untouched, PassesStay, Recorded, boxVars
    <2>5. Own
      BY <1>a, <2>1, <2>2, <2>3, <2>6
      DEF Moves, Inst, Stages, Ports, Covered, Safe, Launching, Early, Recorded, boxVars, passVars
    <2> QED
      BY <2>1, <2>3, <2>4, <2>5, LaunchStep DEF Past, Tearing
  <1>11. CASE finalizeFails(i)
    <2>1. Moves(i, "stop")
      BY <1>a, <1>11, GoesMoves DEF finalizeFails, Goes
    <2>2. OneTouched(i) /\ Untouched(i) /\ Domains' /\ UNCHANGED <<passVars, worker>>
          /\ pc[i] = "finalize"
      BY <1>11, NoneTouched DEF finalizeFails
    <2>3. Own
      BY <1>a, <2>1, <2>2
      DEF Moves, Untouched, Inst, Stages, Ports, Covered, UnderWay, Reclaimed, PassFinds, workerUnreachable, Safe,
          Launching, Early, passVars
    <2> QED
      BY <2>1, <2>2, <2>3, LaunchStep DEF Past, Tearing
  <1> QED
    BY <1>1, <1>2, <1>3, <1>4, <1>5, <1>6, <1>7, <1>8, <1>9, <1>10, <1>11 DEF Launch


-----------------------------------------------------------------------------
(* A stop: a stop request, or a launch that failed.                        *)

\* What a stop leaves of its instance.
Taken(t) ==
    /\ bound'[t] = bound[t] /\ row'[t] \in {row[t], "gone"}
    /\ port'[t] \in {NoPort, port[t]} /\ (row'[t] = "gone" => port'[t] = NoPort)
    /\ crow'[t] => crow[t] /\ row'[t] = row[t]
    /\ t \in removing' => t \in removing \/ Past(t)
    /\ t \in net' => t \in net
    /\ \/ cont'[t] = "none"
       \/ cont'[t] = cont[t] /\ (Safe(t) => Safe(t)')

\* The instance of a stop has, or had, a row.
LEMMA TeardownTarget ==
  ASSUME IInv, NEW a \in Agent, pc[a] \in Tearing, NEW t, t = Tgt(a)
  PROVE  /\ t \in Id /\ Inst(t) /\ row[t] # "never" /\ pc[t] \notin {"idle", "placed"}
         /\ a \in Stopper => on[a] = t /\ (known[a] => pc[t] = "done")
         /\ a \in Id => a = t
  <1>1. /\ t \in Id /\ Inst(t) /\ (a \in Id => a = t) /\ Stopping(a)
        /\ a \in Stopper => on[a] = t /\ row[t] # "never" /\ (known[a] => pc[t] = "done")
    BY InstancesAssumption DEF IInv, Stopping, Tgt, Agent, Tearing
  <1> QED
    BY <1>1 DEF Inst, Stages, Tearing, Agent

\* A step of a stop that takes from its instance.
LEMMA TeardownStep ==
  ASSUME IInv, NEW a \in Agent, pc[a] \in Tearing, NEW t \in Id, t = Tgt(a),
         NEW where \in Tearing \cup {IF a \in Id THEN "done" ELSE "idle"}, Moves(a, where),
         Domains', OneTouched(t), Taken(t), Covered(t)', Stopping(a)'
  PROVE  IInv'
  <1>1. /\ Inst(t) /\ row[t] # "never" /\ pc[t] \notin {"idle", "placed"}
        /\ a \in Id => a = t
    BY TeardownTarget
  <1>2. pc'[t] = pc[t] \/ (Past(t) /\ pc[t] # "done" /\ pc'[t] \in Tearing \cup {"done"})
    <2>1. CASE a \in Id
      BY <1>1, <2>1 DEF Moves, Past, Tearing
    <2>2. CASE a \notin Id
      BY <2>2 DEF Moves, Undisturbed, Agent
    <2> QED
      BY <2>1, <2>2
  <1>3. Stages(t)'
    <2>1. row'[t] # "never" /\ pc'[t] \notin {"idle", "placed"}
      BY <1>1, <1>2 DEF Taken, Tearing
    <2>2. row'[t] \in {"never", "gone"} \cup Recorded /\ (row'[t] = "final" => pc'[t] = "done")
      BY <1>1, <1>2 DEF Taken, Inst, Stages
    <2>3. pc'[t] \in Early => pc[t] \in Early
      BY <1>2 DEF Tearing, Early
    <2>4. pc'[t] \in Early => cont'[t] = "none" /\ \A p \in Pass : t \notin seenC'[p]
      BY <1>1, <2>3 DEF Taken, Inst, Stages, OneTouched, PassesStay, passVars
    <2>5. pc'[t] \in Launching => t \notin removing'
      BY <1>1, <1>2 DEF Taken, Inst, Stages, Past, Tearing, Launching, Early
    <2> QED
      BY <2>1, <2>2, <2>4, <2>5 DEF Stages
  <1>4. Ports(t)'
    BY <1>1, <1>3 DEF Inst, Ports, Taken, Stages, Recorded
  <1>5. Kept(t)
    BY <1>1, <1>2 DEF Kept, Taken
  <1> QED
    BY <1>3, <1>4, <1>5, AgentStep

\* A stop whose agent moves on and whose instance stays as it is, its network aside.
LEMMA TeardownMoves ==
  ASSUME IInv, NEW a \in Agent, pc[a] \in Tearing, NEW t \in Id, t = Tgt(a),
         NEW where \in Tearing, Moves(a, where),
         UNCHANGED <<dbVars, cont, bound, removing, passVars, leaked>>,
         net' \in {net, net \ {t}}, worker' \in {worker, Ejected}, Stopping(a)'
  PROVE  IInv'
  <1>1. Inst(t) /\ Domains /\ (a \in Id => a = t)
    BY TeardownTarget DEF IInv
  <1>2. Domains' /\ OneTouched(t)
    BY <1>1 DEF Domains, OneTouched, Untouched, PassesStay, dbVars, passVars
  <1>3. UnderWay(t) => UnderWay(t)'
    <2>1. CASE a \in Id
      BY <1>1, <2>1 DEF Moves, UnderWay, Tearing
    <2>2. CASE a \notin Id
      BY <2>2 DEF Moves, Undisturbed, UnderWay, Agent
    <2> QED
      BY <2>1, <2>2
  <1>4. Covered(t)'
    BY <1>1, <1>3
    DEF Inst, Covered, Reclaimed, PassFinds, workerUnreachable, Safe, Ejected, dbVars, passVars
  <1>5. Taken(t)
    BY <1>1 DEF Taken, Inst, Ports, Safe, dbVars
  <1> QED
    BY <1>2, <1>4, <1>5, TeardownStep

\* A stop that gives up.
LEMMA TeardownEnds ==
  ASSUME IInv, NEW a \in Agent, pc[a] \in Tearing, NEW t, t = Tgt(a), GivesUp(a),
         UNCHANGED <<dbVars, boxVars, worker, passVars>>
  PROVE  IInv'
  <1> DEFINE end == IF a \in Id THEN "done" ELSE "idle"
  <1>1. /\ t \in Id /\ Inst(t) /\ Domains /\ (a \in Id => a = t)
        /\ a \in Stopper => on[a] = t
    BY TeardownTarget DEF IInv
  <1>2. Moves(a, end)
    BY ReturnsMoves DEF GivesUp, IInv
  <1>3. /\ \A k \in Id \ {t} : k \in leaked' <=> k \in leaked
        /\ \A k \in Id : k \in leaked => k \in leaked'
        /\ a \in Id /\ cont[t] # "none" /\ port[t] = NoPort => t \in removing \cup leaked'
    <2>1. CASE a \in Id
      BY <1>1, <2>1, GivenUp
    <2>2. CASE a \notin Id
      BY <2>2 DEF GivesUp, Lost
    <2> QED
      BY <2>1, <2>2
  <1>4. Domains' /\ OneTouched(t)
    BY <1>1, <1>3 DEF Domains, OneTouched, Untouched, PassesStay, dbVars, boxVars, passVars
  <1>5. Covered(t)'
    <2>1. CASE a \in Id
      BY <1>1, <1>3, <2>1 DEF Inst, Ports, Covered, Reclaimed, Safe, dbVars, boxVars
    <2>2. CASE a \notin Id
      <3>1. UnderWay(t) => UnderWay(t)'
        BY <1>1, <1>2, <2>2 DEF Moves, Undisturbed, UnderWay, Agent
      <3> QED
        BY <1>1, <1>3, <3>1
        DEF Inst, Covered, Reclaimed, PassFinds, workerUnreachable, Safe, dbVars, boxVars, passVars
    <2> QED
      BY <2>1, <2>2
  <1>6. Taken(t)
    BY <1>1, <1>3 DEF Taken, Inst, Ports, Safe, dbVars, boxVars
  <1>7. Stopping(a)'
    BY <1>2, InstancesAssumption DEF Moves, Stopping, Agent
  <1>8. end \in Tearing \cup {IF a \in Id THEN "done" ELSE "idle"}
    OBVIOUS
  <1> HIDE DEF end
  <1> QED
    BY <1>1, <1>2, <1>4, <1>5, <1>6, <1>7, <1>8, TeardownStep

\* Every step of stopInstance keeps the invariant; t is the instance it stops.
LEMMA TeardownSteps ==
  ASSUME IInv, NEW a \in Agent, stopInstance(a), NEW t, t = Tgt(a)
  PROVE  IInv'
  <1> DEFINE end == IF a \in Id THEN "done" ELSE "idle"
  <1>a. Agents /\ Domains /\ Joining /\ Stopping(a)
    BY DEF IInv
  <1>b. ASSUME pc[a] \in Tearing
        PROVE  /\ t \in Id /\ Inst(t) /\ row[t] # "never" /\ pc[t] \notin {"idle", "placed"}
               /\ a \in Stopper => on[a] = t /\ (known[a] => pc[t] = "done")
               /\ a \in Id => a = t
    BY <1>b, TeardownTarget
  \* An agent that goes on within its stop.
  <1>c. ASSUME pc[a] \in Tearing, NEW where \in Tearing, Moves(a, where), row' = row,
               known'[a] => known[a]
        PROVE  /\ Tgt(a)' = t
               /\ a \in Stopper =>
                     /\ pc'[a] \in Tearing /\ on'[a] \in Id /\ row'[on'[a]] # "never"
                     /\ known'[a] => pc'[on'[a]] = "done"
    <2>1. where # "idle" /\ Tgt(a)' = t
      BY <1>c DEF Moves, Tearing
    <2>2. a \in Stopper => on'[a] = t /\ a \notin Id
      BY <2>1, InstancesAssumption DEF Tgt
    <2>3. a \in Stopper => pc'[t] = pc[t]
      BY <1>b, <1>c, InstancesAssumption DEF Moves, Undisturbed, Agent
    <2> QED
      BY <1>b, <1>c, <2>1, <2>2, <2>3 DEF Moves
  \* Its instance's launch, its own or not, is then still under way.
  <1>e. ASSUME pc[a] \in Tearing, NEW where \in Tearing, Moves(a, where), UnderWay(t)
        PROVE  UnderWay(t)'
    <2>1. CASE a \in Id
      BY <1>b, <1>e, <2>1 DEF Moves, UnderWay, Tearing
    <2>2. CASE a \notin Id
      BY <1>b, <1>e, <2>2 DEF Moves, Undisturbed, UnderWay, Agent
    <2> QED
      BY <2>1, <2>2
  <1>d. ASSUME Moves(a, end) PROVE Stopping(a)'
    BY <1>d, InstancesAssumption DEF Moves, Stopping, Agent
  <1> HIDE DEF end
  <1>1. CASE stopDbOnly(a)
    <2>1. Moves(a, "forgetOut") /\ pc[a] \in Tearing /\ (known'[a] => known[a])
      BY <1>a, <1>1, GoesMoves DEF stopDbOnly, Goes, Tearing
    <2>2. UNCHANGED <<dbVars, boxVars, worker, passVars, leaked>>
      BY <1>1 DEF stopDbOnly
    <2>3. Stopping(a)'
      BY <1>c, <2>1, <2>2 DEF Moves, Stopping, Tearing, dbVars
    <2> QED
      BY <1>b, <2>1, <2>2, <2>3, TeardownMoves DEF boxVars, Tearing
  <1>2. CASE acquireTeardownSlot(a)
    <2>1. Moves(a, "remove") /\ pc[a] \in Tearing /\ (known'[a] => known[a])
      BY <1>a, <1>2, GoesMoves DEF acquireTeardownSlot, Goes, Tearing
    <2>2. UNCHANGED <<dbVars, boxVars, worker, passVars, leaked>>
      BY <1>2 DEF acquireTeardownSlot
    <2>3. Stopping(a)'
      BY <1>c, <2>1, <2>2 DEF Moves, Stopping, Tearing, dbVars
    <2> QED
      BY <1>b, <2>1, <2>2, <2>3, TeardownMoves DEF boxVars, Tearing
  <1>3. CASE slotRefused(a)
    BY <1>3, TeardownEnds DEF slotRefused, Tearing
  <1>4. CASE removeContainer(a)
    <2>1. Moves(a, "meta") /\ pc[a] \in Tearing /\ (known'[a] => known[a])
      BY <1>a, <1>4, GoesMoves DEF removeContainer, Goes, Tearing
    <2>2. UNCHANGED <<row, port, crow, bound, net, worker, passVars>>
      BY <1>4 DEF removeContainer, dbVars
    <2>3. \/ known[a] /\ Gone({t})
          \/ ~known[a] /\ UNCHANGED <<cont, removing, leaked>>
      BY <1>4 DEF removeContainer
    <2>4. /\ DOMAIN cont' = Id
          /\ \A k \in Id \ {t} : /\ cont'[k] = cont[k]
                                 /\ k \in removing' <=> k \in removing
                                 /\ k \in leaked' <=> k \in leaked
          /\ removing' \subseteq removing
          /\ \/ known[a] /\ cont'[t] = "none"
             \/ ~known[a] /\ cont'[t] = cont[t] /\ UNCHANGED <<removing, leaked>>
      BY <1>a, <1>b, <2>1, <2>3 DEF Gone, Domains
    <2>5. Domains' /\ OneTouched(t)
      BY <1>a, <2>2, <2>4 DEF Domains, OneTouched, Untouched, PassesStay, passVars
    <2>6. Covered(t)'
      <3>1. UnderWay(t) => UnderWay(t)'
        BY <1>b, <1>e, <2>1 DEF Tearing
      <3> QED
        BY <1>b, <2>1, <2>2, <2>4, <3>1
        DEF Inst, Covered, Reclaimed, PassFinds, workerUnreachable, Safe, passVars
    <2>7. Taken(t)
      BY <1>b, <2>1, <2>2, <2>4 DEF Taken, Inst, Ports, Safe
    <2>8. Stopping(a)'
      BY <1>c, <2>1, <2>2, <2>4 DEF Moves, Stopping, Tearing
    <2> QED
      BY <1>b, <2>1, <2>5, <2>6, <2>7, <2>8, TeardownStep DEF Tearing
  <1>5. CASE removeInFlight(a)
    <2>1. Moves(a, "meta") /\ pc[a] \in Tearing /\ inFlight'[a] /\ (known'[a] => known[a])
      <3>1. /\ Agents' /\ pc'[a] = "meta" /\ inFlight'[a] /\ err'[a] = err[a]
            /\ known'[a] => known[a]
        BY <1>a, <1>5 DEF removeInFlight, Agents
      <3>2. ASSUME NEW b \in Agent \ {a} PROVE Undisturbed(b)
        BY <1>a, <1>5 DEF removeInFlight, Agents, Undisturbed
      <3> QED
        BY <1>a, <1>5, <3>1, <3>2 DEF removeInFlight, Moves, Stopping, Tgt, Tearing
    <2>2. UNCHANGED <<dbVars, boxVars, worker, passVars, leaked>>
      BY <1>5 DEF removeInFlight
    <2>3. Stopping(a)'
      BY <1>c, <2>1, <2>2 DEF Moves, Stopping, Tearing, dbVars
    <2> QED
      BY <1>b, <2>1, <2>2, <2>3, TeardownMoves DEF boxVars, Tearing
  <1>6. CASE removeFails(a)
    <2>1. PICK e \in CallError :
              /\ CallFails(e) /\ GoesWith(a, "meta", e)
              /\ removing' = IF e = "deadline" /\ daemon = "up" THEN removing \cup {t} ELSE removing
      BY <1>6 DEF removeFails
    <2>2. /\ Moves(a, "meta") /\ pc[a] \in Tearing /\ err'[a] # "none"
          /\ known[a] /\ (known'[a] => known[a])
      <3>1. Moves(a, "meta") /\ (known'[a] => known[a]) /\ err'[a] = Join(err[a], e)
        BY <1>a, <2>1, GoesMoves, SMT
      <3> QED
        BY <1>6, <3>1 DEF removeFails, Join, CallError, Tearing
    <2>8. Past(t)
      BY <1>b, <2>2 DEF Past, Agent
    <2>3. UNCHANGED <<row, port, crow, bound, cont, net, leaked, passVars>> /\ worker' \in {worker, Ejected}
      BY <1>6, <2>1 DEF removeFails, CallFails, dbVars
    <2>4. Domains' /\ OneTouched(t)
      BY <1>a, <2>1, <2>3 DEF Domains, OneTouched, Untouched, PassesStay, passVars
    <2>5. Covered(t)'
      <3>1. UnderWay(t) => UnderWay(t)'
        BY <1>b, <1>e, <2>2 DEF Tearing
      <3> QED
        BY <1>b, <2>1, <2>2, <2>3, <3>1
        DEF Inst, Covered, Reclaimed, PassFinds, workerUnreachable, Safe, Ejected, passVars
    <2>6. Taken(t)
      BY <1>b, <2>1, <2>2, <2>3, <2>8 DEF Taken, Inst, Ports, Safe
    <2>7. Stopping(a)'
      BY <1>c, <2>2, <2>3 DEF Moves, Stopping, Tearing
    <2> QED
      BY <1>b, <2>2, <2>4, <2>5, <2>6, <2>7, TeardownStep DEF Tearing
  <1>7. CASE removeNoClient(a)
    <2>1. Moves(a, "rmnet") /\ pc[a] \in Tearing /\ err'[a] # "none" /\ (known'[a] => known[a])
      <3>1. Moves(a, "rmnet") /\ (known'[a] => known[a]) /\ err'[a] = Join(err[a], "api")
        BY <1>a, <1>7, GoesMoves, SMT DEF removeNoClient
      <3> QED
        BY <1>7, <3>1 DEF removeNoClient, Join, Tearing
    <2>2. UNCHANGED <<dbVars, boxVars, worker, passVars, leaked>>
      BY <1>7 DEF removeNoClient
    <2>3. Stopping(a)'
      BY <1>c, <2>1, <2>2 DEF Moves, Stopping, Tearing, dbVars
    <2> QED
      BY <1>b, <2>1, <2>2, <2>3, TeardownMoves DEF boxVars, Tearing
  <1>8. CASE removeContainersMetadata(a)
    <2> DEFINE next == AfterContainers(a)
    <2>1. pc[a] \in Tearing /\ pc[a] = "meta" /\ next \in {"rmnet", "decide"}
      BY <1>8 DEF removeContainersMetadata, AfterContainers, Tearing
    <2>2. UNCHANGED <<row, boxVars, worker, passVars>>
      BY <1>8 DEF removeContainersMetadata
    <2>3. CASE /\ port' = [port EXCEPT ![t] = NoPort]
               /\ crow' = [crow EXCEPT ![t] = FALSE]
               /\ leaked' = leaked \cup Forgotten(a)
               /\ Goes(a, next)
      <3>1. Moves(a, next) /\ (err'[a] = "none" => err[a] = "none") /\ (known'[a] => known[a])
        BY <1>a, <2>1, <2>3, GoesMoves DEF Goes, Join, Stopping, CallError
      <3>2. /\ DOMAIN port' = Id /\ port'[t] = NoPort /\ DOMAIN crow' = Id /\ ~crow'[t]
            /\ \A k \in Id \ {t} : /\ port'[k] = port[k] /\ (crow'[k] => crow[k])
                                   /\ k \in leaked' <=> k \in leaked
            /\ \A k \in Id : k \in leaked => k \in leaked'
        BY <1>a, <1>b, <2>1, <2>3 DEF Domains, Forgotten, Lost
      \* A launch's own teardown, and a stop of an instance whose launch is over, count
      \* the container they did not remove.
      <3>3. cont[t] # "none" /\ LastWith(a) => t \in removing \cup leaked'
        BY <1>a, <2>1, <2>3 DEF Forgotten, Lost, Stopping
      <3>4. Domains' /\ OneTouched(t)
        BY <1>a, <2>2, <3>2 DEF Domains, OneTouched, Untouched, PassesStay, boxVars, passVars
      <3>5. Covered(t)'
        <4>1. UnderWay(t) => UnderWay(t)'
          BY <1>b, <1>e, <2>1, <3>1 DEF Tearing
        <4>2. LastWith(a) \/ UnderWay(t)
          BY DEF LastWith
        <4> QED
          BY <1>b, <2>1, <2>2, <3>2, <3>3, <4>1, <4>2 DEF Covered, Reclaimed, Safe, boxVars
      <3>6. Taken(t)
        BY <1>b, <2>1, <2>2, <3>2 DEF Taken, Inst, Ports, Safe, boxVars
      <3>7. Stopping(a)'
        <4>1. a \in Id => port'[a] = NoPort /\ (cont'[a] = "none" \/ Safe(a)')
          BY <1>b, <2>1, <2>2, <3>2, <3>3 DEF LastWith, Safe, boxVars
        <4> QED
          BY <1>c, <2>1, <2>2, <3>1, <4>1 DEF Moves, Stopping, Tearing
      <3> QED
        BY <1>b, <2>1, <3>1, <3>4, <3>5, <3>6, <3>7, TeardownStep DEF Tearing
    <2>4. CASE GoesWith(a, next, "api") /\ UNCHANGED <<port, crow, leaked>>
      <3>1. Moves(a, next) /\ err'[a] # "none" /\ (known'[a] => known[a])
        BY <1>a, <2>1, <2>4, GoesMoves DEF Join
      <3>2. Stopping(a)'
        BY <1>c, <2>1, <2>2, <3>1 DEF Moves, Stopping, Tearing
      <3> QED
        BY <1>b, <2>1, <2>2, <2>4, <3>1, <3>2, TeardownMoves DEF boxVars, dbVars, Tearing
    <2> QED
      BY <1>8, <2>3, <2>4 DEF removeContainersMetadata
  <1>9. CASE stopNetwork(a)
    <2>1. pc[a] \in Tearing /\ pc[a] = "rmnet"
      BY <1>9 DEF stopNetwork, Tearing
    <2>2. /\ UNCHANGED <<dbVars, cont, bound, removing, passVars, leaked>>
          /\ net' \in {net, net \ {t}} /\ worker' \in {worker, Ejected}
      BY <1>9 DEF stopNetwork, CallFails
    <2>3. \E e \in {"none"} \cup CallError : GoesWith(a, "decide", e)
      BY <1>9 DEF stopNetwork, Goes, CallError
    <2>4. Moves(a, "decide") /\ (err'[a] = "none" => err[a] = "none") /\ (known'[a] => known[a])
      <3>1. PICK e \in {"none"} \cup CallError : GoesWith(a, "decide", e)
        BY <2>3
      <3>2. Moves(a, "decide") /\ (known'[a] => known[a]) /\ err'[a] = Join(err[a], e)
        BY <1>a, <3>1, GoesMoves, SMT
      <3> QED
        BY <1>a, <3>2 DEF Join, Stopping, CallError
    <2>5. Stopping(a)'
      BY <1>a, <1>c, <2>1, <2>2, <2>4 DEF Moves, Stopping, Safe, Tearing, dbVars
    <2> QED
      BY <1>b, <2>1, <2>2, <2>4, <2>5, TeardownMoves DEF Tearing
  <1>10. CASE stopSettles(a)
    <2>1. pc[a] \in Tearing /\ pc[a] = "decide"
      BY <1>10 DEF stopSettles, Tearing
    <2>2. UNCHANGED <<dbVars, boxVars, worker, passVars>>
      BY <1>10 DEF stopSettles
    <2>3. CASE Goes(a, "forget") /\ err[a] \in {"none", "deadline"} /\ leaked' = leaked
      <3>1. Moves(a, "forget") /\ err'[a] = err[a] /\ (known'[a] => known[a])
        <4>1. Moves(a, "forget") /\ (known'[a] => known[a]) /\ err'[a] = Join(err[a], "none")
          BY <1>a, <2>3, GoesMoves, SMT DEF Goes
        <4> QED
          BY <2>3, <4>1 DEF Join
      <3>2. Stopping(a)'
        BY <1>a, <1>c, <2>1, <2>2, <2>3, <3>1 DEF Moves, Stopping, Safe, Tearing, dbVars, boxVars
      <3> QED
        BY <1>b, <2>1, <2>2, <2>3, <3>1, <3>2, TeardownMoves DEF boxVars, Tearing
    <2>4. CASE Goes(a, "forgetOut") /\ leaked' = leaked
      <3>1. Moves(a, "forgetOut") /\ (known'[a] => known[a])
        BY <1>a, <2>4, GoesMoves DEF Goes
      <3>2. Stopping(a)'
        BY <1>c, <2>1, <2>2, <3>1 DEF Moves, Stopping, Tearing, dbVars
      <3> QED
        BY <1>b, <2>1, <2>2, <2>4, <3>1, <3>2, TeardownMoves DEF boxVars, Tearing
    <2>5. CASE GivesUp(a)
      BY <2>1, <2>2, <2>5, TeardownEnds
    <2> QED
      BY <1>10, <2>3, <2>4, <2>5 DEF stopSettles
  <1>11. CASE removeInstanceMetadata(a)
    <2>1. pc[a] \in Tearing /\ pc[a] \in {"forget", "forgetOut"}
      BY <1>11 DEF removeInstanceMetadata, Tearing
    <2>2. UNCHANGED <<boxVars, worker, passVars>>
      BY <1>11 DEF removeInstanceMetadata
    <2>3. CASE GivesUp(a) /\ UNCHANGED dbVars
      BY <2>1, <2>2, <2>3, TeardownEnds
    <2>4. CASE DeleteRows({t}) /\ leaked' = leaked \cup LeftBehind(a) /\ Returns(a)
      <3>0. Moves(a, end)
        BY <1>a, <2>4, ReturnsMoves DEF end
      <3>1. /\ DOMAIN row' = Id /\ DOMAIN port' = Id /\ DOMAIN crow' = Id
            /\ row'[t] = "gone" /\ port'[t] = NoPort /\ ~crow'[t]
            /\ \A k \in Id \ {t} :
                  row'[k] = row[k] /\ port'[k] = port[k] /\ (crow'[k] => crow[k])
        BY <1>a, <1>b, <2>1, <2>4, DeleteOne
      <3>2. /\ \A k \in Id \ {t} : k \in leaked' <=> k \in leaked
            /\ \A k \in Id : k \in leaked => k \in leaked'
        BY <2>4 DEF LeftBehind, Lost
      <3>3. Domains' /\ OneTouched(t)
        BY <1>a, <2>2, <3>1, <3>2
        DEF Domains, OneTouched, Untouched, PassesStay, boxVars, passVars
      \* What is forgotten with its container there is leaked, or left to the pass.
      <3>4. cont[t] # "none" /\ LastWith(a) => t \in removing \cup leaked' \/ PassFinds(t)
        <4>1. CASE pc[a] = "forgetOut"
          BY <2>4, <4>1 DEF LeftBehind, Lost
        <4>2. CASE pc[a] = "forget" /\ (err[a] = "deadline" \/ port[t] # NoPort)
          BY <2>4, <4>2 DEF LeftBehind, Lost
        <4>3. CASE pc[a] = "forget" /\ err[a] = "none" /\ port[t] = NoPort /\ a \in Id
          BY <1>a, <1>b, <2>1, <3>2, <4>3 DEF Stopping, Safe
        <4>4. CASE port[t] = NoPort /\ a \notin Id
          BY <1>b, <2>1, <3>2, <4>4 DEF LastWith, Inst, Covered, Reclaimed, Safe
        <4> QED
          BY <1>a, <2>1, <4>1, <4>2, <4>3, <4>4 DEF Stopping
      <3>5. Covered(t)'
        <4>1. ~LastWith(a) => UnderWay(t)'
          BY <1>b, <2>1, <3>0 DEF LastWith, Moves, Undisturbed, UnderWay, Agent
        <4>2. PassFinds(t)' <=> PassFinds(t)
          BY <2>2 DEF PassFinds, workerUnreachable, passVars
        <4> QED
          BY <2>2, <3>1, <3>4, <4>1, <4>2 DEF Covered, Reclaimed, Safe, boxVars
      <3>6. Taken(t)
        BY <1>b, <2>1, <2>2, <3>1, <3>2 DEF Taken, Safe, boxVars
      <3> QED
        BY <1>b, <1>d, <2>1, <3>0, <3>3, <3>5, <3>6, TeardownStep DEF end
    <2> QED
      BY <1>11, <2>3, <2>4 DEF removeInstanceMetadata
  <1> QED
    BY <1>1, <1>2, <1>3, <1>4, <1>5, <1>6, <1>7, <1>8, <1>9, <1>10, <1>11 DEF stopInstance

\* A stop request finds an instance that has a row, its launch over or not.
LEMMA StopStep ==
  ASSUME IInv, NEW s \in Stopper, Stop(s)
  PROVE  IInv'
  <1>1. PICK i \in Id : /\ row[i] \in Recorded /\ on' = [on EXCEPT ![s] = i]
                        /\ known' = [known EXCEPT ![s] = crow[i]]
    BY DEF Stop
  <1>2. s \in Agent /\ s \notin Id /\ Agents /\ Stopping(s) /\ Inst(i)
    BY InstancesAssumption DEF IInv, Agent
  <1>3. Agents' /\ pc'[s] = "stop" /\ on'[s] = i /\ err'[s] = err[s] /\ known'[s] = crow[i]
    BY <1>1, <1>2 DEF Stop, Agents
  <1>4. ASSUME NEW b \in Agent \ {s} PROVE Undisturbed(b)
    BY <1>1, <1>2 DEF Stop, Agents, Undisturbed
  <1>5. OneTouched(i) /\ Untouched(i) /\ Domains'
    BY NoneTouched DEF Stop
  <1>6. \A k \in Id : pc'[k] = pc[k] /\ Untouched(k)
    BY <1>2, <1>4, <1>5 DEF OneTouched, Undisturbed, Agent
  <1>7. Inst(i)' /\ Kept(i)
    BY <1>5, <1>6, UntouchedInst DEF OneTouched, Untouched, Kept, Safe
  <1>8. /\ Joining' /\ Unique'
        /\ \A k \in Id : Inst(k)'
        /\ \A k \in Id : Kept(k)
    BY <1>5, <1>6, <1>7, OneTouchedInv DEF Inst
  <1>9. row'[i] # "never" /\ (crow[i] => pc'[i] = "done")
    BY <1>1, <1>2, <1>6 DEF Inst, Stages, Ports, Recorded, Untouched
  <1>10. Stopping(s)'
    BY <1>2, <1>3, <1>9 DEF Stopping, Tearing
  <1>11. ASSUME NEW b \in Agent \ {s} PROVE Stopping(b)'
    BY <1>4, <1>8, <1>11, OthersKept
  <1> QED
    BY <1>3, <1>5, <1>8, <1>10, <1>11 DEF IInv

-----------------------------------------------------------------------------
(* Steps of the daemon, the passes and the worker, which change no record. *)

\* What such a step leaves of an instance: its container, or nothing.
Cleared(k) ==
    /\ row'[k] = row[k] /\ port'[k] = port[k] /\ bound'[k] = bound[k] /\ (crow'[k] => crow[k])
    /\ k \in net' => k \in net
    /\ k \in removing' => k \in removing
    /\ \/ cont'[k] = "none"
       \/ cont'[k] = cont[k] /\ (Safe(k) /\ port[k] = NoPort => Safe(k)')

\* A pass lists what is there.
Listed(k) ==
    \A q \in Pass : /\ k \in seenC'[q] => k \in seenC[q] \/ cont[k] # "none"
                    /\ k \in seenN'[q] => k \in seenN[q] \/ k \in net

\* Such a step keeps what the invariant says of an instance.
LEMMA ClearedInst ==
  ASSUME IInv, NEW k \in Id, Cleared(k), Listed(k), pc'[k] = pc[k], Spared(k)',
         cont'[k] # "none" /\ row[k] = "gone" /\ ~UnderWay(k) => Reclaimed(k)'
  PROVE  Inst(k)' /\ Kept(k)
  <1>1. Inst(k)
    BY DEF IInv
  <1>2. Stages(k)'
    BY <1>1 DEF Inst, Stages, Cleared, Listed, Launching
  <1>3. Ports(k)' /\ Kept(k)
    BY <1>1 DEF Inst, Ports, Cleared, Kept
  <1>4. Covered(k)'
    BY <1>1 DEF Inst, Covered, Cleared, UnderWay
  <1> QED
    BY <1>2, <1>3, <1>4 DEF Inst

\* Such a step keeps the invariant.
LEMMA ClearStep ==
  ASSUME IInv, UNCHANGED agentVars, Domains', Joining',
         \A k \in Id : Cleared(k) /\ Listed(k) /\ Spared(k)',
         \A k \in Id : cont'[k] # "none" /\ row[k] = "gone" /\ ~UnderWay(k) => Reclaimed(k)'
  PROVE  IInv'
  <1>1. ASSUME NEW k \in Id PROVE Inst(k)' /\ Kept(k)
    BY ClearedInst DEF agentVars
  <1>2. Unique'
    BY DEF IInv, Unique, Cleared
  <1> QED
    BY <1>1, <1>2, BackgroundStep

\* Where a pass is, and what it has listed, once it has moved on.
PassIs(p, where, C, N) ==
    /\ DOMAIN pass' = Pass /\ DOMAIN seenC' = Pass /\ DOMAIN seenN' = Pass
    /\ pass'[p] = where /\ seenC'[p] = C /\ seenN'[p] = N
    /\ \A q \in Pass \ {p} :
          pass'[q] = pass[q] /\ seenC'[q] = seenC[q] /\ seenN'[q] = seenN[q]

\* A pass moves on (PassAt).
LEMMA PassMoves ==
  ASSUME Domains, NEW p \in Pass, NEW where, NEW C, NEW N, PassAt(p, where, C, N)
  PROVE  PassIs(p, where, C, N)
  BY DEF Domains, PassAt, PassIs

\* The records and the daemon are as they were.
LEMMA NoneCleared ==
  ASSUME UNCHANGED <<row, port, crow, bound, cont, net, removing, leaked>>
  PROVE  \A k \in Id : Cleared(k)
  BY DEF Cleared, Safe

\* Every step of reconcileWorker keeps the invariant.
LEMMA PassSteps ==
  ASSUME IInv, NEW p \in Pass, reconcileWorker(p)
  PROVE  IInv'
  <1>a. Domains /\ Joining /\ (\A k \in Id : Inst(k)) /\ "join" \in Pass
    BY DEF IInv, Pass
  <1>1. CASE listContainers(p)
    <2>1. /\ UNCHANGED <<row, port, crow, bound, cont, net, removing, leaked, worker, agentVars>>
          /\ pass[p] = "containers" /\ PassAt(p, "networks", {i \in Id : cont[i] # "none"}, {})
      BY <1>1 DEF listContainers, dbVars, boxVars
    <2>2. PassIs(p, "networks", {i \in Id : cont[i] # "none"}, {})
      BY <1>a, <2>1, PassMoves
    <2>3. Domains' /\ Joining'
      BY <1>a, <2>1, <2>2 DEF PassIs, Domains, Joining
    <2>4. ASSUME NEW k \in Id PROVE Cleared(k) /\ Listed(k) /\ Spared(k)'
      BY <1>a, <2>1, <2>2, NoneCleared DEF PassIs, Listed, Inst, Spared
    <2>5. ASSUME NEW k \in Id, cont'[k] # "none", row[k] = "gone", ~UnderWay(k) PROVE Reclaimed(k)'
      BY <1>a, <2>1, <2>2, <2>5 DEF PassIs, Inst, Covered, Reclaimed, PassFinds, workerUnreachable, Safe
    <2> QED
      BY <2>1, <2>3, <2>4, <2>5, ClearStep
  <1>2. CASE listNetworks(p)
    <2>1. /\ UNCHANGED <<row, port, crow, bound, cont, net, removing, leaked, worker, agentVars>>
          /\ pass[p] = "networks" /\ PassAt(p, "rows", seenC[p], net)
      BY <1>2 DEF listNetworks, dbVars, boxVars
    <2>2. PassIs(p, "rows", seenC[p], net)
      BY <1>a, <2>1, PassMoves
    <2>3. Domains' /\ Joining'
      BY <1>a, <2>1, <2>2 DEF PassIs, Domains, Joining
    <2>4. ASSUME NEW k \in Id PROVE Cleared(k) /\ Listed(k) /\ Spared(k)'
      BY <1>a, <2>1, <2>2, NoneCleared DEF PassIs, Listed, Inst, Spared
    <2>5. ASSUME NEW k \in Id, cont'[k] # "none", row[k] = "gone", ~UnderWay(k) PROVE Reclaimed(k)'
      BY <1>a, <2>1, <2>2, <2>5 DEF PassIs, Inst, Covered, Reclaimed, PassFinds, workerUnreachable, Safe
    <2> QED
      BY <2>1, <2>3, <2>4, <2>5, ClearStep
  <1>3. CASE findOrphans(p)
    <2>1. /\ UNCHANGED <<row, port, crow, bound, cont, net, removing, leaked, worker, agentVars>>
          /\ pass[p] = "rows" /\ PassAt(p, "rmC", seenC[p] \ Live, seenN[p] \ Live)
      BY <1>3 DEF findOrphans, dbVars, boxVars
    <2>2. PassIs(p, "rmC", seenC[p] \ Live, seenN[p] \ Live)
      BY <1>a, <2>1, PassMoves
    <2>3. Domains' /\ Joining'
      BY <1>a, <2>1, <2>2 DEF PassIs, Domains, Joining
    <2>4. ASSUME NEW k \in Id PROVE Cleared(k) /\ Listed(k)
      BY <2>1, <2>2, NoneCleared DEF PassIs, Listed
    <2>5. ASSUME NEW k \in Id PROVE Spared(k)'
      <3>1. k \in (seenC[p] \ Live) \cup (seenN[p] \ Live) => row[k] = "gone"
        BY <1>a DEF Inst, Stages, Live
      <3> QED
        BY <1>a, <2>1, <2>2, <3>1 DEF PassIs, Inst, Spared
    <2>6. ASSUME NEW k \in Id, cont'[k] # "none", row[k] = "gone", ~UnderWay(k) PROVE Reclaimed(k)'
      BY <1>a, <2>1, <2>2, <2>6 DEF PassIs, Inst, Covered, Reclaimed, PassFinds, workerUnreachable, Safe, Live, Recorded
    <2> QED
      BY <2>1, <2>3, <2>4, <2>5, <2>6, ClearStep
  <1>4. CASE removeOrphanContainers(p)
    <2>1. /\ UNCHANGED <<row, port, crow, bound, net, worker, agentVars>>
          /\ pass[p] = "rmC" /\ PassAt(p, "rmN", {}, seenN[p]) /\ Gone(seenC[p] \ removing)
      BY <1>4 DEF removeOrphanContainers, dbVars
    <2>2. PassIs(p, "rmN", {}, seenN[p])
      BY <1>a, <2>1, PassMoves
    <2>3. /\ DOMAIN cont' = Id /\ removing' = removing
          /\ \A k \in Id : \/ k \in seenC[p] \ removing /\ cont'[k] = "none"
                           \/ /\ k \notin seenC[p] \/ k \in removing
                              /\ cont'[k] = cont[k] /\ (k \in leaked => k \in leaked')
      BY <2>1 DEF Gone
    <2>4. Domains' /\ Joining'
      BY <1>a, <2>1, <2>2, <2>3 DEF PassIs, Domains, Joining
    <2>5. ASSUME NEW k \in Id PROVE Cleared(k)
      BY <1>a, <2>1, <2>3 DEF Cleared, Safe, Inst, Stages
    <2>6. ASSUME NEW k \in Id PROVE Listed(k) /\ Spared(k)'
      BY <1>a, <2>1, <2>2 DEF PassIs, Listed, Inst, Spared
    <2>7. ASSUME NEW k \in Id, cont'[k] # "none", row[k] = "gone", ~UnderWay(k) PROVE Reclaimed(k)'
      BY <1>a, <2>1, <2>2, <2>3, <2>7 DEF PassIs, Inst, Covered, Reclaimed, PassFinds, workerUnreachable, Safe, Joining
    <2> QED
      BY <2>1, <2>4, <2>5, <2>6, <2>7, ClearStep
  <1>5. CASE removeOrphanNetworks(p)
    <2>1. /\ UNCHANGED <<row, port, crow, bound, cont, removing, leaked, agentVars>>
          /\ pass[p] = "rmN" /\ PassAt(p, "none", {}, {}) /\ net' = net \ seenN[p]
          /\ worker' = IF p = "join" THEN "ok" ELSE worker
      BY <1>5 DEF removeOrphanNetworks, dbVars
    <2>2. PassIs(p, "none", {}, {})
      BY <1>a, <2>1, PassMoves
    <2>3. Domains' /\ Joining'
      BY <1>a, <2>1, <2>2 DEF PassIs, Domains, Joining
    <2>4. ASSUME NEW k \in Id PROVE Cleared(k) /\ Listed(k) /\ Spared(k)'
      BY <1>a, <2>1, <2>2 DEF PassIs, Cleared, Safe, Listed, Inst, Spared
    <2>5. ASSUME NEW k \in Id, cont'[k] # "none", row[k] = "gone", ~UnderWay(k) PROVE Reclaimed(k)'
      BY <1>a, <2>1, <2>2, <2>5 DEF PassIs, Inst, Covered, Reclaimed, PassFinds, workerUnreachable, Safe, Joining
    <2> QED
      BY <2>1, <2>3, <2>4, <2>5, ClearStep
  <1>6. CASE passFails(p)
    <2> DEFINE where == IF p = "join" /\ worker' = "joining" THEN "containers" ELSE "none"
    <2>1. /\ UNCHANGED <<row, port, crow, bound, removing, agentVars>>
          /\ pass[p] # "none" /\ PassAt(p, where, {}, {})
          /\ worker' \in {worker} \cup (IF p = "join" THEN {"out", "ok"} ELSE {})
          /\ leaked' = {i \in leaked : cont'[i] = cont[i]} \cup
                           (IF worker' # "ok" \/ p = "gc" THEN {}
                            ELSE {i \in Id : cont'[i] # "none" /\ row[i] = "gone"})
      BY <1>6 DEF passFails, dbVars
    <2>2. PassIs(p, where, {}, {})
      BY <1>a, <2>1 DEF PassAt, PassIs, Domains
    <2>3. /\ DOMAIN cont' = Id /\ net' \subseteq net
          /\ \A k \in Id : \/ cont'[k] = "none" /\ cont[k] # "none"
                           \/ cont'[k] = cont[k]
      BY <1>6 DEF passFails, PartlyRemoved
    <2>4. Domains' /\ Joining'
      BY <1>a, <2>1, <2>2, <2>3 DEF PassIs, Domains, Joining
    <2>5. ASSUME NEW k \in Id PROVE Cleared(k)
      BY <1>a, <2>1, <2>3 DEF Cleared, Safe, Inst, Stages
    <2>6. ASSUME NEW k \in Id PROVE Listed(k) /\ Spared(k)'
      BY <1>a, <2>1, <2>2 DEF PassIs, Listed, Inst, Spared
    <2>7. ASSUME NEW k \in Id, cont'[k] # "none", row[k] = "gone", ~UnderWay(k) PROVE Reclaimed(k)'
      <3>1. CASE p = "join"
        BY <1>a, <2>1, <2>2, <2>7, <3>1 DEF PassIs, Reclaimed, PassFinds, workerUnreachable, Safe, Joining
      <3>2. CASE p = "gc"
        BY <1>a, <2>1, <2>2, <2>3, <2>7, <3>2 DEF PassIs, Inst, Covered, Reclaimed, PassFinds, workerUnreachable, Safe
      <3> QED
        BY <3>1, <3>2 DEF Pass
    <2> QED
      BY <2>1, <2>4, <2>5, <2>6, <2>7, ClearStep
  <1> QED
    BY <1>1, <1>2, <1>3, <1>4, <1>5, <1>6 DEF reconcileWorker

\* The passes and the worker stay, and no row changes.
LEMMA PassesKept ==
  ASSUME IInv, UNCHANGED <<passVars, worker>>, \A k \in Id : row'[k] = row[k]
  PROVE  Joining' /\ \A k \in Id : Listed(k) /\ Spared(k)'
  <1>1. Joining'
    BY DEF IInv, Joining, passVars
  <1>2. ASSUME NEW k \in Id PROVE Listed(k) /\ Spared(k)'
    BY DEF IInv, Inst, Spared, Listed, passVars
  <1> QED
    BY <1>1, <1>2

\* The join pass ends, or begins.
LEMMA JoinPassReset ==
  ASSUME IInv, NEW where \in {"none", "containers"}, PassAt("join", where, {}, {}),
         \A k \in Id : row[k] = "gone" => row'[k] = "gone"
  PROVE  /\ DOMAIN pass' = Pass /\ DOMAIN seenC' = Pass /\ DOMAIN seenN' = Pass
         /\ \A p \in Pass : seenC'[p] \subseteq Id /\ seenN'[p] \subseteq Id
         /\ pass'["join"] = where /\ seenC'["join"] = {}
         /\ \A k \in Id : Listed(k) /\ Spared(k)'
  <1>1. PassIs("join", where, {}, {})
    BY PassMoves DEF IInv, Pass
  <1>2. \A p \in Pass : seenC'[p] \subseteq Id /\ seenN'[p] \subseteq Id
    BY <1>1 DEF PassIs, IInv, Domains
  <1>3. ASSUME NEW k \in Id PROVE Listed(k) /\ Spared(k)'
    BY <1>1 DEF PassIs, IInv, Inst, Spared, Listed
  <1> QED
    BY <1>1, <1>2, <1>3 DEF PassIs

\* A container is no more.
LEMMA GoneOne ==
  ASSUME IInv, NEW i \in Id, Gone({i}), net' \subseteq net,
         UNCHANGED <<row, port, crow, bound, passVars, worker, agentVars>>
  PROVE  IInv'
  <1>a. Domains /\ \A k \in Id : Inst(k)
    BY DEF IInv
  <1>1. /\ DOMAIN cont' = Id /\ cont'[i] = "none"
        /\ \A k \in Id \ {i} : /\ cont'[k] = cont[k]
                               /\ k \in removing' <=> k \in removing
                               /\ k \in leaked' <=> k \in leaked
        /\ removing' \subseteq removing
    BY DEF Gone
  <1>2. Domains' /\ Joining'
    BY <1>a, <1>1, PassesKept DEF Domains, passVars
  <1>3. ASSUME NEW k \in Id PROVE Cleared(k)
    BY <1>1 DEF Cleared, Safe
  <1>4. ASSUME NEW k \in Id PROVE Listed(k) /\ Spared(k)'
    BY PassesKept
  <1>5. ASSUME NEW k \in Id, cont'[k] # "none", row[k] = "gone", ~UnderWay(k) PROVE Reclaimed(k)'
    BY <1>a, <1>1, <1>5 DEF Inst, Covered, Reclaimed, PassFinds, workerUnreachable, Safe, passVars
  <1> QED
    BY <1>2, <1>3, <1>4, <1>5, ClearStep

\* The age prune, the reaper, a row going stale and a removal that lands.
LEMMA InstanceSteps ==
  ASSUME IInv, NEW i \in Id, pruneOld(i) \/ Reaper(i) \/ Stale(i) \/ RemovalLands(i)
  PROVE  IInv'
  <1>a. Domains /\ Inst(i)
    BY DEF IInv
  <1>1. CASE pruneOld(i)
    <2>1. /\ UNCHANGED <<boxVars, worker, agentVars, passVars>>
          /\ row[i] = "final" /\ DeleteRows({i}) /\ leaked' = leaked \cup Lost({i})
      BY <1>1 DEF pruneOld
    <2>2. /\ DOMAIN row' = Id /\ DOMAIN port' = Id /\ DOMAIN crow' = Id
          /\ row'[i] = "gone" /\ port'[i] = NoPort /\ ~crow'[i]
          /\ \A k \in Id \ {i} : row'[k] = row[k] /\ port'[k] = port[k] /\ (crow'[k] => crow[k])
      BY <1>a, <2>1, DeleteOne
    <2>3. /\ \A k \in Id \ {i} : k \in leaked' <=> k \in leaked
          /\ \A k \in Id : k \in leaked => k \in leaked'
          /\ cont[i] # "none" => i \in removing \cup leaked'
      BY <2>1 DEF Lost
    <2>4. Domains' /\ OneTouched(i)
      BY <1>a, <2>1, <2>2, <2>3 DEF Domains, OneTouched, Untouched, PassesStay, boxVars, passVars
    <2>5. Stages(i)' /\ Ports(i)'
      BY <1>a, <2>1, <2>2 DEF Inst, Stages, Ports, Launching, agentVars, boxVars, passVars
    <2>6. Covered(i)' /\ Kept(i)
      BY <2>1, <2>2, <2>3 DEF Covered, Reclaimed, Safe, Kept, agentVars, boxVars
    <2> QED
      BY <2>1, <2>4, <2>5, <2>6, OneTouchedInv, BackgroundStep DEF agentVars
  <1>2. CASE Reaper(i)
    BY <1>2, GoneOne DEF Reaper, dbVars
  <1>3. CASE Stale(i)
    <2>1. /\ UNCHANGED <<port, crow, boxVars, worker, agentVars, passVars, leaked>>
          /\ row[i] = "open" /\ row' = [row EXCEPT ![i] = "stale"]
      BY <1>3 DEF Stale
    <2>2. DOMAIN row' = Id /\ row'[i] = "stale" /\ \A k \in Id \ {i} : row'[k] = row[k]
      BY <1>a, <2>1 DEF Domains
    <2>3. Domains' /\ OneTouched(i)
      BY <1>a, <2>1, <2>2 DEF Domains, OneTouched, Untouched, PassesStay, boxVars, passVars
    <2>4. Stages(i)' /\ Ports(i)' /\ Covered(i)' /\ Kept(i)
      BY <1>a, <2>1, <2>2
      DEF Inst, Stages, Ports, Covered, UnderWay, Safe, Kept, Recorded, agentVars, boxVars, passVars
    <2> QED
      BY <2>1, <2>3, <2>4, OneTouchedInv, BackgroundStep DEF agentVars
  <1>4. CASE RemovalLands(i)
    BY <1>4, GoneOne DEF RemovalLands, dbVars
  <1> QED
    BY <1>1, <1>2, <1>3, <1>4

\* Rows are deleted, and what may be left of them is counted as leaked.
LEMMA DeleteStep ==
  ASSUME IInv, NEW S, DeleteRows(S), UNCHANGED <<boxVars, agentVars>>, Domains', Joining',
         \A k \in Id : k \in leaked => k \in leaked',
         \A k \in Id : Listed(k) /\ Spared(k)',
         \A k \in Id : cont[k] # "none" /\ row'[k] = "gone" /\ ~UnderWay(k) => Reclaimed(k)'
  PROVE  IInv'
  <1>1. ASSUME NEW k \in Id
        PROVE  /\ \/ row'[k] = row[k] /\ port'[k] = port[k] /\ k \notin S
                  \/ row'[k] = "gone" /\ row[k] # "never" /\ port'[k] = NoPort /\ k \in S
                  \/ row'[k] = "never" /\ row[k] = "never" /\ port'[k] = NoPort /\ k \in S
               /\ crow'[k] => crow[k] /\ k \notin S
               /\ Inst(k) /\ pc'[k] = pc[k]
    BY DEF DeleteRows, IInv, agentVars
  <1>2. Unique'
    BY <1>1 DEF IInv, Unique
  <1>3. ASSUME NEW k \in Id PROVE Stages(k)'
    BY <1>1 DEF Inst, Stages, Listed, boxVars, Recorded, Launching
  <1>4. ASSUME NEW k \in Id PROVE Ports(k)'
    BY <1>1 DEF Inst, Ports, boxVars, Stages, Launching, Early
  <1>5. ASSUME NEW k \in Id PROVE Covered(k)'
    <2>1. cont'[k] # "none" /\ port'[k] = NoPort /\ row'[k] # "gone" => Safe(k)' \/ UnderWay(k)'
      <3>1. row[k] = "never" => cont[k] = "none"
        BY <1>1 DEF Inst, Stages
      <3> QED
        BY <1>1, <3>1 DEF Inst, Covered, UnderWay, Safe, boxVars
    <2>2. UnderWay(k) => UnderWay(k)'
      BY <1>1 DEF UnderWay
    <2> QED
      BY <2>1, <2>2 DEF Covered, boxVars
  <1>6. ASSUME NEW k \in Id PROVE Kept(k)
    BY <1>1 DEF Kept, Safe, boxVars
  <1> QED
    BY <1>2, <1>3, <1>4, <1>5, <1>6, BackgroundStep DEF Inst

\* The crash-GC: the workers read, the rows deleted, the pass it starts.
LEMMA PruneSteps ==
  ASSUME IInv, Prune
  PROVE  IInv'
  <1>a. Domains /\ Joining /\ \A k \in Id : Inst(k)
    BY DEF IInv
  <1>1. CASE gcWorkers \/ (gcDelete /\ UNCHANGED <<dbVars, leaked>>)
    <2>1. UNCHANGED <<row, port, crow, bound, cont, net, removing, leaked, worker, passVars, agentVars>>
      BY <1>1 DEF gcWorkers, gcDelete, dbVars, boxVars
    <2>2. Domains' /\ Joining' /\ \A k \in Id : Cleared(k) /\ Listed(k) /\ Spared(k)'
      BY <1>a, <2>1, PassesKept, NoneCleared DEF Domains, passVars
    <2>3. ASSUME NEW k \in Id, cont'[k] # "none", row[k] = "gone", ~UnderWay(k) PROVE Reclaimed(k)'
      BY <1>a, <2>1, <2>3 DEF Inst, Covered, Reclaimed, PassFinds, workerUnreachable, Safe, passVars
    <2> QED
      BY <2>1, <2>2, <2>3, ClearStep
  <1>2. CASE gcDelete /\ ~UNCHANGED <<dbVars, leaked>>
    <2> DEFINE stale == {i \in Id : row[i] = "stale"}
    <2>1. /\ UNCHANGED <<boxVars, worker, agentVars, passVars>> /\ DeleteRows(stale)
          /\ leaked' = leaked \cup Lost({i \in stale : ~UnderWay(i)})
      BY <1>2 DEF gcDelete
    <2>2. /\ DOMAIN row' = Id /\ DOMAIN port' = Id /\ DOMAIN crow' = Id
          /\ \A k \in Id : row[k] = "gone" => row'[k] = "gone"
          /\ \A k \in Id : row'[k] = "gone" => row[k] = "gone" \/ k \in stale
      BY <2>1 DEF DeleteRows
    <2>3. Domains' /\ Joining'
      BY <1>a, <2>1, <2>2 DEF Domains, Joining, boxVars, passVars
    <2>4. ASSUME NEW k \in Id PROVE Listed(k) /\ Spared(k)'
      BY <1>a, <2>1, <2>2 DEF Listed, Inst, Spared, passVars
    <2>5. \A k \in Id : k \in leaked => k \in leaked'
      BY <2>1
    <2>6. ASSUME NEW k \in Id, cont[k] # "none", row'[k] = "gone", ~UnderWay(k) PROVE Reclaimed(k)'
      <3>1. CASE row[k] = "gone"
        BY <1>a, <2>1, <2>6, <3>1 DEF Inst, Covered, Reclaimed, PassFinds, workerUnreachable, Safe, boxVars, passVars
      <3>2. CASE k \in stale
        BY <2>1, <2>6, <3>2 DEF Lost, Reclaimed, Safe, boxVars
      <3> QED
        BY <2>2, <2>6, <3>1, <3>2
    <2> HIDE DEF stale
    <2> QED
      BY <2>1, <2>3, <2>4, <2>5, <2>6, DeleteStep
  <1>3. CASE reclaimAfterGC
    <2>1. /\ UNCHANGED <<row, port, crow, bound, cont, net, removing, leaked, worker, agentVars>>
          /\ PassAt("gc", "containers", {}, {}) \/ UNCHANGED passVars
      BY <1>3 DEF reclaimAfterGC, dbVars, boxVars
    <2>2. /\ DOMAIN pass' = Pass /\ DOMAIN seenC' = Pass /\ DOMAIN seenN' = Pass
          /\ pass'["join"] = pass["join"] /\ seenC'["join"] = seenC["join"]
          /\ \A q \in Pass : \/ pass'[q] = "containers" /\ seenC'[q] = {} /\ seenN'[q] = {}
                             \/ pass'[q] = pass[q] /\ seenC'[q] = seenC[q] /\ seenN'[q] = seenN[q]
      BY <1>a, <2>1 DEF PassAt, Domains, passVars, Pass
    <2>3. Domains' /\ Joining'
      BY <1>a, <2>1, <2>2 DEF Domains, Joining
    <2>4. ASSUME NEW k \in Id PROVE Cleared(k) /\ Listed(k) /\ Spared(k)'
      BY <1>a, <2>1, <2>2, NoneCleared DEF Listed, Inst, Spared
    <2>5. ASSUME NEW k \in Id, cont'[k] # "none", row[k] = "gone", ~UnderWay(k) PROVE Reclaimed(k)'
      BY <1>a, <2>1, <2>2, <2>5 DEF Inst, Covered, Reclaimed, PassFinds, workerUnreachable, Safe
    <2> QED
      BY <2>1, <2>3, <2>4, <2>5, ClearStep
  <1> QED
    BY <1>1, <1>2, <1>3 DEF Prune

\* The worker leaves, joins, is replaced or is removed.
LEMMA WorkerSteps ==
  ASSUME IInv, WorkerOut \/ WorkerJoins \/ ReplaceWorker \/ RemoveWorker
  PROVE  IInv'
  <1>a. Domains /\ Joining /\ \A k \in Id : Inst(k)
    BY DEF IInv
  <1>1. CASE WorkerOut \/ WorkerJoins \/ ReplaceWorker
    <2>1. PICK where \in {"none", "containers"} :
              /\ PassAt("join", where, {}, {})
              /\ worker' = IF where = "none" THEN "out" ELSE "joining"
      BY <1>1 DEF WorkerOut, WorkerJoins, ReplaceWorker
    <2>2. UNCHANGED <<row, port, crow, bound, cont, net, removing, leaked, agentVars>>
      BY <1>1 DEF WorkerOut, WorkerJoins, ReplaceWorker, dbVars, boxVars
    <2>3. /\ DOMAIN pass' = Pass /\ DOMAIN seenC' = Pass /\ DOMAIN seenN' = Pass
          /\ \A p \in Pass : seenC'[p] \subseteq Id /\ seenN'[p] \subseteq Id
          /\ pass'["join"] = where /\ seenC'["join"] = {}
          /\ \A k \in Id : Listed(k) /\ Spared(k)'
      BY <2>1, <2>2, JoinPassReset
    <2>4. Domains' /\ Joining' /\ \A k \in Id : Cleared(k)
      BY <1>a, <2>1, <2>2, <2>3, NoneCleared DEF Domains, Joining
    <2>5. ASSUME NEW k \in Id PROVE Reclaimed(k)'
      BY <2>1, <2>3 DEF Reclaimed, PassFinds, workerUnreachable
    <2> QED
      BY <2>2, <2>3, <2>4, <2>5, ClearStep
  <1>2. CASE RemoveWorker
    <2>1. /\ UNCHANGED <<boxVars, agentVars>> /\ worker' = "absent" /\ DeleteRows(Id)
          /\ PassAt("join", "none", {}, {})
          /\ leaked' = leaked
      BY <1>2 DEF RemoveWorker
    <2>2. /\ DOMAIN row' = Id /\ DOMAIN port' = Id /\ DOMAIN crow' = Id
          /\ \A k \in Id : row[k] = "gone" => row'[k] = "gone"
      BY <2>1 DEF DeleteRows
    <2>3. /\ DOMAIN pass' = Pass /\ DOMAIN seenC' = Pass /\ DOMAIN seenN' = Pass
          /\ \A p \in Pass : seenC'[p] \subseteq Id /\ seenN'[p] \subseteq Id
          /\ pass'["join"] = "none" /\ seenC'["join"] = {}
          /\ \A k \in Id : Listed(k) /\ Spared(k)'
      BY <2>1, <2>2, JoinPassReset
    <2>4. Domains' /\ Joining'
      BY <1>a, <2>1, <2>2, <2>3 DEF Domains, Joining, boxVars
    <2>5. ASSUME NEW k \in Id PROVE Reclaimed(k)'
      BY <2>1 DEF Reclaimed, PassFinds, workerUnreachable
    <2> QED
      BY <2>1, <2>3, <2>4, <2>5, DeleteStep
  <1> QED
    BY <1>1, <1>2

\* A daemon that dies forgets the removals it was sent.
LEMMA DaemonSteps ==
  ASSUME IInv, DaemonDies \/ DaemonReturns
  PROVE  IInv'
  <1>a. Domains /\ Joining /\ \A k \in Id : Inst(k)
    BY DEF IInv
  <1>1. /\ UNCHANGED <<row, port, crow, bound, cont, net, worker, passVars, agentVars>>
        /\ \/ UNCHANGED <<removing, leaked>>
           \/ removing' = {} /\ leaked' = leaked \cup {i \in removing : port[i] = NoPort}
    BY DEF DaemonDies, DaemonReturns, dbVars, boxVars
  <1>2. Domains' /\ Joining' /\ \A k \in Id : Listed(k) /\ Spared(k)'
    BY <1>a, <1>1, PassesKept DEF Domains, passVars
  <1>3. ASSUME NEW k \in Id PROVE Cleared(k) /\ (Safe(k) /\ port[k] = NoPort => Safe(k)')
    BY <1>1 DEF Cleared, Safe
  <1>4. ASSUME NEW k \in Id, cont'[k] # "none", row[k] = "gone", ~UnderWay(k) PROVE Reclaimed(k)'
    <2>1. port[k] = NoPort /\ Reclaimed(k)
      BY <1>a, <1>1, <1>4 DEF Inst, Ports, Covered
    <2> QED
      BY <1>1, <1>3, <2>1 DEF Reclaimed, PassFinds, workerUnreachable, passVars
  <1> QED
    BY <1>1, <1>2, <1>3, <1>4, ClearStep

\* corkd starts again: no agent is left, and the worker has its pass to make.
LEMMA RestartStep ==
  ASSUME IInv, Restart
  PROVE  IInv'
  <1>a. Domains /\ Joining /\ Unique /\ \A k \in Id : Inst(k)
    BY DEF IInv
  <1>1. UNCHANGED <<row, port, crow, bound, cont, net, removing>> /\ leaked' = leaked \cup Cut
    BY DEF Restart, dbVars, boxVars
  <1>2. /\ DOMAIN pass' = Pass /\ DOMAIN seenC' = Pass /\ DOMAIN seenN' = Pass
        /\ \A q \in Pass : pass'[q] \in {"none", "containers"} /\ seenC'[q] = {} /\ seenN'[q] = {}
        /\ \/ worker' = "absent" /\ pass'["join"] = "none"
           \/ worker' = "joining" /\ pass'["join"] = "containers"
    BY DEF Restart, Pass
  <1>3. Domains' /\ Joining' /\ Unique' /\ Agents'
    <2>1. Domains' /\ Joining'
      BY <1>a, <1>1, <1>2 DEF Domains, Joining, Pass
    <2>2. Unique' /\ Agents'
      BY <1>a, <1>1 DEF Unique, Agents, Restart
    <2> QED
      BY <2>1, <2>2
  <1>4. \A k \in Id : pc'[k] = IF row[k] # "never" THEN "done" ELSE "idle"
    BY DEF Restart, Agent
  <1>5. ASSUME NEW k \in Id PROVE Stages(k)'
    BY <1>a, <1>1, <1>2, <1>4 DEF Inst, Stages, Launching, Early
  <1>6. ASSUME NEW k \in Id PROVE Ports(k)' /\ Covered(k)' /\ Spared(k)'
    <2>1. Ports(k)' /\ Spared(k)'
      BY <1>a, <1>1, <1>2 DEF Inst, Ports, Spared
    <2>2. PassFinds(k)'
      BY <1>2 DEF PassFinds, workerUnreachable
    <2>3. cont[k] # "none" /\ port[k] = NoPort /\ row[k] # "gone" => Safe(k)'
      <3>1. cont[k] # "none" /\ row[k] # "gone" => row[k] \in Recorded
        BY <1>a DEF Inst, Stages
      <3> QED
        BY <1>a, <1>1, <3>1 DEF Inst, Covered, Safe, Cut, Lost
    <2> QED
      BY <1>1, <2>1, <2>2, <2>3 DEF Covered, Reclaimed
  <1>7. ASSUME NEW a \in Agent PROVE Stopping(a)'
    <2>1. pc'[a] \in {"idle", "done"} /\ err'[a] = "none" /\ (a \in Stopper => pc'[a] = "idle")
      BY InstancesAssumption DEF Restart, Agent
    <2> QED
      BY <2>1 DEF Stopping
  <1> QED
    BY <1>3, <1>5, <1>6, <1>7 DEF IInv, Inst

-----------------------------------------------------------------------------
(* The invariant, and what it gives.                                       *)

\* The invariant holds at the start.
LEMMA InitIInv == Init => IInv
  <1> SUFFICES ASSUME Init PROVE IInv
    OBVIOUS
  <1>1. Domains /\ Agents /\ Joining /\ Unique
    BY DEF Init, Domains, Agents, Joining, Unique, Pass
  <1>2. ASSUME NEW i \in Id PROVE Inst(i)
    BY DEF Init, Inst, Stages, Ports, Covered, Spared, Agent, Launching, Early
  <1>3. ASSUME NEW a \in Agent PROVE Stopping(a)
    BY DEF Init, Stopping
  <1> QED
    BY <1>1, <1>2, <1>3 DEF IInv

\* The invariant survives a stuttering step.
LEMMA StutterIInv ==
  ASSUME IInv, UNCHANGED vars
  PROVE  IInv'
  <1>a. Domains /\ \A k \in Id : Inst(k)
    BY DEF IInv
  <1>1. UNCHANGED <<row, port, crow, bound, cont, net, removing, leaked, worker, passVars, agentVars>>
    BY DEF vars, dbVars, boxVars
  <1>2. Domains' /\ Joining' /\ \A k \in Id : Cleared(k) /\ Listed(k) /\ Spared(k)'
    BY <1>a, <1>1, PassesKept, NoneCleared DEF Domains, passVars
  <1>3. ASSUME NEW k \in Id, cont'[k] # "none", row[k] = "gone", ~UnderWay(k) PROVE Reclaimed(k)'
    BY <1>a, <1>1, <1>3 DEF Inst, Covered, Reclaimed, PassFinds, workerUnreachable, Safe, passVars
  <1> QED
    BY <1>1, <1>2, <1>3, ClearStep

\* The inductive invariant of Instances: every launch, stop, pass, prune, worker
\* command and crash keeps it.
THEOREM InstancesInductive == Spec => []IInv
  <1>1. ASSUME IInv, Next PROVE IInv'
    <2>1. CASE \E i \in Id : Launch(i) \/ pruneOld(i) \/ Reaper(i) \/ Stale(i) \/ RemovalLands(i)
      BY <1>1, <2>1, LaunchSteps, InstanceSteps
    <2>2. CASE \E s \in Stopper : Stop(s)
      BY <1>1, <2>2, StopStep
    <2>3. CASE \E a \in Agent : stopInstance(a)
      <3>1. PICK a \in Agent : stopInstance(a)
        BY <2>3
      <3>2. PICK t : t = Tgt(a)
        OBVIOUS
      <3> QED
        BY <1>1, <3>1, <3>2, TeardownSteps
    <2>4. CASE \E p \in Pass : reconcileWorker(p)
      BY <1>1, <2>4, PassSteps
    <2>5. CASE Prune
      BY <1>1, <2>5, PruneSteps
    <2>6. CASE WorkerJoins \/ WorkerOut \/ RemoveWorker \/ ReplaceWorker
      BY <1>1, <2>6, WorkerSteps
    <2>7. CASE Restart
      BY <1>1, <2>7, RestartStep
    <2>8. CASE DaemonReturns \/ DaemonDies
      BY <1>1, <2>8, DaemonSteps
    <2> QED
      BY <1>1, <2>1, <2>2, <2>3, <2>4, <2>5, <2>6, <2>7, <2>8 DEF Next
  <1> QED
    BY <1>1, InitIInv, StutterIInv, PTL DEF Spec

\* The orphans of a pass have no row.
LEMMA IInvSpares == IInv => PassSparesRecorded
  <1> SUFFICES ASSUME IInv, NEW p \in Pass, pass[p] \in {"rmC", "rmN"},
                      NEW i \in seenC[p] \cup seenN[p]
               PROVE  row[i] = "gone"
    BY DEF PassSparesRecorded
  <1> QED
    BY DEF IInv, Domains, Inst, Spared

\* A worker in placement has no pass to make: what has no row is safe, or its launch's.
LEMMA IInvAccounts == IInv => Accounted
  <1> SUFFICES ASSUME IInv, worker = "ok", NEW i \in Id, cont[i] # "none", row[i] = "gone"
               PROVE  Safe(i) \/ UnderWay(i)
    BY DEF Accounted, Safe
  <1>1. pass["join"] = "none" /\ seenC["join"] = {}
    BY DEF IInv, Joining
  <1> QED
    BY <1>1 DEF IInv, Inst, Covered, Reclaimed, PassFinds, workerUnreachable

\* A launch with its port holds the one its container publishes, and so does any other
\* instance that holds one: a container on the same port has none reserved.
LEMMA IInvBinds == IInv => BindSucceeds
  <1> SUFFICES ASSUME IInv, worker = "ok", NEW i \in Id, NEW j \in Id,
                      port[i] # NoPort, i # j, cont[j] = "running", bound[j] = bound[i]
               PROVE  Safe(j) \/ (UnderWay(j) /\ port[j] = NoPort)
    BY DEF BindSucceeds, Safe
  <1>1. Accounted /\ Inst(i) /\ Inst(j) /\ Unique
    BY IInvAccounts DEF IInv
  <1>2. port[j] = NoPort
    BY <1>1 DEF Inst, Ports, Unique
  <1> QED
    BY <1>1, <1>2 DEF Accounted, Inst, Covered, Safe

\* Whatever stops, passes, prunes and crashes interleave with it, a reconcile pass
\* (reconcileWorker) removes nothing of an instance that has a row.
THEOREM PassesSpareRecorded == Spec => []PassSparesRecorded
  BY InstancesInductive, IInvSpares, PTL

\* On a worker in placement a container without a row is one the daemon is removing,
\* one whose launch has yet to clear it away, or one of the known leaks: teardown, the
\* join pass, the prune and the crash-GC between them lose nothing else.
THEOREM NothingUnaccounted == Spec => []Accounted
  BY InstancesInductive, IInvAccounts, PTL

\* The port claimPort gave a launch, as long as no stop takes it back, is free on the
\* worker's daemon when the launch starts its container: known leaks, removals under
\* way and launches that have lost their own port aside.
THEOREM BindsSucceed == Spec => []BindSucceeds
  BY InstancesInductive, IInvBinds, PTL
=============================================================================
