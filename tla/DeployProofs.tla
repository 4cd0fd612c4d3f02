---------------------------- MODULE DeployProofs ----------------------------
(***************************************************************************)
(* The proofs about cork-build and its orchestrators, for any number of    *)
(* schemas, orchestrators, commands and faults.  That a schema has one     *)
(* holder is not inductive: it rests on where the requests still under way *)
(* may land.  So the invariant speaks of requests: one of the last command *)
(* (Recent) may take its schemas only where nobody else holds them, with   *)
(* the build plane's ids, and the row a removal is after is the last; one  *)
(* that was overtaken has its schemas adrift, and nothing is said of them. *)
(* What a command checked at its start (Routed) holds until it ends,       *)
(* because the only rows that appear meanwhile are those of its own        *)
(* hand-overs.                                                             *)
(***************************************************************************)
EXTENDS Deploy, TLAPS

USE Zenon

-----------------------------------------------------------------------------
(* The inductive invariant                                                 *)

Build == [on : BOOLEAN, id : Nat, gen : Nat]

Row == [on : BOOLEAN, id : Nat, gen : Nat, prev : Nat, serving : BOOLEAN]

Req == [kind : {"put", "post", "delete", "release"}, d : Dest, named : SUBSET Schema, ids : [Schema -> Nat],
        gen : Nat, run : SUBSET Schema, tags : SUBSET Nat, stage : {"arrived", "checked", "retiring"},
        from : {"client", "lost"}]

Cmd == [op : {"none", "build", "remove", "migrate", "update"},
        at : {"idle", "route", "scan", "converge", "send", "put", "delivered", "post", "where", "delete", "drop"},
        named : SUBSET Schema, todo : SUBSET Schema, dests : SUBSET Dest, to : Dest \cup {"none"}, failed : BOOLEAN]

Work == [named : SUBSET Schema, doomed : SUBSET Schema, moving : SUBSET Schema]

Types ==
    /\ dest \in [Schema -> Dest \cup {"none"}] /\ tree \in Nat /\ chal \in Nat
    /\ plane \in [Schema -> Build] /\ rows \in [Dest -> [Schema -> Row]]
    /\ reqs \subseteq Req /\ cmd \in Cmd /\ work \in Work /\ adrift \subseteq Schema

\* The build plane draws an id for each build, and keeps a bundle under it.
Plane ==
    /\ \E b \in Nat : \A s \in Schema : plane[s].id <= b
    /\ \A s, t \in Schema : plane[s].on /\ plane[t].on /\ plane[s].id = plane[t].id => s = t
    /\ \A s \in Schema : plane[s].on => \E dir \in Dest \cup {"root"} : <<dir, plane[s].id>> \in bundles

\* One holder of a schema, under the build plane's id.
Kept(s) ==
    /\ \A d, e \in Dest : rows[d][s].on /\ rows[e][s].on => d = e
    /\ \A d \in Dest : rows[d][s].on => plane[s].on /\ plane[s].id = rows[d][s].id

\* Until a run is handed over that was not shown a schema held elsewhere, one orchestrator
\* holds everything.
Together == \A d, e \in Dest, s, t \in Schema : rows[d][s].on /\ rows[e][t].on => d = e

Served == \A d \in Dest, s \in Schema : rows[d][s].on => rows[d][s].gen \in registry

Pullable == adrift = {} /\ ~apart => Together /\ Served

\* A request of the last command: no command has started since it was sent.
Recent(r) == ~(r.named \subseteq adrift)

Removes(r) == r.kind \in {"delete", "release"}

Waits(r) == IF r.kind = "put" THEN "put" ELSE IF r.kind = "post" THEN "post" ELSE "delete"

Sending == cmd.op = "build" /\ cmd.at \in {"send", "put", "delivered", "post"}

\* What a request carries, and that its client waits for it.
Sent(r) ==
    /\ r.named # {} /\ r.named \subseteq r.run
    /\ Removes(r) => \E s \in Schema : r.named = {s} /\ r.run = {s}
    /\ r.stage = "retiring" => Removes(r)
    /\ r.from = "client" => cmd.at = Waits(r) /\ cmd.to = r.d /\ cmd.named = r.run

\* While the command runs, its own requests are the recent ones.
Ordered(r) ==
    Recent(r) /\ cmd.at # "idle" =>
        /\ Removes(r) => cmd.at = "delete" /\ r.from = "client"
        /\ ~Removes(r) => Sending
        /\ r.kind = "put" => cmd.named = r.run /\ \A s \in cmd.named : resolve(s) = r.d

\* A hand-over is due at the only orchestrator that may hold its run, under the ids of
\* the build plane, and with a tag the registry still has.
Handing(r) ==
    Recent(r) /\ r.kind = "put" =>
        /\ \A s \in r.run \ adrift : \A d \in Dest : rows[d][s].on => d = r.d
        /\ \A s \in r.named \ adrift : plane[s].on /\ plane[s].id = r.ids[s]
        /\ adrift = {} /\ r.stage = "checked" => r.gen \in registry

\* A removal is at the only orchestrator that may hold the schema, and once the row is
\* gone nobody does.
Removing(r) ==
    Recent(r) /\ Removes(r) =>
        /\ \A s \in r.named, d \in Dest : rows[d][s].on => d = r.d /\ r.stage # "retiring"
        /\ adrift = {} /\ ~apart /\ r.stage = "retiring" => \A d \in Dest, t \in Schema : rows[d][t].on => d = r.d

Requests == \A r \in reqs : Sent(r) /\ Ordered(r) /\ Handing(r) /\ Removing(r)

\* One client waits; a recent removal is the only recent request; recent hand-overs are
\* at one orchestrator.
Apart(q, r) ==
    /\ q.from = "client" /\ r.from = "client" => q = r
    /\ Recent(q) /\ Recent(r) => /\ Removes(q) => q = r
                                 /\ q.kind = "put" /\ r.kind = "put" => q.d = r.d

\* What a run has checked holds until it ends.
Routed ==
    /\ \A s \in cmd.named : resolve(s) \in Dest
    /\ \A s, t \in cmd.named : resolve(s) = resolve(t)
    /\ \A s \in cmd.named \ adrift : \A d \in Dest : rows[d][s].on => d = resolve(s)

Stage ==
    /\ cmd.at \in {"route", "converge", "send", "put", "delivered", "post"} => cmd.op = "build"
    /\ cmd.op = "build" /\ cmd.at \in {"scan", "converge", "send", "put", "delivered", "post"} => Routed
    /\ cmd.at = "scan" => cmd.op \in {"build", "update"}
    /\ cmd.at = "converge" => \A s \in cmd.named \ cmd.todo : plane[s].on
    /\ Sending => \A s \in cmd.named : plane[s].on
    /\ Sending => cmd.dests \subseteq {resolve(s) : s \in cmd.named}
    /\ cmd.at \in {"put", "delivered", "post"} => cmd.to \in Dest
    /\ cmd.at \in {"put", "delivered", "post"} => cmd.todo \subseteq cmd.named
    /\ cmd.at \in {"where", "delete", "drop"} => cmd.op \in {"remove", "migrate"} /\ \E s \in Schema : cmd.named = {s}
    /\ cmd.at = "drop" => \A s \in cmd.named \ adrift, d \in Dest : ~rows[d][s].on

IInv ==
    /\ Types /\ Plane /\ Pullable /\ Requests /\ Stage
    /\ \A s \in Schema \ adrift : Kept(s)
    /\ \A q, r \in reqs : Apart(q, r)

-----------------------------------------------------------------------------
(* What the steps have in common                                           *)

\* Between requests no client waits.
LEMMA NoneWaits ==
    ASSUME IInv, cmd.at \notin {"put", "post", "delete"}, NEW r \in reqs
    PROVE  r.from # "client"
  BY DEF IInv, Requests, Sent, Waits

\* Until a command has sent something, every request under way was overtaken by it.
LEMMA NoneRecent ==
    ASSUME IInv, cmd.at \in {"route", "scan", "converge", "where", "drop"}, NEW r \in reqs
    PROVE  ~Recent(r)
  BY DEF IInv, Requests, Ordered, Sending

\* Nothing is asked of a request once cork-build is idle.
LEMMA IdleRequest ==
    ASSUME cmd'.at = "idle", NEW r, Sent(r), r.from # "client"
    PROVE  Sent(r)' /\ Ordered(r)'
  BY DEF Sent, Ordered

\* Nothing is asked of an idle cork-build.
LEMMA IdleStage == cmd'.at = "idle" => Stage'
  BY DEF Stage, Sending

\* The idle command is a command.
LEMMA IdleType == Idle \in Cmd /\ Idle.at = "idle"
  BY DeployAssumption DEF Idle, Cmd

\* What a command has checked survives a step that adds no row.
LEMMA StageKept ==
    ASSUME Stage, UNCHANGED <<cmd, dest, plane, adrift>>,
           \A s \in Schema \ adrift, d \in Dest : rows'[d][s].on => rows[d][s].on,
           cmd.named \subseteq Schema
    PROVE  Stage'
  <1>1. \A s : resolve(s)' = resolve(s)
    BY SMT DEF resolve
  <1>2. Routed => Routed'
    BY <1>1 DEF Routed
  <1>3. Sending' = Sending
    BY DEF Sending
  <1> QED
    BY <1>1, <1>2, <1>3 DEF Stage

\* A request stays in order while cork-build stands still.
LEMMA RequestKept ==
    ASSUME UNCHANGED <<cmd, dest, adrift>>, NEW r, Sent(r), Ordered(r)
    PROVE  Sent(r)' /\ Ordered(r)'
  <1>1. \A s : resolve(s)' = resolve(s)
    BY SMT DEF resolve
  <1>2. Sent(r)'
    BY DEF Sent
  <1>3. Ordered(r)'
    BY <1>1 DEF Ordered, Recent, Sending
  <1> QED
    BY <1>2, <1>3

\* A step that changes only requests and the command has those to answer for.
LEMMA Frame ==
    ASSUME IInv, UNCHANGED <<rows, plane, bundles, registry, adrift, apart>>, Types', Stage',
           \A r \in reqs' : Sent(r)' /\ Ordered(r)' /\ Handing(r) /\ Removing(r),
           \A q, r \in reqs' : Apart(q, r)
    PROVE  IInv'
  <1>1. Plane' /\ Pullable' /\ \A s \in (Schema \ adrift)' : Kept(s)'
    BY DEF IInv, Plane, Pullable, Together, Served, Kept
  <1>2. \A r \in reqs' : Handing(r)' /\ Removing(r)'
    BY DEF Handing, Removing, Recent, Removes
  <1>3. \A q, r \in reqs' : Apart(q, r)'
    BY DEF Apart, Recent, Removes
  <1> QED
    BY <1>1, <1>2, <1>3 DEF IInv, Requests

\* A step with no recent request under way has only the state to answer for.
LEMMA BareStep ==
    ASSUME IInv, \A r \in reqs : ~Recent(r) /\ r.from # "client", UNCHANGED <<reqs, adrift>>,
           Types', Plane', Pullable', Stage', \A s \in Schema \ adrift : Kept(s)'
    PROVE  IInv'
  <1>1. \A r \in reqs : Sent(r)'
    BY DEF IInv, Requests, Sent, Removes
  <1>2. \A r \in reqs : ~Recent(r)'
    BY DEF Recent
  <1>3. \A r \in reqs : Ordered(r)' /\ Handing(r)' /\ Removing(r)'
    BY <1>2 DEF Ordered, Handing, Removing
  <1>4. \A q, r \in reqs : Apart(q, r)'
    BY <1>2 DEF Apart
  <1> QED
    BY <1>1, <1>3, <1>4 DEF IInv, Requests

\* A command that begins sets the schemas of every request under way adrift.
LEMMA BeginsStep ==
    ASSUME IInv, NEW op, NEW S \in SUBSET Schema, NEW at, Begins(op, S, at), work' \in Work,
           \/ op = "build" /\ at = "route"
           \/ op \in {"remove", "migrate"} /\ at = "where" /\ \E s \in Schema : S = {s}
           \/ op = "update" /\ at = "scan",
           UNCHANGED <<dest, tree, chal, plane, bundles, registry, rows, reqs, apart>>
    PROVE  IInv'
  <1>1. cmd' \in Cmd /\ cmd'.op = op /\ cmd'.at = at /\ cmd'.named = S
    <2>1. cmd' = [op |-> op, at |-> at, named |-> S, todo |-> {}, dests |-> {}, to |-> "none", failed |-> FALSE]
      BY DEF Begins, Idle
    <2> QED
      BY <2>1 DEF Cmd
  <1>2. adrift' \subseteq Schema /\ adrift \subseteq adrift' /\ \A r \in reqs : r.named \subseteq adrift'
    <2>1. \A r \in reqs : r.named \subseteq Schema
      BY DEF IInv, Types, Req
    <2>2. adrift' = adrift \cup UNION {r.named : r \in reqs} /\ adrift \subseteq Schema
      BY DEF Begins, IInv, Types
    <2> QED
      BY <2>1, <2>2
  <1>3. \A r \in reqs : r.from # "client" /\ ~Recent(r)'
    BY <1>2, NoneWaits DEF Begins, Recent
  <1>4. Types'
    BY <1>1, <1>2 DEF IInv, Types
  <1>5. Plane' /\ Pullable' /\ \A s \in (Schema \ adrift)' : Kept(s)'
    BY <1>2 DEF IInv, Plane, Pullable, Together, Served, Kept
  <1>6. Stage'
    BY <1>1 DEF Stage, Sending
  <1>7. \A r \in reqs : Sent(r)' /\ Ordered(r)' /\ Handing(r)' /\ Removing(r)'
    BY <1>3 DEF IInv, Requests, Sent, Ordered, Handing, Removing, Removes
  <1>8. \A q, r \in reqs : Apart(q, r)'
    BY <1>3 DEF Apart
  <1> QED
    BY <1>4, <1>5, <1>6, <1>7, <1>8 DEF IInv, Requests

\* The operator's steps: commands, retries, and edits of files and sources.
LEMMA OperatorSteps ==
    ASSUME IInv, Command \/ Retry \/ Amend \/ EditTree \/ \E s \in Schema : EditFile(s)
    PROVE  IInv'
  <1> USE DEF IInv, Types
  <1>1. CASE Command
    <2>1. ASSUME NEW S \in SUBSET Schema, Begins("build", S, "route"), work' = [work EXCEPT !.named = @ \cup S]
          PROVE  IInv'
      <3>1. work' \in Work
        BY <2>1 DEF Work
      <3> QED
        BY <1>1, <2>1, <3>1, BeginsStep DEF Command
    <2>2. ASSUME NEW s \in Schema, Begins("remove", {s}, "where"),
                 work' = [work EXCEPT !.named = @ \ {s}, !.doomed = @ \cup {s}]
          PROVE  IInv'
      <3>1. work' \in Work
        BY <2>2 DEF Work
      <3> QED
        BY <1>1, <2>2, <3>1, BeginsStep DEF Command
    <2>3. ASSUME NEW s \in Schema, Begins("migrate", {s}, "where"), work' = [work EXCEPT !.moving = @ \cup {s}]
          PROVE  IInv'
      <3>1. work' \in Work
        BY <2>3 DEF Work
      <3> QED
        BY <1>1, <2>3, <3>1, BeginsStep DEF Command
    <2>4. CASE Begins("update", {}, "scan") /\ UNCHANGED work
      BY <1>1, <2>4, BeginsStep DEF Command
    <2> QED
      BY <1>1, <2>1, <2>2, <2>3, <2>4 DEF Command
  <1>2. CASE Retry
    <2>1. work.named \subseteq Schema /\ work.doomed \subseteq Schema /\ work.moving \subseteq Schema
      BY DEF Work
    <2>2. ASSUME NEW s \in Schema, NEW op \in {"remove", "migrate"}, Begins(op, {s}, "where")
          PROVE  IInv'
      BY <1>2, <2>2, BeginsStep DEF Retry
    <2>3. CASE Begins("build", work.named, "route")
      BY <1>2, <2>1, <2>3, BeginsStep DEF Retry
    <2> QED
      BY <1>2, <2>1, <2>2, <2>3 DEF Retry
  <1>3. CASE Amend \/ \E s \in Schema : EditFile(s)
    <2>1. /\ cmd.at = "idle" /\ dest' \in [Schema -> Dest \cup {"none"}]
          /\ UNCHANGED <<tree, chal, plane, bundles, registry, rows, reqs, cmd, work, adrift, apart>>
      BY <1>3 DEF Amend, EditFile
    <2>2. Types' /\ Stage'
      BY <2>1, IdleStage
    <2>3. \A r \in reqs : Sent(r)' /\ Ordered(r)'
      BY <2>1, IdleRequest, NoneWaits DEF Requests
    <2> QED
      BY <2>1, <2>2, <2>3, Frame DEF Requests
  <1>4. CASE EditTree
    <2>1. /\ tree' \in Nat
          /\ UNCHANGED <<dest, chal, plane, bundles, registry, rows, reqs, cmd, work, adrift, apart>>
      BY SMT, <1>4, DeployAssumption DEF EditTree, Gen
    <2>2. Types'
      BY <2>1
    <2>3. Stage'
      BY <2>1, StageKept DEF Cmd
    <2>4. \A r \in reqs : Sent(r)' /\ Ordered(r)'
      BY <2>1, RequestKept DEF Requests
    <2> QED
      BY <2>1, <2>2, <2>3, <2>4, Frame DEF Requests
  <1> QED
    BY <1>1, <1>2, <1>3, <1>4

-----------------------------------------------------------------------------
(* cork-build                                                              *)

\* A command that waits for nothing ends.
LEMMA EndsStep ==
    ASSUME IInv, cmd.at \notin {"put", "post", "delete"}, NEW w \in Work, Ends(w),
           UNCHANGED <<dest, tree, chal, plane, bundles, registry, rows, reqs, adrift, apart>>
    PROVE  IInv'
  <1>1. Types'
    BY IdleType DEF IInv, Types, Ends
  <1>2. Stage' /\ \A r \in reqs : Sent(r)' /\ Ordered(r)'
    BY IdleType, IdleStage, IdleRequest, NoneWaits DEF IInv, Requests, Ends
  <1> QED
    BY <1>1, <1>2, Frame DEF IInv, Requests

\* What a run asks before it builds is what Routed says of it.
LEMMA RouteStep == IInv /\ route => IInv'
  <1> SUFFICES ASSUME IInv, route PROVE IInv'
    OBVIOUS
  <1>1. cmd.at = "route" /\ UNCHANGED <<dest, tree, chal, plane, bundles, registry, rows, reqs, adrift, apart>>
    BY DEF route
  <1>2. CASE \E w \in Work : Ends(w)
    BY <1>1, <1>2, EndsStep
  <1>3. CASE /\ routeSchemas(cmd.named) /\ exclusivityConflicts(cmd.named) = {} /\ misroutedSchemas(cmd.named) = {}
             /\ cmd' = [cmd EXCEPT !.at = "scan"] /\ UNCHANGED work
    <2>1. cmd \in Cmd /\ cmd.op = "build"
      BY <1>1 DEF IInv, Types, Stage
    <2>2. cmd' \in Cmd /\ cmd'.at = "scan" /\ cmd'.op = "build" /\ cmd'.named = cmd.named
      BY <1>3, <2>1 DEF Cmd
    <2>3. \A s : resolve(s)' = resolve(s)
      BY SMT, <1>1 DEF resolve
    <2>4. \A s \in cmd.named : resolve(s) \in Dest
      BY <1>3 DEF routeSchemas
    <2>5. ASSUME NEW s \in cmd.named, NEW t \in cmd.named PROVE resolve(s) = resolve(t)
      <3>1. <<s, t>> \in cmd.named \X cmd.named /\ <<s, t>>[1] = s /\ <<s, t>>[2] = t
        OBVIOUS
      <3>2. <<s, t>> \notin exclusivityConflicts(cmd.named)
        BY <1>3
      <3> QED
        BY <3>1, <3>2 DEF exclusivityConflicts
    <2>6. ASSUME NEW s \in cmd.named \ adrift, NEW d \in Dest, rows[d][s].on PROVE d = resolve(s)
      <3>1. s \notin misroutedSchemas(cmd.named) /\ resolve(s) \in Dest
        BY <1>3, <2>4
      <3>2. CASE severalDests
        <4>1. rows[resolve(s)][s].on \/ d = resolve(s)
          BY <2>6, <3>1, <3>2 DEF misroutedSchemas, servesSchema
        <4>2. s \in Schema
          BY <2>1 DEF Cmd
        <4> QED
          BY <2>6, <3>1, <4>1, <4>2 DEF IInv, Kept
      <3> QED
        BY <3>1, <3>2 DEF severalDests
    <2>7. Routed'
      BY <1>1, <2>2, <2>3, <2>4, <2>5, <2>6 DEF Routed
    <2>8. Stage'
      BY <2>2, <2>7 DEF Stage, Sending
    <2>9. Types'
      BY <1>1, <1>3, <2>2 DEF IInv, Types
    <2> QED
      BY <1>1, <2>8, <2>9, NoneRecent, NoneWaits, BareStep
         DEF IInv, Plane, Pullable, Together, Served, Kept
  <1>4. work \in Work /\ [work EXCEPT !.moving = @ \cup misroutedSchemas(cmd.named)] \in Work
    <2>1. work \in Work /\ misroutedSchemas(cmd.named) \subseteq Schema
      BY DEF IInv, Types, Cmd, misroutedSchemas
    <2> QED
      BY <2>1 DEF Work
  <1> QED
    BY <1>2, <1>3, <1>4 DEF route

\* buildlib.Run builds what routing allowed.
LEMMA AssembleStep == IInv /\ assemble => IInv'
  <1> SUFFICES ASSUME IInv, assemble PROVE IInv'
    OBVIOUS
  <1>1. /\ cmd.at = "converge" /\ cmd.todo = {} /\ cmd \in Cmd /\ work \in Work
        /\ UNCHANGED <<dest, tree, chal, plane, bundles, registry, rows, reqs, adrift, apart>>
    BY DEF assemble, IInv, Types
  <1>2. CASE Ends(work)
    BY <1>1, <1>2, EndsStep
  <1>3. CASE cmd' = [cmd EXCEPT !.at = "send", !.dests = {resolve(s) : s \in cmd.named}] /\ UNCHANGED work
    <2>1. cmd.op = "build" /\ Routed /\ \A s \in cmd.named : plane[s].on
      BY <1>1 DEF IInv, Stage
    <2>2. {resolve(s) : s \in cmd.named} \subseteq Dest
      BY <2>1 DEF Routed
    <2>3. /\ cmd' \in Cmd /\ cmd'.at = "send" /\ cmd'.op = "build" /\ cmd'.named = cmd.named
          /\ cmd'.dests = {resolve(s) : s \in cmd.named}
      BY <1>1, <1>3, <2>1, <2>2 DEF Cmd
    <2>4. \A s : resolve(s)' = resolve(s)
      BY SMT, <1>1 DEF resolve
    <2>5. Routed'
      BY <1>1, <2>1, <2>3, <2>4 DEF Routed
    <2>6. Stage'
      BY <1>1, <2>1, <2>3, <2>4, <2>5 DEF Stage
    <2>7. Types'
      BY <1>1, <1>3, <2>3 DEF IInv, Types
    <2> QED
      BY <1>1, <2>6, <2>7, NoneRecent, NoneWaits, BareStep
         DEF IInv, Plane, Pullable, Together, Served, Kept
  <1> QED
    BY <1>2, <1>3 DEF assemble

\* A bundle is kept in a destination's directory or in the artifact directory.
LEMMA DirType ==
    ASSUME IInv, NEW s \in Schema, NEW id
    PROVE  artifactDirFor(s) \in Dest \cup {"root"} /\ artifactDirForBuild(s, id) \in Dest \cup {"root"}
  <1>1. artifactDirFor(s) \in Dest \cup {"root"}
    BY DEF IInv, Types, artifactDirFor
  <1>2. findArtifactBundle(id) \in Dest \cup {"root"}
    BY SMT DEF findArtifactBundle
  <1> QED
    BY <1>1, <1>2 DEF artifactDirForBuild

\* No step of a build plane's run but a removal touches what the orchestrators hold.
LEMMA PlaneStep ==
    ASSUME IInv, cmd.at \in {"scan", "converge"}, Types', Plane', Stage', registry \subseteq registry',
           UNCHANGED <<rows, reqs, adrift, apart>>,
           \A s \in Schema : plane[s].on => plane'[s].on /\ plane'[s].id = plane[s].id
    PROVE  IInv'
  <1>1. Pullable'
    BY DEF IInv, Pullable, Together, Served
  <1>2. \A s \in Schema \ adrift : Kept(s)'
    BY DEF IInv, Kept
  <1> QED
    BY <1>1, <1>2, NoneRecent, NoneWaits, BareStep

\* A scan records a generation and moves no build.
LEMMA UpdateStep == IInv /\ Update => IInv'
  <1> SUFFICES ASSUME IInv, Update PROVE IInv'
    OBVIOUS
  <1> DEFINE into(s) == artifactDirForBuild(s, plane[s].id)
             stray(s) == pruneStrayArtifactBundle(into(s), plane[s].id)
  <1>1. /\ cmd.at = "scan" /\ chal' = tree /\ UNCHANGED <<dest, tree, rows, reqs, adrift, apart>>
        /\ cmd \in Cmd /\ work \in Work /\ plane \in [Schema -> Build] /\ tree \in Nat
    BY DEF Update, IInv, Types
  <1>2. PICK rebuilt \in SUBSET {s \in Schema : plane[s].on /\ plane[s].gen # tree} :
            /\ plane' = [s \in Schema |-> IF s \in rebuilt THEN [plane[s] EXCEPT !.gen = tree] ELSE plane[s]]
            /\ registry' = registry \cup (IF rebuilt = {} THEN {} ELSE {tree})
            /\ bundles' = (bundles \ UNION {stray(s) : s \in rebuilt}) \cup {<<into(s), plane[s].id>> : s \in rebuilt}
    BY DEF Update
  <1> HIDE DEF into, stray
  <1>3. ASSUME NEW s \in Schema
        PROVE  plane'[s] \in Build /\ plane'[s].on = plane[s].on /\ plane'[s].id = plane[s].id
    BY <1>1, <1>2 DEF Build
  <1>4. plane' \in [Schema -> Build]
    BY <1>2, <1>3
  <1>5. ASSUME NEW t \in Schema, plane[t].on
        PROVE  \E dir \in Dest \cup {"root"} : <<dir, plane[t].id>> \in bundles'
    <2>1. CASE t \in rebuilt
      BY <1>2, <2>1, DirType DEF into
    <2>2. CASE t \notin rebuilt
      <3>1. PICK dir \in Dest \cup {"root"} : <<dir, plane[t].id>> \in bundles
        BY <1>5 DEF IInv, Plane
      <3>2. ASSUME NEW s \in rebuilt, <<dir, plane[t].id>> \in stray(s) PROVE FALSE
        <4>1. plane[t].id = plane[s].id /\ s \in Schema /\ plane[s].on
          BY <1>2, <3>2 DEF stray, pruneStrayArtifactBundle
        <4> QED
          BY <1>5, <2>2, <4>1 DEF IInv, Plane
      <3> QED
        BY <1>2, <3>1, <3>2
    <2> QED
      BY <2>1, <2>2
  <1>6. Plane'
    BY <1>3, <1>5 DEF IInv, Plane
  <1>7. registry \subseteq registry'
    BY <1>2
  <1>8. CASE cmd.op = "update" /\ Ends(work)
    <2>1. Types' /\ Stage'
      BY <1>1, <1>4, <1>8, IdleType, IdleStage DEF IInv, Types, Ends
    <2> QED
      BY <1>1, <1>3, <1>6, <1>7, <2>1, PlaneStep
  <1>9. CASE cmd.op # "update" /\ cmd' = [cmd EXCEPT !.at = "converge", !.todo = cmd.named] /\ UNCHANGED work
    <2>1. cmd.op = "build" /\ Routed
      BY <1>1, <1>9 DEF IInv, Stage
    <2>2. cmd' \in Cmd /\ cmd'.at = "converge" /\ cmd'.op = "build" /\ cmd'.named = cmd.named /\ cmd'.todo = cmd.named
      BY <1>1, <1>9, <2>1 DEF Cmd
    <2>3. \A s : resolve(s)' = resolve(s)
      BY SMT, <1>1 DEF resolve
    <2>4. Routed'
      BY <1>1, <2>1, <2>2, <2>3 DEF Routed
    <2>5. Stage'
      BY <2>2, <2>4 DEF Stage, Sending
    <2>6. Types'
      BY <1>1, <1>4, <1>9, <2>2 DEF IInv, Types
    <2> QED
      BY <1>1, <1>3, <1>6, <1>7, <2>5, <2>6, PlaneStep
  <1> QED
    BY <1>8, <1>9 DEF Update

\* A bundle that moves keeps its id.
LEMMA RelocateStep == ASSUME IInv, NEW s \in Schema, RelocateArtifactBundles(s) PROVE IInv'
  <1> DEFINE id == plane[s].id
             into == artifactDirFor(s)
             copied == bundles \cup {<<into, id>>}
  <1>1. /\ cmd.at = "converge" /\ s \in cmd.todo /\ plane[s].on /\ cmd \in Cmd /\ work \in Work
        /\ UNCHANGED <<dest, tree, chal, plane, registry, rows, reqs, adrift, apart>>
    BY DEF RelocateArtifactBundles, IInv, Types
  <1>2. bundles' = bundles \/ bundles' = copied \/ (into # "root" /\ bundles' = copied \ {<<"root", id>>})
    <2> DEFINE move == into # "root" /\ <<"root", id>> \in bundles
               both == bundles \cup (IF move THEN {<<into, id>>} ELSE {})
    <2>1. \/ move /\ bundles' = both \ {<<"root", id>>}
          \/ bundles' = both
      BY DEF RelocateArtifactBundles
    <2>2. (move => both = copied) /\ (~move => both = bundles)
      OBVIOUS
    <2> QED
      BY <2>1, <2>2
  <1>3. into \in Dest \cup {"root"}
    BY DirType
  <1> HIDE DEF into
  <1>4. ASSUME NEW t \in Schema, plane[t].on
        PROVE  \E dir \in Dest \cup {"root"} : <<dir, plane[t].id>> \in bundles'
    <2>1. PICK dir \in Dest \cup {"root"} : <<dir, plane[t].id>> \in bundles
      BY <1>4 DEF IInv, Plane
    <2>2. CASE <<dir, plane[t].id>> \in bundles'
      BY <2>2
    <2>3. CASE <<dir, plane[t].id>> \notin bundles'
      <3>1. plane[t].id = id /\ <<into, id>> \in bundles'
        BY <1>2, <2>1, <2>3
      <3> QED
        BY <1>3, <3>1
    <2> QED
      BY <2>2, <2>3
  <1>5. Plane'
    BY <1>1, <1>4 DEF IInv, Plane
  <1>6. CASE Ends(work)
    <2>1. Types' /\ Stage'
      BY <1>1, <1>6, IdleType, IdleStage DEF IInv, Types, Ends
    <2> QED
      BY <1>1, <1>5, <2>1, PlaneStep
  <1>7. CASE cmd' = [cmd EXCEPT !.todo = @ \ {s}] /\ UNCHANGED work
    <2>1. /\ cmd' \in Cmd /\ cmd'.at = "converge" /\ cmd'.op = cmd.op /\ cmd'.named = cmd.named
          /\ cmd'.todo = cmd.todo \ {s}
      BY <1>1, <1>7 DEF Cmd
    <2>2. \A t : resolve(t)' = resolve(t)
      BY SMT, <1>1 DEF resolve
    <2>3. cmd.op = "build" /\ Routed /\ \A t \in cmd.named \ cmd.todo : plane[t].on
      BY <1>1 DEF IInv, Stage
    <2>4. Routed'
      BY <1>1, <2>1, <2>2, <2>3 DEF Routed
    <2>5. \A t \in cmd.named \ cmd'.todo : plane[t].on
      BY <1>1, <2>1, <2>3
    <2>6. Stage'
      BY <1>1, <2>1, <2>3, <2>4, <2>5 DEF Stage, Sending
    <2>7. Types'
      BY <1>1, <1>7, <2>1 DEF IInv, Types
    <2> QED
      BY <1>1, <1>5, <2>6, <2>7, PlaneStep
  <1> QED
    BY <1>6, <1>7 DEF RelocateArtifactBundles

\* The build plane forgets a schema only when no orchestrator has it.
LEMMA DropStep == IInv /\ DropOwnRows => IInv'
  <1> SUFFICES ASSUME IInv, DropOwnRows PROVE IInv'
    OBVIOUS
  <1>1. /\ cmd.at = "drop" /\ cmd \in Cmd /\ work \in Work /\ plane \in [Schema -> Build]
        /\ UNCHANGED <<dest, tree, chal, registry, rows, reqs, adrift, apart>>
    BY DEF DropOwnRows, IInv, Types
  <1>2. CASE Ends(work) /\ UNCHANGED <<plane, bundles>>
    BY <1>1, <1>2, EndsStep
  <1>3. CASE ~(Ends(work) /\ UNCHANGED <<plane, bundles>>)
    <2>1. PICK s \in cmd.named :
              /\ plane' = [plane EXCEPT ![s] = NoBuild]
              /\ bundles' = IF plane[s].on THEN bundles \ removeArtifactBundle(s, plane[s].id) ELSE bundles
              /\ IF cmd.op = "remove" THEN Ends([work EXCEPT !.doomed = @ \ {s}])
                 ELSE /\ cmd' = [Idle EXCEPT !.op = "build", !.at = "route", !.named = {s}]
                      /\ work' = [work EXCEPT !.moving = @ \ {s}, !.named = @ \cup {s}]
      BY <1>3 DEF DropOwnRows
    <2>2. /\ s \in Schema /\ plane' \in [Schema -> Build] /\ ~plane'[s].on /\ plane'[s].id = 0
          /\ \A t \in Schema \ {s} : plane'[t] = plane[t]
      BY <1>1, <2>1 DEF Cmd, Build, NoBuild
    <2>3. ASSUME NEW t \in Schema, plane'[t].on
          PROVE  \E dir \in Dest \cup {"root"} : <<dir, plane'[t].id>> \in bundles'
      <3>1. t # s /\ plane[t].on /\ plane'[t].id = plane[t].id
        BY <2>2, <2>3
      <3>2. PICK dir \in Dest \cup {"root"} : <<dir, plane[t].id>> \in bundles
        BY <3>1 DEF IInv, Plane
      <3>3. plane[s].on => plane[t].id # plane[s].id
        BY <2>2, <3>1 DEF IInv, Plane
      <3>4. plane[s].on => <<dir, plane[t].id>> \notin removeArtifactBundle(s, plane[s].id)
        BY <3>3 DEF removeArtifactBundle
      <3>5. \/ plane[s].on /\ bundles' = bundles \ removeArtifactBundle(s, plane[s].id)
            \/ bundles' = bundles
        BY <2>1
      <3>6. <<dir, plane[t].id>> \in bundles'
        BY <3>2, <3>4, <3>5
      <3> QED
        BY <3>1, <3>2, <3>6
    <2>4. Plane'
      <3>1. PICK b \in Nat : \A t \in Schema : plane[t].id <= b
        BY DEF IInv, Plane
      <3>2. 0 <= b
        BY SMT, <3>1
      <3>3. \A t \in Schema : plane'[t].id <= b
        BY <2>2, <3>1, <3>2
      <3>4. \A t, u \in Schema : plane'[t].on /\ plane'[u].on /\ plane'[t].id = plane'[u].id => t = u
        BY <2>2 DEF IInv, Plane
      <3> QED
        BY <2>3, <3>1, <3>3, <3>4 DEF Plane
    <2>5. /\ cmd' \in Cmd /\ work' \in Work
          /\ cmd'.at = "idle" \/ (cmd'.op = "build" /\ cmd'.at = "route")
      <3>1. CASE cmd.op = "remove"
        BY <1>1, <2>1, <3>1, IdleType DEF Work, Ends
      <3>2. CASE cmd.op # "remove"
        <4>1. cmd' = [Idle EXCEPT !.op = "build", !.at = "route", !.named = {s}]
          BY <2>1, <3>2
        <4>2. cmd' \in Cmd /\ cmd'.op = "build" /\ cmd'.at = "route"
          BY <2>2, <4>1 DEF Cmd, Idle
        <4>3. work' = [work EXCEPT !.moving = @ \ {s}, !.named = @ \cup {s}]
          BY <2>1, <3>2
        <4>4. work' \in Work
          BY <1>1, <2>2, <4>3 DEF Work
        <4> QED
          BY <4>2, <4>4
      <3> QED
        BY <3>1, <3>2
    <2>6. Types' /\ Stage'
      BY <1>1, <2>2, <2>5 DEF IInv, Types, Stage, Sending
    <2>7. \A d \in Dest : s \notin adrift => ~rows[d][s].on
      BY <1>1, <2>1 DEF IInv, Stage
    <2>8. Pullable' /\ \A t \in Schema \ adrift : Kept(t)'
      <3>1. Pullable'
        BY <1>1 DEF IInv, Pullable, Together, Served
      <3>2. \A t \in Schema \ adrift : Kept(t)'
        <4>1. \A t \in Schema \ adrift : Kept(t)
          BY DEF IInv
        <4>2. ASSUME NEW t \in Schema \ adrift, t # s PROVE Kept(t)'
          <5>1. plane'[t] = plane[t]
            BY <1>1, <2>2, <4>2
          <5> QED
            BY <1>1, <4>1, <5>1 DEF Kept
        <4>3. s \notin adrift => Kept(s)'
          BY <1>1, <2>7 DEF Kept
        <4> QED
          BY <4>2, <4>3
      <3> QED
        BY <3>1, <3>2
    <2> QED
      BY <1>1, <2>4, <2>6, <2>8, NoneRecent, NoneWaits, BareStep
  <1> QED
    BY <1>2, <1>3

\* A request is sent while no other is waited for.
LEMMA SendStep ==
    ASSUME IInv, cmd.at \notin {"put", "post", "delete"}, NEW n \in Req, reqs' = reqs \cup {n},
           UNCHANGED <<dest, tree, chal, plane, bundles, registry, rows, work, adrift, apart>>,
           cmd' \in Cmd, Stage', Sent(n)', Ordered(n)', Handing(n), Removing(n),
           \A r \in reqs : Ordered(r)' /\ (Recent(r) => Apart(n, r) /\ Apart(r, n))
    PROVE  IInv'
  <1>1. Types'
    BY DEF IInv, Types
  <1>2. \A r \in reqs : Sent(r)' /\ r.from # "client"
    BY NoneWaits DEF IInv, Requests, Sent
  <1>3. \A r \in reqs : Apart(n, r) /\ Apart(r, n)
    BY <1>2 DEF Apart
  <1>4. Apart(n, n)
    BY DEF Apart
  <1>5. \A r \in reqs' : Sent(r)' /\ Ordered(r)' /\ Handing(r) /\ Removing(r)
    BY <1>2 DEF IInv, Requests
  <1>6. \A q, r \in reqs' : Apart(q, r)
    BY <1>3, <1>4 DEF IInv
  <1> QED
    BY <1>1, <1>5, <1>6, Frame

\* What a new request carries.
Carries(n, kind, d, S) ==
    /\ n \in Req /\ n.kind = kind /\ n.d = d /\ n.named = S /\ n.run = cmd.named /\ n.stage = "arrived"
    /\ n.from = "client" /\ \A s \in Schema : n.ids[s] = plane[s].id

\* What cork-build puts on the wire.
LEMMA RequestType ==
    ASSUME IInv, NEW kind \in {"put", "post", "delete", "release"}, NEW d \in Dest, NEW S \in SUBSET Schema
    PROVE  \E n : n = Request(kind, d, S) /\ Carries(n, kind, d, S)
  <1>1. cmd.named \in SUBSET Schema /\ chal \in Nat /\ [s \in Schema |-> plane[s].id] \in [Schema -> Nat]
    BY DEF IInv, Types, Cmd, Build
  <1>2. Request(kind, d, S) \in Req
    BY <1>1 DEF Request, Req
  <1>3. Carries(Request(kind, d, S), kind, d, S)
    BY <1>2 DEF Carries, Request
  <1> QED
    BY <1>3

\* The command goes on; what it checked still holds.
LEMMA SendingKept ==
    ASSUME IInv, Sending, UNCHANGED <<dest, plane, rows, adrift>>, cmd' \in Cmd,
           cmd'.op = cmd.op, cmd'.named = cmd.named, cmd'.dests \subseteq cmd.dests,
           cmd'.at \in {"send", "put", "delivered", "post"},
           cmd'.at # "send" => cmd'.to \in Dest /\ cmd'.todo \subseteq cmd.named
    PROVE  /\ Stage'
           /\ \A r \in reqs : Ordered(r)'
  <1>1. \A s : resolve(s)' = resolve(s)
    BY SMT DEF resolve
  <1>2. cmd.op = "build" /\ Routed /\ Sending'
    BY DEF IInv, Stage, Sending
  <1>3. Routed'
    BY <1>1, <1>2 DEF Routed
  <1>4. Stage'
    BY <1>1, <1>2, <1>3 DEF IInv, Stage
  <1>5. \A r \in reqs : Ordered(r)'
    BY <1>1, <1>2 DEF IInv, Requests, Ordered, Sending, Recent
  <1> QED
    BY <1>4, <1>5

\* A hand-over goes where the files say, and to no second holder.
LEMMA HandOverStep == IInv /\ handOver => IInv'
  <1> SUFFICES ASSUME IInv, handOver PROVE IInv'
    OBVIOUS
  <1>1. /\ cmd.at = "send" /\ cmd \in Cmd /\ work \in Work
        /\ UNCHANGED <<dest, tree, chal, plane, bundles, registry, rows, adrift, apart>>
    BY DEF handOver, IInv, Types
  <1>2. Sending /\ Routed /\ \A s \in cmd.named : plane[s].on
    BY <1>1 DEF IInv, Stage, Sending
  <1>3. ASSUME NEW d \in cmd.dests, NEW S, S = {s \in cmd.named : resolve(s) = d},
               reqs' = reqs \cup {Request("put", d, S)},
               cmd' = [cmd EXCEPT !.at = "put", !.to = d, !.todo = S], UNCHANGED work
        PROVE  IInv'
    <2>1. d \in Dest /\ S \in SUBSET Schema /\ S \subseteq cmd.named /\ S # {} /\ \A s \in cmd.named : resolve(s) = d
      <3>1. cmd.dests \subseteq {resolve(s) : s \in cmd.named}
        BY <1>2 DEF IInv, Stage
      <3>2. PICK t \in cmd.named : resolve(t) = d
        BY <3>1
      <3>3. d \in Dest /\ \A s \in cmd.named : resolve(s) = d
        BY <1>2, <3>2 DEF Routed
      <3> QED
        BY <1>1, <1>3, <3>2, <3>3 DEF Cmd
    <2>2. PICK n : n = Request("put", d, S) /\ Carries(n, "put", d, S)
      BY <2>1, RequestType
    <2>3. /\ n \in Req /\ n.kind = "put" /\ n.d = d /\ n.named = S /\ n.run = cmd.named /\ n.stage = "arrived"
          /\ \A s \in Schema : n.ids[s] = plane[s].id
      BY <2>2 DEF Carries
    <2>4. /\ cmd' \in Cmd /\ cmd'.at = "put" /\ cmd'.op = cmd.op /\ cmd'.named = cmd.named
          /\ cmd'.to = d /\ cmd'.dests = cmd.dests /\ cmd'.todo = S
      BY <1>1, <1>3, <2>1 DEF Cmd
    <2>5. Stage' /\ \A r \in reqs : Ordered(r)'
      BY <1>1, <1>2, <2>1, <2>4, SendingKept
    <2>6. Sent(n)'
      BY <2>1, <2>3, <2>4 DEF Sent, Removes, Waits
    <2>7. \A s : resolve(s)' = resolve(s)
      BY SMT, <1>1 DEF resolve
    <2>8. Ordered(n)'
      BY <1>2, <2>1, <2>3, <2>4, <2>7 DEF Ordered, Removes, Sending
    <2>9. Handing(n) /\ Removing(n)
      <3>1. \A s \in cmd.named \ adrift : \A e \in Dest : rows[e][s].on => e = d
        BY <1>2, <2>1 DEF Routed
      <3>2. \A s \in S \ adrift : plane[s].on /\ plane[s].id = n.ids[s]
        BY <1>2, <2>1, <2>3
      <3> QED
        BY <2>3, <3>1, <3>2 DEF Handing, Removing, Removes
    <2>10. ASSUME NEW r \in reqs, Recent(r) PROVE Apart(n, r) /\ Apart(r, n)
      <3>1. ~Removes(r) /\ r.from # "client" /\ (r.kind = "put" => \A s \in cmd.named : resolve(s) = r.d)
        BY <1>1, <2>10, NoneWaits DEF IInv, Requests, Ordered
      <3>2. r.kind = "put" => r.d = d
        BY <2>1, <3>1
      <3> QED
        BY <2>3, <3>1, <3>2 DEF Apart, Removes
    <2> QED
      BY <1>1, <1>3, <2>2, <2>3, <2>4, <2>5, <2>6, <2>8, <2>9, <2>10, SendStep
  <1>4. ASSUME NEW d \in cmd.dests, cmd' = [cmd EXCEPT !.dests = @ \ {d}, !.failed = TRUE], UNCHANGED <<work, reqs>>
        PROVE  IInv'
    <2>1. /\ cmd' \in Cmd /\ cmd'.at = "send" /\ cmd'.op = cmd.op /\ cmd'.named = cmd.named
          /\ cmd'.dests \subseteq cmd.dests
      BY <1>1, <1>4 DEF Cmd
    <2>2. Stage' /\ \A r \in reqs : Ordered(r)'
      BY <1>1, <1>2, <2>1, SendingKept
    <2>3. \A r \in reqs : Sent(r)'
      BY <1>1, NoneWaits DEF IInv, Requests, Sent
    <2>4. Types'
      BY <1>1, <1>4, <2>1 DEF IInv, Types
    <2> QED
      BY <1>1, <1>4, <2>2, <2>3, <2>4, Frame DEF IInv, Requests
  <1>5. CASE /\ UNCHANGED reqs
             /\ Ends(IF cmd.failed THEN work ELSE [work EXCEPT !.named = @ \ cmd.named])
    <2>1. [work EXCEPT !.named = @ \ cmd.named] \in Work
      BY <1>1 DEF Work
    <2>2. \E w \in Work : Ends(w)
      BY <1>1, <1>5, <2>1
    <2> QED
      BY <1>1, <1>5, <2>2, EndsStep
  <1> QED
    BY <1>3, <1>4, <1>5 DEF handOver

\* The converge of a delivered run adds no hand-over.
LEMMA ConvergeOnStep == IInv /\ convergeOn => IInv'
  <1> SUFFICES ASSUME IInv, convergeOn PROVE IInv'
    OBVIOUS
  <1>1. /\ cmd.at = "delivered" /\ cmd \in Cmd
        /\ UNCHANGED <<dest, tree, chal, plane, bundles, registry, rows, work, adrift, apart>>
    BY DEF convergeOn, IInv, Types
  <1>2. Sending /\ cmd.to \in Dest /\ cmd.todo \subseteq cmd.named
    BY <1>1 DEF IInv, Stage, Sending
  <1>3. ASSUME NEW s \in cmd.todo, reqs' = reqs \cup {Request("post", cmd.to, {s})}, cmd' = [cmd EXCEPT !.at = "post"]
        PROVE  IInv'
    <2>1. {s} \in SUBSET Schema /\ s \in cmd.named
      BY <1>1, <1>2 DEF Cmd
    <2>2. PICK n : n = Request("post", cmd.to, {s}) /\ Carries(n, "post", cmd.to, {s})
      BY <1>2, <2>1, RequestType
    <2>3. n \in Req /\ n.kind = "post" /\ n.d = cmd.to /\ n.named = {s} /\ n.run = cmd.named /\ n.stage = "arrived"
      BY <2>2 DEF Carries
    <2>4. /\ cmd' \in Cmd /\ cmd'.at = "post" /\ cmd'.op = cmd.op /\ cmd'.named = cmd.named
          /\ cmd'.to = cmd.to /\ cmd'.dests = cmd.dests /\ cmd'.todo = cmd.todo
      BY <1>1, <1>3 DEF Cmd
    <2>5. Stage' /\ \A r \in reqs : Ordered(r)'
      BY <1>1, <1>2, <2>4, SendingKept
    <2>6. Sent(n)'
      BY <2>1, <2>3, <2>4 DEF Sent, Removes, Waits
    <2>7. Ordered(n)'
      BY <1>2, <2>3, <2>4 DEF Ordered, Removes, Sending
    <2>8. Handing(n) /\ Removing(n)
      BY <2>3 DEF Handing, Removing, Removes
    <2>9. ASSUME NEW r \in reqs, Recent(r) PROVE Apart(n, r) /\ Apart(r, n)
      <3>1. ~Removes(r) /\ r.from # "client"
        BY <1>1, <2>9, NoneWaits DEF IInv, Requests, Ordered
      <3> QED
        BY <2>3, <3>1 DEF Apart, Removes
    <2> QED
      BY <1>1, <1>3, <2>2, <2>3, <2>4, <2>5, <2>6, <2>7, <2>8, <2>9, SendStep
  <1>4. CASE UNCHANGED reqs /\ cmd' = [cmd EXCEPT !.at = "send", !.dests = @ \ {cmd.to}, !.to = "none"]
    <2>1. /\ cmd' \in Cmd /\ cmd'.at = "send" /\ cmd'.op = cmd.op /\ cmd'.named = cmd.named
          /\ cmd'.dests \subseteq cmd.dests
      BY <1>1, <1>4 DEF Cmd
    <2>2. Stage' /\ \A r \in reqs : Ordered(r)'
      BY <1>1, <1>2, <2>1, SendingKept
    <2>3. \A r \in reqs : Sent(r)'
      BY <1>1, NoneWaits DEF IInv, Requests, Sent
    <2>4. Types'
      BY <1>1, <1>4, <2>1 DEF IInv, Types
    <2> QED
      BY <1>1, <1>4, <2>2, <2>3, <2>4, Frame DEF IInv, Requests
  <1> QED
    BY <1>3, <1>4 DEF convergeOn

\* A removal goes to the one orchestrator that has the schema.
LEMMA RemovalStep == IInv /\ removalTarget => IInv'
  <1> SUFFICES ASSUME IInv, removalTarget PROVE IInv'
    OBVIOUS
  <1>1. /\ cmd.at = "where" /\ cmd \in Cmd /\ work \in Work
        /\ UNCHANGED <<dest, tree, chal, plane, bundles, registry, rows, adrift, apart>>
    BY DEF removalTarget, IInv, Types
  <1>2. PICK s \in Schema : cmd.named = {s}
    BY <1>1 DEF IInv, Stage
  <1>3. /\ work \in Work /\ [work EXCEPT !.doomed = @ \ {s}] \in Work /\ [work EXCEPT !.moving = @ \ {s}] \in Work
        /\ [[work EXCEPT !.moving = @ \ {s}] EXCEPT !.named = @ \cup {s}] \in Work
    BY <1>1 DEF Work
  <1>4. cmd.op \in {"remove", "migrate"}
    BY <1>1 DEF IInv, Stage
  <1>5. CASE UNCHANGED reqs /\ \E w \in Work : Ends(w)
    BY <1>1, <1>5, EndsStep
  <1>6. CASE whereSchemaLives(s) = {} /\ UNCHANGED <<reqs, work>> /\ cmd' = [cmd EXCEPT !.at = "drop"]
    <2>1. cmd' \in Cmd /\ cmd'.at = "drop" /\ cmd'.op = cmd.op /\ cmd'.named = cmd.named
      BY <1>1, <1>6 DEF Cmd
    <2>2. \A d \in Dest : ~rows[d][s].on
      BY <1>6 DEF whereSchemaLives, servesSchema
    <2>3. Stage'
      BY <1>1, <1>2, <1>4, <2>1, <2>2 DEF Stage, Sending
    <2>4. Types'
      BY <1>1, <1>6, <2>1 DEF IInv, Types
    <2> QED
      BY <1>1, <1>6, <2>3, <2>4, NoneRecent, NoneWaits, BareStep
         DEF IInv, Plane, Pullable, Together, Served, Kept
  <1>7. ASSUME NEW d \in Dest, whereSchemaLives(s) = {d}, NEW kind \in {"delete", "release"},
               reqs' = reqs \cup {Request(kind, d, {s})}, cmd' = [cmd EXCEPT !.at = "delete", !.to = d], UNCHANGED work
        PROVE  IInv'
    <2>1. PICK n : n = Request(kind, d, {s}) /\ Carries(n, kind, d, {s})
      BY RequestType
    <2>2. /\ n \in Req /\ n.kind = kind /\ n.d = d /\ n.named = {s} /\ n.run = {s} /\ n.stage = "arrived"
          /\ n.from = "client"
      BY <1>2, <2>1 DEF Carries
    <2>3. cmd' \in Cmd /\ cmd'.at = "delete" /\ cmd'.op = cmd.op /\ cmd'.named = {s} /\ cmd'.to = d
      BY <1>1, <1>2, <1>7 DEF Cmd
    <2>4. Stage'
      BY <1>2, <1>4, <2>3 DEF Stage, Sending
    <2>5. \A r \in reqs : ~Recent(r) /\ ~Recent(r)'
      BY <1>1, NoneRecent DEF Recent
    <2>6. Sent(n)' /\ Ordered(n)'
      BY <2>2, <2>3 DEF Sent, Ordered, Removes, Waits
    <2>7. \A e \in Dest : rows[e][s].on => e = d
      BY <1>7 DEF whereSchemaLives, servesSchema
    <2>8. Handing(n) /\ Removing(n)
      BY <2>2, <2>7 DEF Handing, Removing, Removes
    <2>9. \A r \in reqs : Ordered(r)'
      BY <2>5 DEF Ordered
    <2> QED
      BY <1>1, <1>7, <2>1, <2>2, <2>3, <2>4, <2>5, <2>6, <2>8, <2>9, SendStep
  <1> QED
    BY <1>2, <1>3, <1>5, <1>6, <1>7 DEF removalTarget

-----------------------------------------------------------------------------
(* The orchestrators                                                       *)

\* A request brings rows of its own schemas only, and only as a hand-over.
RowsFrom(r) ==
    \A s \in Schema \ adrift, d \in Dest :
        rows'[d][s].on => rows[d][s].on \/ (r.kind = "put" /\ s \in r.named /\ d = r.d)

\* The command goes on with the next request, ends, or drops its own rows.
Resumes ==
    \/ cmd'.at = "idle"
    \/ /\ Sending /\ cmd'.op = cmd.op /\ cmd'.named = cmd.named /\ cmd'.dests \subseteq cmd.dests
       /\ cmd'.at \in {"send", "delivered"}
       /\ cmd'.at = "delivered" => cmd'.to \in Dest /\ cmd'.todo \subseteq cmd.named
    \/ /\ cmd.at = "delete" /\ cmd'.at = "drop" /\ cmd'.op = cmd.op /\ cmd'.named = cmd.named
       /\ \A s \in cmd.named \ adrift, d \in Dest : ~rows'[d][s].on

\* The rows a request may write agree with what the command checked.
LEMMA RoutedKept ==
    ASSUME IInv, NEW r \in reqs, Routed, Sending \/ (cmd.at # "idle" /\ ~Recent(r)), UNCHANGED <<dest, adrift>>,
           RowsFrom(r), cmd'.named = cmd.named
    PROVE  Routed'
  <1>1. \A s : resolve(s)' = resolve(s)
    BY SMT DEF resolve
  <1>2. ASSUME NEW s \in cmd.named \ adrift, NEW d \in Dest, rows'[d][s].on PROVE d = resolve(s)
    <2>1. s \in Schema
      BY DEF IInv, Types, Cmd
    <2>2. CASE rows[d][s].on
      BY <2>2 DEF Routed
    <2>3. CASE r.kind = "put" /\ s \in r.named /\ d = r.d
      <3>1. Recent(r) /\ cmd.at # "idle"
        BY <2>3 DEF Recent, Sending
      <3>2. resolve(s) = r.d
        BY <2>3, <3>1 DEF IInv, Requests, Ordered
      <3> QED
        BY <2>3, <3>2
    <2> QED
      BY <1>2, <2>1, <2>2, <2>3 DEF RowsFrom
  <1> QED
    BY <1>1, <1>2 DEF Routed

\* What the client of a request does when it hears of it, whatever it hears.
LEMMA ResumeStep ==
    ASSUME IInv, NEW r \in reqs, r.from = "client", UNCHANGED <<dest, plane, adrift>>, RowsFrom(r), Resumes
    PROVE  Stage' /\ \A q \in reqs \ {r} : Sent(q)' /\ Ordered(q)'
  <1>1. \A q \in reqs \ {r} : q.from # "client" /\ Sent(q) /\ Ordered(q)
    BY DEF IInv, Apart, Requests
  <1>2. CASE cmd'.at = "idle"
    BY <1>1, <1>2, IdleStage, IdleRequest
  <1>3. CASE /\ Sending /\ cmd'.op = cmd.op /\ cmd'.named = cmd.named /\ cmd'.dests \subseteq cmd.dests
             /\ cmd'.at \in {"send", "delivered"}
             /\ cmd'.at = "delivered" => cmd'.to \in Dest /\ cmd'.todo \subseteq cmd.named
    <2>1. \A s : resolve(s)' = resolve(s)
      BY SMT DEF resolve
    <2>2. Sending' /\ cmd.op = "build" /\ Routed /\ cmd.at # "idle"
      BY <1>3 DEF IInv, Stage, Sending
    <2>3. Routed'
      BY <1>3, <2>2, RoutedKept
    <2>4. Stage'
      BY <1>3, <2>1, <2>2, <2>3 DEF IInv, Stage
    <2>5. \A q \in reqs \ {r} : Sent(q)'
      BY <1>1 DEF Sent
    <2>6. \A q \in reqs \ {r} : Ordered(q)'
      BY <1>1, <1>3, <2>1, <2>2 DEF Ordered, Recent, Sending
    <2> QED
      BY <2>4, <2>5, <2>6
  <1>4. CASE /\ cmd.at = "delete" /\ cmd'.at = "drop" /\ cmd'.op = cmd.op /\ cmd'.named = cmd.named
             /\ \A s \in cmd.named \ adrift, d \in Dest : ~rows'[d][s].on
    <2>1. Stage'
      BY <1>4 DEF IInv, Stage, Sending
    <2>2. \A q \in reqs \ {r} : Sent(q)'
      BY <1>1 DEF Sent
    <2>3. \A q \in reqs \ {r} : ~Recent(q)'
      BY <1>1, <1>4 DEF Ordered, Recent, Sending
    <2>4. \A q \in reqs \ {r} : Ordered(q)'
      BY <2>3 DEF Ordered
    <2> QED
      BY <2>1, <2>2, <2>4
  <1> QED
    BY <1>2, <1>3, <1>4 DEF Resumes

\* A request whose client is lost says nothing to the command that runs.
LEMMA UnheardStep ==
    ASSUME IInv, NEW r \in reqs, UNCHANGED <<dest, plane, adrift, cmd>>, RowsFrom(r)
    PROVE  Stage' /\ \A q \in reqs : Sent(q)' /\ Ordered(q)'
  <1>1. \A q \in reqs : Sent(q)' /\ Ordered(q)'
    BY RequestKept DEF IInv, Requests
  <1>2. \A s : resolve(s)' = resolve(s)
    BY SMT DEF resolve
  <1>3. Sending' = Sending
    BY DEF Sending
  <1>4. ASSUME cmd.op = "build", cmd.at \in {"scan", "converge", "send", "put", "delivered", "post"} PROVE Routed'
    <2>1. Routed
      BY <1>4 DEF IInv, Stage
    <2>2. Sending \/ (cmd.at # "idle" /\ ~Recent(r))
      BY <1>4, NoneRecent DEF Sending
    <2> QED
      BY <2>1, <2>2, RoutedKept
  <1>5. ASSUME cmd.at = "drop", NEW s \in cmd.named \ adrift, NEW d \in Dest PROVE ~rows'[d][s].on
    <2>1. ~rows[d][s].on /\ s \in Schema
      BY <1>5 DEF IInv, Stage, Types, Cmd
    <2>2. s \notin r.named
      BY <1>5, NoneRecent DEF Recent
    <2> QED
      BY <2>1, <2>2 DEF RowsFrom
  <1>6. Stage'
    BY <1>2, <1>3, <1>4, <1>5 DEF IInv, Stage
  <1> QED
    BY <1>1, <1>6

\* An answer lets the client go on only as far as the orchestrator did.
LEMMA AnswersStep ==
    ASSUME IInv, NEW r \in reqs, NEW ok \in BOOLEAN, Answers(r, ok), UNCHANGED <<dest, plane, adrift>>, RowsFrom(r),
           Removes(r) /\ ok => \A s \in r.named \ adrift, d \in Dest : ~rows'[d][s].on
    PROVE  cmd' \in Cmd /\ work' \in Work /\ Stage' /\ \A q \in reqs \ {r} : Sent(q)' /\ Ordered(q)'
  <1>1. cmd \in Cmd /\ work \in Work /\ r \in Req
    BY DEF IInv, Types
  <1>2. CASE r.from # "client"
    <2>1. UNCHANGED <<cmd, work>>
      BY <1>2 DEF Answers
    <2> QED
      BY <1>1, <2>1, UnheardStep
  <1>3. CASE r.from = "client"
    <2>1. cmd.at = Waits(r) /\ cmd.to = r.d /\ cmd.named = r.run
      BY <1>3 DEF IInv, Requests, Sent
    <2>2. CASE r.kind = "put"
      <3>1. Sending /\ cmd.to \in Dest /\ cmd.todo \subseteq cmd.named
        BY <2>1, <2>2 DEF IInv, Stage, Waits, Sending
      <3>2. /\ UNCHANGED work
            /\ \/ cmd' = [cmd EXCEPT !.at = "delivered"]
               \/ cmd' = [cmd EXCEPT !.at = "send", !.dests = @ \ {r.d}, !.to = "none", !.todo = {}, !.failed = TRUE]
        BY <1>3, <2>2 DEF Answers
      <3>3. /\ cmd' \in Cmd /\ cmd'.op = cmd.op /\ cmd'.named = cmd.named /\ cmd'.dests \subseteq cmd.dests
            /\ cmd'.at \in {"send", "delivered"}
            /\ cmd'.at = "delivered" => cmd'.to = cmd.to /\ cmd'.todo = cmd.todo
        <4>1. CASE cmd' = [cmd EXCEPT !.at = "delivered"]
          BY <1>1, <4>1 DEF Cmd
        <4>2. CASE cmd' = [cmd EXCEPT !.at = "send", !.dests = @ \ {r.d}, !.to = "none", !.todo = {}, !.failed = TRUE]
          BY <1>1, <4>2 DEF Cmd
        <4> QED
          BY <3>2, <4>1, <4>2
      <3>4. Resumes
        BY <3>1, <3>3 DEF Resumes
      <3> QED
        BY <1>1, <1>3, <3>2, <3>3, <3>4, ResumeStep
    <2>3. CASE r.kind = "post"
      <3>1. Sending /\ cmd.to \in Dest /\ cmd.todo \subseteq cmd.named
        BY <2>1, <2>3 DEF IInv, Stage, Waits, Sending
      <3>2. UNCHANGED work /\ cmd' = [cmd EXCEPT !.at = "delivered", !.todo = @ \ r.named, !.failed = @ \/ ~ok]
        BY <1>3, <2>3 DEF Answers
      <3>3. /\ cmd' \in Cmd /\ cmd'.op = cmd.op /\ cmd'.named = cmd.named /\ cmd'.dests = cmd.dests
            /\ cmd'.at = "delivered" /\ cmd'.to = cmd.to /\ cmd'.todo \subseteq cmd.todo
        BY <1>1, <3>2 DEF Cmd
      <3>4. Resumes
        BY <3>1, <3>3 DEF Resumes
      <3> QED
        BY <1>1, <1>3, <3>2, <3>3, <3>4, ResumeStep
    <2>4. CASE r.kind \notin {"put", "post"}
      <3>1. Removes(r) /\ cmd.at = "delete" /\ r.named = cmd.named
        BY <1>1, <2>1, <2>4 DEF IInv, Requests, Sent, Removes, Waits, Req
      <3>2. \/ ok /\ cmd' = [cmd EXCEPT !.at = "drop"] /\ UNCHANGED work
            \/ Ends(work)
        BY <1>3, <2>4 DEF Answers
      <3>3. CASE ok /\ cmd' = [cmd EXCEPT !.at = "drop"] /\ UNCHANGED work
        <4>1. cmd' \in Cmd /\ cmd'.at = "drop" /\ cmd'.op = cmd.op /\ cmd'.named = cmd.named
          BY <1>1, <3>3 DEF Cmd
        <4>2. Resumes
          BY <3>1, <3>3, <4>1 DEF Resumes
        <4> QED
          BY <1>1, <1>3, <3>3, <4>1, <4>2, ResumeStep
      <3>4. CASE Ends(work)
        BY <1>1, <1>3, <3>4, IdleType, ResumeStep DEF Ends, Resumes
      <3> QED
        BY <3>2, <3>3, <3>4
    <2> QED
      BY <2>2, <2>3, <2>4
  <1> QED
    BY <1>2, <1>3

\* A request is over.
LEMMA OverStep ==
    ASSUME IInv, NEW r \in reqs, reqs' = reqs \ {r}, UNCHANGED adrift, Types', Plane', Pullable', Stage',
           \A s \in Schema \ adrift : Kept(s)',
           \A q \in reqs \ {r} : Sent(q)' /\ Ordered(q)' /\ Handing(q)' /\ Removing(q)'
    PROVE  IInv'
  <1>1. \A p, q \in reqs : Apart(p, q)'
    BY DEF IInv, Apart, Recent
  <1> QED
    BY <1>1 DEF IInv, Requests

\* The request as it is from now on.
Succeeds(n, r) ==
    /\ n \in Req /\ n.kind = r.kind /\ n.d = r.d /\ n.named = r.named /\ n.run = r.run /\ n.ids = r.ids /\ n.gen = r.gen
    /\ n.from = r.from \/ n.from = "lost"

\* A request goes on.
LEMMA TurnStep ==
    ASSUME IInv, NEW r \in reqs, NEW n, Succeeds(n, r), reqs' = (reqs \ {r}) \cup {n}, UNCHANGED adrift,
           Types', Plane', Pullable', Stage', \A s \in Schema \ adrift : Kept(s)',
           \A q \in (reqs \ {r}) \cup {n} : Sent(q)' /\ Ordered(q)' /\ Handing(q)' /\ Removing(q)'
    PROVE  IInv'
  <1>1. \A q : Recent(q)' = Recent(q)
    BY DEF Recent
  <1>2. \A p, q \in reqs \ {r} : Apart(p, q)'
    BY <1>1 DEF IInv, Apart
  <1>3. ASSUME NEW q \in reqs \ {r} PROVE Apart(n, q)' /\ Apart(q, n)'
    <2>1. Apart(r, q) /\ Apart(q, r) /\ (Recent(n) <=> Recent(r)) /\ (Removes(n) <=> Removes(r)) /\ q # r
      BY DEF IInv, Succeeds, Recent, Removes
    <2>2. ~(n.from = "client" /\ q.from = "client")
      BY <2>1 DEF Apart, Succeeds
    <2>3. Recent(n) /\ Recent(q) => ~Removes(n) /\ ~Removes(q) /\ (n.kind = "put" /\ q.kind = "put" => n.d = q.d)
      BY <2>1 DEF Apart, Succeeds
    <2> QED
      BY <1>1, <2>2, <2>3 DEF Apart
  <1>4. Apart(n, n)'
    BY DEF Apart
  <1>5. \A p, q \in reqs' : Apart(p, q)'
    BY <1>2, <1>3, <1>4
  <1> QED
    BY <1>5 DEF IInv, Requests

\* The same facts of a request and of the one it turns into.
LEMMA SuccessorKept ==
    ASSUME NEW r, NEW n, Succeeds(n, r), n.stage = r.stage
    PROVE  /\ Handing(r) => Handing(n)
           /\ Removing(r) => Removing(n)
  BY DEF Handing, Removing, Recent, Removes, Succeeds

\* Rows go, or keep their build.
RowsFewer ==
    \A d \in Dest, s \in Schema :
        rows'[d][s].on => rows[d][s].on /\ rows'[d][s].id = rows[d][s].id /\ rows'[d][s].gen = rows[d][s].gen

\* Fewer rows break no promise about rows.
LEMMA FewerKept ==
    ASSUME IInv, RowsFewer, registry' = registry, UNCHANGED <<plane, bundles, adrift, apart>>
    PROVE  /\ Plane' /\ Pullable' /\ \A s \in Schema \ adrift : Kept(s)'
           /\ \A r \in reqs : Handing(r)' /\ Removing(r)'
           /\ \A r \in reqs : RowsFrom(r)
  <1>1. Plane'
    BY DEF IInv, Plane
  <1>2. Pullable'
    BY DEF IInv, Pullable, Together, Served, RowsFewer
  <1>3. ASSUME NEW s \in Schema \ adrift PROVE Kept(s)'
    <2>1. Kept(s)
      BY DEF IInv
    <2> QED
      BY <2>1 DEF Kept, RowsFewer
  <1>4. \A r \in reqs : r.named \subseteq Schema /\ r.run \subseteq Schema
    BY DEF IInv, Types, Req
  <1>5. ASSUME NEW r \in reqs PROVE Handing(r)'
    <2>1. Handing(r)
      BY DEF IInv, Requests
    <2>2. \A s \in r.run \ adrift, d \in Dest : rows'[d][s].on => rows[d][s].on
      BY <1>4 DEF RowsFewer
    <2> QED
      BY <2>1, <2>2 DEF Handing, Recent
  <1>6. ASSUME NEW r \in reqs PROVE Removing(r)'
    <2>1. Removing(r)
      BY DEF IInv, Requests
    <2>2. \A s \in r.named \cup Schema, d \in Dest : rows'[d][s].on => rows[d][s].on
      BY <1>4 DEF RowsFewer
    <2> QED
      BY <2>1, <2>2 DEF Removing, Recent
  <1>7. \A r \in reqs : RowsFrom(r)
    BY DEF RowsFrom, RowsFewer
  <1> QED
    BY <1>1, <1>2, <1>3, <1>5, <1>6, <1>7

\* The same rows are no more rows.
LEMMA SameRows == UNCHANGED rows => RowsFewer
  BY DEF RowsFewer

\* A tag the registry lacks ends a hand-over before it writes anything.
LEMMA RegistryStep == ASSUME IInv, NEW r \in reqs, requireInRegistry(r) PROVE IInv'
  <1>1. /\ r.kind = "put" /\ r.stage = "arrived" /\ r \in Req /\ cmd \in Cmd /\ work \in Work /\ RowsFewer
        /\ UNCHANGED <<dest, tree, chal, plane, bundles, registry, rows, left, adrift, apart>>
    BY SameRows DEF requireInRegistry, IInv, Types
  <1>2. /\ Plane' /\ Pullable' /\ \A s \in Schema \ adrift : Kept(s)'
        /\ \A q \in reqs : Handing(q)' /\ Removing(q)' /\ RowsFrom(q)
    BY <1>1, FewerKept
  <1>3. CASE r.gen \in registry
    <2>1. PICK n : n = [r EXCEPT !.stage = "checked"]
      OBVIOUS
    <2>2. reqs' = (reqs \ {r}) \cup {n} /\ UNCHANGED <<cmd, work>>
      BY <1>3, <2>1 DEF requireInRegistry
    <2>3. Succeeds(n, r) /\ n.stage = "checked" /\ n.from = r.from
      BY <1>1, <2>1 DEF Req, Succeeds
    <2>4. Stage' /\ \A q \in reqs : Sent(q)' /\ Ordered(q)'
      BY <1>1, <1>2, <2>2, UnheardStep
    <2>5. Types'
      BY <1>1, <2>2, <2>3 DEF IInv, Types, Succeeds
    <2>6. Sent(n)' /\ Ordered(n)'
      BY <1>1, <2>3, <2>4 DEF Sent, Ordered, Recent, Removes, Waits, Succeeds
    <2>7. Handing(n)' /\ Removing(n)'
      <3>1. Handing(n)'
        <4>1. Handing(r)' /\ r.gen \in registry'
          BY <1>1, <1>2, <1>3
        <4>2. n.kind = r.kind /\ n.d = r.d /\ n.named = r.named /\ n.run = r.run /\ n.ids = r.ids /\ n.gen = r.gen
          BY <2>3 DEF Succeeds
        <4> QED
          BY <4>1, <4>2 DEF Handing, Recent
      <3>2. Removing(n)'
        BY <1>1, <2>3 DEF Removing, Removes, Succeeds
      <3> QED
        BY <3>1, <3>2
    <2> QED
      BY <1>1, <1>2, <2>2, <2>3, <2>4, <2>5, <2>6, <2>7, TurnStep
  <1>4. CASE r.gen \notin registry
    <2>1. Refused(r)
      BY <1>4 DEF requireInRegistry
    <2>2. CASE r.from # "client"
      <3>1. reqs' = reqs \ {r} /\ UNCHANGED <<cmd, work>>
        BY <2>1, <2>2 DEF Refused
      <3>2. Stage' /\ \A q \in reqs : Sent(q)' /\ Ordered(q)'
        BY <1>1, <1>2, <3>1, UnheardStep
      <3>3. Types'
        BY <1>1, <3>1 DEF IInv, Types
      <3> QED
        BY <1>1, <1>2, <3>1, <3>2, <3>3, OverStep
    <2>3. CASE r.from = "client"
      <3>1. /\ reqs' = reqs \ {r} /\ work' = [work EXCEPT !.doomed = @ \cup r.named]
            /\ cmd' = [cmd EXCEPT !.at = "send", !.dests = @ \ {r.d}, !.to = "none", !.todo = {}, !.failed = TRUE]
        BY <2>1, <2>3 DEF Refused
      <3>2. work' \in Work
        BY <1>1, <3>1 DEF Work, Req
      <3>3. /\ cmd' \in Cmd /\ cmd'.op = cmd.op /\ cmd'.named = cmd.named /\ cmd'.dests \subseteq cmd.dests
            /\ cmd'.at = "send"
        BY <1>1, <3>1 DEF Cmd
      <3>4. cmd.at = "put"
        BY <1>1, <2>3 DEF IInv, Requests, Sent, Waits
      <3>5. Resumes
        BY <3>3, <3>4 DEF IInv, Stage, Sending, Resumes
      <3>6. Stage' /\ \A q \in reqs \ {r} : Sent(q)' /\ Ordered(q)'
        BY <1>1, <1>2, <2>3, <3>5, ResumeStep
      <3>7. Types'
        BY <1>1, <3>1, <3>2, <3>3 DEF IInv, Types
      <3> QED
        BY <1>1, <1>2, <3>1, <3>6, <3>7, OverStep
    <2> QED
      BY <2>2, <2>3
  <1> QED
    BY <1>3, <1>4

\* A converge sets what is served and no build.
LEMMA ConvergeRows ==
    ASSUME IInv, NEW r \in reqs, convergeSchema(r)
    PROVE  /\ rows' \in [Dest -> [Schema -> Row]]
           /\ \A d \in Dest, s \in Schema : /\ rows'[d][s].on = rows[d][s].on
                                            /\ rows'[d][s].id = rows[d][s].id /\ rows'[d][s].gen = rows[d][s].gen
  <1>0. r \in Req /\ rows \in [Dest -> [Schema -> Row]]
    BY DEF IInv, Types
  <1>1. CASE requireHandedOver(r)
    <2> DEFINE f == [s \in Schema |-> IF s \in r.named THEN [rows[r.d][s] EXCEPT !.serving = TRUE] ELSE rows[r.d][s]]
    <2>1. rows' = [rows EXCEPT ![r.d] = f] /\ r.d \in Dest
      BY <1>0, <1>1 DEF convergeSchema, Req
    <2>2. ASSUME NEW s \in Schema
          PROVE  f[s] \in Row /\ f[s].on = rows[r.d][s].on /\ f[s].id = rows[r.d][s].id /\ f[s].gen = rows[r.d][s].gen
      <3>1. rows[r.d][s] \in Row
        BY <1>0, <2>1
      <3> QED
        BY <3>1 DEF Row
    <2>3. f \in [Schema -> Row]
      BY <2>2
    <2> HIDE DEF f
    <2> QED
      BY <1>0, <2>1, <2>2, <2>3
  <1>2. CASE ~requireHandedOver(r)
    BY <1>0, <1>2 DEF convergeSchema
  <1> QED
    BY <1>1, <1>2

\* A converge moves no build between orchestrators.
LEMMA ConvergeStep == ASSUME IInv, NEW r \in reqs, convergeSchema(r) PROVE IInv'
  <1>1. r.kind = "post" /\ UNCHANGED <<dest, tree, chal, plane, bundles, registry, left, adrift, apart>>
    BY DEF convergeSchema
  <1>2. /\ rows' \in [Dest -> [Schema -> Row]]
        /\ \A d \in Dest, s \in Schema : /\ rows'[d][s].on = rows[d][s].on
                                         /\ rows'[d][s].id = rows[d][s].id /\ rows'[d][s].gen = rows[d][s].gen
    BY ConvergeRows
  <1>3. RowsFewer
    BY <1>2 DEF RowsFewer
  <1>4. /\ Plane' /\ Pullable' /\ \A s \in Schema \ adrift : Kept(s)'
        /\ \A q \in reqs : Handing(q)' /\ Removing(q)' /\ RowsFrom(q)
    BY <1>1, <1>3, FewerKept
  <1>5. PICK ok \in BOOLEAN : Answers(r, ok)
    BY DEF convergeSchema, requireHandedOver
  <1>6. ~Removes(r)
    BY <1>1 DEF Removes
  <1>7. cmd' \in Cmd /\ work' \in Work /\ Stage' /\ \A q \in reqs \ {r} : Sent(q)' /\ Ordered(q)'
    BY <1>1, <1>4, <1>5, <1>6, AnswersStep
  <1>8. reqs' = reqs \ {r}
    BY <1>5 DEF Answers
  <1>9. Types'
    BY <1>1, <1>2, <1>7, <1>8 DEF IInv, Types
  <1> QED
    BY <1>1, <1>4, <1>7, <1>8, <1>9, OverStep

\* What a hand-over writes: the builds it takes, and nothing else.
Written(r, taken) ==
    /\ rows' \in [Dest -> [Schema -> Row]]
    /\ \A s \in taken : rows'[r.d][s].on /\ rows'[r.d][s].id = r.ids[s] /\ rows'[r.d][s].gen = r.gen
    /\ \A d \in Dest, s \in Schema : rows[d][s] = rows'[d][s] \/ (d = r.d /\ s \in taken)

\* A hand-over adopts the builds it names and touches no other row.
LEMMA HandOverRows ==
    ASSUME IInv, NEW r \in reqs, HandOverChallenge(r)
    PROVE  \E taken \in SUBSET r.named : Written(r, taken) /\ Answers(r, taken = r.named)
  <1>1. r \in Req /\ rows \in [Dest -> [Schema -> Row]]
    BY DEF IInv, Types
  <1>2. r.d \in Dest /\ r.named \subseteq Schema /\ r.gen \in Nat /\ \A s \in Schema : r.ids[s] \in Nat
    BY <1>1 DEF Req
  <1> DEFINE taken == {s \in r.named : adopts(r, s)}
             f == [s \in Schema |-> IF s \in taken THEN commitHandedOverBuild(rows[r.d][s], r.ids[s], r.gen)
                                    ELSE rows[r.d][s]]
  <1>3. rows' = [rows EXCEPT ![r.d] = f] /\ taken \subseteq r.named /\ Answers(r, taken = r.named)
    BY DEF HandOverChallenge
  <1>4. ASSUME NEW s \in Schema
        PROVE  /\ f[s] \in Row
               /\ s \in taken => f[s].on /\ f[s].id = r.ids[s] /\ f[s].gen = r.gen
               /\ s \notin taken => f[s] = rows[r.d][s]
    <2>1. rows[r.d][s] \in Row /\ r.ids[s] \in Nat
      BY <1>1, <1>2
    <2>2. CASE s \in taken
      <3>1. f[s] = commitHandedOverBuild(rows[r.d][s], r.ids[s], r.gen)
        BY <2>2
      <3>2. rotatedPrevChecksum(rows[r.d][s], r.gen) \in Nat
        BY <2>1 DEF rotatedPrevChecksum, Row
      <3>3. rows[r.d][s].on => rows[r.d][s].id = r.ids[s]
        BY <2>2 DEF adopts
      <3>4. commitHandedOverBuild(rows[r.d][s], r.ids[s], r.gen) \in Row
        BY <1>2, <2>1, <3>2 DEF commitHandedOverBuild, Row
      <3> QED
        BY <2>2, <3>1, <3>3, <3>4 DEF commitHandedOverBuild
    <2>3. CASE s \notin taken
      BY <2>1, <2>3
    <2> QED
      BY <2>2, <2>3
  <1>5. f \in [Schema -> Row]
    BY <1>4
  <1> HIDE DEF f, taken
  <1>6. rows' \in [Dest -> [Schema -> Row]] /\ rows'[r.d] = f /\ \A d \in Dest \ {r.d} : rows'[d] = rows[d]
    BY <1>1, <1>2, <1>3, <1>5
  <1>7. \A d \in Dest, s \in Schema : rows[d][s] = rows'[d][s] \/ (d = r.d /\ s \in taken)
    BY <1>4, <1>6
  <1>8. Written(r, taken)
    BY <1>2, <1>3, <1>4, <1>6, <1>7 DEF Written
  <1> QED
    BY <1>3, <1>8

\* A hand-over leaves one holder, under the build plane's id.
LEMMA ChallengeStep == ASSUME IInv, NEW r \in reqs, HandOverChallenge(r) PROVE IInv'
  <1>1. /\ r.kind = "put" /\ r.stage = "checked" /\ r \in Req
        /\ UNCHANGED <<dest, tree, chal, plane, bundles, registry, left, adrift>>
    BY DEF HandOverChallenge, IInv, Types
  <1>2. r.d \in Dest /\ r.named \subseteq Schema
    BY <1>1 DEF Req
  <1>3. r.named # {} /\ r.named \subseteq r.run /\ ~Removes(r)
    BY <1>1 DEF IInv, Requests, Sent, Removes
  <1>4. apart' = (apart \/ \E d \in Dest \ {r.d}, s \in Schema \ r.run : rows[d][s].on)
    BY DEF HandOverChallenge
  <1>5. PICK taken \in SUBSET r.named : Written(r, taken) /\ Answers(r, taken = r.named)
    BY HandOverRows
  <1>6. \A s \in taken : rows'[r.d][s].on /\ rows'[r.d][s].id = r.ids[s] /\ rows'[r.d][s].gen = r.gen
    BY <1>5 DEF Written
  <1>7. rows' \in [Dest -> [Schema -> Row]]
    BY <1>5 DEF Written
  <1>8. ASSUME NEW d \in Dest, NEW s \in Schema
        PROVE  rows[d][s] = rows'[d][s] \/ (d = r.d /\ s \in taken)
    BY <1>5 DEF Written
  <1>9. RowsFrom(r)
    BY <1>1, <1>8 DEF RowsFrom
  <1>10. ASSUME NEW s \in taken, s \notin adrift
         PROVE  /\ Recent(r) /\ s \in Schema /\ plane[s].on /\ plane[s].id = r.ids[s]
                /\ \A d \in Dest : rows[d][s].on => d = r.d
    BY <1>1, <1>2, <1>3, <1>10 DEF IInv, Requests, Handing, Recent
  <1>11. ASSUME NEW s \in Schema \ adrift PROVE Kept(s)'
    <2>1. CASE s \in taken
      <3>1. \A d \in Dest : rows'[d][s].on => d = r.d
        BY <1>8, <1>10, <2>1
      <3>2. rows'[r.d][s].id = plane[s].id /\ plane[s].on
        <4>1. plane[s].on /\ plane[s].id = r.ids[s]
          BY <1>10, <2>1
        <4> QED
          BY <1>6, <2>1, <4>1
      <3> QED
        BY <1>1, <3>1, <3>2 DEF Kept
    <2>2. CASE s \notin taken
      <3>1. \A d \in Dest : rows'[d][s].on => rows'[d][s] = rows[d][s]
        BY <1>8, <2>2
      <3>2. Kept(s)
        BY DEF IInv
      <3> QED
        BY <1>1, <3>1, <3>2 DEF Kept
    <2> QED
      BY <2>1, <2>2
  <1>12. ASSUME adrift = {}, ~apart' PROVE Together' /\ Served'
    <2>1. Recent(r) /\ ~apart
      BY <1>3, <1>4, <1>12 DEF Recent
    <2>2. ASSUME NEW d \in Dest, NEW s \in Schema, rows'[d][s].on PROVE d = r.d /\ rows'[d][s].gen \in registry
      <3>1. CASE d = r.d /\ s \in taken
        <4>1. r.gen \in registry
          BY <1>1, <1>12, <2>1 DEF IInv, Requests, Handing
        <4> QED
          BY <1>6, <3>1, <4>1
      <3>2. CASE rows[d][s] = rows'[d][s]
        <4>1. rows[d][s].gen \in registry
          BY <1>12, <2>1, <2>2, <3>2 DEF IInv, Pullable, Served
        <4>2. d # r.d => s \in r.run
          BY <1>4, <1>12, <2>2, <3>2
        <4>3. s \in r.run => d = r.d
          BY <1>1, <1>12, <2>1, <2>2, <3>2 DEF IInv, Requests, Handing
        <4> QED
          BY <3>2, <4>1, <4>2, <4>3
      <3> QED
        BY <1>8, <2>2, <3>1, <3>2
    <2> QED
      BY <1>1, <2>2 DEF Together, Served
  <1>13. Pullable'
    BY <1>1, <1>12 DEF Pullable
  <1>14. \A q \in reqs : q \in Req /\ Apart(q, r) /\ Apart(r, q) /\ Handing(q) /\ Removing(q) /\ Sent(q)
    BY DEF IInv, Requests, Types
  <1>15. ASSUME NEW q \in reqs \ {r} PROVE Handing(q)'
    <2>1. ASSUME Recent(q), q.kind = "put", NEW s \in q.run \ adrift, NEW d \in Dest, rows'[d][s].on PROVE d = q.d
      <3>1. s \in Schema
        BY <1>14, <2>1 DEF Req
      <3>2. CASE rows[d][s].on
        BY <1>14, <2>1, <3>2 DEF Handing
      <3>3. CASE d = r.d /\ s \in taken
        BY <1>1, <1>10, <1>14, <2>1, <3>3 DEF Apart
      <3> QED
        BY <1>8, <2>1, <3>1, <3>2, <3>3
    <2> QED
      BY <1>1, <1>14, <2>1 DEF Handing, Recent
  <1>16. ASSUME NEW q \in reqs \ {r} PROVE Removing(q)'
    <2>1. ASSUME Recent(q), Removes(q), NEW s \in q.named, NEW d \in Dest, rows'[d][s].on
          PROVE  d = q.d /\ q.stage # "retiring"
      <3>1. s \in Schema /\ s \notin adrift
        BY <1>14, <2>1 DEF Sent, Recent
      <3>2. CASE rows[d][s].on
        BY <1>14, <2>1, <3>2 DEF Removing
      <3>3. CASE d = r.d /\ s \in taken
        BY <1>10, <1>14, <2>1, <3>1, <3>3 DEF Apart
      <3> QED
        BY <1>8, <2>1, <3>1, <3>2, <3>3
    <2>2. Recent(q) /\ Removes(q) => adrift # {}
      BY <1>3, <1>14 DEF Apart, Recent
    <2> QED
      BY <1>1, <2>1, <2>2 DEF Removing, Recent
  <1>17. PICK ok \in BOOLEAN : Answers(r, ok)
    BY <1>5
  <1>18. cmd' \in Cmd /\ work' \in Work /\ Stage' /\ \A q \in reqs \ {r} : Sent(q)' /\ Ordered(q)'
    BY <1>1, <1>3, <1>9, <1>17, AnswersStep
  <1>19. reqs' = reqs \ {r}
    BY <1>17 DEF Answers
  <1>20. Types' /\ Plane'
    BY <1>1, <1>7, <1>18, <1>19 DEF IInv, Types, Plane
  <1> QED
    BY <1>1, <1>11, <1>13, <1>15, <1>16, <1>18, <1>19, <1>20, OverStep

\* A removal leaves a schema nowhere, or where it was.
LEMMA DeleteStep == ASSUME IInv, NEW r \in reqs, DeleteSchema(r) PROVE IInv'
  <1>1. /\ Removes(r) /\ r.stage = "arrived" /\ r \in Req /\ rows \in [Dest -> [Schema -> Row]] /\ r.d \in Dest
        /\ UNCHANGED <<dest, tree, chal, plane, bundles, registry, left, adrift, apart>>
    BY DEF DeleteSchema, IInv, Types, Removes, Req
  <1>2. PICK s \in Schema : r.named = {s} /\ r.run = {s}
    BY <1>1 DEF IInv, Requests, Sent
  <1>3. CASE rows[r.d][s].on
    <2>1. PICK n : n = [r EXCEPT !.stage = "retiring", !.tags = {rows[r.d][s].gen, rows[r.d][s].prev}]
      OBVIOUS
    <2>2. rows' = [rows EXCEPT ![r.d][s] = NoRow] /\ reqs' = (reqs \ {r}) \cup {n} /\ UNCHANGED <<cmd, work>>
      BY <1>2, <1>3, <2>1 DEF DeleteSchema
    <2>3. Succeeds(n, r) /\ n.stage = "retiring" /\ n.from = r.from
      <3>1. rows[r.d][s].gen \in Nat /\ rows[r.d][s].prev \in Nat
        BY <1>1 DEF Row
      <3> QED
        BY <1>1, <2>1, <3>1 DEF Req, Succeeds
    <2>4. NoRow \in Row /\ ~NoRow.on
      <3>1. 0 \in Nat
        BY SMT
      <3> QED
        BY <3>1 DEF NoRow, Row
    <2>5. /\ rows' \in [Dest -> [Schema -> Row]] /\ ~rows'[r.d][s].on
          /\ \A d \in Dest, t \in Schema : rows'[d][t].on => rows'[d][t] = rows[d][t]
      BY <1>1, <2>2, <2>4
    <2>6. RowsFewer
      BY <2>5 DEF RowsFewer
    <2>7. /\ Plane' /\ Pullable' /\ \A t \in Schema \ adrift : Kept(t)'
          /\ \A q \in reqs : Handing(q)' /\ Removing(q)' /\ RowsFrom(q)
      BY <1>1, <2>6, FewerKept
    <2>8. Stage' /\ \A q \in reqs : Sent(q)' /\ Ordered(q)'
      BY <1>1, <2>2, <2>7, UnheardStep
    <2>9. Sent(n)' /\ Ordered(n)'
      BY <1>1, <2>3, <2>8 DEF Sent, Ordered, Recent, Removes, Waits, Succeeds
    <2>10. Handing(n)'
      BY <1>1, <2>3 DEF Handing, Removes, Succeeds
    <2>11. Removing(n)'
      <3>1. Recent(n)' => Recent(r)
        BY <1>1, <2>3 DEF Recent, Succeeds
      <3>2. ASSUME Recent(r), NEW d \in Dest PROVE ~rows'[d][s].on
        <4>1. rows[d][s].on => d = r.d
          BY <1>1, <1>2, <3>2 DEF IInv, Requests, Removing
        <4> QED
          BY <2>5, <4>1
      <3>3. ASSUME adrift = {}, ~apart, NEW d \in Dest, NEW t \in Schema, rows'[d][t].on PROVE d = r.d
        <4>1. Together /\ rows[d][t].on
          BY <2>5, <3>3 DEF IInv, Pullable
        <4> QED
          BY <1>1, <1>3, <4>1 DEF Together
      <3> QED
        BY <1>1, <1>2, <2>3, <3>1, <3>2, <3>3 DEF Removing, Succeeds
    <2>12. Types'
      BY <1>1, <2>2, <2>3, <2>5 DEF IInv, Types, Succeeds
    <2> QED
      BY <1>1, <2>2, <2>3, <2>7, <2>8, <2>9, <2>10, <2>11, <2>12, TurnStep
  <1>4. CASE ~rows[r.d][s].on
    <2>1. Answers(r, TRUE) /\ UNCHANGED rows
      BY <1>2, <1>4 DEF DeleteSchema
    <2>2. /\ Plane' /\ Pullable' /\ \A t \in Schema \ adrift : Kept(t)'
          /\ \A q \in reqs : Handing(q)' /\ Removing(q)' /\ RowsFrom(q)
      BY <1>1, <2>1, SameRows, FewerKept
    <2>3. ASSUME s \notin adrift, NEW d \in Dest PROVE ~rows'[d][s].on
      <3>1. Recent(r)
        BY <1>2, <2>3 DEF Recent
      <3> QED
        BY <1>1, <1>2, <1>4, <2>1, <3>1 DEF IInv, Requests, Removing
    <2>4. cmd' \in Cmd /\ work' \in Work /\ Stage' /\ \A q \in reqs \ {r} : Sent(q)' /\ Ordered(q)'
      BY <1>1, <1>2, <2>1, <2>2, <2>3, AnswersStep
    <2>5. reqs' = reqs \ {r}
      BY <2>1 DEF Answers
    <2>6. Types'
      BY <1>1, <2>1, <2>4, <2>5 DEF IInv, Types
    <2> QED
      BY <1>1, <2>2, <2>4, <2>5, <2>6, OverStep
  <1> QED
    BY <1>3, <1>4

\* A tag goes only when nothing that is served has it.
LEMMA DestroyStep == ASSUME IInv, NEW r \in reqs, destroyImages(r) PROVE IInv'
  <1>1. /\ r.stage = "retiring" /\ r \in Req /\ Answers(r, TRUE)
        /\ UNCHANGED <<dest, tree, chal, plane, bundles, rows, adrift, apart>>
    BY DEF destroyImages, IInv, Types
  <1>2. Removes(r) /\ r.named # {}
    BY <1>1 DEF IInv, Requests, Sent
  <1>3. ASSUME NEW s \in Schema, rows[r.d][s].on, rows[r.d][s].gen \in registry PROVE rows[r.d][s].gen \in registry'
    <2>1. contentReferenced(r.d, rows[r.d][s].gen)
      BY <1>3 DEF contentReferenced
    <2> QED
      BY <1>3, <2>1 DEF destroyImages
  <1>4. Pullable'
    <2>1. ASSUME adrift = {}, ~apart PROVE Together' /\ Served'
      <3>1. Together /\ Served
        BY <2>1 DEF IInv, Pullable
      <3>2. Recent(r)
        BY <1>2, <2>1 DEF Recent
      <3>3. \A d \in Dest, t \in Schema : rows[d][t].on => d = r.d
        BY <1>1, <1>2, <2>1, <3>2 DEF IInv, Requests, Removing
      <3>4. Served'
        BY <1>1, <1>3, <3>1, <3>3 DEF Served
      <3> QED
        BY <1>1, <3>1, <3>4 DEF Together
    <2> QED
      BY <1>1, <2>1 DEF Pullable
  <1>5. ASSUME NEW q \in reqs \ {r} PROVE Handing(q)' /\ Removing(q)'
    <2>1. Handing(q) /\ Removing(q) /\ Apart(r, q)
      BY DEF IInv, Requests
    <2>2. Recent(q) => adrift # {}
      BY <1>2, <2>1 DEF Apart, Recent
    <2>3. Handing(q)'
      BY <1>1, <2>1, <2>2 DEF Handing, Recent
    <2>4. Removing(q)'
      BY <1>1, <2>1 DEF Removing, Recent
    <2> QED
      BY <2>3, <2>4
  <1>6. ASSUME NEW s \in r.named \ adrift, NEW d \in Dest PROVE ~rows'[d][s].on
    <2>1. Recent(r)
      BY <1>6 DEF Recent
    <2> QED
      BY <1>1, <1>2, <1>6, <2>1 DEF IInv, Requests, Removing
  <1>7. RowsFrom(r)
    BY <1>1 DEF RowsFrom
  <1>8. cmd' \in Cmd /\ work' \in Work /\ Stage' /\ \A q \in reqs \ {r} : Sent(q)' /\ Ordered(q)'
    BY <1>1, <1>6, <1>7, AnswersStep
  <1>9. reqs' = reqs \ {r}
    BY <1>1 DEF Answers
  <1>10. Types' /\ Plane' /\ \A s \in Schema \ adrift : Kept(s)'
    BY <1>1, <1>8, <1>9 DEF IInv, Types, Plane, Kept
  <1> QED
    BY <1>1, <1>4, <1>5, <1>8, <1>9, <1>10, OverStep

-----------------------------------------------------------------------------
(* Faults                                                                  *)

\* A request cut short has changed nothing yet, or only its first step.
LEMMA StopsStep == ASSUME IInv, NEW r \in reqs, corkdStops(r) PROVE IInv'
  <1>1. Answers(r, FALSE) /\ UNCHANGED <<dest, tree, chal, plane, bundles, registry, rows, adrift, apart>>
    BY DEF corkdStops
  <1>2. /\ Plane' /\ Pullable' /\ \A t \in Schema \ adrift : Kept(t)'
        /\ \A q \in reqs : Handing(q)' /\ Removing(q)' /\ RowsFrom(q)
    BY <1>1, SameRows, FewerKept
  <1>3. cmd' \in Cmd /\ work' \in Work /\ Stage' /\ \A q \in reqs \ {r} : Sent(q)' /\ Ordered(q)'
    BY <1>1, <1>2, AnswersStep
  <1>4. reqs' = reqs \ {r}
    BY <1>1 DEF Answers
  <1>5. Types'
    BY <1>1, <1>3, <1>4 DEF IInv, Types
  <1> QED
    BY <1>1, <1>2, <1>3, <1>4, <1>5, OverStep

\* A client that gives up leaves its request under way.
LEMMA LoseStep == ASSUME IInv, NEW r \in reqs, LoseAnswer(r) PROVE IInv'
  <1>1. /\ r.from = "client" /\ r \in Req /\ cmd \in Cmd /\ work \in Work
        /\ UNCHANGED <<dest, tree, chal, plane, bundles, registry, rows, adrift, apart>>
    BY DEF LoseAnswer, IInv, Types
  <1>2. PICK n : n = [r EXCEPT !.from = "lost"]
    OBVIOUS
  <1>3. reqs' = (reqs \ {r}) \cup {n}
    BY <1>2 DEF LoseAnswer
  <1>4. Succeeds(n, r) /\ n.stage = r.stage /\ n.from = "lost"
    BY <1>1, <1>2 DEF Req, Succeeds
  <1>5. /\ Plane' /\ Pullable' /\ \A t \in Schema \ adrift : Kept(t)'
        /\ \A q \in reqs : Handing(q)' /\ Removing(q)' /\ RowsFrom(q)
    BY <1>1, SameRows, FewerKept
  <1>6. cmd.at = Waits(r) /\ cmd.named = r.run /\ Sent(r) /\ Ordered(r)
    BY <1>1 DEF IInv, Requests, Sent
  <1>7. cmd' \in Cmd /\ work' \in Work /\ Resumes /\ (cmd'.at = "idle" \/ (~Removes(r) /\ Sending /\ Sending'))
    <2>1. CASE Removes(r)
      BY <1>1, <2>1, IdleType DEF LoseAnswer, Removes, Ends, Resumes
    <2>2. CASE r.kind = "put"
      <3>1. Sending /\ cmd.op = "build"
        BY <1>6, <2>2 DEF IInv, Stage, Waits, Sending
      <3>2. /\ UNCHANGED work
            /\ cmd' = [cmd EXCEPT !.at = "send", !.dests = @ \ {r.d}, !.to = "none", !.todo = {}, !.failed = TRUE]
        BY <2>2 DEF LoseAnswer
      <3>3. /\ cmd' \in Cmd /\ cmd'.op = cmd.op /\ cmd'.named = cmd.named /\ cmd'.dests \subseteq cmd.dests
            /\ cmd'.at = "send"
        BY <1>1, <3>2 DEF Cmd
      <3> QED
        BY <1>1, <2>2, <3>1, <3>2, <3>3 DEF Resumes, Sending, Removes
    <2>3. CASE r.kind = "post"
      <3>1. Sending /\ cmd.op = "build" /\ cmd.to \in Dest /\ cmd.todo \subseteq cmd.named
        BY <1>6, <2>3 DEF IInv, Stage, Waits, Sending
      <3>2. UNCHANGED work /\ cmd' = [cmd EXCEPT !.at = "delivered", !.todo = @ \ r.named, !.failed = TRUE]
        BY <2>3 DEF LoseAnswer
      <3>3. /\ cmd' \in Cmd /\ cmd'.op = cmd.op /\ cmd'.named = cmd.named /\ cmd'.dests = cmd.dests
            /\ cmd'.at = "delivered" /\ cmd'.to = cmd.to /\ cmd'.todo \subseteq cmd.todo
        BY <1>1, <3>2 DEF Cmd
      <3> QED
        BY <1>1, <2>3, <3>1, <3>2, <3>3 DEF Resumes, Sending, Removes
    <2> QED
      BY <1>1, <2>1, <2>2, <2>3 DEF Req, Removes
  <1>8. Stage' /\ \A q \in reqs \ {r} : Sent(q)' /\ Ordered(q)'
    BY <1>1, <1>5, <1>7, ResumeStep
  <1>9. Sent(n)'
    BY <1>4, <1>6 DEF Sent, Removes, Succeeds
  <1>10. Ordered(n)'
    <2>1. CASE cmd'.at = "idle"
      BY <2>1 DEF Ordered
    <2>2. CASE ~Removes(r) /\ Sending /\ Sending' /\ cmd'.at # "idle"
      <3>1. \A s : resolve(s)' = resolve(s)
        BY SMT, <1>1 DEF resolve
      <3>2. cmd'.named = cmd.named
        BY <1>7, <2>2 DEF Resumes, Sending
      <3>3. cmd.at # "idle" /\ ~Removes(n) /\ n.kind = r.kind /\ n.d = r.d /\ n.named = r.named /\ n.run = r.run
        BY <1>4, <2>2 DEF Sending, Succeeds, Removes
      <3> QED
        BY <1>1, <1>6, <2>2, <3>1, <3>2, <3>3 DEF Ordered, Recent
    <2> QED
      BY <1>7, <2>1, <2>2
  <1>11. Handing(n)' /\ Removing(n)'
    <2>1. Handing(n) /\ Removing(n)
      BY <1>4, SuccessorKept DEF IInv, Requests
    <2>2. Handing(n)'
      BY <1>1, <2>1 DEF Handing, Recent
    <2>3. Removing(n)'
      BY <1>1, <2>1 DEF Removing, Recent
    <2> QED
      BY <2>2, <2>3
  <1>12. Types'
    BY <1>1, <1>3, <1>4, <1>7 DEF IInv, Types, Succeeds
  <1> QED
    BY <1>1, <1>3, <1>4, <1>5, <1>8, <1>9, <1>10, <1>11, <1>12, TurnStep

\* A killed cork-build leaves its requests under way.
LEMMA KillStep == IInv /\ Kill => IInv'
  <1> SUFFICES ASSUME IInv, Kill PROVE IInv'
    OBVIOUS
  <1>1. /\ Ends(work) /\ work \in Work
        /\ UNCHANGED <<dest, tree, chal, plane, bundles, registry, rows, adrift, apart>>
    BY DEF Kill, IInv, Types
  <1>2. ASSUME NEW q \in reqs'
        PROVE  \E r \in reqs : Succeeds(q, r) /\ q.stage = r.stage /\ q = [r EXCEPT !.from = "lost"] /\ q.from = "lost"
    <2>1. PICK r \in reqs : q = [r EXCEPT !.from = IF @ = "client" THEN "lost" ELSE @]
      BY DEF Kill
    <2>2. r \in Req
      BY DEF IInv, Types
    <2>3. q = [r EXCEPT !.from = "lost"]
      BY <2>1, <2>2 DEF Req
    <2> QED
      BY <2>2, <2>3 DEF Req, Succeeds
  <1>3. cmd' \in Cmd /\ work' \in Work /\ cmd'.at = "idle"
    BY <1>1, IdleType DEF Ends
  <1>4. reqs' \subseteq Req
    BY <1>2 DEF Succeeds
  <1>5. Types' /\ Stage'
    BY <1>1, <1>3, <1>4, IdleStage DEF IInv, Types
  <1>6. ASSUME NEW q \in reqs' PROVE Sent(q)' /\ Ordered(q)' /\ Handing(q) /\ Removing(q)
    <2>1. PICK r \in reqs : Succeeds(q, r) /\ q.stage = r.stage /\ q.from = "lost"
      BY <1>2
    <2>2. Sent(r) /\ Handing(r) /\ Removing(r)
      BY DEF IInv, Requests
    <2>3. Sent(q)
      BY <2>1, <2>2 DEF Sent, Removes, Succeeds
    <2> QED
      BY <1>3, <2>1, <2>2, <2>3, SuccessorKept, IdleRequest
  <1>7. ASSUME NEW p \in reqs', NEW q \in reqs' PROVE Apart(p, q)
    <2>1. PICK r \in reqs : Succeeds(p, r) /\ p = [r EXCEPT !.from = "lost"] /\ p.from = "lost"
      BY <1>2
    <2>2. PICK t \in reqs : Succeeds(q, t) /\ q = [t EXCEPT !.from = "lost"] /\ q.from = "lost"
      BY <1>2
    <2>3. Apart(r, t) /\ (Recent(p) => Recent(r)) /\ (Recent(q) => Recent(t)) /\ (Removes(p) => Removes(r))
      BY <2>1, <2>2 DEF IInv, Recent, Removes, Succeeds
    <2>4. r = t => p = q
      BY <2>1, <2>2
    <2> QED
      BY <2>1, <2>2, <2>3, <2>4 DEF Apart, Succeeds
  <1> QED
    BY <1>1, <1>5, <1>6, <1>7, Frame

-----------------------------------------------------------------------------
\* A new deployment satisfies the invariant.
LEMMA InitIInv == Init => IInv
  <1> SUFFICES ASSUME Init PROVE IInv
    OBVIOUS
  <1>1. 0 \in Nat /\ 1 \in Nat /\ 0 <= 1 /\ 1 <= 1
    BY SMT
  <1>2. tree = 1 /\ reqs = {} /\ cmd = Idle /\ work = Done /\ adrift = {}
    BY DEF Init
  <1>3. NoBuild \in Build /\ ~NoBuild.on /\ NoBuild.id = 0 /\ NoRow \in Row /\ ~NoRow.on
    BY <1>1 DEF NoBuild, Build, NoRow, Row
  <1>4. Idle \in Cmd /\ Done \in Work /\ cmd.at = "idle"
    BY <1>2, IdleType DEF Done, Work
  <1>5. Stage
    BY <1>4 DEF Stage, Sending
  <1>6. ASSUME NEW files \in [Schema -> Dest], Undeployed(files) PROVE IInv
    <2>1. Types
      BY <1>1, <1>2, <1>3, <1>4, <1>6 DEF Types, Undeployed
    <2>2. Plane
      BY <1>1, <1>3, <1>6 DEF Plane, Undeployed
    <2>3. Pullable /\ \A s \in Schema : Kept(s)
      BY <1>3, <1>6 DEF Undeployed, Pullable, Together, Served, Kept
    <2> QED
      BY <1>2, <1>5, <2>1, <2>2, <2>3 DEF IInv, Requests
  <1>7. ASSUME NEW files \in [Schema -> Dest], NEW first \in Schema, NEW d \in Dest, OneDeployed(files, first, d)
        PROVE  IInv
    <2> DEFINE row == [NoRow EXCEPT !.on = TRUE, !.id = 1, !.gen = 1, !.serving = TRUE]
    <2>1. row \in Row /\ row.on /\ row.id = 1 /\ row.gen = 1
      BY <1>1 DEF NoRow, Row
    <2> HIDE DEF OneDeployed, row
    <2>2. /\ plane \in [Schema -> Build] /\ plane[first].on /\ plane[first].id = 1
          /\ \A s \in Schema \ {first} : plane[s] = NoBuild
      BY <1>1, <1>3, <1>7 DEF OneDeployed, Build
    <2>3. /\ rows \in [Dest -> [Schema -> Row]] /\ rows[d][first] = row
          /\ \A e \in Dest, s \in Schema : rows[e][s].on => e = d /\ s = first
      BY <1>3, <1>7, <2>1 DEF OneDeployed, row
    <2>4. Types
      BY <1>1, <1>2, <1>4, <1>7, <2>2, <2>3 DEF OneDeployed, Types
    <2>5. Plane
      <3>1. \A s \in Schema : plane[s].id <= 1
        BY <1>1, <1>3, <2>2
      <3>2. \A s \in Schema : plane[s].on => s = first
        BY <1>3, <2>2
      <3>3. <<"root", plane[first].id>> \in bundles
        BY <1>7, <2>2 DEF OneDeployed
      <3> QED
        BY <1>1, <3>1, <3>2, <3>3 DEF Plane
    <2>6. Pullable /\ \A s \in Schema : Kept(s)
      <3>1. Together
        BY <2>3 DEF Together
      <3>2. Served
        <4>1. 1 \in registry
          BY <1>7 DEF OneDeployed
        <4>2. \A e \in Dest, s \in Schema : rows[e][s].on => rows[e][s].gen = 1
          BY <2>1, <2>3
        <4> QED
          BY <4>1, <4>2 DEF Served
      <3>3. \A s \in Schema : Kept(s)
        BY <2>1, <2>2, <2>3 DEF Kept
      <3> QED
        BY <3>1, <3>2, <3>3 DEF Pullable
    <2> QED
      BY <1>2, <1>5, <2>4, <2>5, <2>6 DEF IInv, Requests
  <1> QED
    BY <1>6, <1>7 DEF Init

\* So does standing still.
LEMMA StutterIInv == IInv /\ UNCHANGED vars => IInv'
  <1> SUFFICES ASSUME IInv, UNCHANGED vars PROVE IInv'
    OBVIOUS
  <1>1. /\ UNCHANGED <<dest, tree, chal, plane, bundles, registry, rows, reqs, cmd, work, adrift, apart>>
        /\ cmd.named \subseteq Schema
    BY DEF vars, IInv, Types, Cmd
  <1>2. Types'
    BY <1>1 DEF IInv, Types
  <1>3. Stage'
    BY <1>1, StageKept DEF IInv
  <1>4. \A r \in reqs : Sent(r)' /\ Ordered(r)'
    BY <1>1, RequestKept DEF IInv, Requests
  <1> QED
    BY <1>1, <1>2, <1>3, <1>4, Frame DEF IInv, Requests

-----------------------------------------------------------------------------
(* New builds, and every step                                              *)

LOCAL INSTANCE WellFoundedInduction

\* A bounded set of naturals that holds 0 has a maximum: what FreshId draws on.
LEMMA MaxOf ==
    ASSUME NEW S \in SUBSET Nat, NEW b \in Nat, 0 \in S, \A x \in S : x <= b
    PROVE  Max(S) \in S /\ \A x \in S : x <= Max(S)
  <1> DEFINE T == {n \in Nat : \A x \in S : x <= n}
  <1>1. PICK m \in T : \A n \in T : <<n, m>> \notin OpToRel(<, Nat)
    BY NatLessThanWellFounded, WFMin
  <1>2. \A n \in T : m <= n
    <2>1. ASSUME NEW n \in Nat, n < m PROVE <<n, m>> \in OpToRel(<, Nat)
      <3>1. <<n, m>> \in Nat \X Nat /\ <<n, m>>[1] = n /\ <<n, m>>[2] = m
        BY <1>1
      <3> QED
        BY <2>1, <3>1 DEF OpToRel
    <2>2. \A n \in T : ~(n < m)
      BY <1>1, <2>1
    <2> QED
      BY SMT, <2>2
  <1>3. m \in S
    <2>1. SUFFICES ASSUME m \notin S PROVE FALSE
      OBVIOUS
    <2>2. m > 0 /\ \A x \in S : x <= m - 1
      BY SMT, <2>1
    <2> QED
      BY SMT, <1>2, <2>2
  <1>4. \E x \in S : \A y \in S : x >= y
    BY SMT, <1>3
  <1>5. Max(S) \in S /\ \A y \in S : Max(S) >= y
    BY <1>4 DEF Max
  <1> QED
    BY SMT, <1>5

\* SQLite draws an id that no build holds.
LEMMA FreshIdIsFresh ==
    ASSUME IInv
    PROVE  FreshId \in Nat /\ \A s \in Schema : plane[s].id <= FreshId /\ plane[s].id # FreshId
  <1> DEFINE S == {0} \cup {plane[s].id : s \in Schema}
  <1>1. PICK b \in Nat : \A s \in Schema : plane[s].id <= b
    BY DEF IInv, Plane
  <1>2. S \in SUBSET Nat /\ 0 \in S /\ \A s \in Schema : plane[s].id \in S
    <2>1. 0 \in Nat
      BY SMT
    <2>2. \A s \in Schema : plane[s].id \in Nat
      BY DEF IInv, Types, Build
    <2> QED
      BY <2>1, <2>2
  <1>3. \A x \in S : x <= b
    BY SMT, <1>1
  <1>4. FreshId = 1 + Max(S)
    BY DEF FreshId
  <1> HIDE DEF S
  <1>5. Max(S) \in Nat /\ \A s \in Schema : plane[s].id \in Nat /\ plane[s].id <= Max(S)
    BY <1>2, <1>3, MaxOf
  <1> QED
    BY SMT, <1>4, <1>5

\* A build is recorded under an id no build has, with its bundle.
LEMMA UpdateSchemaStep == ASSUME IInv, NEW s \in Schema, UpdateSchema(s) PROVE IInv'
  <1>1. /\ cmd.at = "converge" /\ s \in cmd.todo /\ ~plane[s].on
        /\ UNCHANGED <<dest, tree, chal, rows, reqs, adrift, apart>>
        /\ cmd \in Cmd /\ work \in Work /\ plane \in [Schema -> Build] /\ tree \in Nat
    BY DEF UpdateSchema, IInv, Types
  <1>2. CASE Ends(work) /\ UNCHANGED <<plane, registry, bundles>>
    BY <1>1, <1>2, EndsStep
  <1>3. CASE ~(Ends(work) /\ UNCHANGED <<plane, registry, bundles>>)
    <2> DEFINE into == artifactDirForBuild(s, FreshId)
    <2>1. /\ plane' = [plane EXCEPT ![s] = [on |-> TRUE, id |-> FreshId, gen |-> tree]]
          /\ registry' = registry \cup {tree} /\ UNCHANGED <<cmd, work>>
          /\ bundles' = (bundles \ pruneStrayArtifactBundle(into, FreshId)) \cup {<<into, FreshId>>}
      BY <1>3 DEF UpdateSchema
    <2>2. FreshId \in Nat /\ \A t \in Schema : plane[t].id <= FreshId /\ plane[t].id # FreshId
      BY FreshIdIsFresh
    <2>3. /\ plane' \in [Schema -> Build] /\ plane'[s].on /\ plane'[s].id = FreshId
          /\ \A t \in Schema \ {s} : plane'[t] = plane[t]
      BY <1>1, <2>1, <2>2 DEF Build
    <2>4. into \in Dest \cup {"root"}
      BY DirType
    <2> HIDE DEF into
    <2>5. ASSUME NEW t \in Schema, plane'[t].on
          PROVE  \E dir \in Dest \cup {"root"} : <<dir, plane'[t].id>> \in bundles'
      <3>1. CASE t = s
        BY <2>1, <2>3, <2>4, <3>1
      <3>2. CASE t # s
        <4>1. PICK dir \in Dest \cup {"root"} : <<dir, plane[t].id>> \in bundles
          BY <2>3, <2>5, <3>2 DEF IInv, Plane
        <4>2. <<dir, plane[t].id>> \notin pruneStrayArtifactBundle(into, FreshId)
          BY <2>2 DEF pruneStrayArtifactBundle
        <4> QED
          BY <2>1, <2>3, <3>2, <4>1, <4>2
      <3> QED
        BY <3>1, <3>2
    <2>6. \A t, u \in Schema : plane'[t].on /\ plane'[u].on /\ plane'[t].id = plane'[u].id => t = u
      BY <2>2, <2>3 DEF IInv, Plane
    <2>7. \A t \in Schema : plane'[t].id <= FreshId
      <3>1. FreshId <= FreshId
        BY SMT, <2>2
      <3> QED
        BY <2>2, <2>3, <3>1
    <2>8. Plane'
      BY <2>2, <2>5, <2>6, <2>7 DEF Plane
    <2>9. Types'
      BY <1>1, <2>1, <2>3 DEF IInv, Types
    <2>10. \A t : resolve(t)' = resolve(t)
      BY SMT, <1>1 DEF resolve
    <2>11. cmd.op = "build" /\ Routed /\ \A t \in cmd.named \ cmd.todo : plane[t].on
      BY <1>1 DEF IInv, Stage
    <2>12. Routed'
      BY <1>1, <2>1, <2>10, <2>11 DEF Routed
    <2>13. \A t \in cmd.named \ cmd.todo : plane'[t].on
      BY <1>1, <2>3, <2>11 DEF Cmd
    <2>14. Stage'
      BY <1>1, <2>1, <2>11, <2>12, <2>13 DEF Stage, Sending
    <2> QED
      BY <1>1, <2>1, <2>3, <2>8, <2>9, <2>14, PlaneStep
  <1> QED
    BY <1>2, <1>3

\* And every step keeps it.
LEMMA NextIInv == IInv /\ [Next]_vars => IInv'
  <1> SUFFICES ASSUME IInv, [Next]_vars PROVE IInv'
    OBVIOUS
  <1>1. CASE Command \/ Retry \/ Amend \/ EditTree \/ \E s \in Schema : EditFile(s)
    BY <1>1, OperatorSteps
  <1>2. CASE Client
    BY <1>2, RouteStep, UpdateStep, AssembleStep, HandOverStep, ConvergeOnStep, RemovalStep, DropStep,
       UpdateSchemaStep, RelocateStep DEF Client
  <1>3. ASSUME NEW r \in reqs, Server(r) PROVE IInv'
    BY <1>3, RegistryStep, ChallengeStep, ConvergeStep, DeleteStep, DestroyStep DEF Server
  <1>4. ASSUME NEW r \in reqs, corkdStops(r) \/ LoseAnswer(r) PROVE IInv'
    BY <1>4, StopsStep, LoseStep
  <1>5. CASE Kill
    BY <1>5, KillStep
  <1>6. CASE UNCHANGED vars
    BY <1>6, StutterIInv
  <1> QED
    BY <1>1, <1>2, <1>3, <1>4, <1>5, <1>6 DEF Next

\* The invariant holds of every run, with any number of schemas, orchestrators, source
\* generations, commands and faults.
THEOREM DeployInductive == Spec => []IInv
  <1> QED
    BY InitIInv, NextIInv, PTL DEF Spec

-----------------------------------------------------------------------------
(* What follows                                                            *)

\* The id an orchestrator reports is the build plane's, and the build plane has a bundle
\* of that name: commitHandedOverBuild adopts the id, and a removal drops the build
\* plane's row only when no orchestrator has the schema any more.
THEOREM BundlesStayAddressed == Spec => []BundlesAddressed
  <1>1. IInv => BundlesAddressed
    <2> SUFFICES ASSUME IInv, NEW d \in Dest, NEW s \in Schema \ adrift, rows[d][s].on
                 PROVE  /\ plane[s].on /\ plane[s].id = rows[d][s].id
                        /\ \E dir \in Dest \cup {"root"} : <<dir, plane[s].id>> \in bundles
      BY DEF BundlesAddressed
    <2>1. plane[s].on /\ plane[s].id = rows[d][s].id
      BY DEF IInv, Kept
    <2> QED
      BY <2>1 DEF IInv, Plane
  <1> QED
    BY <1>1, DeployInductive, PTL

\* What is served stays pullable: a tag goes only when no row of the daemon removing it
\* names it (contentReferenced), and until a run is handed over without being shown a
\* schema held elsewhere that daemon has all the rows.
THEOREM ServedStaysPullable == Spec => []ServedIsPullable
  <1>1. IInv => ServedIsPullable
    BY DEF IInv, Pullable, Served, ServedIsPullable
  <1> QED
    BY <1>1, DeployInductive, PTL

\* The refinement mapping: who holds a schema is who has a row of it.
LEMMA HoldersAt == \A s \in Schema : \A d : d \in holders[s] <=> d \in Dest /\ rows[d][s].on
  BY DEF holders, whereSchemaLives, servesSchema

\* Custody sees no change in a step that adds and removes no row.
LEMMA HoldersSame ==
    ASSUME \A d \in Dest, s \in Schema : rows'[d][s].on = rows[d][s].on
    PROVE  holders' = holders
  BY DEF holders, whereSchemaLives, servesSchema

\* A new deployment has at most one schema, on one orchestrator.
LEMMA RefinesInit == Init => Routing!Init
  <1> SUFFICES ASSUME Init PROVE Routing!Init
    OBVIOUS
  <1>1. adrift = {} /\ ~NoRow.on
    BY DEF Init, NoRow
  <1>2. ASSUME NEW files \in [Schema -> Dest], Undeployed(files) PROVE Routing!Init
    <2>1. PICK d : d \in Dest
      BY DeployAssumption
    <2>2. \A s \in Schema : whereSchemaLives(s) = {}
      BY <1>1, <1>2 DEF Undeployed, whereSchemaLives, servesSchema
    <2>3. \E S \in SUBSET Schema : holders = [s \in Schema |-> IF s \in S THEN {d} ELSE {}]
      <3>1. PICK S \in SUBSET Schema : S = {}
        OBVIOUS
      <3>2. holders = [s \in Schema |-> IF s \in S THEN {d} ELSE {}]
        BY <2>2, <3>1 DEF holders
      <3> QED
        BY <3>2
    <2> QED
      BY <1>1, <2>1, <2>3 DEF Routing!Init
  <1>3. ASSUME NEW files \in [Schema -> Dest], NEW first \in Schema, NEW d \in Dest, OneDeployed(files, first, d)
        PROVE  Routing!Init
    <2> DEFINE row == [NoRow EXCEPT !.on = TRUE, !.id = 1, !.gen = 1, !.serving = TRUE]
    <2>1. row.on
      BY DEF NoRow
    <2> HIDE DEF row
    <2>2. \A e \in Dest, s \in Schema : rows[e][s].on <=> e = d /\ s = first
      BY <1>1, <1>3, <2>1 DEF OneDeployed, row
    <2>3. ASSUME NEW s \in Schema PROVE whereSchemaLives(s) = IF s \in {first} THEN {d} ELSE {}
      BY <2>2 DEF whereSchemaLives, servesSchema
    <2>4. holders = [s \in Schema |-> IF s \in {first} THEN {d} ELSE {}]
      BY <2>3 DEF holders
    <2> QED
      BY <1>1, <2>4 DEF Routing!Init
  <1> QED
    BY <1>2, <1>3 DEF Init

\* A hand-over is a Take, a removal a Release, a command that overtakes requests a
\* Wander; every other step leaves custody alone.
LEMMA RefinesNext == IInv /\ IInv' /\ [Next]_vars => [Routing!Next]_<<holders, adrift>>
  <1> SUFFICES ASSUME IInv, IInv', [Next]_vars PROVE [Routing!Next]_<<holders, adrift>>
    OBVIOUS
  <1>1. ASSUME NEW r \in reqs, HandOverChallenge(r) PROVE Routing!Next
    <2>1. r.kind = "put" /\ r.d \in Dest /\ r.named \subseteq Schema /\ r.named \subseteq r.run /\ adrift' = adrift
      BY <1>1 DEF HandOverChallenge, IInv, Types, Req, Requests, Sent
    <2>2. PICK S \in SUBSET r.named : Written(r, S)
      BY <1>1, HandOverRows
    <2>3. ASSUME NEW s \in S PROVE holders[s] \subseteq {r.d} \/ s \in adrift
      <3>1. s \notin adrift => \A d \in Dest : rows[d][s].on => d = r.d
        BY <2>1 DEF IInv, Requests, Handing, Recent
      <3> QED
        BY <2>1, <3>1, HoldersAt
    <2>4. ASSUME NEW s \in Schema PROVE whereSchemaLives(s)' = holders[s] \cup (IF s \in S THEN {r.d} ELSE {})
      <3>1. \A d \in Dest : rows'[d][s].on <=> rows[d][s].on \/ (d = r.d /\ s \in S)
        BY <2>2 DEF Written
      <3> QED
        BY <2>1, <3>1, HoldersAt DEF whereSchemaLives, servesSchema
    <2>5. holders' = [s \in Schema |-> holders[s] \cup (IF s \in S THEN {r.d} ELSE {})]
      BY <2>4 DEF holders
    <2>6. Routing!Take(S, r.d)
      BY <2>1, <2>3, <2>5 DEF Routing!Take
    <2> QED
      BY <2>1, <2>6 DEF Routing!Next
  <1>2. ASSUME NEW r \in reqs, DeleteSchema(r) PROVE Routing!Next \/ UNCHANGED <<holders, adrift>>
    <2>1. r.d \in Dest /\ Removes(r) /\ adrift' = adrift /\ rows \in [Dest -> [Schema -> Row]]
      BY <1>2 DEF DeleteSchema, IInv, Types, Req, Removes
    <2>2. PICK s \in Schema : r.named = {s}
      BY <2>1 DEF IInv, Requests, Sent
    <2>3. CASE rows' = [rows EXCEPT ![r.d][s] = NoRow]
      <3>1. \A d \in Dest, t \in Schema : rows'[d][t].on <=> rows[d][t].on /\ ~(d = r.d /\ t = s)
        <4>1. ~NoRow.on
          BY DEF NoRow
        <4> QED
          BY <2>1, <2>3, <4>1
      <3>2. ASSUME NEW t \in Schema PROVE whereSchemaLives(t)' = IF t = s THEN holders[t] \ {r.d} ELSE holders[t]
        BY <3>1, HoldersAt DEF whereSchemaLives, servesSchema
      <3>3. holders' = [holders EXCEPT ![s] = @ \ {r.d}]
        BY <3>2 DEF holders
      <3> QED
        BY <2>1, <3>3 DEF Routing!Next, Routing!Release
    <2>4. CASE UNCHANGED rows
      BY <2>1, <2>4, HoldersSame
    <2> QED
      BY <1>2, <2>2, <2>3, <2>4 DEF DeleteSchema
  <1>3. ASSUME NEW r \in reqs, convergeSchema(r) PROVE UNCHANGED <<holders, adrift>>
    BY <1>3, ConvergeRows, HoldersSame DEF convergeSchema
  <1>4. CASE UNCHANGED rows /\ adrift \subseteq adrift'
    <2>1. holders' = holders /\ adrift' \subseteq Schema
      BY <1>4, HoldersSame DEF IInv, Types
    <2> QED
      BY <1>4, <2>1 DEF Routing!Next, Routing!Wander
  <1>5. \/ UNCHANGED rows /\ adrift \subseteq adrift'
        \/ \E r \in reqs : HandOverChallenge(r) \/ DeleteSchema(r) \/ convergeSchema(r)
    <2>1. CASE Command \/ Retry
      BY <2>1 DEF Command, Retry, Begins
    <2>2. CASE Amend \/ EditTree \/ Kill \/ \E s \in Schema : EditFile(s)
      BY <2>2 DEF Amend, EditTree, Kill, EditFile
    <2>3. CASE Client
      BY <2>3 DEF Client, route, Update, assemble, handOver, convergeOn, removalTarget, DropOwnRows, UpdateSchema,
                  RelocateArtifactBundles
    <2>4. CASE \E r \in reqs : Server(r) \/ corkdStops(r) \/ LoseAnswer(r)
      BY <2>4 DEF Server, requireInRegistry, destroyImages, corkdStops, LoseAnswer
    <2>5. CASE UNCHANGED vars
      BY <2>5 DEF vars
    <2> QED
      BY <2>1, <2>2, <2>3, <2>4, <2>5 DEF Next
  <1> QED
    BY <1>1, <1>2, <1>3, <1>4, <1>5

\* misroutedSchemas and migrate-schema implement custody: whatever is edited, killed,
\* lost or retried, an orchestrator takes a schema only when no other holds it, unless a
\* request for it outlived its client and was overtaken.
THEOREM DeployImplementsCustody == Spec => ImplementsCustody
  <1> QED
    BY DeployInductive, RefinesInit, RefinesNext, PTL DEF Spec, ImplementsCustody, Routing!Spec

\* A schema that has never been at large is held by one orchestrator at most.
OneHolder == \A s \in Schema \ adrift : \A d, e \in holders[s] : d = e

\* The abstract invariant: what the holders are, and that there is one.
Held == holders \in [Schema -> SUBSET Dest] /\ adrift \subseteq Schema /\ OneHolder

\* Custody starts with one holder at most.
LEMMA CustodyInit == Routing!Init => Held
  <1> SUFFICES ASSUME Routing!Init PROVE Held
    OBVIOUS
  <1>1. PICK d \in Dest, S \in SUBSET Schema : holders = [s \in Schema |-> IF s \in S THEN {d} ELSE {}]
    BY DEF Routing!Init
  <1>2. \A s \in Schema : holders[s] \subseteq {d}
    BY <1>1
  <1>3. OneHolder
    BY <1>2 DEF OneHolder
  <1> QED
    BY <1>1, <1>3 DEF Routing!Init, Held

\* Taking, releasing and wandering keep one holder of a schema not at large.
LEMMA CustodyNext == Held /\ [Routing!Next]_<<holders, adrift>> => Held'
  <1> SUFFICES ASSUME Held, [Routing!Next]_<<holders, adrift>> PROVE Held'
    OBVIOUS
  <1>1. ASSUME NEW S \in SUBSET Schema, NEW d \in Dest, Routing!Take(S, d) PROVE Held'
    <2>1. holders' \in [Schema -> SUBSET Dest] /\ adrift' \subseteq Schema
      BY <1>1 DEF Routing!Take, Held
    <2>2. ASSUME NEW s \in Schema \ adrift' PROVE \A x, y \in holders'[s] : x = y
      <3>1. CASE s \in S
        <4>1. holders'[s] \subseteq {d}
          BY <1>1, <3>1 DEF Routing!Take, Held
        <4> QED
          BY <4>1
      <3>2. CASE s \notin S
        BY <1>1, <3>2 DEF Routing!Take, Held, OneHolder
      <3> QED
        BY <3>1, <3>2
    <2> QED
      BY <2>1, <2>2 DEF Held, OneHolder
  <1>2. ASSUME NEW s \in Schema, NEW d \in Dest, Routing!Release(s, d) PROVE Held'
    <2>1. holders' \in [Schema -> SUBSET Dest] /\ \A t \in Schema : holders'[t] \subseteq holders[t]
      BY <1>2 DEF Routing!Release, Held
    <2> QED
      BY <1>2, <2>1 DEF Routing!Release, Held, OneHolder
  <1>3. CASE Routing!Wander
    BY <1>3 DEF Routing!Wander, Held, OneHolder
  <1>4. CASE UNCHANGED <<holders, adrift>>
    BY <1>4 DEF Held, OneHolder
  <1> QED
    BY <1>1, <1>2, <1>3, <1>4 DEF Routing!Next

\* What custody means for a schema: one orchestrator at a time, in every specification of
\* routing, whatever it is built from.
THEOREM CustodyIsOneHolder == Routing!Spec => []OneHolder
  <1>1. Held => OneHolder
    BY DEF Held
  <1> QED
    BY CustodyInit, CustodyNext, <1>1, PTL DEF Routing!Spec

\* So cork-build and its orchestrators keep a schema on one of them at a time, unless a
\* request for it lost its sender and was overtaken: the refinement and what it means.
THEOREM OneHolderKept == Spec => []OneHolder
  <1> QED
    BY DeployImplementsCustody, CustodyIsOneHolder, PTL DEF ImplementsCustody
=============================================================================
