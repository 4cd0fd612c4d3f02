------------------------------- MODULE Deploy -------------------------------
(***************************************************************************)
(* A build plane (cork-build), its orchestrators (corkd with an external   *)
(* build plane) and the registry between them.  Every schema names one     *)
(* challenge at one seed and flag format, so all of them resolve to the    *)
(* same tag: the source generation it was built from.                      *)
(*                                                                         *)
(* The commands of cork-build run one after the other.  Each is a sequence *)
(* of questions and requests to orchestrators, and may end anywhere: a     *)
(* call fails, an answer is lost, the process is killed.  A handler does   *)
(* not watch its client: a request that has arrived runs to its end, and   *)
(* may still be running when the next command starts.                      *)
(***************************************************************************)
EXTENDS Naturals, FiniteSetsExt

CONSTANTS
    Schema, Dest,           \* schema files, and the destinations configured
    MaxGen,                 \* source generations 1..MaxGen
    MaxOps, MaxFaults       \* bounds: commands and edits of the operator's own; faults

ASSUME DeployAssumption ==
    /\ Dest # {} /\ "none" \notin Dest /\ "root" \notin Dest
    /\ {MaxGen, MaxOps, MaxFaults} \subseteq Nat /\ MaxGen > 0

VARIABLES
    dest,       \* the destination each schema file names, or "none"
    tree,       \* the source generation in the challenge directory
    chal,       \* the one the last scan recorded, or 0
    plane,      \* the build plane's rows
    bundles,    \* the artifact bundles on it: <<directory, build id>>
    registry,   \* the tags it serves
    rows,       \* the orchestrators' rows
    reqs,       \* requests an orchestrator is working on
    cmd,        \* what cork-build is doing
    work,       \* what the operator still has to get done
    left,       \* commands, edits and faults still to come
    \* history
    adrift,     \* schemas of requests that another command has overtaken
    apart       \* a run handed over without being shown a schema held elsewhere

vars == <<dest, tree, chal, plane, bundles, registry, rows, reqs, cmd, work, left, adrift, apart>>

Gen == 1..MaxGen
NoRow == [on |-> FALSE, id |-> 0, gen |-> 0, prev |-> 0, serving |-> FALSE]
NoBuild == [on |-> FALSE, id |-> 0, gen |-> 0]
Idle == [op |-> "none", at |-> "idle", named |-> {}, todo |-> {}, dests |-> {}, to |-> "none", failed |-> FALSE]
Done == [named |-> {}, doomed |-> {}, moving |-> {}]

\* Nothing is deployed.
Undeployed(files) ==
    /\ dest = files /\ chal = 0 /\ bundles = {} /\ registry = {}
    /\ plane = [s \in Schema |-> NoBuild]
    /\ rows = [d \in Dest |-> [s \in Schema |-> NoRow]]

\* One schema is, from when its orchestrator was the only destination and no file had
\* to name one.
OneDeployed(files, first, d) ==
    /\ dest = [files EXCEPT ![first] = "none"]
    /\ chal = 1 /\ bundles = {<<"root", 1>>} /\ registry = {1}
    /\ plane = [s \in Schema |-> IF s = first THEN [on |-> TRUE, id |-> 1, gen |-> 1] ELSE NoBuild]
    /\ rows = [e \in Dest |-> [s \in Schema |->
                IF e = d /\ s = first
                THEN [NoRow EXCEPT !.on = TRUE, !.id = 1, !.gen = 1, !.serving = TRUE] ELSE NoRow]]

Init ==
    /\ tree = 1 /\ reqs = {} /\ cmd = Idle /\ work = Done
    /\ left = [op |-> MaxOps, fault |-> MaxFaults]
    /\ adrift = {} /\ apart = FALSE
    /\ \E files \in [Schema -> Dest] :
        Undeployed(files) \/ \E first \in Schema, d \in Dest : OneDeployed(files, first, d)

Fault == left.fault > 0 /\ left' = [left EXCEPT !.fault = @ - 1]

-----------------------------------------------------------------------------
(* Routing                                                                 *)

severalDests == \E d, e \in Dest : d # e

\* With one destination, a schema that names none means that one.
resolve(s) == IF dest[s] = "none" /\ ~severalDests THEN CHOOSE d \in Dest : TRUE ELSE dest[s]

servesSchema(d, s) == rows[d][s].on

\* Mutant: the schemas of a run are not compared.
exclusivityConflictsNone(S) == {}

\* All schemas name the same content: two of one run may not go to two destinations.
exclusivityConflicts(S) == {p \in S \X S : resolve(p[1]) # resolve(p[2])}

routeSchemas(S) == \A s \in S : resolve(s) \in Dest

\* Mutant: what is deployed already is not asked about.
misroutedSchemasNone(S) == {}

misroutedSchemas(S) ==
    {s \in S : /\ severalDests /\ ~servesSchema(resolve(s), s)
               /\ \E d \in Dest \ {resolve(s)} : servesSchema(d, s)}

\* Mutant: the schema is taken to be where its file says.
whereSchemaLivesNamed(s) == {dest[s]} \cap Dest

whereSchemaLives(s) == {d \in Dest : servesSchema(d, s)}

-----------------------------------------------------------------------------
(* Artifact bundles: one file per build id, in a destination's directory   *)
(* or in the artifact directory itself ("root").                           *)

\* Only a build run is told the directories, those of the schemas it names.
artifactDirFor(s) == IF cmd.op = "build" /\ s \in cmd.named /\ dest[s] # "none" THEN dest[s] ELSE "root"

findArtifactBundle(id) ==
    IF \E d \in Dest : <<d, id>> \in bundles THEN CHOOSE d \in Dest : <<d, id>> \in bundles ELSE "root"

artifactDirForBuild(s, id) ==
    IF cmd.op = "build" /\ s \in cmd.named THEN artifactDirFor(s) ELSE findArtifactBundle(id)

pruneStrayArtifactBundle(dir, id) == IF dir = "root" THEN {} ELSE {<<"root", id>>}

\* The directory computed first, and failing that the one the search finds.
removeArtifactBundle(s, id) ==
    {IF <<artifactDirFor(s), id>> \in bundles THEN <<artifactDirFor(s), id>> ELSE <<findArtifactBundle(id), id>>}

-----------------------------------------------------------------------------
(* The operator                                                            *)

\* A command starts; requests whose sender was lost are overtaken by it.
Begins(op, S, at) ==
    /\ cmd.at = "idle"
    /\ cmd' = [Idle EXCEPT !.op = op, !.named = S, !.at = at]
    /\ adrift' = adrift \cup UNION {r.named : r \in reqs}

Ends(w) == cmd' = Idle /\ work' = w

Spends == left.op > 0 /\ left' = [left EXCEPT !.op = @ - 1]

\* build, add-schema and update-schema; remove-schema; migrate-schema; update.
Command ==
    /\ Spends
    /\ \/ \E S \in (SUBSET Schema) \ {{}} :
            Begins("build", S, "route") /\ work' = [work EXCEPT !.named = @ \cup S]
       \/ \E s \in Schema : \/ /\ Begins("remove", {s}, "where")
                               /\ work' = [work EXCEPT !.named = @ \ {s}, !.doomed = @ \cup {s}]
                            \/ /\ Begins("migrate", {s}, "where")
                               /\ work' = [work EXCEPT !.moving = @ \cup {s}]
       \/ Begins("update", {}, "scan") /\ UNCHANGED work
    /\ UNCHANGED <<dest, tree, chal, plane, bundles, registry, rows, reqs, apart>>

\* The operator does what the refusals said: remove, migrate, then build again.
Retry ==
    /\ \/ \E s \in work.doomed : Begins("remove", {s}, "where")
       \/ work.doomed = {} /\ \E s \in work.moving : Begins("migrate", {s}, "where")
       \/ /\ work.doomed = {} /\ work.moving = {} /\ work.named # {}
          /\ Begins("build", work.named, "route")
    /\ UNCHANGED <<dest, tree, chal, plane, bundles, registry, rows, reqs, work, left, apart>>

\* Files a run refused to route are made to name one destination.
Amend ==
    /\ cmd.at = "idle"
    /\ ~routeSchemas(work.named) \/ exclusivityConflicts(work.named) # {}
    /\ \E d \in Dest : dest' = [s \in Schema |-> IF s \in work.named THEN d ELSE dest[s]]
    /\ UNCHANGED <<tree, chal, plane, bundles, registry, rows, reqs, cmd, work, left, adrift, apart>>

\* A run reads the files as it starts, so one edited during it is edited after it.
EditFile(s) ==
    /\ Spends /\ cmd.at = "idle"
    /\ \E d \in Dest \ {dest[s]} : dest' = [dest EXCEPT ![s] = d]
    /\ UNCHANGED <<tree, chal, plane, bundles, registry, rows, reqs, cmd, work, adrift, apart>>

EditTree ==
    /\ Spends
    /\ tree' \in Gen \ {tree}
    /\ UNCHANGED <<dest, chal, plane, bundles, registry, rows, reqs, cmd, work, adrift, apart>>

-----------------------------------------------------------------------------
(* cork-build                                                              *)

\* Where everything goes, and whether it may, before anything is built.
route ==
    /\ cmd.at = "route"
    /\ LET refused == ~routeSchemas(cmd.named) \/ exclusivityConflicts(cmd.named) # {}
           elsewhere == misroutedSchemas(cmd.named)
       IN  \/ refused /\ Ends(work) /\ UNCHANGED left
           \/ ~refused /\ Fault /\ Ends(work)
           \/ /\ ~refused /\ elsewhere # {} /\ UNCHANGED left
              /\ Ends([work EXCEPT !.moving = @ \cup elsewhere])
           \/ /\ ~refused /\ elsewhere = {} /\ UNCHANGED <<left, work>>
              /\ cmd' = [cmd EXCEPT !.at = "scan"]
    /\ UNCHANGED <<dest, tree, chal, plane, bundles, registry, rows, reqs, adrift, apart>>

\* The tree is recorded, and every build made from another generation is made again,
\* whichever schema it is of; one that fails keeps its generation.
Update ==
    /\ cmd.at = "scan"
    /\ LET stale == {s \in Schema : plane[s].on /\ plane[s].gen # tree}
           into(s) == artifactDirForBuild(s, plane[s].id)
       IN  \E rebuilt \in SUBSET stale :
            /\ IF rebuilt = stale THEN UNCHANGED left ELSE Fault
            /\ plane' = [s \in Schema |-> IF s \in rebuilt THEN [plane[s] EXCEPT !.gen = tree] ELSE plane[s]]
            /\ registry' = registry \cup (IF rebuilt = {} THEN {} ELSE {tree})
            /\ bundles' = (bundles \ UNION {pruneStrayArtifactBundle(into(s), plane[s].id) : s \in rebuilt})
                            \cup {<<into(s), plane[s].id>> : s \in rebuilt}
    /\ chal' = tree
    /\ IF cmd.op = "update" THEN Ends(work)
       ELSE cmd' = [cmd EXCEPT !.at = "converge", !.todo = cmd.named] /\ UNCHANGED work
    /\ UNCHANGED <<dest, tree, rows, reqs, adrift, apart>>

\* The id SQLite draws.
FreshId == 1 + Max({0} \cup {plane[s].id : s \in Schema})

\* UpdateSchema on the build plane: a build on record is complete, and one that is not
\* is made from the tree the scan recorded, adopting or pushing its tag.
UpdateSchema(s) ==
    /\ cmd.at = "converge" /\ s \in cmd.todo /\ ~plane[s].on
    /\ \/ /\ chal = tree
          /\ LET into == artifactDirForBuild(s, FreshId)
             IN  /\ plane' = [plane EXCEPT ![s] = [on |-> TRUE, id |-> FreshId, gen |-> tree]]
                 /\ registry' = registry \cup {tree}
                 /\ bundles' = (bundles \ pruneStrayArtifactBundle(into, FreshId)) \cup {<<into, FreshId>>}
          /\ UNCHANGED <<cmd, work, left>>
       \/ chal # tree /\ Ends(work) /\ UNCHANGED <<plane, registry, bundles, left>>
       \/ Fault /\ Ends(work) /\ UNCHANGED <<plane, registry, bundles>>
    /\ UNCHANGED <<dest, tree, chal, rows, reqs, adrift, apart>>

\* Bundles written before the schema had a destination are copied to its directory,
\* then removed; the run ends if the removal fails.
RelocateArtifactBundles(s) ==
    /\ cmd.at = "converge" /\ s \in cmd.todo /\ plane[s].on
    /\ LET id == plane[s].id
           into == artifactDirFor(s)
           move == into # "root" /\ <<"root", id>> \in bundles
           copied == bundles \cup (IF move THEN {<<into, id>>} ELSE {})
       IN  \/ /\ bundles' = IF move THEN copied \ {<<"root", id>>} ELSE copied
              /\ cmd' = [cmd EXCEPT !.todo = @ \ {s}]
              /\ UNCHANGED <<work, left>>
           \/ move /\ Fault /\ bundles' = copied /\ Ends(work)
    /\ UNCHANGED <<dest, tree, chal, plane, registry, rows, reqs, adrift, apart>>

identityMismatches(S) == {s \in S : plane[s].gen # chal}

\* Everything is assembled and checked before anything is sent.
assemble ==
    /\ cmd.at = "converge" /\ cmd.todo = {}
    /\ IF identityMismatches(cmd.named) # {} THEN Ends(work)
       ELSE /\ cmd' = [cmd EXCEPT !.at = "send", !.dests = {resolve(s) : s \in cmd.named}]
            /\ UNCHANGED work
    /\ UNCHANGED <<dest, tree, chal, plane, bundles, registry, rows, reqs, left, adrift, apart>>

Request(kind, d, S) ==
    [kind |-> kind, d |-> d, named |-> S, ids |-> [s \in Schema |-> plane[s].id], gen |-> chal,
     run |-> cmd.named, tags |-> {}, stage |-> "arrived", from |-> "client"]

\* One destination after the other, each handed what it serves; or the run is over.
handOver ==
    /\ cmd.at = "send"
    /\ \/ \E d \in cmd.dests :
            LET here == {s \in cmd.named : resolve(s) = d}
            IN  \/ /\ reqs' = reqs \cup {Request("put", d, here)}
                   /\ cmd' = [cmd EXCEPT !.at = "put", !.to = d, !.todo = here]
                   /\ UNCHANGED <<work, left>>
                \/ /\ Fault /\ cmd' = [cmd EXCEPT !.dests = @ \ {d}, !.failed = TRUE]
                   /\ UNCHANGED <<work, reqs>>
       \/ /\ cmd.dests = {} /\ UNCHANGED <<reqs, left>>
          /\ Ends(IF cmd.failed THEN work ELSE [work EXCEPT !.named = @ \ cmd.named])
    /\ UNCHANGED <<dest, tree, chal, plane, bundles, registry, rows, adrift, apart>>

\* Once every challenge has arrived, each schema is converged.
convergeOn ==
    /\ cmd.at = "delivered"
    /\ \/ \E s \in cmd.todo : /\ reqs' = reqs \cup {Request("post", cmd.to, {s})}
                              /\ cmd' = [cmd EXCEPT !.at = "post"]
       \/ /\ cmd.todo = {} /\ UNCHANGED reqs
          /\ cmd' = [cmd EXCEPT !.at = "send", !.dests = @ \ {cmd.to}, !.to = "none"]
    /\ UNCHANGED <<dest, tree, chal, plane, bundles, registry, rows, work, left, adrift, apart>>

\* The removal's and the release's parameter.
retires == cmd.op = "remove"

\* Every destination is asked where the schema is: removed or released there, dropped
\* here if it is nowhere.  With two holders nothing is done.
removalTarget ==
    /\ cmd.at = "where"
    /\ \E s \in cmd.named :
        LET lives == whereSchemaLives(s)
            undoomed == [work EXCEPT !.doomed = @ \ {s}]
            unmoved == [work EXCEPT !.moving = @ \ {s}]
        IN  \/ Fault /\ Ends(work) /\ UNCHANGED reqs
            \/ /\ UNCHANGED left
               /\ \/ Cardinality(lives) > 1 /\ Ends(work) /\ UNCHANGED reqs
                  \/ /\ lives = {} /\ UNCHANGED reqs
                     /\ IF cmd.op = "migrate" THEN Ends([unmoved EXCEPT !.named = @ \cup {s}])
                        ELSE IF ~plane[s].on THEN Ends(undoomed)
                        ELSE cmd' = [cmd EXCEPT !.at = "drop"] /\ UNCHANGED work
                  \/ \E d \in Dest :
                        /\ lives = {d}
                        /\ IF cmd.op = "migrate" /\ resolve(s) \in {d, "none"}
                           THEN Ends(unmoved) /\ UNCHANGED reqs
                           ELSE /\ reqs' = reqs \cup {Request(IF retires THEN "delete" ELSE "release", d, {s})}
                                /\ cmd' = [cmd EXCEPT !.at = "delete", !.to = d]
                                /\ UNCHANGED work
    /\ UNCHANGED <<dest, tree, chal, plane, bundles, registry, rows, adrift, apart>>

\* Mutant: the build plane's rows outlive the removal.
DropOwnRowsKept ==
    /\ cmd.at = "drop"
    /\ \E s \in cmd.named :
        IF cmd.op = "remove" THEN Ends([work EXCEPT !.doomed = @ \ {s}])
        ELSE /\ cmd' = [Idle EXCEPT !.op = "build", !.at = "route", !.named = {s}]
             /\ work' = [work EXCEPT !.moving = @ \ {s}, !.named = @ \cup {s}]
    /\ UNCHANGED <<dest, tree, chal, plane, bundles, registry, rows, reqs, left, adrift, apart>>

\* The build plane's own rows and bundle, once the orchestrator has answered.  Its
\* tags are not its to retire.  A migration goes on to build.
DropOwnRows ==
    /\ cmd.at = "drop"
    /\ \E s \in cmd.named :
        \/ /\ plane' = [plane EXCEPT ![s] = NoBuild]
           /\ bundles' = IF plane[s].on THEN bundles \ removeArtifactBundle(s, plane[s].id) ELSE bundles
           /\ UNCHANGED left
           /\ IF cmd.op = "remove" THEN Ends([work EXCEPT !.doomed = @ \ {s}])
              ELSE /\ cmd' = [Idle EXCEPT !.op = "build", !.at = "route", !.named = {s}]
                   /\ work' = [work EXCEPT !.moving = @ \ {s}, !.named = @ \cup {s}]
        \/ Fault /\ Ends(work) /\ UNCHANGED <<plane, bundles>>
    /\ UNCHANGED <<dest, tree, chal, registry, rows, reqs, adrift, apart>>

-----------------------------------------------------------------------------
(* The orchestrators                                                       *)

\* updateMu: held from the first row a deletion removes to its last tag.
Unlocked(d) == \A r \in reqs : r.d = d => r.stage # "retiring"

\* What the client of a request does on its answer; a lost client does nothing.
Answers(r, ok) ==
    /\ reqs' = reqs \ {r}
    /\ IF r.from # "client" THEN UNCHANGED <<cmd, work>>
       ELSE CASE r.kind = "put" ->
                    /\ cmd' = IF ok THEN [cmd EXCEPT !.at = "delivered"]
                              ELSE [cmd EXCEPT !.at = "send", !.dests = @ \ {r.d}, !.to = "none",
                                               !.todo = {}, !.failed = TRUE]
                    /\ UNCHANGED work
              [] r.kind = "post" ->
                    /\ cmd' = [cmd EXCEPT !.at = "delivered", !.todo = @ \ r.named, !.failed = @ \/ ~ok]
                    /\ UNCHANGED work
              [] OTHER -> IF ok THEN cmd' = [cmd EXCEPT !.at = "drop"] /\ UNCHANGED work ELSE Ends(work)

\* A refusal for a missing tag: the rows the build plane has for it are complete, so
\* only removing the schemas makes it push again.
Refused(r) ==
    /\ reqs' = reqs \ {r}
    /\ IF r.from # "client" THEN UNCHANGED <<cmd, work>>
       ELSE /\ cmd' = [cmd EXCEPT !.at = "send", !.dests = @ \ {r.d}, !.to = "none", !.todo = {}, !.failed = TRUE]
            /\ work' = [work EXCEPT !.doomed = @ \cup r.named]

\* Before the lock: every tag handed over has to be in the registry.
requireInRegistry(r) ==
    /\ r.kind = "put" /\ r.stage = "arrived"
    /\ IF r.gen \in registry
       THEN reqs' = (reqs \ {r}) \cup {[r EXCEPT !.stage = "checked"]} /\ UNCHANGED <<cmd, work>>
       ELSE Refused(r)
    /\ UNCHANGED <<dest, tree, chal, plane, bundles, registry, rows, left, adrift, apart>>

\* The row is new, or is on record under the id delivered, which no other build holds.
adopts(r, s) ==
    /\ rows[r.d][s].on => rows[r.d][s].id = r.ids[s]
    /\ \A t \in Schema \ {s} : rows[r.d][t].on => rows[r.d][t].id # r.ids[s]

rotatedPrevChecksum(row, gen) == IF row.gen # gen THEN row.gen ELSE row.prev

\* A row that holds the generation already is left as it is.
commitHandedOverBuild(row, id, gen) ==
    [on |-> TRUE, id |-> IF row.on THEN row.id ELSE id, gen |-> gen,
     prev |-> rotatedPrevChecksum(row, gen), serving |-> row.serving]

\* Under the lock each build is committed; one that is refused is reported.
HandOverChallenge(r) ==
    /\ r.kind = "put" /\ r.stage = "checked" /\ Unlocked(r.d)
    /\ LET taken == {s \in r.named : adopts(r, s)}
       IN  /\ rows' = [rows EXCEPT ![r.d] = [s \in Schema |->
                            IF s \in taken THEN commitHandedOverBuild(@[s], r.ids[s], r.gen) ELSE @[s]]]
           /\ apart' = (apart \/ \E d \in Dest \ {r.d}, s \in Schema \ r.run : rows[d][s].on)
           /\ Answers(r, taken = r.named)
    /\ UNCHANGED <<dest, tree, chal, plane, bundles, registry, left, adrift>>

\* A converge wants every build handed over, and then starts what the schema asks for.
requireHandedOver(r) == \A s \in r.named : rows[r.d][s].on

convergeSchema(r) ==
    /\ r.kind = "post" /\ Unlocked(r.d)
    /\ rows' = IF requireHandedOver(r)
               THEN [rows EXCEPT ![r.d] = [s \in Schema |->
                        IF s \in r.named THEN [@[s] EXCEPT !.serving = TRUE] ELSE @[s]]]
               ELSE rows
    /\ Answers(r, requireHandedOver(r))
    /\ UNCHANGED <<dest, tree, chal, plane, bundles, registry, left, adrift, apart>>

\* The row goes first.  A schema this daemon has no row for is removed at no cost.
DeleteSchema(r) ==
    /\ r.kind \in {"delete", "release"} /\ r.stage = "arrived" /\ Unlocked(r.d)
    /\ \E s \in r.named :
        IF rows[r.d][s].on
        THEN /\ rows' = [rows EXCEPT ![r.d][s] = NoRow]
             /\ reqs' = (reqs \ {r}) \cup
                    {[r EXCEPT !.stage = "retiring", !.tags = {rows[r.d][s].gen, rows[r.d][s].prev}]}
             /\ UNCHANGED <<cmd, work>>
        ELSE Answers(r, TRUE) /\ UNCHANGED rows
    /\ UNCHANGED <<dest, tree, chal, plane, bundles, registry, left, adrift, apart>>

contentReferenced(d, g) == \E s \in Schema : rows[d][s].on /\ g \in {rows[d][s].gen, rows[d][s].prev}

\* Then the tags no other row of this daemon names, best-effort, and not on a release.
destroyImages(r) ==
    /\ r.stage = "retiring"
    /\ \/ /\ registry' = IF r.kind = "release" THEN registry
                         ELSE registry \ {g \in r.tags : ~contentReferenced(r.d, g)}
          /\ UNCHANGED left
       \/ Fault /\ UNCHANGED registry
    /\ Answers(r, TRUE)
    /\ UNCHANGED <<dest, tree, chal, plane, bundles, rows, adrift, apart>>

-----------------------------------------------------------------------------
(* Faults                                                                  *)

\* The daemon stops: what it was doing ends where it is.
corkdStops(r) ==
    /\ Fault /\ Answers(r, FALSE)
    /\ UNCHANGED <<dest, tree, chal, plane, bundles, registry, rows, adrift, apart>>

\* The answer is lost on its way, or the connection while the handler works on.
LoseAnswer(r) ==
    /\ Fault /\ r.from = "client"
    /\ reqs' = (reqs \ {r}) \cup {[r EXCEPT !.from = "lost"]}
    /\ IF r.kind \in {"delete", "release"} THEN Ends(work)
       ELSE /\ cmd' = IF r.kind = "put"
                      THEN [cmd EXCEPT !.at = "send", !.dests = @ \ {r.d}, !.to = "none", !.todo = {}, !.failed = TRUE]
                      ELSE [cmd EXCEPT !.at = "delivered", !.todo = @ \ r.named, !.failed = TRUE]
            /\ UNCHANGED work
    /\ UNCHANGED <<dest, tree, chal, plane, bundles, registry, rows, adrift, apart>>

\* cork-build is killed.
Kill ==
    /\ Fault /\ cmd.at # "idle"
    /\ Ends(work)
    /\ reqs' = {[r EXCEPT !.from = IF @ = "client" THEN "lost" ELSE @] : r \in reqs}
    /\ UNCHANGED <<dest, tree, chal, plane, bundles, registry, rows, adrift, apart>>

-----------------------------------------------------------------------------
Client ==
    \/ route \/ Update \/ assemble \/ handOver \/ convergeOn \/ removalTarget \/ DropOwnRows
    \/ \E s \in Schema : UpdateSchema(s) \/ RelocateArtifactBundles(s)

Server(r) ==
    requireInRegistry(r) \/ HandOverChallenge(r) \/ convergeSchema(r) \/ DeleteSchema(r) \/ destroyImages(r)

Next ==
    \/ Command \/ Retry \/ Amend \/ EditTree \/ Client \/ Kill
    \/ \E s \in Schema : EditFile(s)
    \/ \E r \in reqs : Server(r) \/ corkdStops(r) \/ LoseAnswer(r)

\* Commands and handlers run on; the operator does not give up on what is left to do.
Fairness == WF_vars(Client) /\ WF_vars(\E r \in reqs : Server(r)) /\ WF_vars(Retry) /\ SF_vars(Amend)

Spec == Init /\ [][Next]_vars /\ Fairness

-----------------------------------------------------------------------------
holders == [s \in Schema |-> whereSchemaLives(s)]

Routing == INSTANCE Custody WITH held <- holders, loose <- adrift

\* misroutedSchemas and migrate-schema keep custody of a schema: whatever is edited,
\* killed, lost or retried, an orchestrator takes a schema only when no other holds it,
\* unless a request for it outlived its client and was overtaken by another command.
ImplementsCustody == Routing!Spec

\* exclusivityConflicts, contentReferenced and the release of a migration keep what is
\* served pullable: the tag of every orchestrator's row is in the registry, unless a
\* request was overtaken, or a run was not shown a schema that was held elsewhere.
ServedIsPullable ==
    adrift = {} /\ ~apart => \A d \in Dest, s \in Schema : rows[d][s].on => rows[d][s].gen \in registry

\* The id an orchestrator reports addresses the bundle of that build (commitHandedOverBuild
\* adopts it, removals ask before they drop): it is the id of the build plane's row for
\* the schema, and the build plane has a bundle of that name.
BundlesAddressed ==
    \A d \in Dest, s \in Schema \ adrift : rows[d][s].on =>
        /\ plane[s].on /\ plane[s].id = rows[d][s].id
        /\ \E dir \in Dest \cup {"root"} : <<dir, plane[s].id>> \in bundles

\* filesystem.go:75, of the artifact directories: "a challenge's files land where that
\* destination's players look for them".  A schema in service has its bundle in the
\* directory of the destination serving it, or in the artifact directory from before
\* its file named one.
BundlesWhereServed ==
    \A d \in Dest, s \in Schema \ adrift :
        rows[d][s].serving => {<<d, plane[s].id>>, <<"root", plane[s].id>>} \cap bundles # {}

\* "which re-running fixes": however a deployment is cut short, an operator who does
\* what each refusal says gets all of it done.
Redeploys == <>[](adrift # {} \/ (cmd.at = "idle" /\ work = Done))
=============================================================================
