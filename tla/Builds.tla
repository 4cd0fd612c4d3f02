------------------------------- MODULE Builds -------------------------------
(***************************************************************************)
(* The builds of one challenge and seed on a daemon that builds for itself *)
(* and publishes to a registry (cork/docker.go, database_builds.go,        *)
(* database_challenges.go, api.go).  A tag names its content: the source   *)
(* generation and the base image pins it was built from.  A row holds the  *)
(* tag it serves and the one before it, its rollback target.               *)
(*                                                                         *)
(* Updates and schema operations run one at a time, under updateMu: they   *)
(* are one actor, "op".  Build and Destroy of manual builds take no lock:  *)
(* they are the actor "man".  The registry is asked and written outside    *)
(* every lock but imageMu, which only removers take.                       *)
(***************************************************************************)
EXTENDS Naturals

CONSTANTS
    Managed, Manual,        \* the rows of schemas and of manual builds
    Sources, Pins,          \* source generations and base pin sets, from 1
    PruneOldImages,         \* updates run with --prune-old
    MaxChanges, MaxFaults   \* bounds: edits and refreshes; failed calls and crashes

ASSUME BuildsAssumption ==
    /\ Managed \cap Manual = {} /\ Sources \subseteq Nat \ {0} /\ Pins \subseteq Nat \ {0}
    /\ 1 \in Sources /\ 1 \in Pins
    /\ {MaxChanges, MaxFaults} \subseteq Nat /\ PruneOldImages \in BOOLEAN

VARIABLES
    src, pins,      \* the challenge tree, and the base pins in memory
    chal,           \* the source generation the challenge row records
    row,            \* the builds table
    registry,       \* the tags it serves
    archive,        \* per build, the generation of its artifact bundle
    imageMu,        \* the actor holding it, or "none"
    act,            \* what each actor is doing
    left,           \* changes and faults still to come
    \* history
    raced,          \* <<a, t>>: a removal of t set out while a, which is to commit t, was building
    taken,          \* tags that rows were given by such a build
    torn            \* rows that stand with a bundle of a build that did not commit

vars == <<src, pins, chal, row, registry, archive, imageMu, act, left, raced, taken, torn>>

Row == Managed \cup Manual
Tag == Sources \X Pins
NoTag == <<0, 0>>
Actor == {"op", "man"}

NoRow == [on |-> FALSE, built |-> FALSE, ck |-> NoTag, prev |-> NoTag, gen |-> 0]
Quiet == [pc |-> "idle", kind |-> "", row |-> "", meta |-> 0, ck |-> NoTag, prev |-> NoTag,
          displaced |-> NoTag, pushed |-> FALSE, todo |-> {}, doomed |-> {}, tag |-> NoTag]

\* A build knows its tag and has not committed it.
InFlight == {"push", "promote", "stored", "finalize", "failed"}

\* A schema's build may stand, with or without a rollback target; nothing is running.
Init ==
    /\ src = 1 /\ pins = 1 /\ chal = 1
    /\ \E prev \in (Sources \X {1} \ {<<1, 1>>}) \cup {NoTag}, standing \in SUBSET Managed :
        /\ row = [r \in Row |-> IF r \notin standing THEN NoRow
                                ELSE [on |-> TRUE, built |-> TRUE, ck |-> <<1, 1>>, prev |-> prev, gen |-> 1]]
        /\ registry = (UNION {{row[r].ck, row[r].prev} : r \in standing}) \ {NoTag}
        /\ archive = [r \in Row |-> row[r].ck]
    /\ imageMu = "none" /\ act = [a \in Actor |-> Quiet]
    /\ left = [change |-> MaxChanges, fault |-> MaxFaults]
    /\ raced = {} /\ taken = {} /\ torn = {}

At(a, pc) == act[a].pc = pc
Goto(a, pc) == act' = [act EXCEPT ![a].pc = pc]
Ends(a) == act' = [act EXCEPT ![a] = Quiet]

\* A docker, registry, disk or database call of the build fails.
Fails == left.fault > 0 /\ left' = [left EXCEPT !.fault = @ - 1]

\* The rebuild is done with one build and goes on to the next.
Proceeds(a, doomed) ==
    act' = [act EXCEPT ![a] = [Quiet EXCEPT !.pc = "next", !.kind = "rebuild", !.meta = act[a].meta,
                !.todo = act[a].todo, !.doomed = act[a].doomed \cup doomed]]

-----------------------------------------------------------------------------
buildContentChecksum(source) == <<source, pins>>

\* Mutant: only the generation a row serves counts.
contentReferencedCurrent(t, exclude) == \E r \in Row \ exclude : row[r].on /\ row[r].ck = t

\* A row other than these resolves to the tag, as its generation or its rollback target.
contentReferenced(t, exclude) == \E r \in Row \ exclude : row[r].on /\ t \in {row[r].ck, row[r].prev}

\* Mutant: builds left at an earlier generation are not looked for.
staleBuildIdsNone(source) == {}

staleBuildIds(source) == {r \in Row : row[r].on /\ row[r].built /\ row[r].gen # source}

allBuildIds == {r \in Row : row[r].on}

rotatedPrevChecksum(old, new, prev) == IF new # old THEN old ELSE prev

displacedPruneCandidate(old, new, displaced) == new # old /\ displaced # NoTag /\ displaced # new

\* The row a build opens is stamped at once, so that removers count it.
openBuild(r) ==
    row' = IF row[r].on THEN row
           ELSE [row EXCEPT ![r] = [NoRow EXCEPT !.on = TRUE, !.ck = buildContentChecksum(chal)]]

removeBuildMetadata(r) == row' = [row EXCEPT ![r] = NoRow] /\ torn' = torn \ {r}

\* A remover sets out to delete a tag: the builds in flight that resolve to it, and the
\* rebuilds about to commit it as their rollback target, race it.
Racing(t) == {a \in Actor : \/ act[a].pc \in InFlight /\ act[a].ck = t
                            \/ act[a].pc = "finalize" /\ act[a].prev = t}
RacedByOthers(a) == {x \in raced : x[1] # a}
BeingRemoved(t) == \E a \in Actor : act[a].pc \in {"delete", "takeback"} /\ act[a].tag = t

-----------------------------------------------------------------------------
\* An update scans the tree (DetectChanges) and has something to do: the source
\* changed, or a build stands at an earlier generation.
UpdateWithOptions ==
    /\ At("op", "idle") /\ (src # chal \/ staleBuildIds(src) # {})
    /\ act' = [act EXCEPT !["op"] = [Quiet EXCEPT !.pc = "select", !.kind = "rebuild", !.meta = src]]
    /\ UNCHANGED <<src, pins, chal, row, registry, archive, imageMu, left, raced, taken, torn>>

\* The challenge row is committed first; then the builds to rebuild are selected.
updateChallenges ==
    /\ At("op", "select")
    /\ chal' = act["op"].meta
    /\ act' = [act EXCEPT !["op"].pc = "next",
                          !["op"].todo = IF chal # act["op"].meta THEN allBuildIds
                                         ELSE staleBuildIds(act["op"].meta)]
    /\ UNCHANGED <<src, pins, row, registry, archive, imageMu, left, raced, taken, torn>>

\* The next build of the rebuild, in the order of their ids; a row that has gone is
\* skipped.  After the last one, what left retention is pruned.
rebuildBuilds ==
    /\ At("op", "next")
    /\ IF act["op"].todo = {} THEN Goto("op", "doom")
       ELSE LET r == CHOOSE r \in act["op"].todo : r \in Managed \/ act["op"].todo \cap Managed = {}
            IN  act' = [act EXCEPT !["op"].todo = @ \ {r},
                                   !["op"].row = r, !["op"].prev = row[r].prev,
                                   !["op"].pc = IF row[r].on THEN "resolve" ELSE "next"]
    /\ UNCHANGED <<src, pins, chal, row, registry, archive, imageMu, left, raced, taken, torn>>

\* A schema's converge opens its row, and builds it when it is not built.
convergeSchema(r) ==
    /\ At("op", "idle") /\ r \in Managed /\ ~row[r].built
    /\ openBuild(r)
    /\ act' = [act EXCEPT !["op"] = [Quiet EXCEPT !.pc = "drift", !.kind = "new", !.row = r, !.meta = chal]]
    /\ UNCHANGED <<src, pins, chal, registry, archive, imageMu, left, raced, taken, torn>>

\* A manual build, of a schema name of its own: a row no operation has in hand.
Build(r) ==
    /\ At("man", "idle") /\ r \in Manual /\ ~row[r].on
    /\ act["op"].row # r /\ r \notin act["op"].todo
    /\ act' = [act EXCEPT !["man"] = [Quiet EXCEPT !.pc = "drift", !.kind = "new", !.row = r, !.meta = chal]]
    /\ UNCHANGED <<src, pins, chal, row, registry, archive, imageMu, left, raced, taken, torn>>

\* generateBuilds refuses a challenge whose tree differs from its row.
generateBuilds(a) ==
    /\ At(a, "drift")
    /\ IF src = chal THEN Goto(a, "open") ELSE Ends(a)
    /\ UNCHANGED <<src, pins, chal, row, registry, archive, imageMu, left, raced, taken, torn>>

generateOpens(a) ==
    /\ At(a, "open")
    /\ openBuild(act[a].row)
    /\ act' = [act EXCEPT ![a].pc = "resolve", ![a].prev = row[act[a].row].prev]
    /\ UNCHANGED <<src, pins, chal, registry, archive, imageMu, left, raced, taken, torn>>

-----------------------------------------------------------------------------
\* executeBuild: the identity is stamped and the registry asked for it.
executeBuild(a) ==
    /\ At(a, "resolve")
    /\ LET t == buildContentChecksum(act[a].meta)
       IN  /\ act' = [act EXCEPT ![a].pc = "push", ![a].ck = t, ![a].pushed = t \notin registry]
           /\ raced' = RacedByOthers(a) \cup (IF BeingRemoved(t) THEN {<<a, t>>} ELSE {})
    /\ UNCHANGED <<src, pins, chal, row, registry, archive, imageMu, left, taken, torn>>

\* After a failure a rebuild goes on to the next build, and a new build is taken back.
AfterFailure(a) ==
    /\ IF act[a].kind = "new" THEN removeBuildMetadata(act[a].row) /\ Ends(a)
       ELSE Proceeds(a, {}) /\ UNCHANGED <<row, torn>>
    /\ raced' = RacedByOthers(a)

\* The docker build, the pull of an adopted image, the extraction or the validation
\* fails: nothing was published.
buildFails(a) ==
    /\ At(a, "push") /\ Fails
    /\ AfterFailure(a)
    /\ UNCHANGED <<src, pins, chal, registry, archive, imageMu, taken>>

\* Mutant: the bundle is promoted before the images are pushed.
publishImagesLast(a) ==
    /\ At(a, "push")
    /\ archive' = [archive EXCEPT ![act[a].row] = act[a].ck]
    /\ \/ /\ registry' = IF act[a].pushed THEN registry \cup {act[a].ck} ELSE registry
          /\ Goto(a, "promote") /\ UNCHANGED left
       \/ /\ act[a].pushed /\ Fails
          /\ act' = [act EXCEPT ![a].pc = "failed", ![a].pushed = FALSE]
          /\ registry' \in {registry, registry \cup {act[a].ck}}
    /\ UNCHANGED <<src, pins, chal, row, imageMu, raced, taken, torn>>

\* What the registry did not serve when it was asked is pushed; a push that failed here
\* may have landed there, and is not taken back.
publishImages(a) ==
    /\ At(a, "push")
    /\ \/ /\ registry' = IF act[a].pushed THEN registry \cup {act[a].ck} ELSE registry
          /\ Goto(a, "promote") /\ UNCHANGED left
       \/ /\ act[a].pushed /\ Fails
          /\ act' = [act EXCEPT ![a].pc = "failed", ![a].pushed = FALSE]
          /\ registry' \in {registry, registry \cup {act[a].ck}}
    /\ UNCHANGED <<src, pins, chal, row, archive, imageMu, raced, taken, torn>>

\* Builds of the same row that have promoted their bundle and not committed.
Uncommitted(r) == {a \in Actor : act[a].pc \in {"stored", "finalize"} /\ act[a].row = r}

\* The staged bundle is renamed into place.
promote(a) ==
    /\ At(a, "promote")
    /\ \/ /\ archive' = [archive EXCEPT ![act[a].row] = act[a].ck]
          /\ torn' = IF Uncommitted(act[a].row) = {} THEN torn \ {act[a].row} ELSE torn \cup {act[a].row}
          /\ act' = [act EXCEPT ![a].pc = IF act[a].kind = "new" THEN "finalize" ELSE "stored", ![a].pushed = FALSE]
          /\ UNCHANGED left
       \/ Fails /\ Goto(a, "failed") /\ UNCHANGED <<archive, torn>>
    /\ UNCHANGED <<src, pins, chal, row, registry, imageMu, raced, taken>>

\* A remover gets imageMu, or has it.
imageMuLock(a) == imageMu \in {"none", a}

\* The failure path of executeBuild: under imageMu it decides whether the tag it
\* pushed is anyone else's, and outside it takes the push back.  Its own row,
\* even when another build of that row has committed it meanwhile, does not count.
executeBuildFailed(a) ==
    /\ At(a, "failed") /\ imageMuLock(a)
    /\ IF /\ act[a].pushed /\ act[a].prev # act[a].ck
          /\ ~contentReferenced(act[a].ck, {act[a].row})
       THEN /\ act' = [act EXCEPT ![a].pc = "takeback", ![a].tag = act[a].ck]
            /\ raced' = raced \cup ((Racing(act[a].ck) \ {a}) \X {act[a].ck})
            /\ taken' = IF row[act[a].row].built /\ row[act[a].row].ck = act[a].ck
                        THEN taken \cup {act[a].ck} ELSE taken
            /\ UNCHANGED <<row, torn>>
       ELSE AfterFailure(a) /\ UNCHANGED taken
    /\ UNCHANGED <<src, pins, chal, registry, archive, imageMu, left>>

takeBack(a) ==
    /\ At(a, "takeback")
    /\ \/ registry' = registry \ {act[a].tag} /\ UNCHANGED left
       \/ Fails /\ UNCHANGED registry
    /\ AfterFailure(a)
    /\ UNCHANGED <<src, pins, chal, archive, imageMu, taken>>

\* The pair a rebuild displaces is read from the row.
reconcileBuild(a) ==
    /\ At(a, "stored")
    /\ LET r   == row[act[a].row]
           old == IF r.built THEN r.ck ELSE NoTag
           was == IF r.built THEN r.prev ELSE NoTag
       IN  IF ~r.on
           THEN Proceeds(a, {})
           ELSE act' = [act EXCEPT ![a].pc = "finalize",
                      ![a].prev = rotatedPrevChecksum(old, act[a].ck, was),
                      ![a].displaced = IF PruneOldImages /\ displacedPruneCandidate(old, act[a].ck, was)
                                       THEN was ELSE NoTag]
    /\ UNCHANGED <<src, pins, chal, row, registry, archive, imageMu, left, raced, taken, torn>>

\* The build is committed, unless its row has gone or the transaction fails.  A
\* build that raced a removal of its tags may have committed a tag that is not there.
finalizeBuild(a) ==
    LET r == act[a].row
        Done == IF act[a].kind = "new" THEN Ends(a)
                ELSE Proceeds(a, {act[a].displaced} \ {NoTag})
        Abandoned == IF act[a].kind = "new" THEN Ends(a) ELSE Proceeds(a, {})
    IN  /\ At(a, "finalize")
        /\ \/ /\ row[r].on
              /\ row' = [row EXCEPT ![r] = [on |-> TRUE, built |-> TRUE, ck |-> act[a].ck,
                                           prev |-> act[a].prev, gen |-> act[a].meta]]
              /\ taken' = (taken \ {act[a].ck}) \cup {t \in {act[a].ck, act[a].prev} : <<a, t>> \in raced}
              /\ torn' = IF Uncommitted(r) = {a} THEN torn ELSE torn \cup {r}
              /\ Done /\ UNCHANGED left
           \/ /\ IF row[r].on THEN Fails ELSE UNCHANGED left
              /\ torn' = IF row[r].on THEN torn \cup {r} ELSE torn
              /\ Abandoned /\ UNCHANGED <<row, taken>>
        /\ raced' = RacedByOthers(a)
        /\ UNCHANGED <<src, pins, chal, registry, archive, imageMu>>

-----------------------------------------------------------------------------
\* Destroy of a manual build, and DeleteSchema of a schema's: the row is read, then
\* removed with its bundle, and then what it served is retired.
destroys(a, r) ==
    /\ At(a, "idle") /\ row[r].on
    /\ act' = [act EXCEPT ![a] = [Quiet EXCEPT !.pc = "remove", !.row = r, !.pushed = row[r].built,
                 !.doomed = IF row[r].built THEN {row[r].ck, row[r].prev} \ {NoTag} ELSE {}]]
    /\ UNCHANGED <<src, pins, chal, row, registry, archive, imageMu, left, raced, taken, torn>>

Destroy(r) == r \in Manual /\ destroys("man", r)

DeleteSchema(r) == r \in Managed /\ destroys("op", r)

destroyImages(a) ==
    /\ At(a, "remove")
    /\ removeBuildMetadata(act[a].row)
    /\ \/ /\ archive' = IF act[a].pushed THEN [archive EXCEPT ![act[a].row] = NoTag] ELSE archive
          /\ Goto(a, "doom") /\ UNCHANGED left
       \/ act[a].pushed /\ Fails /\ Ends(a) /\ UNCHANGED archive
    /\ UNCHANGED <<src, pins, chal, registry, imageMu, raced, taken>>

\* Under imageMu each doomed tag is kept if a row resolves to it, and deleted
\* otherwise; the lock is held from the first check to the last delete.
pruneReplacedImages(a) ==
    /\ At(a, "doom") /\ imageMuLock(a)
    /\ IF act[a].doomed = {}
       THEN imageMu' = "none" /\ Ends(a) /\ UNCHANGED raced
       ELSE LET t == CHOOSE t \in act[a].doomed : TRUE
                kept == contentReferenced(t, {})
            IN  /\ imageMu' = a
                /\ act' = [act EXCEPT ![a].doomed = @ \ {t},
                                      ![a].pc = IF kept THEN "doom" ELSE "delete",
                                      ![a].tag = IF kept THEN NoTag ELSE t]
                /\ raced' = IF kept THEN raced ELSE raced \cup (Racing(t) \X {t})
    /\ UNCHANGED <<src, pins, chal, row, registry, archive, left, taken, torn>>

\* The delete is best effort.
retireRegistryTag(a) ==
    /\ At(a, "delete")
    /\ \/ registry' = registry \ {act[a].tag} /\ UNCHANGED left
       \/ Fails /\ UNCHANGED registry
    /\ act' = [act EXCEPT ![a].pc = "doom", ![a].tag = NoTag]
    /\ UNCHANGED <<src, pins, chal, row, archive, imageMu, raced, taken, torn>>

-----------------------------------------------------------------------------
\* The author edits the tree; the operator refreshes the base pins, which takes no
\* lock; the process dies, and what it was doing with it.
EditTree ==
    /\ left.change > 0 /\ left' = [left EXCEPT !.change = @ - 1]
    /\ src' \in Sources \ {src}
    /\ UNCHANGED <<pins, chal, row, registry, archive, imageMu, act, raced, taken, torn>>

RefreshBasePins ==
    /\ left.change > 0 /\ left' = [left EXCEPT !.change = @ - 1]
    /\ pins' \in Pins \ {pins}
    /\ UNCHANGED <<src, chal, row, registry, archive, imageMu, act, raced, taken, torn>>

Crash ==
    /\ left.fault > 0 /\ left' = [left EXCEPT !.fault = @ - 1]
    /\ act' = [a \in Actor |-> Quiet] /\ imageMu' = "none" /\ raced' = {}
    /\ torn' = torn \cup {r \in Row : row[r].on /\ Uncommitted(r) # {}}
    /\ UNCHANGED <<src, pins, chal, row, registry, archive, taken>>

\* What an actor that has begun does next.
step(a) ==
    \/ generateBuilds(a) \/ generateOpens(a) \/ executeBuild(a) \/ buildFails(a) \/ publishImages(a)
    \/ promote(a) \/ executeBuildFailed(a) \/ takeBack(a) \/ reconcileBuild(a) \/ finalizeBuild(a)
    \/ destroyImages(a) \/ pruneReplacedImages(a) \/ retireRegistryTag(a)

Update == UpdateWithOptions \/ updateChallenges \/ rebuildBuilds

Next ==
    \/ Update
    \/ \E r \in Row : convergeSchema(r) \/ DeleteSchema(r) \/ Build(r) \/ Destroy(r)
    \/ \E a \in Actor : step(a)
    \/ EditTree \/ RefreshBasePins \/ Crash

\* Requests run to their end.  An operation under updateMu gets imageMu in turn (Go's
\* mutexes starve nobody), and the operator goes on running update while it has
\* something to do, hence strong fairness.
Fairness == SF_vars(Update) /\ SF_vars(step("op")) /\ WF_vars(step("man"))

Spec == Init /\ [][Next]_vars /\ Fairness

-----------------------------------------------------------------------------
\* contentReferenced and rotatedPrevChecksum keep what a row can resolve to: a committed
\* row's tag and its rollback target are in the registry, unless a removal of that very
\* tag overlapped the build that committed it, or a failed build took back a tag that
\* another build of the same row had committed meanwhile.
RowsServedUnlessRaced ==
    \A r \in Row : row[r].built => {row[r].ck, row[r].prev} \subseteq registry \cup taken \cup {NoTag}

\* executeBuild writes registry, archive and row in that order, so the bundle served
\* is of the generation on record, whatever failed before; only a build that promoted
\* its bundle and then could not commit its row leaves them apart.
ArchiveMatches ==
    \A r \in Row \ torn : row[r].built /\ Uncommitted(r) = {} => archive[r] = row[r].ck

\* A rebuild that failed, or that a crash cut short, is not forgotten: the challenge
\* row is committed before its builds, and staleBuildIds finds what it left behind.
StaleRebuilt == <>[](\A r \in Row : row[r].built => row[r].gen = src)

=============================================================================
