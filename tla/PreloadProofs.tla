--------------------------- MODULE PreloadProofs ---------------------------
(***************************************************************************)
(* The proofs about preloading, for any number of workers, schemas,        *)
(* challenges and pull slots.  That an image in use keeps a tag is         *)
(* inductive as it stands.  That no launched image is deleted rests on     *)
(* what a pass is still going to remove (Doomed), and that nothing leaves  *)
(* unreported on what the operation holding updateMu will report and on    *)
(* the pulls that run meanwhile (Covered): an image is looked up before    *)
(* its pull and recorded after it, and operations come and go in between.  *)
(***************************************************************************)
EXTENDS Preload, TLAPS

USE Zenon

-----------------------------------------------------------------------------
(* The inductive invariant                                                 *)

\* The operation that holds updateMu.
Op == [kind : {"none", "deploy", "drop", "delete", "add", "remove", "unlock"}, s : Schema \cup {""},
       before : SUBSET Image, known : BOOLEAN]

\* A preloader and its pass.
Pass == [pc : {"wait", "list", "pulls", "slot", "pulling", "removing", "mark", "unmark", "done"},
         held : SUBSET Tag, pulls : SUBSET Image, tried : SUBSET Image, cur : Image \cup {<<>>},
         doomed : SUBSET Tag, landed : BOOLEAN]

Types ==
    /\ serves \in [Schema -> [Challenge -> Gens \cup {0}]] /\ preloads \subseteq Schema
    /\ op \in Op /\ (op.kind # "none" => op.s \in Schema) /\ (op.kind = "none" => op = NoOp)
    /\ store \in [Worker -> SUBSET Tag] /\ inUse \in [Worker -> SUBSET Image] /\ loop \in [Worker -> Pass]

\* What a pass is about to remove no build launches, unless one landed since it read.
Doomed(w) ==
    /\ loop[w].doomed # {} => Removing(w)
    /\ loop[w].pc \in {"mark", "unmark"} => loop[w].doomed # {}
    /\ loop[w].pc \in {"slot", "pulling"} => loop[w].cur \in Image
    /\ ~loop[w].landed => \A t \in loop[w].doomed : t.stale \/ t.image \notin launched(Schema)

\* The repositories an operation will report, unless they are still covered.
reported == IF op.known THEN {imageRepo(i) : i \in op.before} ELSE {}

\* What preloading has put on a worker, or is about to.
bound == placed \cup {imageRepo(loop[w].cur) : w \in {v \in Worker : loop[v].pc = "pulling"}}

\* What is bound for a worker is covered, was reported, or will be; an operation that
\* takes builds or a preload away knows everything that was covered.
Covered ==
    /\ bound \subseteq repos \cup released \cup reported
    /\ op.kind = "none" => preloading = (preloads # {})
    /\ op.kind \in {"delete", "drop"} => repos \subseteq reported
    /\ op.kind = "remove" => reported \subseteq repos

IInv == Types /\ UsedTagged /\ Covered /\ \A w \in Worker : Doomed(w)

-----------------------------------------------------------------------------
(* What is launched and what is covered                                    *)

\* What is launched, image by image,
LEMMA LaunchedIs ==
    ASSUME NEW S, NEW i
    PROVE  i \in launched(S) <=> i \in Image /\ \E s \in S, c \in Challenge : i = <<c, serves[s][c]>>
  BY SMT DEF launched

\* and by challenge and generation.
LEMMA LaunchedAt ==
    ASSUME Types, NEW S \in SUBSET Schema, NEW c, NEW g
    PROVE  <<c, g>> \in launched(S) <=> c \in Challenge /\ g \in Gens /\ \E s \in S : g = serves[s][c]
  <1>1. <<c, g>> \in Image <=> c \in Challenge /\ g \in Gens
    BY DEF Image
  <1>2. ASSUME NEW s \in S, NEW d \in Challenge, <<c, g>> = <<d, serves[s][d]>> PROVE c = d /\ g = serves[s][c]
    <2>1. <<c, g>>[1] = <<d, serves[s][d]>>[1] /\ <<c, g>>[2] = <<d, serves[s][d]>>[2]
      BY <1>2
    <2> QED
      BY <2>1
  <1> QED
    BY <1>1, <1>2, LaunchedIs

\* A challenge is covered when a preloaded schema has a build of it.
LEMMA ReposAt == Types => \A c : c \in repos <=> c \in Challenge /\ \E s \in preloads : serves[s][c] \in Gens
  <1> SUFFICES ASSUME Types, NEW c
               PROVE  c \in repos <=> c \in Challenge /\ \E s \in preloads : serves[s][c] \in Gens
    OBVIOUS
  <1>1. ASSUME NEW i \in wanted, c = imageRepo(i) PROVE c \in Challenge /\ \E s \in preloads : serves[s][c] \in Gens
    <2>1. i \in Image /\ \E s \in preloads, d \in Challenge : i = <<d, serves[s][d]>>
      BY SMT, <1>1 DEF wanted, launched
    <2>2. PICK s \in preloads, d \in Challenge : i = <<d, serves[s][d]>>
      BY <2>1
    <2>3. c = d
      BY <1>1, <2>2 DEF imageRepo
    <2>4. <<d, serves[s][d]>> \in Challenge \X Gens
      BY <2>1, <2>2 DEF Image
    <2>5. serves[s][d] \in Gens
      BY <2>4
    <2> QED
      BY <2>2, <2>3, <2>5
  <1>2. ASSUME c \in Challenge, NEW s \in preloads, serves[s][c] \in Gens PROVE c \in repos
    <2>1. <<c, serves[s][c]>> \in wanted
      BY <1>2, LaunchedAt DEF wanted, Types
    <2>2. imageRepo(<<c, serves[s][c]>>) = c
      BY DEF imageRepo
    <2> QED
      BY <2>1, <2>2 DEF repos
  <1> QED
    BY <1>1, <1>2 DEF repos

-----------------------------------------------------------------------------
(* The passes                                                              *)

\* A step of one pass has that pass, the stores and what was placed to answer for.
LEMMA PassStep ==
    ASSUME IInv, NEW w \in Worker, UNCHANGED <<database, inUse>>, store' \in [Worker -> SUBSET Tag], UsedTagged',
           loop' \in [Worker -> Pass], \A v \in Worker \ {w} : loop'[v] = loop[v], Doomed(w)',
           loop'[w].pc = "pulling" => imageRepo(loop'[w].cur) \in repos, placed' \subseteq bound
    PROVE  IInv'
  <1>1. repos' = repos /\ reported' = reported /\ launched(Schema)' = launched(Schema)
    <2>1. launched(Schema)' = launched(Schema) /\ launched(preloads)' = launched(preloads)
      BY SMT DEF database, launched
    <2> QED
      BY <2>1 DEF database, repos, wanted, reported
  <1>2. Types'
    BY DEF IInv, Types, database
  <1>3. ASSUME NEW v \in Worker PROVE Doomed(v)'
    <2>1. CASE v = w
      BY <2>1
    <2>2. CASE v # w
      BY <1>1, <2>2 DEF IInv, Doomed, Removing
    <2> QED
      BY <2>1, <2>2
  <1>4. bound' \subseteq bound \cup repos
    BY DEF bound
  <1>5. Covered'
    BY <1>1, <1>4 DEF IInv, Covered, database
  <1> QED
    BY <1>2, <1>3, <1>5 DEF IInv

\* And when it touches no store, only the pass.
LEMMA PassOnly ==
    ASSUME IInv, NEW w \in Worker, UNCHANGED <<database, store, inUse, placed>>, loop' \in [Worker -> Pass],
           \A v \in Worker \ {w} : loop'[v] = loop[v], Doomed(w)',
           loop'[w].pc = "pulling" => imageRepo(loop'[w].cur) \in repos
    PROVE  IInv'
  <1>1. UsedTagged' /\ store' \in [Worker -> SUBSET Tag]
    BY DEF IInv, UsedTagged, Types
  <1>2. placed' \subseteq bound
    BY DEF bound
  <1> QED
    BY <1>1, <1>2, PassStep

\* A pass begins with nothing doomed.
LEMMA BeginStep == ASSUME IInv, NEW w \in Worker, preloadPass(w) PROVE IInv'
  <1>1. /\ loop[w] \in Pass /\ loop[w].pc = "wait" /\ wanted \subseteq Image
        /\ UNCHANGED <<database, store, inUse, placed>>
    BY LaunchedIs DEF preloadPass, IInv, Types, At, wanted
  <1>2. /\ loop' \in [Worker -> Pass] /\ \A v \in Worker \ {w} : loop'[v] = loop[v]
        /\ loop'[w].pc = "list" /\ loop'[w].doomed = loop[w].doomed
    BY <1>1 DEF preloadPass, IInv, Types, Pass
  <1>3. Doomed(w)'
    BY <1>1, <1>2 DEF IInv, Doomed, Removing
  <1> QED
    BY <1>1, <1>2, <1>3, PassOnly

\* A pass that ends, wherever it is, leaves nothing doomed.
LEMMA EndStep ==
    ASSUME IInv, NEW w \in Worker, PassEnds(w), UNCHANGED <<database, store, inUse, placed>>
    PROVE  IInv'
  <1>1. Idle \in Pass /\ Idle.pc = "wait" /\ Idle.doomed = {}
    BY DEF Idle, Pass
  <1>2. loop' \in [Worker -> Pass] /\ loop'[w] = Idle /\ \A v \in Worker \ {w} : loop'[v] = loop[v]
    BY <1>1 DEF PassEnds, IInv, Types
  <1>3. Doomed(w)'
    BY <1>1, <1>2 DEF Doomed, Removing
  <1> QED
    BY <1>1, <1>2, <1>3, PassOnly

\* Listing the images of a worker dooms none.
LEMMA ListStep == ASSUME IInv, NEW w \in Worker, workerImages(w) PROVE IInv'
  <1>1. loop[w] \in Pass /\ loop[w].pc = "list" /\ store[w] \subseteq Tag /\ UNCHANGED <<database, store, inUse, placed>>
    BY DEF workerImages, IInv, Types, At
  <1>2. CASE PassEnds(w)
    BY <1>1, <1>2, EndStep
  <1>3. CASE loop' = [loop EXCEPT ![w].pc = "pulls", ![w].held = store[w],
                                  ![w].pulls = {i \in @ : tagOf(i) \notin store[w]}]
    <2>1. /\ loop' \in [Worker -> Pass] /\ \A v \in Worker \ {w} : loop'[v] = loop[v]
          /\ loop'[w].pc = "pulls" /\ loop'[w].doomed = loop[w].doomed
      BY <1>1, <1>3 DEF IInv, Types, Pass
    <2>2. Doomed(w)'
      BY <1>1, <2>1 DEF IInv, Doomed, Removing
    <2> QED
      BY <1>1, <2>1, <2>2, PassOnly
  <1> QED
    BY <1>2, <1>3 DEF workerImages

\* Nor does waiting for a slot.
LEMMA AcquireStep == ASSUME IInv, NEW w \in Worker, acquirePreloadPull(w) PROVE IInv'
  <1>1. loop[w] \in Pass /\ loop[w].pc = "pulls" /\ UNCHANGED <<database, store, inUse, placed>>
    BY DEF acquirePreloadPull, IInv, Types, At
  <1>2. CASE PassEnds(w)
    BY <1>1, <1>2, EndStep
  <1>3. ASSUME NEW i \in loop[w].pulls, loop' = [loop EXCEPT ![w].pc = "slot", ![w].cur = i, ![w].pulls = @ \ {i}]
        PROVE  IInv'
    <2>1. i \in Image
      BY <1>1, <1>3 DEF Pass
    <2>2. /\ loop' \in [Worker -> Pass] /\ \A v \in Worker \ {w} : loop'[v] = loop[v]
          /\ loop'[w].pc = "slot" /\ loop'[w].doomed = loop[w].doomed /\ loop'[w].cur = i
      BY <1>1, <1>3, <2>1 DEF IInv, Types, Pass
    <2>3. Doomed(w)'
      BY <1>1, <2>1, <2>2 DEF IInv, Doomed, Removing
    <2> QED
      BY <1>1, <2>2, <2>3, PassOnly
  <1> QED
    BY <1>2, <1>3 DEF acquirePreloadPull

\* A pull starts only for an image that is wanted with the slot held.
LEMMA RecheckStep == ASSUME IInv, NEW w \in Worker, recheck(w) PROVE IInv'
  <1>1. loop[w] \in Pass /\ loop[w].pc = "slot" /\ UNCHANGED <<database, store, inUse, placed>> /\ loop[w].cur \in Image
    BY DEF recheck, IInv, Types, At, Doomed
  <1>2. CASE PassEnds(w)
    BY <1>1, <1>2, EndStep
  <1>3. CASE loop' = [loop EXCEPT ![w].pc = "pulls", ![w].cur = <<>>]
    <2>1. /\ loop' \in [Worker -> Pass] /\ \A v \in Worker \ {w} : loop'[v] = loop[v]
          /\ loop'[w].pc = "pulls" /\ loop'[w].doomed = loop[w].doomed
      BY <1>1, <1>3 DEF IInv, Types, Pass
    <2>2. Doomed(w)'
      BY <1>1, <2>1 DEF IInv, Doomed, Removing
    <2> QED
      BY <1>1, <2>1, <2>2, PassOnly
  <1>4. CASE loop[w].cur \in wanted /\ Goto(w, "pulling")
    <2>1. /\ loop' \in [Worker -> Pass] /\ \A v \in Worker \ {w} : loop'[v] = loop[v]
          /\ loop'[w].pc = "pulling" /\ loop'[w].doomed = loop[w].doomed /\ loop'[w].cur = loop[w].cur
      BY <1>1, <1>4 DEF IInv, Types, Pass, Goto
    <2>2. Doomed(w)' /\ imageRepo(loop'[w].cur) \in repos
      BY <1>1, <1>4, <2>1 DEF IInv, Doomed, Removing, repos
    <2> QED
      BY <1>1, <2>1, <2>2, PassOnly
  <1> QED
    BY <1>2, <1>3, <1>4 DEF recheck

\* What a pull places was bound for the worker.
LEMMA PullStep == ASSUME IInv, NEW w \in Worker, pullImage(w) PROVE IInv'
  <1>1. loop[w] \in Pass /\ loop[w].pc = "pulling" /\ UNCHANGED <<database, inUse>> /\ loop[w].cur \in Image
    BY DEF pullImage, IInv, Types, At, Doomed
  <1>2. /\ loop' \in [Worker -> Pass] /\ \A v \in Worker \ {w} : loop'[v] = loop[v]
        /\ loop'[w].pc = "pulls" /\ loop'[w].doomed = loop[w].doomed
    <2>1. loop' = [loop EXCEPT ![w].pc = "pulls", ![w].cur = <<>>, ![w].tried = @ \cup {loop[w].cur}]
      BY DEF pullImage
    <2> QED
      <3>1. DOMAIN loop = Worker /\ loop[w].tried \cup {loop[w].cur} \in SUBSET Image
        BY <1>1 DEF IInv, Types, Pass
      <3> QED
        BY <1>1, <2>1, <3>1 DEF IInv, Types, Pass
  <1>3. Doomed(w)'
    BY <1>1, <1>2 DEF IInv, Doomed, Removing
  <1>4. placed' \subseteq bound
    BY <1>1 DEF pullImage, bound
  <1>5. tagOf(loop[w].cur) \in Tag
    BY <1>1 DEF tagOf, Tag
  <1>6. store' \in [Worker -> SUBSET Tag] /\ \A v \in Worker : store[v] \subseteq store'[v]
    BY <1>5 DEF pullImage, IInv, Types
  <1>7. UsedTagged'
    BY <1>1, <1>6 DEF IInv, UsedTagged
  <1> QED
    BY <1>1, <1>2, <1>3, <1>4, <1>6, <1>7, PassStep

\* What superseded returns no build launches, preloaded or not.
LEMMA SupersededUnlaunched ==
    ASSUME Types, NEW held, NEW tried, NEW t \in superseded(held, tried)
    PROVE  t \in held /\ (t.stale \/ t.image \notin launched(Schema))
  <1>1. t \in held /\ (t.stale \/ t.image \notin named) /\ imageRepo(t.image) \in repos
    BY DEF superseded
  <1>2. preloads # {}
    BY <1>1, ReposAt
  <1> QED
    BY <1>1, <1>2 DEF named

\* What a pass dooms no build launches.
LEMMA SupersededStep == ASSUME IInv, NEW w \in Worker, removeSuperseded(w) PROVE IInv'
  <1>1. loop[w] \in Pass /\ loop[w].pc = "pulls" /\ UNCHANGED <<database, store, inUse, placed>>
    BY DEF removeSuperseded, IInv, Types, At
  <1>2. CASE PassEnds(w)
    BY <1>1, <1>2, EndStep
  <1>3. ASSUME NEW D, D = superseded(loop[w].held, loop[w].tried),
               loop' = [loop EXCEPT ![w] = [Idle EXCEPT !.pc = "removing", !.doomed = D]]
        PROVE  IInv'
    <2>1. D \subseteq Tag /\ \A t \in D : t.stale \/ t.image \notin launched(Schema)
      <3>1. Types /\ loop[w].held \subseteq Tag
        BY <1>1 DEF Pass, IInv
      <3> QED
        BY <1>3, <3>1, SupersededUnlaunched
    <2>2. [Idle EXCEPT !.pc = "removing", !.doomed = D] \in Pass
      BY <2>1 DEF Idle, Pass
    <2>3. /\ loop' \in [Worker -> Pass] /\ \A v \in Worker \ {w} : loop'[v] = loop[v]
          /\ loop'[w] = [Idle EXCEPT !.pc = "removing", !.doomed = D]
      BY <1>3, <2>2 DEF IInv, Types
    <2>4. loop'[w].pc = "removing" /\ loop'[w].doomed = D
      BY <2>3 DEF Idle
    <2>5. launched(Schema)' = launched(Schema)
      BY SMT, <1>1 DEF launched, database
    <2>6. Doomed(w)'
      BY <2>1, <2>4, <2>5 DEF Doomed, Removing
    <2> QED
      BY <1>1, <2>3, <2>4, <2>6, PassOnly
  <1> QED
    BY <1>2, <1>3 DEF removeSuperseded

\* A tag dealt with, or left for a later pass, is doomed no more.
LEMMA SkipStep ==
    ASSUME IInv, NEW w \in Worker, NEW t, Removing(w), UNCHANGED <<database, inUse, placed>>,
           loop' = [loop EXCEPT ![w].pc = "removing", ![w].doomed = @ \ {t}],
           store' \in [Worker -> SUBSET Tag], UsedTagged'
    PROVE  IInv'
  <1>1. loop[w] \in Pass
    BY DEF IInv, Types
  <1>2. /\ loop' \in [Worker -> Pass] /\ \A v \in Worker \ {w} : loop'[v] = loop[v]
        /\ loop'[w].pc = "removing" /\ loop'[w].doomed = loop[w].doomed \ {t} /\ loop'[w].landed = loop[w].landed
    BY <1>1 DEF IInv, Types, Pass
  <1>3. launched(Schema)' = launched(Schema)
    BY SMT DEF launched, database
  <1>4. Doomed(w)'
    <2>1. ~loop[w].landed => \A u \in loop[w].doomed : u.stale \/ u.image \notin launched(Schema)
      BY DEF IInv, Doomed
    <2> QED
      BY <1>2, <1>3, <2>1 DEF Doomed, Removing
  <1>5. placed' \subseteq bound
    BY DEF bound
  <1> QED
    BY <1>2, <1>4, <1>5, PassStep

\* A failed call dooms nothing.
LEMMA FailStep ==
    ASSUME IInv, NEW w \in Worker, NEW t, Removing(w), CallFailsOn(w, t), UNCHANGED <<database, store, inUse, placed>>
    PROVE  IInv'
  <1>1. UsedTagged' /\ store' \in [Worker -> SUBSET Tag]
    BY DEF IInv, UsedTagged, Types
  <1> QED
    BY <1>1, EndStep, SkipStep DEF CallFailsOn

\* A delete that dockerd does not refuse leaves every used image a tag.
LEMMA Unrefused ==
    ASSUME IInv, NEW w \in Worker, NEW t, ~Refused(w, t), store' = [store EXCEPT ![w] = @ \ {t}], UNCHANGED inUse
    PROVE  store' \in [Worker -> SUBSET Tag] /\ UsedTagged'
  <1>1. store' \in [Worker -> SUBSET Tag] /\ store'[w] = store[w] \ {t} /\ \A v \in Worker \ {w} : store'[v] = store[v]
    BY DEF IInv, Types
  <1>2. ASSUME NEW i \in inUse[w] PROVE \E u \in store'[w] : u.image = i
    <2>1. PICK u \in store[w] : u.image = i
      BY DEF IInv, UsedTagged
    <2>2. CASE u # t
      BY <1>1, <2>1, <2>2
    <2>3. CASE u = t
      BY <1>1, <2>1, <2>3 DEF Refused
    <2> QED
      BY <2>2, <2>3
  <1>3. ASSUME NEW v \in Worker, NEW i \in inUse[v] PROVE \E u \in store'[v] : u.image = i
    <2>1. CASE v = w
      BY <1>2, <1>3, <2>1
    <2>2. CASE v # w
      BY <1>1, <1>3, <2>2 DEF IInv, UsedTagged
    <2> QED
      BY <2>1, <2>2
  <1> QED
    BY <1>1, <1>3 DEF UsedTagged

\* Removing an image leaves every used image a tag.
LEMMA RemoveStep == ASSUME IInv, NEW w \in Worker, removeWorkerImage(w) PROVE IInv'
  <1>1. PICK t : t = CHOOSE u \in loop[w].doomed : TRUE
    OBVIOUS
  <1>2. /\ loop[w] \in Pass /\ loop[w].pc = "removing" /\ loop[w].doomed # {} /\ Removing(w)
        /\ UNCHANGED <<database, inUse, placed>>
    BY DEF removeWorkerImage, IInv, Types, At, Removing
  <1>3. CASE ~Refused(w, t) /\ loop' = [loop EXCEPT ![w].pc = "removing", ![w].doomed = @ \ {t}]
             /\ store' = [store EXCEPT ![w] = @ \ {t}]
    BY <1>2, <1>3, Unrefused, SkipStep
  <1>4. CASE loop' = [loop EXCEPT ![w].pc = "removing", ![w].doomed = @ \ {t}] /\ UNCHANGED store
    <2>1. UsedTagged' /\ store' \in [Worker -> SUBSET Tag]
      BY <1>2, <1>4 DEF IInv, UsedTagged, Types
    <2> QED
      BY <1>2, <1>4, <2>1, SkipStep
  <1>5. CASE loop' = [loop EXCEPT ![w].pc = "mark", ![w].doomed = @] /\ UNCHANGED store
    <2>1. /\ loop' \in [Worker -> Pass] /\ \A v \in Worker \ {w} : loop'[v] = loop[v]
          /\ loop'[w].pc = "mark" /\ loop'[w].doomed = loop[w].doomed /\ loop'[w].landed = loop[w].landed
      BY <1>2, <1>5 DEF IInv, Types, Pass
    <2>2. launched(Schema)' = launched(Schema)
      BY SMT, <1>2 DEF launched, database
    <2>3. Doomed(w)'
      BY <1>2, <2>1, <2>2 DEF IInv, Doomed, Removing
    <2> QED
      BY <1>2, <1>5, <2>1, <2>3, PassOnly
  <1>6. CASE CallFailsOn(w, t) /\ UNCHANGED store
    BY <1>2, <1>6, FailStep
  <1> QED
    BY <1>1, <1>3, <1>4, <1>5, <1>6 DEF removeWorkerImage

\* So does setting one aside as stale,
LEMMA MarkStep == ASSUME IInv, NEW w \in Worker, markStale(w) PROVE IInv'
  <1>1. PICK t : t = CHOOSE u \in loop[w].doomed : TRUE
    OBVIOUS
  <1>2. /\ loop[w] \in Pass /\ loop[w].pc = "mark" /\ loop[w].doomed # {} /\ Removing(w)
        /\ UNCHANGED <<database, inUse, placed>>
    BY DEF markStale, IInv, Types, At, Removing, Doomed
  <1>3. CASE t \in store[w] /\ store' = [store EXCEPT ![w] = @ \cup {staleTag(t)}] /\ Goto(w, "unmark")
    <2>1. staleTag(t) \in Tag
      <3>1. t \in Tag
        BY <1>3 DEF IInv, Types
      <3> QED
        BY <3>1 DEF Tag, staleTag
    <2>2. store' \in [Worker -> SUBSET Tag] /\ \A v \in Worker : store[v] \subseteq store'[v]
      BY <1>3, <2>1 DEF IInv, Types
    <2>3. UsedTagged'
      BY <1>2, <2>2 DEF IInv, UsedTagged
    <2>4. /\ loop' \in [Worker -> Pass] /\ \A v \in Worker \ {w} : loop'[v] = loop[v]
          /\ loop'[w].pc = "unmark" /\ loop'[w].doomed = loop[w].doomed /\ loop'[w].landed = loop[w].landed
      BY <1>2, <1>3 DEF IInv, Types, Pass, Goto
    <2>5. launched(Schema)' = launched(Schema)
      BY SMT, <1>2 DEF launched, database
    <2>6. Doomed(w)'
      BY <1>2, <2>4, <2>5 DEF IInv, Doomed, Removing
    <2>7. placed' \subseteq bound
      BY <1>2 DEF bound
    <2> QED
      BY <1>2, <2>2, <2>3, <2>4, <2>6, <2>7, PassStep
  <1>4. CASE loop' = [loop EXCEPT ![w].pc = "removing", ![w].doomed = @ \ {t}] /\ UNCHANGED store
    <2>1. UsedTagged' /\ store' \in [Worker -> SUBSET Tag]
      BY <1>2, <1>4 DEF IInv, UsedTagged, Types
    <2> QED
      BY <1>2, <1>4, <2>1, SkipStep
  <1>5. CASE CallFailsOn(w, t) /\ UNCHANGED store
    BY <1>2, <1>5, FailStep
  <1> QED
    BY <1>1, <1>3, <1>4, <1>5 DEF markStale

\* and taking its own tag off.
LEMMA UnmarkStep == ASSUME IInv, NEW w \in Worker, unmark(w) PROVE IInv'
  <1>1. PICK t : t = CHOOSE u \in loop[w].doomed : TRUE
    OBVIOUS
  <1>2. loop[w].pc = "unmark" /\ Removing(w) /\ UNCHANGED <<database, inUse, placed>>
    BY DEF unmark, At, Removing
  <1>3. CASE loop' = [loop EXCEPT ![w].pc = "removing", ![w].doomed = @ \ {t}]
             /\ store' = IF Refused(w, t) THEN store ELSE [store EXCEPT ![w] = @ \ {t}]
    <2>1. UsedTagged' /\ store' \in [Worker -> SUBSET Tag]
      <3>1. CASE Refused(w, t)
        BY <1>2, <1>3, <3>1 DEF IInv, UsedTagged, Types
      <3>2. CASE ~Refused(w, t)
        BY <1>2, <1>3, <3>2, Unrefused
      <3> QED
        BY <3>1, <3>2
    <2> QED
      BY <1>2, <1>3, <2>1, SkipStep
  <1>4. CASE CallFailsOn(w, t) /\ UNCHANGED store
    BY <1>2, <1>4, FailStep
  <1> QED
    BY <1>1, <1>3, <1>4 DEF unmark

\* Every step of a preload loop keeps the invariant.
LEMMA LoopStep == ASSUME IInv, NEW w \in Worker, preloadLoop(w) PROVE IInv'
  <1>1. CASE passEnds(w)
    BY <1>1, EndStep DEF passEnds
  <1>2. CASE preloadLoopEnds(w)
    <2>1. loop[w] \in Pass /\ loop[w].pc = "wait" /\ UNCHANGED <<database, store, inUse, placed>>
      BY <1>2 DEF preloadLoopEnds, IInv, Types, At
    <2>2. /\ loop' \in [Worker -> Pass] /\ \A v \in Worker \ {w} : loop'[v] = loop[v]
          /\ loop'[w].pc = "done" /\ loop'[w].doomed = loop[w].doomed
      BY <1>2, <2>1 DEF preloadLoopEnds, IInv, Types, Pass, Goto
    <2>3. Doomed(w)'
      BY <2>1, <2>2 DEF IInv, Doomed, Removing
    <2> QED
      BY <2>1, <2>2, <2>3, PassOnly
  <1> QED
    BY <1>1, <1>2, BeginStep, ListStep, AcquireStep, RecheckStep, PullStep, SupersededStep, RemoveStep, MarkStep,
       UnmarkStep DEF preloadLoop

-----------------------------------------------------------------------------
(* The operations                                                          *)

\* What is covered after a step.
LEMMA ReposAtNext ==
    (Types => \A c : c \in repos <=> c \in Challenge /\ \E s \in preloads : serves[s][c] \in Gens)'
  BY ReposAt, PTL

\* The same builds launch the same images.
LEMMA LaunchedSame == UNCHANGED serves => launched(Schema)' = launched(Schema)
  BY SMT DEF launched

\* Fewer builds launch no new image.
LEMMA LaunchedFewer ==
    ASSUME Types, Types', \A s \in Schema, c \in Challenge : serves'[s][c] \in {serves[s][c], 0}
    PROVE  launched(Schema)' \subseteq launched(Schema)
  <1> SUFFICES ASSUME NEW i \in launched(Schema)' PROVE i \in launched(Schema)
    OBVIOUS
  <1>1. i \in Image /\ \E s \in Schema, c \in Challenge : i = <<c, serves'[s][c]>>
    BY SMT DEF launched
  <1>2. PICK s \in Schema, c \in Challenge : i = <<c, serves'[s][c]>>
    BY <1>1
  <1>3. <<c, serves'[s][c]>> \in Challenge \X Gens
    BY <1>1, <1>2 DEF Image
  <1>4. serves'[s][c] \in Gens /\ 0 \notin Gens
    BY <1>3, PreloadAssumption
  <1>5. serves'[s][c] = serves[s][c]
    BY <1>4
  <1> QED
    BY <1>2, <1>4, <1>5, LaunchedAt

\* An operation has what is covered and what it reports to answer for.
LEMMA DbStep ==
    ASSUME IInv, UNCHANGED <<store, inUse, loop, placed>>, Types', launched(Schema)' \subseteq launched(Schema),
           bound \subseteq (repos \cup released \cup reported)',
           op'.kind = "none" => preloading' = (preloads' # {}),
           op'.kind \in {"delete", "drop"} => repos' \subseteq reported',
           op'.kind = "remove" => reported' \subseteq repos'
    PROVE  IInv'
  <1>1. UsedTagged'
    BY DEF IInv, UsedTagged
  <1>2. bound' = bound
    BY DEF bound
  <1>3. Covered'
    BY <1>2 DEF Covered
  <1>4. ASSUME NEW w \in Worker PROVE Doomed(w)'
    <2>1. Doomed(w)
      BY DEF IInv
    <2> QED
      BY <2>1 DEF Doomed, Removing
  <1> QED
    BY <1>1, <1>3, <1>4 DEF IInv

\* An operation knows what is covered when it locks, if anything is.
LEMMA LockStep ==
    ASSUME IInv, NEW s \in Schema, NEW k \in {"deploy", "drop", "delete", "add", "remove"}, lockUpdates(k, s)
    PROVE  IInv'
  <1>1. /\ op = NoOp /\ UNCHANGED <<serves, preloads, preloading, released, store, inUse, loop, placed>>
        /\ op' = [kind |-> k, s |-> s, before |-> IF preloading THEN wanted ELSE {}, known |-> preloading]
    BY DEF lockUpdates
  <1>2. reported = {} /\ preloading = (preloads # {}) /\ bound \subseteq repos \cup released
    BY <1>1 DEF IInv, Covered, reported, NoOp
  <1>3. launched(Schema)' = launched(Schema) /\ wanted' = wanted /\ wanted \subseteq Image
    BY SMT, <1>1 DEF wanted, launched
  <1>4. op'.kind = k /\ op'.s = s /\ op'.before = (IF preloading THEN wanted ELSE {}) /\ op'.known = preloading
    BY <1>1
  <1>5. op' \in Op
    BY <1>1, <1>2, <1>3 DEF Op
  <1>6. Types'
    BY <1>1, <1>4, <1>5 DEF IInv, Types
  <1>7. repos' = repos
    BY <1>3 DEF repos
  <1>8. reported' = repos
    <2>1. CASE preloads # {}
      BY <1>2, <1>4, <2>1 DEF reported, repos
    <2>2. CASE preloads = {}
      <3>1. repos = {}
        BY <2>2, ReposAt DEF IInv
      <3> QED
        BY <1>2, <1>4, <2>2, <3>1 DEF reported
    <2> QED
      BY <2>1, <2>2
  <1> QED
    BY <1>1, <1>2, <1>3, <1>4, <1>6, <1>7, <1>8, DbStep

\* A build that lands covers no less; passes that have read already are marked.
LEMMA LandStep == IInv /\ landBuild => IInv'
  <1> SUFFICES ASSUME IInv, landBuild PROVE IInv'
    OBVIOUS
  <1>1. /\ op.kind = "deploy" /\ op \in Op /\ op.s \in Schema /\ op' = [op EXCEPT !.kind = "unlock"]
        /\ loop' = [w \in Worker |-> [loop[w] EXCEPT !.landed = Removing(w)]]
        /\ UNCHANGED <<preloads, released, store, inUse, placed>>
    BY DEF landBuild, IInv, Types
  <1>2. PICK c \in Challenge, g \in Gens : serves' = [serves EXCEPT ![op.s][c] = g]
    BY DEF landBuild
  <1>3. ASSUME NEW w \in Worker
        PROVE  /\ loop'[w] \in Pass /\ loop'[w].pc = loop[w].pc /\ loop'[w].cur = loop[w].cur
               /\ loop'[w].doomed = loop[w].doomed /\ loop'[w].landed = Removing(w)
    <2>1. loop[w] \in Pass /\ Removing(w) \in BOOLEAN
      <3>1. Removing(w) \in BOOLEAN
        BY SMT DEF Removing
      <3> QED
        BY <3>1 DEF IInv, Types
    <2>2. loop'[w] = [loop[w] EXCEPT !.landed = Removing(w)]
      BY <1>1
    <2> QED
      BY <2>1, <2>2 DEF Pass
  <1>4. loop' \in [Worker -> Pass]
    BY <1>1, <1>3
  <1>5. op' \in Op /\ op'.kind = "unlock" /\ op'.s = op.s /\ op'.before = op.before /\ op'.known = op.known
    BY <1>1 DEF Op
  <1>6. /\ serves' \in [Schema -> [Challenge -> Gens \cup {0}]]
        /\ \A s \in Schema, d \in Challenge : serves'[s][d] = serves[s][d] \/ serves'[s][d] \in Gens
    BY <1>1, <1>2 DEF IInv, Types
  <1>7. Types'
    BY <1>1, <1>4, <1>5, <1>6 DEF IInv, Types
  <1>8. repos \subseteq repos'
    <2>1. ASSUME NEW d \in repos PROVE d \in repos'
      <3>1. PICK s \in preloads : d \in Challenge /\ serves[s][d] \in Gens
        BY ReposAt DEF IInv
      <3>2. s \in preloads' /\ serves'[s][d] \in Gens
        BY <1>1, <1>6, <3>1 DEF IInv, Types
      <3> QED
        BY <1>7, <3>1, <3>2, ReposAtNext
    <2> QED
      BY <2>1
  <1>9. reported' = reported /\ bound' \subseteq bound
    <2>1. reported' = reported
      BY <1>5 DEF reported
    <2>2. ASSUME NEW r \in bound' PROVE r \in bound
      <3>1. CASE r \in placed
        BY <3>1 DEF bound
      <3>2. CASE r \notin placed
        <4>1. PICK w \in Worker : loop'[w].pc = "pulling" /\ r = imageRepo(loop'[w].cur)
          BY <1>1, <2>2, <3>2 DEF bound
        <4> QED
          BY <1>3, <4>1 DEF bound
      <3> QED
        BY <3>1, <3>2
    <2> QED
      BY <2>1, <2>2
  <1>10. Covered'
    BY <1>1, <1>5, <1>8, <1>9 DEF IInv, Covered
  <1>11. ASSUME NEW w \in Worker PROVE Doomed(w)'
    <2>1. Doomed(w)
      BY DEF IInv
    <2> QED
      BY <1>3, <2>1 DEF Doomed, Removing
  <1>12. UsedTagged'
    BY <1>1 DEF IInv, UsedTagged
  <1> QED
    BY <1>7, <1>10, <1>11, <1>12 DEF IInv

\* What a dropped build covered will be reported.
LEMMA DropStep == IInv /\ dropBuild => IInv'
  <1> SUFFICES ASSUME IInv, dropBuild PROVE IInv'
    OBVIOUS
  <1>1. /\ op.kind \in {"delete", "drop"} /\ op \in Op /\ op.s \in Schema
        /\ op' = (IF op.kind = "drop" THEN [op EXCEPT !.kind = "unlock"] ELSE op)
        /\ UNCHANGED <<preloads, released, store, inUse, loop, placed>>
    BY DEF dropBuild, IInv, Types
  <1>2. PICK c \in Challenge : serves' = [serves EXCEPT ![op.s][c] = 0]
    BY DEF dropBuild
  <1>3. /\ op' \in Op /\ op'.kind \in {"delete", "unlock"} /\ op'.s = op.s
        /\ op'.before = op.before /\ op'.known = op.known
    BY <1>1 DEF Op
  <1>4. /\ serves' \in [Schema -> [Challenge -> Gens \cup {0}]]
        /\ \A s \in Schema, d \in Challenge : serves'[s][d] \in {serves[s][d], 0}
    BY <1>1, <1>2 DEF IInv, Types
  <1>5. Types'
    BY <1>1, <1>3, <1>4 DEF IInv, Types
  <1>6. repos' \subseteq repos
    <2>1. ASSUME NEW d \in repos' PROVE d \in repos
      <3>1. PICK s \in preloads' : d \in Challenge /\ serves'[s][d] \in Gens
        BY <1>5, ReposAtNext
      <3>2. s \in preloads /\ s \in Schema /\ 0 \notin Gens
        BY <1>1, PreloadAssumption DEF IInv, Types
      <3> QED
        BY <1>4, <3>1, <3>2, ReposAt DEF IInv
    <2> QED
      BY <2>1
  <1>7. reported' = reported /\ repos \subseteq reported /\ bound \subseteq repos \cup released \cup reported
    BY <1>1, <1>3 DEF IInv, Covered, reported
  <1>8. launched(Schema)' \subseteq launched(Schema)
    BY <1>4, <1>5, LaunchedFewer DEF IInv
  <1> QED
    BY <1>1, <1>3, <1>5, <1>6, <1>7, <1>8, DbStep

\* So will what a deleted schema covered.
LEMMA DeleteStep == IInv /\ DeleteSchema => IInv'
  <1> SUFFICES ASSUME IInv, DeleteSchema PROVE IInv'
    OBVIOUS
  <1>1. /\ op.kind = "delete" /\ op \in Op /\ op' = [op EXCEPT !.kind = "unlock"] /\ preloads' = preloads \ {op.s}
        /\ UNCHANGED <<serves, released, store, inUse, loop, placed>>
    BY DEF DeleteSchema, IInv, Types
  <1>2. op' \in Op /\ op'.kind = "unlock" /\ op'.s = op.s /\ op'.before = op.before /\ op'.known = op.known
    BY <1>1 DEF Op
  <1>3. Types'
    BY <1>1, <1>2 DEF IInv, Types
  <1>4. reported' = reported /\ repos \subseteq reported /\ bound \subseteq repos \cup released \cup reported
    BY <1>1, <1>2 DEF IInv, Covered, reported
  <1> QED
    BY <1>1, <1>2, <1>3, <1>4, LaunchedSame, DbStep

\* A new preload covers no less.
LEMMA AddStep == IInv /\ AddPreload => IInv'
  <1> SUFFICES ASSUME IInv, AddPreload PROVE IInv'
    OBVIOUS
  <1>1. /\ op.kind = "add" /\ op \in Op /\ op.s \in Schema /\ op' = [op EXCEPT !.kind = "unlock"]
        /\ preloads \subseteq preloads' /\ preloads' \subseteq Schema
        /\ UNCHANGED <<serves, released, store, inUse, loop, placed>>
    BY DEF AddPreload, IInv, Types
  <1>2. op' \in Op /\ op'.kind = "unlock" /\ op'.s = op.s /\ op'.before = op.before /\ op'.known = op.known
    BY <1>1 DEF Op
  <1>3. Types'
    BY <1>1, <1>2 DEF IInv, Types
  <1>4. repos \subseteq repos'
    BY <1>1, <1>3, ReposAt, ReposAtNext DEF IInv
  <1>5. reported' = reported /\ bound \subseteq repos \cup released \cup reported
    BY <1>2 DEF IInv, Covered, reported
  <1> QED
    BY <1>1, <1>2, <1>3, <1>4, <1>5, LaunchedSame, DbStep

\* What a removed preload covered will be reported.
LEMMA UnpreloadStep == IInv /\ RemovePreload => IInv'
  <1> SUFFICES ASSUME IInv, RemovePreload PROVE IInv'
    OBVIOUS
  <1>1. /\ op.kind = "remove" /\ op \in Op /\ op.s \in Schema /\ preloads' = preloads \ {op.s}
        /\ op' = [op EXCEPT !.kind = "unlock", !.before = wanted, !.known = TRUE]
        /\ UNCHANGED <<serves, released, store, inUse, loop, placed>>
    BY DEF RemovePreload, IInv, Types
  <1>2. wanted \subseteq Image
    BY SMT DEF wanted, launched
  <1>3. op' \in Op /\ op'.kind = "unlock" /\ op'.s = op.s /\ op'.before = wanted /\ op'.known
    BY <1>1, <1>2 DEF Op
  <1>4. Types'
    BY <1>1, <1>3 DEF IInv, Types
  <1>5. reported' = repos /\ bound \subseteq repos \cup released
    BY <1>1, <1>3 DEF IInv, Covered, reported, repos
  <1> QED
    BY <1>1, <1>3, <1>4, <1>5, LaunchedSame, DbStep

\* unlockUpdates reports what is no longer covered.
LEMMA UnlockStep == IInv /\ unlockUpdates => IInv'
  <1> SUFFICES ASSUME IInv, unlockUpdates PROVE IInv'
    OBVIOUS
  <1>1. /\ op.kind = "unlock" /\ preloading' = (preloads # {}) /\ op' = NoOp
        /\ released' = (released \cup IF op.known THEN {imageRepo(i) : i \in releasedImages(op.before)} ELSE {}) \ repos
        /\ UNCHANGED <<serves, preloads, store, inUse, loop, placed>>
    BY DEF unlockUpdates
  <1>2. NoOp \in Op /\ NoOp.kind = "none" /\ ~NoOp.known
    BY DEF NoOp, Op
  <1>3. Types'
    BY <1>1, <1>2 DEF IInv, Types
  <1>4. launched(Schema)' = launched(Schema) /\ wanted' = wanted
    BY SMT, <1>1 DEF launched, wanted
  <1>5. repos' = repos
    BY <1>4 DEF repos
  <1>6. ASSUME NEW r \in reported \ repos PROVE r \in released'
    <2>1. PICK i \in op.before : r = imageRepo(i) /\ op.known
      BY <1>6 DEF reported
    <2>2. i \notin wanted
      BY <1>6, <2>1 DEF repos
    <2>3. i \in releasedImages(op.before)
      BY <1>6, <2>1, <2>2 DEF releasedImages
    <2> QED
      BY <1>1, <1>6, <2>1, <2>3
  <1>7. bound \subseteq (repos \cup released \cup reported)'
    <2>1. bound \subseteq repos \cup released \cup reported
      BY DEF IInv, Covered
    <2>2. \A r \in released : r \in repos \/ r \in released'
      BY <1>1
    <2> QED
      BY <1>5, <1>6, <2>1, <2>2
  <1> QED
    BY <1>1, <1>2, <1>3, <1>4, <1>7, DbStep

-----------------------------------------------------------------------------
(* Containers, outages and the rest of the fleet                           *)

\* A step outside database and passes has only the stores to answer for.
LEMMA RestKept ==
    ASSUME IInv, UNCHANGED <<database, loop, placed>>, UsedTagged', store' \in [Worker -> SUBSET Tag],
           inUse' \in [Worker -> SUBSET Image]
    PROVE  IInv'
  <1>1. launched(Schema)' = launched(Schema) /\ wanted' = wanted
    BY SMT DEF database, wanted, launched
  <1>2. Types'
    BY DEF IInv, Types, database
  <1>3. repos' = repos /\ reported' = reported /\ bound' = bound
    BY <1>1 DEF database, repos, reported, bound
  <1>4. Covered'
    BY <1>3 DEF IInv, Covered, database
  <1>5. ASSUME NEW w \in Worker PROVE Doomed(w)'
    <2>1. Doomed(w)
      BY DEF IInv
    <2> QED
      BY <1>1, <2>1 DEF Doomed, Removing
  <1> QED
    BY <1>2, <1>4, <1>5 DEF IInv

\* A container starts with its image pulled.
LEMMA LaunchStep == ASSUME IInv, NEW w \in Worker, Launch(w) PROVE IInv'
  <1>1. PICK i \in launched(Schema) : /\ store' = [store EXCEPT ![w] = @ \cup {tagOf(i)}]
                                      /\ inUse' = [inUse EXCEPT ![w] = @ \cup {i}]
    BY DEF Launch
  <1>2. i \in Image /\ UNCHANGED <<database, loop, placed>>
    BY LaunchedIs DEF Launch
  <1>3. tagOf(i) \in Tag /\ tagOf(i).image = i
    BY <1>2 DEF tagOf, Tag
  <1>4. /\ store' \in [Worker -> SUBSET Tag] /\ inUse' \in [Worker -> SUBSET Image]
        /\ store'[w] = store[w] \cup {tagOf(i)} /\ inUse'[w] = inUse[w] \cup {i}
        /\ \A v \in Worker \ {w} : store'[v] = store[v] /\ inUse'[v] = inUse[v]
    BY <1>1, <1>2, <1>3 DEF IInv, Types
  <1>5. ASSUME NEW v \in Worker, NEW j \in inUse'[v] PROVE \E t \in store'[v] : t.image = j
    <2>1. CASE v = w /\ j = i
      BY <1>3, <1>4, <2>1
    <2>2. CASE ~(v = w /\ j = i)
      <3>1. j \in inUse[v] /\ store[v] \subseteq store'[v]
        BY <1>4, <1>5, <2>2
      <3> QED
        BY <3>1 DEF IInv, UsedTagged
    <2> QED
      BY <2>1, <2>2
  <1>6. UsedTagged'
    BY <1>5 DEF UsedTagged
  <1> QED
    BY <1>2, <1>4, <1>6, RestKept

\* A container that stops needs no tag.
LEMMA StopStep == ASSUME IInv, NEW w \in Worker, Stop(w) PROVE IInv'
  <1>1. PICK i \in inUse[w] : inUse' = [inUse EXCEPT ![w] = @ \ {i}]
    BY DEF Stop
  <1>2. UNCHANGED <<database, store, loop, placed>>
    BY DEF Stop
  <1>3. inUse' \in [Worker -> SUBSET Image] /\ \A v \in Worker : inUse'[v] \subseteq inUse[v]
    BY <1>1 DEF IInv, Types
  <1>4. UsedTagged' /\ store' \in [Worker -> SUBSET Tag]
    BY <1>2, <1>3 DEF IInv, UsedTagged, Types
  <1> QED
    BY <1>2, <1>3, <1>4, RestKept

\* A step that changes none of it keeps the invariant.
LEMMA StillStep == IInv /\ UNCHANGED <<database, store, inUse, loop, placed>> => IInv'
  <1> SUFFICES ASSUME IInv, UNCHANGED <<database, store, inUse, loop, placed>> PROVE IInv'
    OBVIOUS
  <1>1. UsedTagged' /\ store' \in [Worker -> SUBSET Tag] /\ inUse' \in [Worker -> SUBSET Image]
    BY DEF IInv, UsedTagged, Types
  <1> QED
    BY <1>1, RestKept

\* The daemon starts with idle passes and nothing placed.
LEMMA InitIInv == Init => IInv
  <1> SUFFICES ASSUME Init PROVE IInv
    OBVIOUS
  <1>1. /\ NoOp \in Op /\ NoOp.kind = "none" /\ ~NoOp.known
        /\ Idle \in Pass /\ Idle.pc = "wait" /\ Idle.doomed = {}
    BY DEF NoOp, Op, Idle, Pass
  <1>2. Types
    <2>1. serves \in [Schema -> [Challenge -> Gens \cup {0}]]
      BY PreloadAssumption DEF Init
    <2>2. preloads \subseteq Schema
      BY PreloadAssumption DEF Init
    <2> QED
      BY <1>1, <2>1, <2>2 DEF Init, Types
  <1>3. Covered
    <2>1. bound = {}
      BY <1>1 DEF Init, bound
    <2> QED
      BY <1>1, <2>1 DEF Init, Covered
  <1>4. ASSUME NEW w \in Worker PROVE Doomed(w)
    <2>1. loop[w] = Idle
      BY DEF Init
    <2> QED
      BY <1>1, <2>1 DEF Doomed
  <1>5. UsedTagged
    BY DEF Init, UsedTagged
  <1> QED
    BY <1>2, <1>3, <1>4, <1>5 DEF IInv

\* Every step keeps the invariant.
LEMMA NextIInv == IInv /\ [Next]_vars => IInv'
  <1> SUFFICES ASSUME IInv, [Next]_vars PROVE IInv'
    OBVIOUS
  <1>1. CASE Operation
    BY <1>1, LandStep, DropStep, DeleteStep, AddStep, UnpreloadStep, UnlockStep DEF Operation
  <1>2. CASE OthersPull \/ OthersDone
    BY <1>2, StillStep DEF OthersPull, OthersDone
  <1>3. ASSUME NEW w \in Worker, WorkerOut(w) \/ WorkerBack(w) \/ RemoveWorker(w) PROVE IInv'
    BY <1>3, StillStep DEF WorkerOut, WorkerBack, RemoveWorker
  <1>4. CASE UNCHANGED vars
    BY <1>4, StillStep DEF vars, database
  <1> QED
    BY <1>1, <1>2, <1>3, <1>4, LockStep, LoopStep, LaunchStep, StopStep DEF Next

\* The invariant of preloading holds throughout.
THEOREM PreloadInductive == Spec => []IInv
  <1> QED
    BY InitIInv, NextIInv, PTL DEF Spec

\* An image a container uses keeps a tag, through every order of deletes, stale marks,
\* launches and failed calls.
THEOREM UsedStaysTagged == Spec => []UsedTagged
  <1>1. IInv => UsedTagged
    BY DEF IInv
  <1> QED
    BY <1>1, PreloadInductive, PTL

\* Whatever preloading put on a worker is of a repository that is covered, or of which
\* unlockUpdates reported an image, even when the pull outlived the operation.
THEOREM LeavingIsReported == Spec => []CoverageReported
  <1>1. IInv => CoverageReported
    <2> SUFFICES ASSUME IInv, op = NoOp PROVE placed \subseteq repos \cup released
      BY DEF CoverageReported
    <2>1. reported = {}
      BY DEF reported, NoOp
    <2> QED
      BY <2>1 DEF IInv, Covered, bound
  <1> QED
    BY <1>1, PreloadInductive, PTL

\* Only removals take a tag off a worker, and only one that a pass doomed.
LEMMA RemovedIsDoomed ==
    ASSUME IInv, [Next]_vars, NEW w \in Worker, NEW t \in store[w] \ store'[w]
    PROVE  t \in loop[w].doomed
  <1>1. store \in [Worker -> SUBSET Tag] /\ ~UNCHANGED store /\ ~(\A v \in Worker : store[v] \subseteq store'[v])
    BY DEF IInv, Types
  <1>2. ASSUME NEW v \in Worker, loop[v].doomed # {},
               store' = [store EXCEPT ![v] = @ \ {CHOOSE u \in loop[v].doomed : TRUE}]
        PROVE  t \in loop[w].doomed
    <2>1. PICK u \in loop[v].doomed : u = CHOOSE x \in loop[v].doomed : TRUE
      BY <1>2
    <2>2. v = w /\ t = u
      BY <1>1, <1>2, <2>1
    <2> QED
      BY <2>1, <2>2
  <1>3. ASSUME NEW v \in Worker, removeWorkerImage(v) PROVE t \in loop[w].doomed
    BY <1>1, <1>2, <1>3 DEF removeWorkerImage
  <1>4. ASSUME NEW v \in Worker, unmark(v) PROVE t \in loop[w].doomed
    <2>1. loop[v].doomed # {}
      BY <1>4 DEF unmark, At, IInv, Doomed
    <2>2. store' = [store EXCEPT ![v] = @ \ {CHOOSE u \in loop[v].doomed : TRUE}]
      BY <1>1, <1>4 DEF unmark
    <2> QED
      BY <1>2, <2>1, <2>2
  <1>5. ASSUME NEW v \in Worker, pullImage(v) \/ markStale(v) \/ Launch(v) PROVE FALSE
    <2>1. ASSUME NEW x, store' = [store EXCEPT ![v] = @ \cup {x}] PROVE FALSE
      BY <1>1, <2>1
    <2>2. CASE pullImage(v)
      BY <1>1, <2>1, <2>2 DEF pullImage
    <2>3. CASE markStale(v)
      BY <1>1, <2>1, <2>3 DEF markStale
    <2>4. CASE Launch(v)
      BY <2>1, <2>4 DEF Launch
    <2> QED
      BY <1>5, <2>2, <2>3, <2>4
  <1>6. ASSUME NEW v \in Worker, preloadLoop(v) PROVE t \in loop[w].doomed
    <2>1. CASE preloadPass(v) \/ workerImages(v) \/ acquirePreloadPull(v) \/ recheck(v) \/ removeSuperseded(v)
      BY <1>1, <2>1 DEF preloadPass, workerImages, acquirePreloadPull, recheck, removeSuperseded
    <2>2. CASE passEnds(v) \/ preloadLoopEnds(v)
      BY <1>1, <2>2 DEF passEnds, preloadLoopEnds
    <2> QED
      BY <1>3, <1>4, <1>5, <1>6, <2>1, <2>2 DEF preloadLoop
  <1>7. ~Operation
    BY <1>1 DEF Operation, landBuild, dropBuild, DeleteSchema, AddPreload, RemovePreload, unlockUpdates
  <1>8. \A s \in Schema, k \in {"deploy", "drop", "delete", "add", "remove"} : ~lockUpdates(k, s)
    BY <1>1 DEF lockUpdates
  <1>9. ASSUME NEW v \in Worker PROVE ~Stop(v) /\ ~WorkerOut(v) /\ ~WorkerBack(v) /\ ~RemoveWorker(v)
    BY <1>1 DEF Stop, WorkerOut, WorkerBack, RemoveWorker
  <1>10. ~OthersPull /\ ~OthersDone /\ ~UNCHANGED vars
    BY <1>1 DEF OthersPull, OthersDone, vars
  <1> QED
    BY <1>5, <1>6, <1>7, <1>8, <1>9, <1>10 DEF Next

\* A pass never deletes an image that some build launches, unless the build landed after
\* removeSuperseded read what is launched: builds only land under updateMu, and what is
\* dropped in the meantime makes fewer images launched, never more.
THEOREM LaunchedIsKept == Spec => NamedKept
  <1>1. IInv /\ [Next]_vars =>
        [\A w \in Worker : \A t \in store[w] \ store'[w] :
            ~t.stale /\ t.image \in launched(Schema) => loop[w].landed]_vars
    <2> SUFFICES ASSUME IInv, [Next]_vars, NEW w \in Worker, NEW t \in store[w] \ store'[w],
                        ~t.stale, t.image \in launched(Schema)
                 PROVE  loop[w].landed
      OBVIOUS
    <2>1. t \in loop[w].doomed
      BY RemovedIsDoomed
    <2> QED
      BY <2>1 DEF IInv, Doomed
  <1> QED
    BY <1>1, PreloadInductive, PTL DEF Spec, NamedKept

=============================================================================
