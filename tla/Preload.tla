------------------------------ MODULE Preload ------------------------------
(***************************************************************************)
(* Preloading (cork/preload.go): every worker's loop pulls the images the  *)
(* preloaded schemas launch and removes what no build launches any more,   *)
(* while operations land and drop builds under updateMu, launches run      *)
(* containers, and workers come and go.  The loops read the database       *)
(* without a lock.                                                         *)
(*                                                                         *)
(* A worker stands for one of its conns: one that is replaced is gone for  *)
(* good and its successor is another worker.  Kicks, the retry timer and   *)
(* the sweep only decide when a pass runs: here a pass may always run.     *)
(***************************************************************************)
EXTENDS Naturals, FiniteSetsExt

CONSTANTS
    Worker, Schema, Challenge,
    Deployed,                   \* the schemas with builds to begin with
    Gens,                       \* generations of a challenge, from 1
    preloadPulls,               \* the fleet's preload pull slots
    MaxOps, MaxFaults           \* bounds: operations; failed calls and outages

ASSUME PreloadAssumption ==
    /\ Deployed \subseteq Schema /\ 1 \in Gens
    /\ Gens \subseteq Nat \ {0} /\ preloadPulls \in Nat \ {0} /\ {MaxOps, MaxFaults} \subseteq Nat

VARIABLES
    serves,         \* builds: the generation a schema's build of a challenge is at, 0 for none
    preloads,       \* the preloads table
    preloading,     \* m.preloading
    op,             \* the operation that holds updateMu
    released,       \* repositories with an image reported as no longer covered
    reach, gone,    \* per worker: reachable; its conn was closed
    store,          \* per worker: the tags its daemon holds
    inUse,          \* per worker: images containers use
    loop,           \* per worker: its preloader (landed is history: a build landed since its
                    \* pass read what is superseded)
    slots,          \* preload pulls running
    others,         \* of which by the rest of the fleet
    left,           \* operations and faults still to come
    \* history
    placed          \* repositories of the images preloading has put on a worker

vars == <<serves, preloads, preloading, op, released, reach, gone, store, inUse, loop, slots, others, left, placed>>

\* An image is <<challenge, generation>>: the challenge is its repository.  A tag says
\* whether it is the stale one.
Image == Challenge \X Gens
Tag == [image : Image, stale : BOOLEAN]
tagOf(i) == [image |-> i, stale |-> FALSE]
staleTag(t) == [t EXCEPT !.stale = TRUE]
imageRepo(i) == i[1]

NoOp == [kind |-> "none", s |-> "", before |-> {}, known |-> FALSE]
Idle == [pc |-> "wait", held |-> {}, pulls |-> {}, tried |-> {}, cur |-> <<>>, doomed |-> {},
         landed |-> FALSE]

\* preloadSets: what the database says, when any schema is preloaded.
launched(S) == {<<c, serves[s][c]>> : s \in S, c \in Challenge} \cap Image
wanted == launched(preloads)
named == IF preloads = {} THEN {} ELSE launched(Schema)
repos == {imageRepo(i) : i \in wanted}

\* What is deployed may be preloaded already.
Init ==
    /\ serves = [s \in Schema |-> [c \in Challenge |-> IF s \in Deployed THEN 1 ELSE 0]]
    /\ preloads \in SUBSET Deployed /\ preloading = (preloads # {})
    /\ op = NoOp /\ released = {} /\ placed = {}
    /\ reach = [w \in Worker |-> TRUE] /\ gone = [w \in Worker |-> FALSE]
    /\ store = [w \in Worker |-> {}] /\ inUse = [w \in Worker |-> {}]
    /\ loop = [w \in Worker |-> Idle] /\ slots = 0 /\ others = 0
    /\ left = [op |-> MaxOps, fault |-> MaxFaults]

database == <<serves, preloads, preloading, op, released>>
workers == <<reach, gone, others>>
At(w, pc) == loop[w].pc = pc
Goto(w, pc) == loop' = [loop EXCEPT ![w].pc = pc]
PassEnds(w) == loop' = [loop EXCEPT ![w] = Idle]
Removing(w) == loop[w].pc \in {"removing", "mark", "unmark"}
Fault == left.fault > 0 /\ left' = [left EXCEPT !.fault = @ - 1]

-----------------------------------------------------------------------------
\* Mutant: an image some build still launches is not reported.
releasedImagesUnnamed(before) == before \ (wanted \cup named \cup {i \in Image : imageRepo(i) \in repos})

\* What preloading wanted and now neither wants nor removes.
releasedImages(before) ==
    {i \in before : i \notin wanted /\ ~(i \notin named /\ imageRepo(i) \in repos)}

lockUpdates(kind, s) ==
    /\ op = NoOp /\ left.op > 0 /\ left' = [left EXCEPT !.op = @ - 1]
    /\ op' = [kind |-> kind, s |-> s, before |-> IF preloading THEN wanted ELSE {}, known |-> preloading]
    /\ UNCHANGED <<serves, preloads, preloading, released, workers, store, inUse, loop, slots, placed>>

\* An update or a hand-over lands a build of the schema.
landBuild ==
    /\ op.kind = "deploy"
    /\ \E c \in Challenge, g \in Gens : serves' = [serves EXCEPT ![op.s][c] = g] /\ serves' # serves
    /\ op' = [op EXCEPT !.kind = "unlock"] /\ loop' = [w \in Worker |-> [loop[w] EXCEPT !.landed = Removing(w)]]
    /\ UNCHANGED <<preloads, preloading, released, workers, store, inUse, slots, left, placed>>

\* DeleteSchema, and a converge that drops a challenge, take builds down one by one.
dropBuild ==
    /\ op.kind \in {"delete", "drop"}
    /\ \E c \in Challenge : serves[op.s][c] # 0 /\ serves' = [serves EXCEPT ![op.s][c] = 0]
    /\ op' = IF op.kind = "drop" THEN [op EXCEPT !.kind = "unlock"] ELSE op
    /\ UNCHANGED <<preloads, preloading, released, workers, store, inUse, loop, slots, left, placed>>

\* Once they are down the preload goes with its schema.
DeleteSchema ==
    /\ op.kind = "delete" /\ \A c \in Challenge : serves[op.s][c] = 0
    /\ preloads' = preloads \ {op.s} /\ op' = [op EXCEPT !.kind = "unlock"]
    /\ UNCHANGED <<serves, preloading, released, workers, store, inUse, loop, slots, left, placed>>

AddPreload ==
    /\ op.kind = "add"
    /\ preloads' = IF \E c \in Challenge : serves[op.s][c] # 0 THEN preloads \cup {op.s} ELSE preloads
    /\ op' = [op EXCEPT !.kind = "unlock"]
    /\ UNCHANGED <<serves, preloading, released, workers, store, inUse, loop, slots, left, placed>>

\* RemovePreload reads what was covered itself, and unlockUpdates reports for it.
RemovePreload ==
    /\ op.kind = "remove"
    /\ preloads' = preloads \ {op.s}
    /\ op' = [op EXCEPT !.kind = "unlock", !.before = wanted, !.known = TRUE]
    /\ UNCHANGED <<serves, preloading, released, workers, store, inUse, loop, slots, left, placed>>

unlockUpdates ==
    /\ op.kind = "unlock"
    /\ preloading' = (preloads # {})
    /\ released' = (released \cup IF op.known THEN {imageRepo(i) : i \in releasedImages(op.before)} ELSE {})
                     \ repos
    /\ op' = NoOp
    /\ UNCHANGED <<serves, preloads, workers, store, inUse, loop, slots, left, placed>>

Operation ==
    \/ landBuild \/ dropBuild \/ DeleteSchema \/ AddPreload \/ RemovePreload \/ unlockUpdates

-----------------------------------------------------------------------------
preloadable(w) == ~gone[w] /\ reach[w]

\* A pass begins: it reads what to preload, if it has anything to do.
preloadPass(w) ==
    /\ At(w, "wait") /\ preloadable(w) /\ preloads # {}
    /\ loop' = [loop EXCEPT ![w].pc = "list", ![w].pulls = wanted]
    /\ UNCHANGED <<database, workers, store, inUse, slots, left, placed>>

\* A call to the daemon fails: at an unreachable worker always.
CallFails(w) == IF reach[w] THEN Fault ELSE UNCHANGED left

\* It lists what the worker holds; what is missing will be pulled.
workerImages(w) ==
    /\ At(w, "list")
    /\ \/ /\ reach[w] /\ UNCHANGED left
          /\ loop' = [loop EXCEPT ![w].pc = "pulls", ![w].held = store[w],
                                  ![w].pulls = {i \in @ : tagOf(i) \notin store[w]}]
       \/ CallFails(w) /\ PassEnds(w)
    /\ UNCHANGED <<database, workers, store, inUse, slots, placed>>

slotFree == slots < preloadPulls

\* The next pull, in any order, takes one of the fleet's slots; a conn that has gone
\* while it waits ends the pass.
acquirePreloadPull(w) ==
    /\ At(w, "pulls") /\ loop[w].pulls # {}
    /\ \/ /\ slotFree /\ slots' = slots + 1
          /\ \E i \in loop[w].pulls :
                loop' = [loop EXCEPT ![w].pc = "slot", ![w].cur = i, ![w].pulls = @ \ {i}]
       \/ gone[w] /\ PassEnds(w) /\ UNCHANGED slots
    /\ UNCHANGED <<database, workers, store, inUse, left, placed>>

\* Mutant: a pass that stops keeps its slot.
recheckLeaks(w) ==
    /\ At(w, "slot")
    /\ \/ ~preloadable(w) /\ PassEnds(w) /\ UNCHANGED slots
       \/ /\ preloadable(w) /\ loop[w].cur \notin wanted
          /\ loop' = [loop EXCEPT ![w].pc = "pulls", ![w].cur = <<>>] /\ slots' = slots - 1
       \/ preloadable(w) /\ loop[w].cur \in wanted /\ Goto(w, "pulling") /\ UNCHANGED slots
    /\ UNCHANGED <<database, workers, store, inUse, left, placed>>

\* With the slot held, the worker and what to preload are looked at again; what cannot
\* be read ends the pass.
recheck(w) ==
    /\ At(w, "slot")
    /\ \/ ~preloadable(w) /\ PassEnds(w) /\ slots' = slots - 1 /\ UNCHANGED left
       \/ /\ preloadable(w) /\ loop[w].cur \notin wanted /\ UNCHANGED left
          /\ loop' = [loop EXCEPT ![w].pc = "pulls", ![w].cur = <<>>] /\ slots' = slots - 1
       \/ preloadable(w) /\ loop[w].cur \in wanted /\ Goto(w, "pulling") /\ UNCHANGED <<slots, left>>
       \/ preloadable(w) /\ Fault /\ PassEnds(w) /\ slots' = slots - 1
    /\ UNCHANGED <<database, workers, store, inUse, placed>>

\* A pull ends, either way; the pass goes on to the next.
pullImage(w) ==
    /\ At(w, "pulling") /\ slots' = slots - 1
    /\ loop' = [loop EXCEPT ![w].pc = "pulls", ![w].cur = <<>>, ![w].tried = @ \cup {loop[w].cur}]
    /\ \/ /\ reach[w] /\ UNCHANGED left
          /\ store' = [store EXCEPT ![w] = @ \cup {tagOf(loop[w].cur)}]
          /\ placed' = placed \cup {imageRepo(loop[w].cur)}
       \/ CallFails(w) /\ UNCHANGED <<store, placed>>
    /\ UNCHANGED <<database, workers, inUse>>

\* Mutant: every build of a schema that is not preloaded may lose its image.
supersededUnwanted(held, tried) ==
    LET waiting == {imageRepo(i) : i \in {j \in wanted : tagOf(j) \notin held /\ j \notin tried}}
    IN  {t \in held : /\ t.stale \/ t.image \notin wanted
                      /\ imageRepo(t.image) \in repos \ waiting}

\* Mutant: a stale tag is left to its fate.
supersededFresh(held, tried) ==
    LET waiting == {imageRepo(i) : i \in {j \in wanted : tagOf(j) \notin held /\ j \notin tried}}
    IN  {t \in held : /\ ~t.stale /\ t.image \notin named
                      /\ imageRepo(t.image) \in repos \ waiting}

\* The tags held, of preloaded challenges, that no current build launches; a
\* repository waits for a wanted image the pass came too early to try.
superseded(held, tried) ==
    LET waiting == {imageRepo(i) : i \in {j \in wanted : tagOf(j) \notin held /\ j \notin tried}}
    IN  {t \in held : /\ t.stale \/ t.image \notin named
                      /\ imageRepo(t.image) \in repos \ waiting}

\* After the pulls what is superseded is read afresh, if it can be.
removeSuperseded(w) ==
    /\ At(w, "pulls") /\ loop[w].pulls = {}
    /\ \/ /\ loop' = [loop EXCEPT ![w] = [Idle EXCEPT !.pc = "removing",
                                                !.doomed = superseded(loop[w].held, loop[w].tried)]]
          /\ UNCHANGED left
       \/ Fault /\ PassEnds(w)
    /\ UNCHANGED <<database, workers, store, inUse, slots, placed>>

\* dockerd refuses to delete the last tag of an image that a container uses.
Refused(w, t) ==
    /\ t \in store[w] /\ t.image \in inUse[w]
    /\ \A u \in store[w] : u.image = t.image => u = t

\* A call of the removals fails: one that times out ends the pass, another error
\* leaves the tag for a later one.
CallFailsOn(w, t) ==
    /\ CallFails(w)
    /\ PassEnds(w) \/ loop' = [loop EXCEPT ![w].pc = "removing", ![w].doomed = @ \ {t}]

\* The next tag is deleted, or found in use.
removeWorkerImage(w) ==
    LET t == CHOOSE t \in loop[w].doomed : TRUE
        Rest(pc) == loop' = [loop EXCEPT ![w].pc = pc, ![w].doomed = IF pc = "mark" THEN @ ELSE @ \ {t}]
    IN  /\ At(w, "removing") /\ loop[w].doomed # {} /\ preloadable(w)
        /\ \/ /\ ~Refused(w, t) /\ Rest("removing")
              /\ store' = [store EXCEPT ![w] = @ \ {t}] /\ UNCHANGED left
           \/ /\ Refused(w, t) /\ Rest(IF t.stale THEN "removing" ELSE "mark") /\ UNCHANGED <<store, left>>
           \/ CallFailsOn(w, t) /\ UNCHANGED store
    /\ UNCHANGED <<database, workers, inUse, slots, placed>>

\* Mutant: the tag in use is taken off before the stale one is there.
markStaleAfter(w) ==
    LET t == CHOOSE t \in loop[w].doomed : TRUE
    IN  /\ At(w, "mark")
        /\ \/ /\ reach[w] /\ UNCHANGED left /\ Goto(w, "unmark")
              /\ store' = [store EXCEPT ![w] = @ \ {t}]
           \/ CallFailsOn(w, t) /\ UNCHANGED store
    /\ UNCHANGED <<database, workers, inUse, slots, placed>>

\* An image in use gets the stale tag, and then loses its own.
markStale(w) ==
    LET t == CHOOSE t \in loop[w].doomed : TRUE
    IN  /\ At(w, "mark")
        /\ \/ /\ reach[w] /\ UNCHANGED left
              /\ IF t \in store[w] THEN store' = [store EXCEPT ![w] = @ \cup {staleTag(t)}] /\ Goto(w, "unmark")
                 ELSE UNCHANGED store /\ loop' = [loop EXCEPT ![w].pc = "removing", ![w].doomed = @ \ {t}]
           \/ CallFailsOn(w, t) /\ UNCHANGED store
    /\ UNCHANGED <<database, workers, inUse, slots, placed>>

unmark(w) ==
    LET t == CHOOSE t \in loop[w].doomed : TRUE
    IN  /\ At(w, "unmark")
        /\ \/ /\ reach[w] /\ UNCHANGED left
              /\ store' = IF Refused(w, t) THEN store ELSE [store EXCEPT ![w] = @ \ {t}]
              /\ loop' = [loop EXCEPT ![w].pc = "removing", ![w].doomed = @ \ {t}]
           \/ CallFailsOn(w, t) /\ UNCHANGED store
    /\ UNCHANGED <<database, workers, inUse, slots, placed>>

\* The pass is over: nothing is left to remove, or the worker cannot be reached.
passEnds(w) ==
    /\ At(w, "removing") /\ (loop[w].doomed = {} \/ ~preloadable(w))
    /\ PassEnds(w)
    /\ UNCHANGED <<database, workers, store, inUse, slots, left, placed>>

\* The loop returns once its conn has gone.
preloadLoopEnds(w) ==
    /\ At(w, "wait") /\ gone[w] /\ Goto(w, "done")
    /\ UNCHANGED <<database, workers, store, inUse, slots, left, placed>>

preloadLoop(w) ==
    \/ preloadPass(w) \/ workerImages(w) \/ acquirePreloadPull(w) \/ recheck(w) \/ pullImage(w)
    \/ removeSuperseded(w) \/ removeWorkerImage(w) \/ markStale(w) \/ unmark(w) \/ passEnds(w)
    \/ preloadLoopEnds(w)

-----------------------------------------------------------------------------
\* Containers start, which pulls their image, and stop.
Launch(w) ==
    /\ preloadable(w)
    /\ \E i \in launched(Schema) :
        /\ i \notin inUse[w]
        /\ store' = [store EXCEPT ![w] = @ \cup {tagOf(i)}]
        /\ inUse' = [inUse EXCEPT ![w] = @ \cup {i}]
    /\ UNCHANGED <<database, workers, loop, slots, left, placed>>

Stop(w) ==
    /\ \E i \in inUse[w] : inUse' = [inUse EXCEPT ![w] = @ \ {i}]
    /\ UNCHANGED <<database, workers, store, loop, slots, left, placed>>

\* A worker drops out, comes back, or is removed.
WorkerOut(w) ==
    /\ reach[w] /\ Fault /\ reach' = [reach EXCEPT ![w] = FALSE]
    /\ UNCHANGED <<database, gone, others, store, inUse, loop, slots, placed>>

WorkerBack(w) ==
    /\ ~reach[w] /\ reach' = [reach EXCEPT ![w] = TRUE]
    /\ UNCHANGED <<database, gone, others, store, inUse, loop, slots, left, placed>>

RemoveWorker(w) ==
    /\ ~gone[w] /\ Fault /\ gone' = [gone EXCEPT ![w] = TRUE]
    /\ UNCHANGED <<database, reach, others, store, inUse, loop, slots, placed>>

\* The rest of the fleet pulls too.
OthersPull ==
    /\ slotFree /\ slots' = slots + 1 /\ others' = others + 1
    /\ UNCHANGED <<database, reach, gone, store, inUse, loop, left, placed>>

OthersDone ==
    /\ others > 0 /\ slots' = slots - 1 /\ others' = others - 1
    /\ UNCHANGED <<database, reach, gone, store, inUse, loop, left, placed>>

Next ==
    \/ \E s \in Schema, k \in {"deploy", "drop", "delete", "add", "remove"} : lockUpdates(k, s)
    \/ Operation \/ OthersPull \/ OthersDone
    \/ \E w \in Worker :
        \/ preloadLoop(w) \/ Launch(w) \/ Stop(w) \/ WorkerOut(w) \/ WorkerBack(w) \/ RemoveWorker(w)

\* An operation ends, and so does every call of a pass; the sweep gives every worker
\* another pass; a slot is granted in turn to the loops that wait for it.
Fairness ==
    /\ WF_vars(Operation) /\ WF_vars(OthersDone)
    /\ \A w \in Worker : SF_vars(preloadLoop(w))

Spec == Init /\ [][Next]_vars /\ Fairness

-----------------------------------------------------------------------------
\* removeSuperseded reads without a lock, and yet a pass never deletes an image some
\* current build launches, preloaded or not, unless that build landed after the reading.
NamedKept ==
    [][\A w \in Worker : \A t \in store[w] \ store'[w] :
        ~t.stale /\ t.image \in launched(Schema) => loop[w].landed]_vars

\* An image a container uses keeps a tag at every step of markStale, whatever starts,
\* stops or fails between its calls, so that it stays listed for a later pass.
UsedTagged == \A w \in Worker : \A i \in inUse[w] : \E t \in store[w] : t.image = i

\* What leaves preloading without being removed is reported (lockUpdates and
\* unlockUpdates): once no operation runs, an image that preloading put on a worker is
\* of a repository that is still covered, or of which an image was reported.
CoverageReported ==
    op = NoOp => placed \subseteq repos \cup released

\* Every reachable worker ends up with every image the preloaded schemas launch, however
\* pulls, outages, removals and operations fall: a slot is always given back.
PreloadedEverywhere ==
    \A w \in Worker : <>[](preloadable(w) => \A i \in wanted : tagOf(i) \in store[w])

\* Every reachable worker gets rid of superseded images of preloaded challenges once no
\* container uses them, those set aside as stale included.
SupersededGone ==
    \A w \in Worker :
        <>[](preloadable(w) => \A t \in store[w] :
                (t.stale \/ t.image \notin named) /\ imageRepo(t.image) \in repos => t.image \in inUse[w])
=============================================================================
