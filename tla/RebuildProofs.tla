--------------------------- MODULE RebuildProofs ---------------------------
(***************************************************************************)
(* Proofs about Rebuild, for every number of instances, workers, ports and *)
(* requests, and every set of instance counts.                             *)
(*                                                                         *)
(* The properties speak of what an operation has left when it has ended;   *)
(* the invariant says what holds at every stage of it.  Serves follows the *)
(* list of an update: an instance that is not on record with the build's   *)
(* generation is still listed.  Calm and Tally follow a converge: unless   *)
(* requests were under way when it looked, nobody else makes or deletes a  *)
(* row, so that what is kept, with what is yet to be launched, is the      *)
(* count.  Addresses follows the address of each instance through its      *)
(* restart.  Removed says what a removal has left.                         *)
(***************************************************************************)
EXTENDS Rebuild, FiniteSetTheorems, TLAPS

\* The leaves are Zenon's, but for arithmetic, records and the like.
USE Zenon

-----------------------------------------------------------------------------
(* The inductive invariant                                                 *)

Restarting == {"reassign", "relaunch", "remove"}
Updating == {"finalize", "list", "visit"} \cup Restarting
Counting == {"count", "surplus", "launching"}
Replacing == {"lock", "open", "generate", "clean", "release"}

Where == {"idle"} \cup Updating \cup Counting \cup Replacing
OpType == [at : Where,
           kind : {"none", "update", "converge", "delete"},
           todo : SUBSET Id, need : Nat, prev : Port \cup {NoPort}, count : Int, errs : BOOLEAN]

BuildType == [there : BOOLEAN, count : Int, gen : Int]
LaunchType == [at : {"idle", "reserve", "launch"}, gen : Int, by : {"op", "request"}]
Types ==
    /\ build \in BuildType
    /\ op \in OpType
    /\ DOMAIN row = Id /\ DOMAIN on = Id /\ DOMAIN port = Id /\ DOMAIN runs = Id
    /\ launch \in [Id -> LaunchType]
    /\ reads \in [Starter -> Int] /\ DOMAIN stops = Stopper
    /\ last \in Nat /\ DOMAIN was \subseteq Id
    /\ raced \in BOOLEAN /\ settled \in BOOLEAN
    /\ \A i \in Id : port[i] \in Port \cup {NoPort} /\ row[i] \in {"none", "open", "final"}

\* Ids are handed out in order.
Ids == \A i \in Id : (row[i] # "none" => i <= last) /\ (i \in DOMAIN was => i <= last)

\* Where an operation of which kind is, and what the build's count is there.
Stages ==
    /\ op.at \in Updating => op.kind = "update"
    /\ op.at \in Replacing => op.kind \in {"converge", "delete"}
    /\ op.at \in {"open", "generate"} => op.kind = "converge"
    /\ op.at \in Replacing /\ op.kind = "converge" => op.count \in Counts
    /\ op.at \in Restarting => build.count # DYNAMIC_INSTANCES
    /\ op.at \in Counting => op.kind \in {"update", "converge"} /\ build.count \in Nat
    /\ op.at \in Counting /\ op.kind = "update" => build.count > 0
    /\ op.at = "launching" => op.todo = {} /\ op.need > 0
    /\ op.at = "idle" => ~op.errs
    /\ settled => op.at = "idle" /\ op.kind # "none"
    /\ settled /\ op.kind = "delete" => ~build.there

ByOp(i) == launch[i].at # "idle" /\ launch[i].by = "op"

\* An operation launches one instance at a time, and waits for it.
Launching ==
    /\ \A i \in Id : ByOp(i) => op.at = "launching"
    /\ \A i, j \in Id : ByOp(i) /\ ByOp(j) => i = j

\* A rebuild has yet to reach the instance.
Pending(i) == op.at = "list" \/ (op.at \in {"visit"} \cup Restarting /\ i \in op.todo)

\* RunsRecorded, during operations too.
Serves == \A i \in Id : row[i] = "final" => runs[i] = build.gen \/ i \in late \cup cut \/ Pending(i)

\* Nobody else is at work on the build's instances.
Quiet ==
    /\ \A s \in Starter : reads[s] = 0
    /\ \A s \in Stopper : stops[s] = 0
    /\ \A i \in Id : row[i] = "open" \/ launch[i].at # "idle" => ByOp(i)

\* An operation that has nothing to report and that no request has met: once it looks
\* at the instances, and after it has ended.
Smooth == ~raced /\ ~op.errs /\ build.count # DYNAMIC_INSTANCES
Watched ==
    /\ Smooth
    /\ \/ op.at \in {"surplus", "launching"}
       \/ op.kind = "update" /\ op.at # "idle"
       \/ settled /\ op.kind # "delete"

Calm == Watched => Quiet

\* What is kept, and what is still to be launched, make up the count.
Tally ==
    /\ Smooth /\ op.at = "surplus" => Cardinality(Rows \ op.todo) + op.need = build.count
    /\ Smooth /\ op.at = "launching" =>
         \A i \in Id : ByOp(i) => Cardinality(Rows \ {i}) + op.need = build.count
    /\ Smooth /\ settled /\ (op.kind = "converge" \/ (op.kind = "update" /\ build.count > 0)) =>
         Cardinality(Rows) = build.count

\* An update of a build that had no more instances than its count.
Steady ==
    /\ op.kind = "update" /\ ~raced /\ ~op.errs
    /\ build.count >= 0 /\ Cardinality(DOMAIN was) <= build.count
    /\ op.at # "remove" /\ (op.at # "idle" \/ settled)

\* The instance whose port is released and not yet claimed again.
Bare(i) == op.at = "reassign" /\ NextListed(i)

Unvisited(i) ==
    \/ op.at \in {"finalize", "list"}
    \/ op.at = "visit" /\ i \in op.todo
    \/ op.at \in {"reassign", "relaunch"} /\ i \in op.todo /\ ~NextListed(i)

Stayed(i) == was[i] \in {<<on[i], port[i]>>, <<on[i], NoPort>>} \/ i \in taken

Address(i) ==
    /\ launch[i].at = "idle"
    /\ Unvisited(i) => was[i] = <<on[i], port[i]>>
    /\ Bare(i) => was[i] = <<on[i], op.prev>>
    /\ ~Bare(i) => Stayed(i)

\* Such an update has no instances but those it found, and each has its address.
Addresses ==
    Steady =>
        /\ op.at \in Updating \cup {"count"} => Rows \subseteq DOMAIN was
        /\ op.at \in {"surplus", "launching"} => op.todo = {}
        /\ \A i \in DOMAIN was : Address(i)

IInv == Types /\ Ids /\ Stages /\ Launching /\ Serves /\ Calm /\ Tally /\ Addresses

-----------------------------------------------------------------------------
(* What a step does to the operation                                       *)

\* The fields of the operation that its steps do not write stay.
LEMMA GoesIs ==
    ASSUME op \in OpType, NEW w \in Where, NEW e \in BOOLEAN, Goes(w, e)
    PROVE  /\ op' \in OpType /\ op'.at = w /\ op'.kind = op.kind /\ op'.todo = op.todo
           /\ op'.need = op.need /\ op'.prev = op.prev /\ op'.count = op.count
           /\ op'.errs = (op.errs \/ e)
  <1>1. (op.errs \/ e) \in BOOLEAN
    BY SMT DEF OpType
  <1>2. op' \in OpType
    BY <1>1 DEF OpType, Goes
  <1>. QED
    BY <1>2, SMT DEF OpType, Goes

\* So with a step that takes the next instance off the list.
LEMMA GoesPastIs ==
    ASSUME op \in OpType, NEW i, NEW w \in Where, NEW e \in BOOLEAN, GoesPast(i, w, e)
    PROVE  /\ op' \in OpType /\ op'.at = w /\ op'.kind = op.kind /\ op'.todo = op.todo \ {i}
           /\ op'.need = op.need /\ op'.prev = op.prev /\ op'.count = op.count
           /\ op'.errs = (op.errs \/ e)
  <1>1. (op.errs \/ e) \in BOOLEAN
    BY SMT DEF OpType
  <1>2. op' \in OpType
    BY <1>1 DEF OpType, GoesPast
  <1>. QED
    BY <1>2, SMT DEF OpType, GoesPast

\* Without an operation there is nothing to report and nothing listed.
LEMMA NoOpIs ==
    /\ NoOp \in OpType /\ NoOp.at = "idle" /\ ~NoOp.errs /\ NoOp.kind = "none" /\ NoOp.todo = {}
  BY SMT DEF OpType, NoOp, Where

\* The end of an operation: it is settled unless there is an error to report.
LEMMA EndsIs ==
    ASSUME op \in OpType, NEW e \in BOOLEAN, Ends(e)
    PROVE  /\ op' \in OpType /\ op'.at = "idle" /\ op'.kind = op.kind /\ op'.todo = {} /\ ~op'.errs
           /\ settled' = ~(op.errs \/ e) /\ settled' \in BOOLEAN
  <1>1. op' \in OpType
    BY NoOpIs DEF OpType, Ends
  <1>2. settled' = ~(op.errs \/ e) /\ settled' \in BOOLEAN
    BY SMT DEF Ends
  <1>. QED
    BY <1>1, <1>2, NoOpIs DEF OpType, Ends

\* A new operation has no error to report.
LEMMA BeginsIs ==
    ASSUME NEW k \in {"update", "converge", "delete"}, NEW w \in Where, NEW c \in Int, Begins(k, w, c)
    PROVE  /\ op' \in OpType /\ op'.at = w /\ op'.kind = k /\ op'.count = c /\ ~op'.errs
  <1>1. op' \in OpType
    BY NoOpIs DEF OpType, Begins
  <1>. QED
    BY <1>1, NoOpIs DEF OpType, Begins

-----------------------------------------------------------------------------
(* What a step leaves alone                                                *)

\* The conjuncts of the invariant survive a step that leaves alone what they speak of.
LEMMA TypesKept ==
    ASSUME Types, UNCHANGED <<recVars, launch, reads, stops, was>>,
           op' \in OpType, build' \in BuildType, raced' \in BOOLEAN, settled' \in BOOLEAN
    PROVE  Types'
  BY DEF Types, recVars

\* Ids, of a step that writes no record.
LEMMA IdsKept ==
    ASSUME Ids, UNCHANGED <<recVars, was>>
    PROVE  Ids'
  BY DEF Ids, recVars

\* Stages, of a step that writes neither the operation nor the builds row.
LEMMA StagesKept ==
    ASSUME Stages, UNCHANGED <<op, build, settled>>
    PROVE  Stages'
  BY DEF Stages

\* Launching, of a step that writes no launch and ends none.
LEMMA LaunchingKept ==
    ASSUME Launching, UNCHANGED launch, op.at # "launching" \/ op'.at = op.at
    PROVE  Launching'
  BY DEF Launching, ByOp

\* Of an operation with something to report, or that requests have met, the rest of the
\* invariant says nothing.
LEMMA UnwatchedKept ==
    ASSUME build' \in BuildType, ~Watched'
    PROVE  Calm' /\ Tally' /\ Addresses'
  <1>1. Calm'
    BY DEF Calm
  <1>2. Tally'
    BY DEF Tally, Watched
  <1>3. ASSUME Steady'
        PROVE  Watched'
    <2>1. build'.count # DYNAMIC_INSTANCES
      BY <1>3, SMT DEF Steady, BuildType, DYNAMIC_INSTANCES
    <2>. QED
      BY <1>3, <2>1 DEF Steady, Watched, Smooth
  <1>. QED
    BY <1>1, <1>2, <1>3 DEF Addresses

\* So with a request's step, which is none of an operation that is watched.
LEMMA RequestUnwatched ==
    ASSUME Types, op' = op, build' = build, raced' = raced, settled' = settled, ~Watched
    PROVE  Calm' /\ Tally' /\ Addresses'
  BY UnwatchedKept DEF Types, Watched, Smooth

\* Records that only go, or lose what an operation's error accounts for.
Shrinks ==
    /\ last' = last /\ was' = was
    /\ DOMAIN row' = Id /\ DOMAIN on' = Id /\ DOMAIN port' = Id /\ DOMAIN runs' = Id
    /\ \A j \in Id :
        /\ row'[j] \in {row[j], "none"} /\ port'[j] \in {port[j], NoPort}
        /\ row'[j] # "none" /\ j \in late \cup cut => j \in late' \cup cut'
        /\ row'[j] = "final" => runs'[j] = runs[j] \/ j \in cut'

\* Deleted rows only go.
LEMMA DeletedShrinks ==
    ASSUME Types, NEW S, Deleted(S), was' = was
    PROVE  Shrinks
  BY DEF Types, Deleted, Shrinks

\* A stop takes a row away, or fails and is accounted for.
LEMMA stopInstanceShrinks ==
    ASSUME Types, NEW i, NEW stopped \in BOOLEAN, stopInstance(i, stopped), was' = was
    PROVE  Shrinks
  <1>1. CASE stopped
    BY <1>1, DeletedShrinks DEF stopInstance
  <1>2. CASE ~stopped
    BY <1>2 DEF stopInstance, Types, Shrinks
  <1>. QED
    BY <1>1, <1>2

\* Records that only go keep the types, the ids and what the instances serve.
LEMMA ShrinksKeeps ==
    ASSUME Types, Ids, Serves, Shrinks, build' = build, launch' \in [Id -> LaunchType], reads' \in [Starter -> Int], DOMAIN stops' = Stopper,
           op' \in OpType, raced' \in BOOLEAN, settled' \in BOOLEAN,
           \A j \in Id : Pending(j) /\ row'[j] = "final" => Pending(j)' \/ j \in cut'
    PROVE  Types' /\ Ids' /\ Serves'
  <1>1. Types'
    BY DEF Types, Shrinks
  <1>2. Ids'
    BY DEF Ids, Shrinks
  <1>3. Serves'
    BY DEF Serves, Shrinks
  <1>. QED
    BY <1>1, <1>2, <1>3

-----------------------------------------------------------------------------
(* Steps of an operation that is not watched                               *)

\* A converge and a removal begin.
LEMMA BeginsOther ==
    ASSUME IInv, NEW k \in {"converge", "delete"}, NEW c \in Counts \cup {LOCKED}, Begins(k, "lock", c),
           k = "converge" => c \in Counts
    PROVE  IInv'
  <1>1. c \in Int /\ "lock" \in Where
    BY RebuildAssumption, SMT DEF LOCKED, DYNAMIC_INSTANCES, Where, Replacing
  <1>2. op' \in OpType /\ op'.at = "lock" /\ op'.kind = k /\ op'.count = c /\ ~op'.errs
    BY <1>1, BeginsIs
  <1>3. /\ op.at = "idle" /\ raced' = UnderWay /\ settled' = FALSE /\ DOMAIN was' = {}
        /\ UNCHANGED <<build, last, row, on, port, runs, launch, reads, stops, late, cut>>
    BY DEF Begins, recVars
  <1>4. raced' \in BOOLEAN /\ settled' \in BOOLEAN
    BY <1>3 DEF UnderWay
  <1>5. Types'
    BY <1>2, <1>3, <1>4 DEF IInv, Types
  <1>6. Ids'
    BY <1>3 DEF IInv, Ids
  <1>7. Stages'
    BY <1>2, <1>3 DEF Stages, Updating, Restarting, Counting, Replacing
  <1>8. Launching'
    BY <1>3, LaunchingKept DEF IInv
  <1>9. Serves'
    BY <1>3 DEF IInv, Serves, Pending, Restarting
  <1>10. ~Watched'
    BY <1>2, <1>3 DEF Watched
  <1>11. Calm' /\ Tally' /\ Addresses'
    BY <1>5, <1>10, UnwatchedKept DEF Types
  <1>. QED
    BY <1>5, <1>6, <1>7, <1>8, <1>9, <1>11 DEF IInv

\* The list cannot be read.
LEMMA listFailsKeeps ==
    ASSUME IInv, listFails
    PROVE  IInv'
  <1>1. /\ op' \in OpType /\ op'.at = "idle" /\ op'.kind = op.kind /\ ~op'.errs
        /\ settled' = FALSE
    BY EndsIs DEF IInv, Types, listFails
  <1>2. /\ op.at \in {"list", "count"} /\ raced' = raced
        /\ cut' = IF op.at = "list" THEN cut \cup {i \in Id : row[i] = "final"} ELSE cut
        /\ UNCHANGED <<build, last, row, on, port, runs, launch, reads, stops, was, late>>
    BY DEF listFails, recVars, requestVars
  <1>3. Types'
    BY <1>1, <1>2 DEF IInv, Types
  <1>4. Ids'
    BY <1>2 DEF IInv, Ids
  <1>5. Stages'
    BY <1>1, <1>2 DEF Stages, Updating, Restarting, Counting, Replacing
  <1>6. Launching'
    BY <1>2, LaunchingKept DEF IInv
  <1>7. Serves'
    BY <1>2 DEF IInv, Serves, Pending, Restarting
  <1>8. ~Watched'
    BY <1>1 DEF Watched
  <1>9. Calm' /\ Tally' /\ Addresses'
    BY <1>3, <1>8, UnwatchedKept DEF Types
  <1>. QED
    BY <1>3, <1>4, <1>5, <1>6, <1>7, <1>9 DEF IInv

\* A step of a converge or a removal that writes only the builds row.
LEMMA ReplacingKeeps ==
    ASSUME IInv, op.at \in Replacing, op' \in OpType, op'.kind = op.kind,
           op'.at \in Replacing \cup {"idle"} \/ (op'.at = "count" /\ op.kind = "converge"),
           build' \in BuildType, build'.gen = build.gen, settled' \in BOOLEAN,
           Stages',
           settled' => op.kind = "delete" \/ build'.count = DYNAMIC_INSTANCES,
           UNCHANGED <<recVars, launch, reads, stops, was, late, cut, raced>>
    PROVE  IInv'
  <1>1. Types' /\ Ids'
    BY TypesKept, IdsKept DEF IInv, Types
  <1>2. Launching'
    BY LaunchingKept DEF IInv, Replacing
  <1>3. Serves'
    BY DEF IInv, Serves, Pending, Restarting, Replacing, recVars
  <1>4. op.kind # "update"
    BY DEF IInv, Stages
  <1>5. ~Watched'
    BY <1>4 DEF Watched, Smooth, Replacing
  <1>6. Calm' /\ Tally' /\ Addresses'
    BY <1>5, UnwatchedKept
  <1>. QED
    BY <1>1, <1>2, <1>3, <1>6 DEF IInv

\* lockSchema takes the count away.
LEMMA lockSchemaKeeps ==
    ASSUME IInv, lockSchema
    PROVE  IInv'
  <1> DEFINE w == IF op.kind = "delete" THEN "clean" ELSE "open"
  <1>1. w \in Where
    BY DEF Where, Replacing
  <1>2. /\ op' \in OpType /\ op'.at = w /\ op'.kind = op.kind /\ op'.count = op.count
    BY <1>1, GoesIs DEF IInv, Types, lockSchema
  <1>3. build' \in BuildType /\ build'.gen = build.gen
    BY SMT DEF IInv, Types, BuildType, lockSchema, LOCKED
  <1>4. op.at = "lock" /\ op.at \in Replacing /\ settled' = settled
    BY DEF lockSchema, Replacing
  <1>5. Stages'
    BY <1>2, <1>4 DEF IInv, Stages, Updating, Restarting, Counting, Replacing
  <1>6. UNCHANGED <<recVars, launch, reads, stops, was, late, cut, raced>>
    BY DEF lockSchema, requestVars
  <1>. QED
    BY <1>2, <1>3, <1>4, <1>5, <1>6, ReplacingKeeps DEF IInv, Types, Stages, Replacing

\* openBuild sets the count, and of an on-demand build the converge ends there.
LEMMA openBuildKeeps ==
    ASSUME IInv, openBuild
    PROVE  IInv'
  <1>1. op.at \in {"open", "generate"} /\ op.kind = "converge" /\ op.count \in Counts /\ ~settled
    BY DEF IInv, Stages, openBuild, Replacing
  <1>2. build' \in BuildType /\ build'.gen = build.gen /\ build'.count = op.count
    BY DEF IInv, Types, OpType, BuildType, openBuild
  <1>3. UNCHANGED <<recVars, launch, reads, stops, was, late, cut, raced>> /\ op.at \in Replacing
    BY <1>1 DEF openBuild, requestVars, Replacing
  <1>4. CASE op.count = DYNAMIC_INSTANCES
    <2>1. /\ op' \in OpType /\ op'.at = "idle" /\ op'.kind = op.kind /\ ~op'.errs /\ settled' \in BOOLEAN
      BY <1>4, EndsIs DEF IInv, Types, openBuild
    <2>2. Stages'
      BY <1>1, <2>1 DEF Stages, Updating, Restarting, Counting, Replacing
    <2>. QED
      BY <1>2, <1>3, <1>4, <2>1, <2>2, ReplacingKeeps
  <1>5. CASE op.count # DYNAMIC_INSTANCES
    <2>1. /\ op' \in OpType /\ op'.at = "count" /\ op'.kind = op.kind
      BY <1>5, GoesIs DEF IInv, Types, openBuild, Where, Counting
    <2>2. settled' = settled
      BY <1>5 DEF openBuild
    <2>3. build'.count \in Nat
      BY <1>1, <1>2, <1>5, RebuildAssumption
    <2>4. Stages'
      BY <1>1, <2>1, <2>2, <2>3 DEF Stages, Updating, Restarting, Counting, Replacing
    <2>. QED
      BY <1>1, <1>2, <1>3, <2>1, <2>2, <2>4, ReplacingKeeps DEF IInv, Types
  <1>. QED
    BY <1>4, <1>5

\* openBuild fails, and the converge goes on with an error to report.
LEMMA openFailsKeeps ==
    ASSUME IInv, openFails
    PROVE  IInv'
  <1> DEFINE w == IF build.there THEN "clean" ELSE "generate"
  <1>1. op.at = "open" /\ op.at \in Replacing /\ op.kind = "converge" /\ op.count \in Counts /\ ~settled
    BY DEF IInv, Stages, openFails, Replacing
  <1>2. w \in Where /\ w \in Replacing
    BY DEF Where, Replacing
  <1>3. /\ op' \in OpType /\ op'.at = w /\ op'.kind = op.kind /\ op'.count = op.count
    BY <1>2, GoesIs DEF IInv, Types, openFails
  <1>4. UNCHANGED <<build, settled, recVars, launch, reads, stops, was, late, cut, raced>>
    BY DEF openFails, requestVars
  <1>5. Stages'
    BY <1>1, <1>3, <1>4 DEF Stages, Updating, Restarting, Counting, Replacing
  <1>. QED
    BY <1>1, <1>2, <1>3, <1>4, <1>5, ReplacingKeeps DEF IInv, Types

\* The build fails: the converge ends with an error.
LEMMA generateFailsKeeps ==
    ASSUME IInv, generateFails
    PROVE  IInv'
  <1>1. op.at = "generate" /\ op.at \in Replacing /\ op.kind = "converge"
    BY DEF IInv, Stages, generateFails, Replacing
  <1>2. /\ op' \in OpType /\ op'.at = "idle" /\ op'.kind = op.kind /\ ~op'.errs /\ settled' = FALSE
    BY EndsIs DEF IInv, Types, generateFails
  <1>3. build' \in BuildType /\ build'.gen = build.gen
    <2>1. (Rows # {}) \in BOOLEAN
      BY SMT
    <2>. QED
      BY <2>1 DEF IInv, Types, OpType, BuildType, generateFails
  <1>4. UNCHANGED <<recVars, launch, reads, stops, was, late, cut, raced>>
    BY DEF generateFails, requestVars
  <1>5. Stages'
    BY <1>2 DEF Stages, Updating, Restarting, Counting, Replacing
  <1>. QED
    BY <1>1, <1>2, <1>3, <1>4, <1>5, ReplacingKeeps

\* The end of a cleanup.
LEMMA CleanedIs ==
    ASSUME op \in OpType, NEW e \in BOOLEAN, Cleaned(e), settled \in BOOLEAN
    PROVE  /\ op' \in OpType /\ op'.kind = op.kind /\ settled' \in BOOLEAN
           /\ op.kind = "delete" => op'.at = "idle" /\ ~op'.errs /\ settled' = ~(op.errs \/ e)
           /\ op.kind # "delete" => op'.at = "generate" /\ op'.count = op.count /\ settled' = settled
  <1>1. "generate" \in Where
    BY DEF Where, Replacing
  <1>. QED
    BY <1>1, EndsIs, GoesIs DEF Cleaned

\* After the cleanup a removal has ended, and without an error only if the build is gone.
LEMMA CleanedStages ==
    ASSUME IInv, op.at \in {"clean", "release"}, NEW e \in BOOLEAN, Cleaned(e), e \/ ~build'.there
    PROVE  Stages'
  <1>1. /\ op'.kind = op.kind
        /\ op.kind = "delete" => op'.at = "idle" /\ ~op'.errs /\ (settled' => ~e)
        /\ op.kind # "delete" => op'.at = "generate" /\ op'.count = op.count /\ settled' = settled
    BY CleanedIs DEF IInv, Types
  <1>2. /\ op.kind \in {"converge", "delete"} /\ ~settled
        /\ op.kind = "converge" => op.count \in Counts
    BY DEF IInv, Stages, Replacing
  <1>3. CASE op.kind = "delete"
    BY <1>1, <1>3 DEF Stages, Updating, Restarting, Counting, Replacing
  <1>4. CASE op.kind = "converge"
    <2>1. op'.at = "generate" /\ op'.count = op.count
      BY <1>1, <1>4
    <2>2. ~settled'
      BY <1>1, <1>2, <1>4
    <2>3. op'.kind = "converge" /\ op'.count \in Counts
      BY <1>1, <1>2, <1>4, <2>1, SMT
    <2>. QED
      BY <2>1, <2>2, <2>3 DEF Stages, Updating, Restarting, Counting, Replacing
  <1>. QED
    BY <1>2, <1>3, <1>4

\* The cleanup lists the instances.
LEMMA removedSchemaInstancesKeeps ==
    ASSUME IInv, removedSchemaInstances
    PROVE  IInv'
  <1>1. op' \in OpType
    BY DEF removedSchemaInstances, IInv, Types, OpType, Where, Replacing, Rows
  <1>2. op'.at = "release" /\ op'.kind = op.kind /\ op'.count = op.count
    BY <1>1, SMT DEF removedSchemaInstances, IInv, Types, OpType
  <1>3. op.at = "clean" /\ op.at \in Replacing
    BY DEF removedSchemaInstances, Replacing
  <1>4. UNCHANGED <<build, settled, recVars, launch, reads, stops, was, late, cut, raced>>
    BY DEF removedSchemaInstances, requestVars
  <1>5. Stages'
    BY <1>2, <1>3, <1>4 DEF IInv, Stages, Updating, Restarting, Counting, Replacing
  <1>. QED
    BY <1>1, <1>2, <1>3, <1>4, <1>5, ReplacingKeeps DEF IInv, Types, Stages, Replacing

\* The builds row goes, if no instance refers to it.
LEMMA removeBuildMetadataKeeps ==
    ASSUME IInv, removeBuildMetadata
    PROVE  IInv'
  <1> DEFINE e == Rows # {}
  <1>1. e \in BOOLEAN
    BY SMT
  <1>2. build' \in BuildType /\ build'.gen = build.gen /\ build'.there = e
    BY <1>1 DEF removeBuildMetadata, IInv, Types, BuildType
  <1>3. op.at = "release" /\ op.at \in Replacing /\ Cleaned(e)
    BY DEF removeBuildMetadata, Replacing
  <1>4. UNCHANGED <<recVars, launch, reads, stops, was, late, cut, raced>>
    BY DEF removeBuildMetadata, requestVars
  <1> HIDE DEF e
  <1>5. Stages'
    BY <1>1, <1>2, <1>3, CleanedStages
  <1>6. /\ op' \in OpType /\ op'.kind = op.kind /\ settled' \in BOOLEAN
        /\ op.kind = "delete" => op'.at = "idle"
        /\ op.kind # "delete" => op'.at = "generate" /\ settled' = settled
    BY <1>1, <1>3, CleanedIs DEF IInv, Types
  <1>7. settled' => op.kind = "delete"
    BY <1>3, <1>6 DEF IInv, Stages
  <1>. QED
    BY <1>2, <1>3, <1>4, <1>5, <1>6, <1>7, ReplacingKeeps DEF Replacing

\* A removal stops an instance, or cannot.
LEMMA releaseInstanceKeeps ==
    ASSUME IInv, NEW i \in Id, releaseInstance(i)
    PROVE  IInv'
  <1>1. op.at = "release" /\ op.at \in Replacing /\ op.kind # "update" /\ ~settled
    BY DEF releaseInstance, Replacing, IInv, Stages
  <1>2. UNCHANGED <<build, launch, reads, stops, was, raced>>
    BY DEF releaseInstance, requestVars
  <1>3. Shrinks
    <2>1. CASE row[i] = "none"
      BY <1>2, <2>1 DEF releaseInstance, recVars, Shrinks, IInv, Types
    <2>2. CASE row[i] # "none"
      BY <1>2, <2>2, stopInstanceShrinks DEF releaseInstance, IInv
    <2>. QED
      BY <2>1, <2>2
  <1>4. \/ Cleaned(TRUE)
        \/ GoesPast(i, "release", FALSE) /\ settled' = settled
    BY DEF releaseInstance
  <1>5. /\ op' \in OpType /\ op'.kind = op.kind /\ settled' \in BOOLEAN /\ ~settled' /\ Stages'
        /\ op'.at \in {"idle", "generate", "release"}
    <2>1. CASE Cleaned(TRUE)
      <3>1. Stages'
        BY <1>1, <2>1, CleanedStages
      <3>. QED
        BY <1>1, <2>1, <3>1, CleanedIs DEF IInv, Types
    <2>2. CASE GoesPast(i, "release", FALSE) /\ settled' = settled
      <3>1. /\ op' \in OpType /\ op'.at = "release" /\ op'.kind = op.kind /\ op'.count = op.count
        BY <2>2, GoesPastIs DEF IInv, Types, Where, Replacing
      <3>. QED
        BY <1>1, <1>2, <2>2, <3>1 DEF IInv, Types, Stages, Updating, Restarting, Counting, Replacing
    <2>. QED
      BY <1>4, <2>1, <2>2
  <1>6. Types' /\ Ids' /\ Serves'
    BY <1>1, <1>2, <1>3, <1>5, ShrinksKeeps DEF IInv, Types, Pending, Restarting
  <1>7. Launching'
    BY <1>1, <1>2, LaunchingKept DEF IInv
  <1>8. ~Watched'
    BY <1>1, <1>5 DEF Watched
  <1>9. Calm' /\ Tally' /\ Addresses'
    BY <1>6, <1>8, UnwatchedKept DEF Types
  <1>. QED
    BY <1>5, <1>6, <1>7, <1>9 DEF IInv

\* What a stop does to the instance.
LEMMA stopInstanceIs ==
    ASSUME NEW i \in Id, NEW stopped \in BOOLEAN, stopInstance(i, stopped)
    PROVE  /\ stopped => row'[i] = "none"
           /\ ~stopped => i \in cut' /\ row' = row
  BY DEF stopInstance, Deleted

\* An update stops an on-demand instance.
LEMMA stopOnDemandKeeps ==
    ASSUME IInv, NEW i \in Id, stopOnDemand(i)
    PROVE  IInv'
  <1>1. op.at = "visit" /\ build.count = DYNAMIC_INSTANCES /\ ~settled
    BY DEF stopOnDemand, Visits, IInv, Stages
  <1>2. UNCHANGED <<build, launch, reads, stops, was, raced, settled>>
    BY DEF stopOnDemand, requestVars
  <1>3. PICK stopped \in BOOLEAN : stopInstance(i, stopped) /\ GoesPast(i, "visit", ~stopped)
    BY DEF stopOnDemand
  <1>4. /\ op' \in OpType /\ op'.at = "visit" /\ op'.kind = op.kind /\ op'.todo = op.todo \ {i}
    <2>1. (~stopped) \in BOOLEAN /\ "visit" \in Where
      BY SMT DEF Where, Updating
    <2>. QED
      BY <1>3, <2>1, GoesPastIs DEF IInv, Types
  <1>5. Shrinks
    BY <1>2, <1>3, stopInstanceShrinks DEF IInv
  <1>6. \A j \in Id : Pending(j) /\ row'[j] = "final" => Pending(j)' \/ j \in cut'
    BY <1>1, <1>3, <1>4, stopInstanceIs DEF Pending, Restarting
  <1>7. Types' /\ Ids' /\ Serves'
    BY <1>2, <1>4, <1>5, <1>6, ShrinksKeeps DEF IInv, Types
  <1>8. Stages'
    BY <1>1, <1>2, <1>4 DEF IInv, Stages, Updating, Restarting, Counting, Replacing
  <1>9. Launching'
    BY <1>1, <1>2, LaunchingKept DEF IInv
  <1>10. ~Watched'
    BY <1>1, <1>2 DEF Watched, Smooth
  <1>11. Calm' /\ Tally' /\ Addresses'
    BY <1>7, <1>10, UnwatchedKept DEF Types
  <1>. QED
    BY <1>7, <1>8, <1>9, <1>11 DEF IInv

\* It removes an instance that it could not restart.
LEMMA removeInsteadKeeps ==
    ASSUME IInv, NEW i \in Id, removeInstead(i)
    PROVE  IInv'
  <1>1. op.at = "remove" /\ ~settled
    BY DEF removeInstead, IInv, Stages
  <1>2. UNCHANGED <<build, launch, reads, stops, was, raced, settled>>
    BY DEF removeInstead, requestVars
  <1>3. PICK stopped \in BOOLEAN : stopInstance(i, stopped)
    BY DEF removeInstead
  <1>4. op' \in OpType
    BY DEF removeInstead, IInv, Types, OpType, Where, Updating
  <1>5. /\ op'.at = "visit" /\ op'.kind = op.kind /\ op'.todo = op.todo \ {i} /\ op'.errs
    BY <1>4, SMT DEF removeInstead, IInv, Types, OpType
  <1>6. Shrinks
    BY <1>2, <1>3, stopInstanceShrinks DEF IInv
  <1>7. \A j \in Id : Pending(j) /\ row'[j] = "final" => Pending(j)' \/ j \in cut'
    BY <1>1, <1>3, <1>5, stopInstanceIs DEF Pending, Restarting
  <1>8. Types' /\ Ids' /\ Serves'
    BY <1>2, <1>4, <1>6, <1>7, ShrinksKeeps DEF IInv, Types
  <1>9. Stages'
    BY <1>1, <1>2, <1>5 DEF IInv, Stages, Updating, Restarting, Counting, Replacing
  <1>10. Launching'
    BY <1>1, <1>2, LaunchingKept DEF IInv
  <1>11. ~Watched'
    BY <1>5 DEF Watched, Smooth
  <1>12. Calm' /\ Tally' /\ Addresses'
    BY <1>8, <1>11, UnwatchedKept DEF Types
  <1>. QED
    BY <1>8, <1>9, <1>10, <1>12 DEF IInv

-----------------------------------------------------------------------------
(* Requests, workers and crashes                                           *)

\* Where somebody else is at work on the build's instances, nothing is watched.
LEMMA DisturbedUnwatched ==
    ASSUME IInv,
           \/ build.count = DYNAMIC_INSTANCES
           \/ \E s \in Starter : reads[s] # 0
           \/ \E s \in Stopper : stops[s] # 0
           \/ \E i \in Id : (row[i] = "open" \/ launch[i].at # "idle") /\ ~ByOp(i)
    PROVE  ~Watched
  BY DEF IInv, Calm, Watched, Smooth, Quiet

\* A step of a request that touches no record and no launch.
LEMMA RequestKeeps ==
    ASSUME IInv, reads' \in [Starter -> Int], DOMAIN stops' = Stopper, ~Watched,
           UNCHANGED <<build, recVars, launch, op, histVars>>
    PROVE  IInv'
  <1>1. Types' /\ Ids'
    BY DEF IInv, Types, Ids, recVars, histVars
  <1>2. Stages' /\ Launching'
    BY DEF IInv, Stages, Launching, ByOp, histVars
  <1>3. Serves'
    BY DEF IInv, Serves, Pending, recVars, histVars
  <1>4. Calm' /\ Tally' /\ Addresses'
    BY RequestUnwatched DEF IInv, histVars
  <1>. QED
    BY <1>1, <1>2, <1>3, <1>4 DEF IInv

\* Start reads an on-demand build, which no watched operation has.
LEMMA StartReadsKeeps ==
    ASSUME IInv, NEW s \in Starter, StartReads(s)
    PROVE  IInv'
  <1>1. ~Watched
    BY DisturbedUnwatched DEF StartReads
  <1>2. reads' \in [Starter -> Int] /\ DOMAIN stops' = Stopper
    BY DEF StartReads, IInv, Types, BuildType
  <1>. QED
    BY <1>1, <1>2, RequestKeeps DEF StartReads

\* A Start that fails was under way: nothing is watched.
LEMMA StartFailsKeeps ==
    ASSUME IInv, NEW s \in Starter, StartFails(s)
    PROVE  IInv'
  <1>1. ~Watched
    BY DisturbedUnwatched DEF StartFails
  <1>2. 0 \in Int
    BY SMT
  <1>3. reads' \in [Starter -> Int] /\ DOMAIN stops' = Stopper
    BY <1>2 DEF StartFails, IInv, Types
  <1>. QED
    BY <1>1, <1>3, RequestKeeps DEF StartFails

\* Stop looks up an instance of an on-demand build.
LEMMA StopKeeps ==
    ASSUME IInv, NEW s \in Stopper, NEW i \in Id, Stop(s, i)
    PROVE  IInv'
  <1>1. ~Watched
    BY DisturbedUnwatched DEF Stop
  <1>2. reads' \in [Starter -> Int] /\ DOMAIN stops' = Stopper
    BY DEF Stop, IInv, Types
  <1>. QED
    BY <1>1, <1>2, RequestKeeps DEF Stop

\* A new row, for a request or for a converge.
LEMMA openInstanceKeeps ==
    ASSUME IInv, NEW i \in Id, NEW g \in Int, NEW b \in {"op", "request"}, openInstance(i, g, b),
           reads' \in [Starter -> Int], stops' = stops, build' = build, was' = was, raced' = raced, settled' = settled,
           late' = late, cut' = cut, op' \in OpType, \A j \in Id : Pending(j) => Pending(j)'
    PROVE  /\ Types' /\ Ids' /\ Serves' /\ i \notin Rows /\ Rows' = Rows \cup {i} /\ i \notin DOMAIN was
           /\ \A j \in Id \ {i} : row'[j] = row[j] /\ port'[j] = port[j] /\ on'[j] = on[j] /\ launch'[j] = launch[j]
           /\ launch'[i].at = "reserve" /\ launch'[i].by = b
  <1>1. i = last + 1 /\ last' = i /\ row' = [row EXCEPT ![i] = "open"] /\ port' = port /\ runs' = runs
    BY DEF openInstance
  <1>2. row[i] = "none" /\ i \notin DOMAIN was
    BY <1>1, SMT DEF IInv, Types, Ids
  <1>3. Ids'
    BY <1>1, RebuildAssumption, SMT DEF IInv, Types, Ids
  <1>4. last' \in Nat
    BY <1>1, RebuildAssumption
  <1>5. launch' \in [Id -> LaunchType] /\ launch'[i].at = "reserve" /\ launch'[i].by = b
    BY DEF openInstance, IInv, Types, LaunchType
  <1>6. Types'
    BY <1>1, <1>4, <1>5 DEF IInv, Types, openInstance
  <1>7. Serves'
    BY <1>1 DEF IInv, Types, Serves
  <1>8. Rows' = Rows \cup {i}
    BY <1>1 DEF IInv, Types, Rows
  <1>9. \A j \in Id \ {i} : row'[j] = row[j] /\ port'[j] = port[j] /\ on'[j] = on[j] /\ launch'[j] = launch[j]
    BY DEF openInstance, IInv, Types
  <1>. QED
    BY <1>2, <1>3, <1>5, <1>6, <1>7, <1>8, <1>9 DEF Rows

\* A Start that opens its row was under way: nothing is watched.
LEMMA newInstanceKeeps ==
    ASSUME IInv, NEW s \in Starter, NEW i \in Id, newInstance(s, i)
    PROVE  IInv'
  <1>1. ~Watched
    BY DisturbedUnwatched DEF newInstance
  <1>2. reads[s] \in Int /\ reads' \in [Starter -> Int]
    <2>1. 0 \in Int
      BY SMT
    <2>. QED
      BY <2>1 DEF newInstance, IInv, Types
  <1>3. UNCHANGED <<build, stops, op, was, late, cut, raced, settled>> /\ openInstance(i, reads[s], "request")
    BY DEF newInstance, histVars
  <1>4. /\ Types' /\ Ids' /\ Serves'
        /\ \A j \in Id \ {i} : launch'[j] = launch[j]
        /\ launch'[i].by = "request"
    BY <1>2, <1>3, openInstanceKeeps DEF Pending, IInv, Types
  <1>5. Stages'
    BY <1>3 DEF IInv, Stages
  <1>6. Launching'
    <2>1. \A j \in Id : ByOp(j)' => ByOp(j)
      BY <1>4 DEF ByOp
    <2>. QED
      BY <1>3, <2>1 DEF IInv, Launching
  <1>7. Calm' /\ Tally' /\ Addresses'
    BY <1>1, <1>3, RequestUnwatched DEF IInv
  <1>. QED
    BY <1>4, <1>5, <1>6, <1>7 DEF IInv

\* A Stop that ends was under way: nothing is watched.
LEMMA StopEndsKeeps ==
    ASSUME IInv, NEW s \in Stopper, StopEnds(s)
    PROVE  IInv'
  <1>1. ~Watched
    BY DisturbedUnwatched DEF StopEnds
  <1>2. UNCHANGED <<build, launch, reads, op, was, raced, settled>> /\ DOMAIN stops' = Stopper
    BY DEF StopEnds, IInv, Types
  <1>3. Shrinks
    BY <1>2, stopInstanceShrinks DEF StopEnds, IInv
  <1>4. Types' /\ Ids' /\ Serves'
    BY <1>2, <1>3, ShrinksKeeps DEF IInv, Types, Pending
  <1>5. Stages' /\ Launching'
    BY <1>2 DEF IInv, Stages, Launching, ByOp
  <1>6. Calm' /\ Tally' /\ Addresses'
    BY <1>1, <1>2, RequestUnwatched DEF IInv
  <1>. QED
    BY <1>4, <1>5, <1>6 DEF IInv

\* A worker leaves or comes back.
LEMMA WorkersKeep ==
    ASSUME IInv, WorkerOut \/ WorkerBack
    PROVE  IInv'
  <1>1. UNCHANGED <<build, last, row, on, port, runs, launch, reads, stops, op, was, taken, late, cut, raced, settled>>
    BY DEF WorkerOut, WorkerBack, recVars, histVars
  <1>2. Types' /\ Ids' /\ Serves'
    BY <1>1 DEF IInv, Types, Ids, Serves, Pending
  <1>6. Stages'
    BY <1>1, StagesKept DEF IInv
  <1>7. Launching'
    BY <1>1 DEF IInv, Launching, ByOp
  <1>3. Calm'
    BY <1>1 DEF IInv, Calm, Watched, Smooth, Quiet, ByOp
  <1>4. Tally'
    BY <1>1 DEF IInv, Tally, Smooth, ByOp, Rows
  <1>5. Addresses'
    BY <1>1 DEF IInv, Addresses, Steady, Address, Stayed, Unvisited, Bare, NextListed, Rows
  <1>. QED
    BY <1>2, <1>3, <1>4, <1>5, <1>6, <1>7 DEF IInv

\* worker-remove purges rows behind the back of an operation.
LEMMA RemoveWorkerKeeps ==
    ASSUME IInv, RemoveWorker
    PROVE  IInv'
  <1>1. UNCHANGED <<build, launch, reads, stops, op, was, settled>> /\ raced' = TRUE
    BY DEF RemoveWorker
  <1>2. Shrinks
    BY <1>1, DeletedShrinks DEF RemoveWorker, IInv
  <1>3. Types' /\ Ids' /\ Serves'
    BY <1>1, <1>2, ShrinksKeeps DEF IInv, Types, Pending
  <1>4. Stages' /\ Launching'
    BY <1>1 DEF IInv, Stages, Launching, ByOp
  <1>5. ~Watched'
    BY <1>1 DEF Watched, Smooth
  <1>6. Calm' /\ Tally' /\ Addresses'
    BY <1>3, <1>5, UnwatchedKept DEF Types
  <1>. QED
    BY <1>3, <1>4, <1>6 DEF IInv

\* A crash ends the operation, and what serves an older generation is cut off.
LEMMA CrashKeeps ==
    ASSUME IInv, Crash
    PROVE  IInv'
  <1>1. /\ UNCHANGED <<build, last, row, on, port, runs, was, late, raced>> /\ settled' = FALSE /\ op' = NoOp
        /\ cut' = cut \cup {i \in Id : row[i] = "final" /\ runs[i] # build.gen}
    BY DEF Crash, recVars
  <1>2. /\ op' \in OpType /\ op'.at = "idle" /\ ~op'.errs /\ op'.kind = "none"
    BY <1>1, NoOpIs
  <1>3. NoLaunch \in LaunchType /\ NoLaunch.at = "idle" /\ 0 \in Int
    BY SMT DEF NoLaunch, LaunchType
  <1>4. launch' \in [Id -> LaunchType] /\ reads' \in [Starter -> Int] /\ DOMAIN stops' = Stopper
    BY <1>3 DEF Crash
  <1>5. Types' /\ Ids'
    BY <1>1, <1>2, <1>4 DEF IInv, Types, Ids
  <1>6. Stages'
    BY <1>1, <1>2 DEF Stages, Updating, Restarting, Counting, Replacing
  <1>7. Launching'
    BY <1>3 DEF Crash, Launching, ByOp
  <1>8. Serves'
    BY <1>1 DEF Serves
  <1>9. ~Watched'
    BY <1>1, <1>2 DEF Watched
  <1>10. Calm' /\ Tally' /\ Addresses'
    BY <1>5, <1>9, UnwatchedKept DEF Types
  <1>. QED
    BY <1>5, <1>6, <1>7, <1>8, <1>10 DEF IInv

-----------------------------------------------------------------------------
(* The steps of an update                                                  *)

\* An update meets no request that it had not met before.
LEMMA CalmUpdating ==
    ASSUME IInv, op.kind = "update", op.at # "idle", op.errs => op'.errs, raced' = raced,
           build'.count = build.count, UNCHANGED <<row, launch, reads, stops>>
    PROVE  Calm'
  <1>1. Watched' => Watched
    BY DEF Watched, Smooth
  <1>. QED
    BY <1>1 DEF IInv, Calm, Quiet, ByOp

\* Tally speaks only of a converge to the count, and of what has ended.
LEMMA TallyElsewhere ==
    ASSUME op'.at \notin {"surplus", "launching"}, ~settled'
    PROVE  Tally'
  BY DEF Tally

\* The next of the listed instances is one.
LEMMA NextListedUnique ==
    ASSUME NEW i \in Id, NEW j \in Id, NextListed(i), NextListed(j)
    PROVE  i = j
  BY RebuildAssumption, SMT DEF NextListed

\* An update begins: it sees the address of every instance.
LEMMA UpdateKeeps ==
    ASSUME IInv, Update
    PROVE  IInv'
  <1>1. op' \in OpType /\ op'.at = "finalize" /\ op'.kind = "update" /\ ~op'.errs
    <2>1. build.count \in Int /\ "finalize" \in Where
      BY DEF IInv, Types, BuildType, Where, Updating
    <2>. QED
      BY <2>1, BeginsIs DEF Update
  <1>2. /\ op.at = "idle" /\ raced' = UnderWay /\ settled' = FALSE
        /\ UNCHANGED <<build, last, row, on, port, runs, launch, reads, stops, late, cut>>
    BY DEF Update, Begins, recVars
  <1>3. was' = [i \in {j \in Id : row[j] = "final"} |-> <<on[i], port[i]>>]
    BY DEF Update, Begins
  <1>4. Types'
    BY <1>1, <1>2, <1>3 DEF IInv, Types, UnderWay
  <1>5. Ids'
    BY <1>2, <1>3 DEF IInv, Ids
  <1>6. Stages'
    BY <1>1, <1>2 DEF Stages, Updating, Restarting, Counting, Replacing
  <1>7. Launching'
    BY <1>2, LaunchingKept DEF IInv
  <1>8. Serves'
    BY <1>2 DEF IInv, Serves, Pending, Restarting
  <1>9. Calm'
    BY <1>2 DEF Calm, Watched, Smooth, Quiet, UnderWay
  <1>10. Tally'
    BY <1>1, <1>2, TallyElsewhere
  <1>11. Addresses'
    <2>1. SUFFICES ASSUME Steady'
                   PROVE  /\ Rows' \subseteq DOMAIN was'
                          /\ \A i \in DOMAIN was' : Address(i)'
      BY <1>1 DEF Addresses
    <2>2. ~UnderWay
      BY <1>2, <2>1 DEF Steady
    <2>3. \A i \in Id : row[i] # "open" /\ launch[i].at = "idle"
      BY <2>2 DEF UnderWay
    <2>4. Rows' \subseteq DOMAIN was'
      BY <1>2, <1>3, <2>3 DEF Rows, IInv, Types
    <2>5. \A i \in DOMAIN was' : Address(i)'
      BY <1>1, <1>2, <1>3, <2>3 DEF Address, Bare, Stayed
    <2>. QED
      BY <2>4, <2>5
  <1>. QED
    BY <1>4, <1>5, <1>6, <1>7, <1>8, <1>9, <1>10, <1>11 DEF IInv

\* An address that stays as the update goes on.
LEMMA AddressesOn ==
    ASSUME IInv, op.kind = "update", op.at \in Updating \ {"remove"}, op'.at \in Updating \cup {"count"}, op'.kind = op.kind,
           op.errs => op'.errs, raced' = raced,
           build'.count = build.count, UNCHANGED <<row, launch, was>>,
           Steady /\ (\A i \in DOMAIN was : Address(i)) => \A i \in DOMAIN was : Address(i)'
    PROVE  Addresses'
  <1>0. op.at # "idle" /\ op.at # "remove"
    BY DEF Updating, Restarting
  <1>1. Steady' => Steady
    BY <1>0 DEF Steady
  <1>2. op.at \in Updating \cup {"count"}
    OBVIOUS
  <1>3. op'.at \notin {"surplus", "launching"}
    BY DEF Updating, Restarting
  <1>. QED
    BY <1>1, <1>2, <1>3 DEF IInv, Addresses, Rows

\* A new generation lands: every instance is yet to be reached.
LEMMA finalizeBuildKeeps ==
    ASSUME IInv, finalizeBuild
    PROVE  IInv'
  <1>1. op.at = "finalize" /\ op.kind = "update" /\ ~settled /\ op.at \in Updating \ {"remove"}
    BY DEF finalizeBuild, IInv, Stages, Updating, Restarting
  <1>2. /\ op' \in OpType /\ op'.at = "list" /\ op'.kind = op.kind /\ op'.errs = (op.errs \/ FALSE)
    BY GoesIs DEF finalizeBuild, IInv, Types, Where, Updating
  <1>3. UNCHANGED <<last, row, on, port, runs, launch, reads, stops, was, taken, late, cut, raced, settled>>
    BY DEF finalizeBuild, requestVars, recVars
  <1>4. build' \in BuildType /\ build'.count = build.count
    <2>1. build.gen + 1 \in Int
      BY SMT DEF IInv, Types, BuildType
    <2>. QED
      BY <2>1 DEF finalizeBuild, IInv, Types, BuildType
  <1>5. Types' /\ Ids'
    BY <1>2, <1>3, <1>4, TypesKept, IdsKept DEF IInv, Types, recVars
  <1>6. Stages'
    BY <1>1, <1>2, <1>3 DEF Stages, Updating, Restarting, Counting, Replacing
  <1>7. Launching'
    BY <1>1, <1>3, LaunchingKept DEF IInv
  <1>8. Serves'
    BY <1>2 DEF Serves, Pending
  <1>9. Calm'
    BY <1>1, <1>2, <1>3, <1>4, CalmUpdating
  <1>10. Tally'
    BY <1>1, <1>2, <1>3, TallyElsewhere
  <1>11. Addresses'
    <2>1. \A i \in DOMAIN was : Address(i) => Address(i)'
      BY <1>1, <1>2, <1>3 DEF Address, Bare, Unvisited, Stayed
    <2>. QED
      BY <1>1, <1>2, <1>3, <1>4, <2>1, AddressesOn DEF Updating
  <1>. QED
    BY <1>5, <1>6, <1>7, <1>8, <1>9, <1>10, <1>11 DEF IInv

\* The instances are listed, each of them with the address it had.
LEMMA getBuildInstancesKeeps ==
    ASSUME IInv, getBuildInstances
    PROVE  IInv'
  <1>1. op.at = "list" /\ op.kind = "update" /\ ~settled /\ op.at \in Updating \ {"remove"}
    BY DEF getBuildInstances, IInv, Stages, Updating, Restarting
  <1>2. op' \in OpType
    BY DEF getBuildInstances, IInv, Types, OpType, Rows, Where, Updating
  <1>3. /\ op'.at = "visit" /\ op'.kind = op.kind /\ op'.todo = Rows /\ op'.errs = op.errs
    BY <1>2, SMT DEF getBuildInstances, IInv, Types, OpType
  <1>4. UNCHANGED <<build, last, row, on, port, runs, launch, reads, stops, was, taken, late, cut, raced, settled>>
    BY DEF getBuildInstances, requestVars, recVars
  <1>5. Types' /\ Ids'
    BY <1>2, <1>4, TypesKept, IdsKept DEF IInv, Types, recVars
  <1>6. Stages'
    BY <1>1, <1>3, <1>4 DEF Stages, Updating, Restarting, Counting, Replacing
  <1>7. Launching'
    BY <1>1, <1>4, LaunchingKept DEF IInv
  <1>8. Serves'
    BY <1>3, <1>4 DEF Serves, Pending, Rows
  <1>9. Calm'
    BY <1>1, <1>3, <1>4, CalmUpdating
  <1>10. Tally'
    BY <1>1, <1>3, <1>4, TallyElsewhere
  <1>11. Addresses'
    <2>1. \A i \in DOMAIN was : Address(i) => Address(i)'
      BY <1>1, <1>3, <1>4 DEF Address, Bare, Unvisited, Stayed
    <2>. QED
      BY <1>1, <1>3, <1>4, <2>1, AddressesOn DEF Updating
  <1>. QED
    BY <1>5, <1>6, <1>7, <1>8, <1>9, <1>10, <1>11 DEF IInv

\* What is not finalized is passed over: Serves says nothing of it.
LEMMA passOverKeeps ==
    ASSUME IInv, NEW i \in Id, passOver(i)
    PROVE  IInv'
  <1>1. op.at = "visit" /\ op.kind = "update" /\ ~settled /\ op.at \in Updating \ {"remove"} /\ row[i] # "final"
    BY DEF passOver, Visits, PassedOver, IInv, Stages, Updating, Restarting
  <1>2. /\ op' \in OpType /\ op'.at = "visit" /\ op'.kind = op.kind /\ op'.todo = op.todo \ {i}
        /\ op'.errs = (op.errs \/ FALSE)
    BY GoesPastIs DEF passOver, IInv, Types, Where, Updating
  <1>4. UNCHANGED <<build, last, row, on, port, runs, launch, reads, stops, was, taken, late, cut, raced, settled>>
    BY DEF passOver, requestVars, recVars
  <1>5. Types' /\ Ids'
    BY <1>2, <1>4, TypesKept, IdsKept DEF IInv, Types, recVars
  <1>6. Stages'
    BY <1>1, <1>2, <1>4 DEF Stages, Updating, Restarting, Counting, Replacing
  <1>7. Launching'
    BY <1>1, <1>4, LaunchingKept DEF IInv
  <1>8. Serves'
    BY <1>1, <1>2, <1>4 DEF IInv, Serves, Pending, Restarting
  <1>9. Calm'
    BY <1>1, <1>2, <1>4, CalmUpdating
  <1>10. Tally'
    BY <1>1, <1>2, <1>4, TallyElsewhere
  <1>11. Addresses'
    <2>1. \A j \in DOMAIN was : Address(j) => Address(j)'
      BY <1>1, <1>2, <1>4 DEF Address, Bare, Unvisited, Stayed
    <2>. QED
      BY <1>1, <1>2, <1>4, <2>1, AddressesOn DEF Updating
  <1>. QED
    BY <1>5, <1>6, <1>7, <1>8, <1>9, <1>10, <1>11 DEF IInv

\* An instance cannot be restarted: it is to be removed.
LEMMA ToRemove ==
    ASSUME IInv, NEW i \in Id, op.at \in {"visit", "reassign", "relaunch"}, NextListed(i),
           build.count # DYNAMIC_INSTANCES, Goes("remove", FALSE),
           UNCHANGED <<build, last, row, on, launch, reads, stops, was, late, cut, raced, settled>>,
           DOMAIN port' = Id, \A j \in Id : port'[j] \in Port \cup {NoPort},
           DOMAIN runs' = Id, \A j \in Id \ {i} : runs'[j] = runs[j]
    PROVE  IInv'
  <1>1. op.kind = "update" /\ ~settled
    BY DEF IInv, Stages, Updating, Restarting
  <1>2. /\ op' \in OpType /\ op'.at = "remove" /\ op'.kind = op.kind /\ op'.todo = op.todo
        /\ op'.errs = (op.errs \/ FALSE)
    BY GoesIs DEF IInv, Types, Where, Updating, Restarting
  <1>3. Types' /\ Ids'
    BY <1>2 DEF IInv, Types, Ids
  <1>4. Stages'
    BY <1>1, <1>2 DEF Stages, Updating, Restarting, Counting, Replacing
  <1>5. Launching'
    BY LaunchingKept DEF IInv
  <1>6. Serves'
    BY <1>2 DEF IInv, Serves, Pending, Restarting, NextListed
  <1>7. Calm'
    BY <1>1, <1>2, CalmUpdating
  <1>8. Tally'
    BY <1>1, <1>2, TallyElsewhere
  <1>9. Addresses'
    BY <1>2 DEF Addresses, Steady
  <1>. QED
    BY <1>3, <1>4, <1>5, <1>6, <1>7, <1>8, <1>9 DEF IInv

\* The three ways in which an instance comes to be removed instead of restarted.
LEMMA FailuresKeep ==
    ASSUME IInv, NEW i \in Id, notReachable(i) \/ restartFails(i) \/ relaunchFails(i)
    PROVE  IInv'
  <1>1. CASE notReachable(i)
    BY <1>1, ToRemove DEF notReachable, Visits, requestVars, recVars, IInv, Types
  <1>2. CASE restartFails(i)
    <2>1. DOMAIN port' = Id /\ DOMAIN runs' = Id
      BY <1>2 DEF restartFails, IInv, Types
    <2>2. \A j \in Id : port'[j] \in Port \cup {NoPort}
      BY <1>2 DEF restartFails, IInv, Types
    <2>3. \A j \in Id \ {i} : runs'[j] = runs[j]
      BY <1>2 DEF restartFails, IInv, Types
    <2>. QED
      BY <1>2, <2>1, <2>2, <2>3, ToRemove DEF restartFails, Visits, requestVars
  <1>3. CASE relaunchFails(i)
    <2>1. build.count # DYNAMIC_INSTANCES
      BY <1>3 DEF relaunchFails, IInv, Stages, Restarting
    <2>. QED
      BY <1>3, <2>1, ToRemove DEF relaunchFails, requestVars, recVars, IInv, Types
  <1>. QED
    BY <1>1, <1>2, <1>3

\* The containers are torn down and the port is released.
LEMMA restartInstanceKeeps ==
    ASSUME IInv, NEW i \in Id, restartInstance(i)
    PROVE  IInv'
  <1>1. /\ op.at = "visit" /\ op.kind = "update" /\ ~settled /\ op.at \in Updating \ {"remove"}
        /\ NextListed(i) /\ i \in op.todo /\ build.count # DYNAMIC_INSTANCES
    BY DEF restartInstance, Visits, NextListed, IInv, Stages, Updating, Restarting
  <1>2. op' \in OpType
    BY DEF restartInstance, IInv, Types, OpType, Where, Updating, Restarting
  <1>3. /\ op'.at = "reassign" /\ op'.kind = op.kind /\ op'.todo = op.todo /\ op'.errs = op.errs
        /\ op'.prev = port[i]
    BY <1>2, SMT DEF restartInstance, IInv, Types, OpType
  <1>4. UNCHANGED <<build, last, row, on, launch, reads, stops, was, taken, raced, settled>>
    BY DEF restartInstance, requestVars
  <1>5. /\ DOMAIN port' = Id /\ DOMAIN runs' = Id /\ port'[i] = NoPort
        /\ \A j \in Id \ {i} : port'[j] = port[j] /\ runs'[j] = runs[j]
    BY DEF restartInstance, IInv, Types
  <1>6. late' = late \ {i} /\ cut' = cut \ {i}
    BY DEF restartInstance
  <1>7. Types'
    BY <1>2, <1>4, <1>5 DEF IInv, Types
  <1>8. Ids'
    BY <1>4 DEF IInv, Ids
  <1>9. Stages'
    BY <1>1, <1>3, <1>4 DEF Stages, Updating, Restarting, Counting, Replacing
  <1>10. Launching'
    BY <1>1, <1>4, LaunchingKept DEF IInv
  <1>11. Serves'
    BY <1>1, <1>3, <1>4, <1>5, <1>6 DEF IInv, Serves, Pending, Restarting
  <1>12. Calm'
    BY <1>1, <1>3, <1>4, CalmUpdating
  <1>13. Tally'
    BY <1>1, <1>3, <1>4, TallyElsewhere
  <1>14. Addresses'
    <2>1. NextListed(i)' /\ \A j : NextListed(j)' => NextListed(j)
      BY <1>1, <1>3 DEF NextListed
    <2>2. ASSUME i \in DOMAIN was, Address(i)
          PROVE  Address(i)'
      BY <1>1, <1>3, <1>4, <2>1, <2>2 DEF Address, Bare, Unvisited
    <2>3. ASSUME NEW j \in DOMAIN was \ {i}, Address(j)
          PROVE  Address(j)'
      <3>1. j \in Id /\ ~Bare(j)' /\ ~Bare(j)
        BY <1>1, <2>1, NextListedUnique DEF IInv, Types, Bare
      <3>2. Unvisited(j)' => Unvisited(j)
        BY <1>1, <1>3 DEF Unvisited
      <3>. QED
        BY <1>4, <1>5, <2>3, <3>1, <3>2 DEF Address, Stayed
    <2>. QED
      BY <1>1, <1>3, <1>4, <2>2, <2>3, AddressesOn DEF Updating, Restarting
  <1>. QED
    BY <1>7, <1>8, <1>9, <1>10, <1>11, <1>12, <1>13, <1>14 DEF IInv

\* The port is claimed again, or another one: the address has stayed, or the port was
\* taken meanwhile.
LEMMA reassignPortsKeeps ==
    ASSUME IInv, NEW i \in Id, reassignPorts(i)
    PROVE  IInv'
  <1> DEFINE free == IF op.prev \in Free(on[i]) THEN {op.prev} ELSE Free(on[i])
  <1>1. /\ op.at = "reassign" /\ op.kind = "update" /\ ~settled /\ op.at \in Updating \ {"remove"}
        /\ NextListed(i) /\ build.count # DYNAMIC_INSTANCES
    BY DEF reassignPorts, IInv, Stages, Updating, Restarting
  <1>2. UNCHANGED <<build, last, row, on, runs, launch, reads, stops, was, late, cut, raced, settled>>
    BY DEF reassignPorts, requestVars
  <1>3. CASE row[i] = "none" \/ free = {}
    <2>1. Goes("remove", FALSE) /\ port' = port
      BY <1>3 DEF reassignPorts
    <2>. QED
      BY <1>1, <1>2, <2>1, ToRemove DEF IInv, Types
  <1>4. CASE ~(row[i] = "none" \/ free = {})
    <2>1. PICK p \in free : port' = [port EXCEPT ![i] = p]
      BY <1>4 DEF reassignPorts
    <2>2. /\ taken' = IF op.prev \in free \cup {NoPort} THEN taken ELSE taken \cup {i}
          /\ Goes("relaunch", FALSE)
      BY <1>4 DEF reassignPorts
    <2>3. /\ op' \in OpType /\ op'.at = "relaunch" /\ op'.kind = op.kind /\ op'.todo = op.todo
          /\ op'.errs = (op.errs \/ FALSE)
      BY <2>2, GoesIs DEF IInv, Types, Where, Updating, Restarting
    <2>4. p \in Port
      BY DEF Free
    <2>5. /\ DOMAIN port' = Id /\ port'[i] = p
          /\ \A j \in Id \ {i} : port'[j] = port[j]
      BY <2>1 DEF IInv, Types
    <2>6. op.prev \in free => p = op.prev
      OBVIOUS
    <2> HIDE DEF free
    <2>7. Types'
      BY <1>2, <2>3, <2>4, <2>5 DEF IInv, Types
    <2>8. Ids'
      BY <1>2 DEF IInv, Ids
    <2>9. Stages'
      BY <1>1, <1>2, <2>3 DEF Stages, Updating, Restarting, Counting, Replacing
    <2>10. Launching'
      BY <1>1, <1>2, LaunchingKept DEF IInv
    <2>11. Serves'
      BY <1>1, <1>2, <2>3 DEF IInv, Serves, Pending, Restarting
    <2>12. Calm'
      BY <1>1, <1>2, <2>3, CalmUpdating
    <2>13. Tally'
      BY <1>1, <1>2, <2>3, TallyElsewhere
    <2>14. Addresses'
      <3>1. NextListed(i)' /\ \A j : NextListed(j)' => NextListed(j)
        BY <1>1, <2>3 DEF NextListed
      <3>2. ASSUME i \in DOMAIN was, Address(i)
            PROVE  Address(i)'
        <4>1. was[i] = <<on[i], op.prev>> /\ launch'[i].at = "idle"
          BY <1>1, <1>2, <3>2 DEF Address, Bare
        <4>2. Stayed(i)'
          BY <1>2, <2>2, <2>5, <2>6, <4>1 DEF Stayed
        <4>. QED
          BY <2>3, <3>1, <4>1, <4>2 DEF Address, Bare, Unvisited
      <3>3. ASSUME NEW j \in DOMAIN was \ {i}, Address(j)
            PROVE  Address(j)'
        <4>1. j \in Id /\ ~Bare(j)' /\ ~Bare(j)
          BY <1>1, <2>3, NextListedUnique DEF IInv, Types, Bare
        <4>2. Unvisited(j)' => Unvisited(j)
          BY <1>1, <2>3 DEF Unvisited, NextListed
        <4>3. taken \subseteq taken'
          BY <2>2
        <4>. QED
          BY <1>2, <2>5, <3>3, <4>1, <4>2, <4>3 DEF Address, Stayed
      <3>. QED
        BY <1>1, <1>2, <2>3, <3>2, <3>3, AddressesOn DEF Updating, Restarting
    <2>. QED
      BY <2>7, <2>8, <2>9, <2>10, <2>11, <2>12, <2>13, <2>14 DEF IInv
  <1>. QED
    BY <1>3, <1>4

\* The instance runs the generation on record.
LEMMA relaunchKeeps ==
    ASSUME IInv, NEW i \in Id, relaunch(i)
    PROVE  IInv'
  <1>1. /\ op.at = "relaunch" /\ op.kind = "update" /\ ~settled /\ op.at \in Updating \ {"remove"}
        /\ NextListed(i)
    BY DEF relaunch, IInv, Stages, Updating, Restarting
  <1>2. op' \in OpType
    BY DEF relaunch, IInv, Types, OpType, Where, Updating
  <1>3. /\ op'.at = "visit" /\ op'.kind = op.kind /\ op'.todo = op.todo \ {i} /\ op'.errs = op.errs
    BY <1>2, SMT DEF relaunch, IInv, Types, OpType
  <1>4. UNCHANGED <<build, last, row, on, port, launch, reads, stops, was, taken, late, cut, raced, settled>>
    BY DEF relaunch, requestVars
  <1>5. DOMAIN runs' = Id /\ runs'[i] = build.gen /\ \A j \in Id \ {i} : runs'[j] = runs[j]
    BY DEF relaunch, IInv, Types
  <1>6. Types' /\ Ids'
    BY <1>2, <1>4, <1>5 DEF IInv, Types, Ids
  <1>7. Stages'
    BY <1>1, <1>3, <1>4 DEF Stages, Updating, Restarting, Counting, Replacing
  <1>8. Launching'
    BY <1>1, <1>4, LaunchingKept DEF IInv
  <1>9. Serves'
    BY <1>1, <1>3, <1>4, <1>5 DEF IInv, Serves, Pending, Restarting
  <1>10. Calm'
    BY <1>1, <1>3, <1>4, CalmUpdating
  <1>11. Tally'
    BY <1>1, <1>3, <1>4, TallyElsewhere
  <1>12. Addresses'
    <2>1. ASSUME NEW j \in DOMAIN was, Address(j)
          PROVE  Address(j)'
      <3>1. ~Bare(j)' /\ ~Bare(j)
        BY <1>1, <1>3 DEF Bare
      <3>2. j \in Id /\ (NextListed(j) => j = i)
        BY <1>1, NextListedUnique DEF IInv, Types
      <3>3. Unvisited(j)' => Unvisited(j)
        BY <1>1, <1>3, <3>2 DEF Unvisited
      <3>. QED
        BY <1>4, <2>1, <3>1, <3>3 DEF Address, Stayed
    <2>. QED
      BY <1>1, <1>3, <1>4, <2>1, AddressesOn DEF Updating
  <1>. QED
    BY <1>6, <1>7, <1>8, <1>9, <1>10, <1>11, <1>12 DEF IInv

\* Every instance has been visited.
LEMMA visitEndsKeeps ==
    ASSUME IInv, visitEnds
    PROVE  IInv'
  <1>1. /\ op.at = "visit" /\ op.kind = "update" /\ ~settled /\ op.at \in Updating \ {"remove"}
        /\ op.todo = {}
    BY DEF visitEnds, IInv, Stages, Updating, Restarting
  <1>2. UNCHANGED <<build, last, row, on, port, runs, launch, reads, stops, was, taken, late, cut, raced>>
    BY DEF visitEnds, requestVars, recVars
  <1>3. Ids' /\ Launching'
    BY <1>1, <1>2, IdsKept, LaunchingKept DEF IInv, recVars
  <1>4. Serves'
    BY <1>1, <1>2 DEF IInv, Serves, Pending, Restarting
  <1>5. CASE build.count > 0
    <2>1. /\ op' \in OpType /\ op'.at = "count" /\ op'.kind = op.kind /\ op'.errs = (op.errs \/ FALSE)
          /\ settled' = settled
      BY <1>5, GoesIs DEF visitEnds, IInv, Types, Where, Counting
    <2>2. Types'
      BY <1>2, <2>1, TypesKept DEF IInv, Types, recVars
    <2>3. build.count \in Nat
      BY <1>5, SMT DEF IInv, Types, BuildType
    <2>4. Stages'
      BY <1>1, <1>2, <1>5, <2>1, <2>3 DEF Stages, Updating, Restarting, Counting, Replacing
    <2>5. Calm'
      BY <1>1, <1>2, <2>1, CalmUpdating
    <2>6. Tally'
      BY <1>1, <2>1, TallyElsewhere
    <2>7. \A i \in DOMAIN was : Address(i) => Address(i)'
      BY <1>1, <1>2, <2>1 DEF Address, Bare, Unvisited, Stayed
    <2>8. Addresses'
      BY <1>1, <1>2, <2>1, <2>7, AddressesOn
    <2>. QED
      BY <1>3, <1>4, <2>2, <2>4, <2>5, <2>6, <2>8 DEF IInv
  <1>6. CASE ~(build.count > 0)
    <2>1. /\ op' \in OpType /\ op'.at = "idle" /\ op'.kind = op.kind /\ ~op'.errs /\ op'.todo = {}
          /\ settled' \in BOOLEAN /\ (settled' => ~op.errs)
      BY <1>6, EndsIs DEF visitEnds, IInv, Types
    <2>2. Types'
      BY <1>2, <2>1, TypesKept DEF IInv, Types, recVars
    <2>3. Stages'
      BY <1>1, <2>1 DEF Stages, Updating, Restarting, Counting, Replacing
    <2>4. Calm'
      <3>1. Watched' => Watched
        BY <1>1, <1>2, <2>1 DEF Watched, Smooth
      <3>. QED
        BY <1>2, <3>1 DEF IInv, Calm, Quiet, ByOp
    <2>5. Tally'
      BY <1>1, <1>2, <1>6, <2>1 DEF Tally
    <2>6. Addresses'
      <3>1. Steady' => Steady
        BY <1>1, <1>2, <2>1 DEF Steady
      <3>2. \A i \in DOMAIN was : Address(i) => Address(i)'
        BY <1>1, <1>2, <2>1 DEF Address, Bare, Unvisited, Stayed
      <3>3. op'.at \notin Updating \cup {"count"} /\ op'.at \notin {"surplus", "launching"}
        BY <2>1 DEF Updating, Restarting
      <3>. QED
        BY <1>2, <3>1, <3>2, <3>3 DEF IInv, Addresses
    <2>. QED
      BY <1>3, <1>4, <2>2, <2>3, <2>4, <2>5, <2>6 DEF IInv
  <1>. QED
    BY <1>5, <1>6

-----------------------------------------------------------------------------
(* The steps of a launch, and the prune                                    *)

\* A launch reserves its port, on an instance that no update has found.
LEMMA reservePortKeeps ==
    ASSUME IInv, NEW i \in Id, reservePort(i)
    PROVE  IInv'
  <1>1. UNCHANGED <<build, last, row, on, runs, reads, stops, op, was, taken, late, cut, raced, settled>>
    BY DEF reservePort, histVars
  <1>2. PICK p \in Free(on[i]) : port' = [port EXCEPT ![i] = p]
    BY DEF reservePort
  <1>3. DOMAIN port' = Id /\ (\A j \in Id \ {i} : port'[j] = port[j]) /\ port'[i] \in Port
    BY <1>2 DEF Free, IInv, Types
  <1>4. launch' \in [Id -> LaunchType]
    <2>0. launch[i] \in LaunchType
      BY DEF IInv, Types
    <2>1. [launch[i] EXCEPT !.at = "launch"] \in LaunchType
      BY <2>0 DEF LaunchType
    <2>2. launch' = [launch EXCEPT ![i] = [launch[i] EXCEPT !.at = "launch"]]
      BY DEF reservePort
    <2>. QED
      BY <2>1, <2>2 DEF IInv, Types
  <1>5. \A j \in Id : /\ launch'[j].at = "idle" <=> launch[j].at = "idle"
                      /\ launch'[j].by = launch[j].by
    BY DEF reservePort, IInv, Types, LaunchType
  <1>6. \A j \in Id : ByOp(j)' <=> ByOp(j)
    BY <1>5 DEF ByOp
  <1>7. Types' /\ Ids'
    BY <1>1, <1>3, <1>4 DEF IInv, Types, Ids
  <1>8. Stages'
    BY <1>1, StagesKept DEF IInv
  <1>9. Launching'
    BY <1>1, <1>6 DEF IInv, Launching
  <1>10. Serves'
    BY <1>1 DEF IInv, Serves, Pending
  <1>11. Calm'
    <2>1. Watched' => Watched
      BY <1>1 DEF Watched, Smooth
    <2>2. Quiet => Quiet'
      BY <1>1, <1>5, <1>6 DEF Quiet
    <2>. QED
      BY <2>1, <2>2 DEF IInv, Calm
  <1>12. Tally'
    BY <1>1, <1>6 DEF IInv, Tally, Smooth, Rows
  <1>13. Addresses'
    <2>1. Steady' => Steady
      BY <1>1 DEF Steady
    <2>2. ASSUME NEW j \in DOMAIN was, Address(j)
          PROVE  Address(j)'
      <3>1. j \in Id /\ j # i
        BY <2>2 DEF Address, reservePort, IInv, Types
      <3>. QED
        BY <1>1, <1>3, <1>5, <2>2, <3>1 DEF Address, Stayed, Unvisited, Bare, NextListed
    <2>. QED
      BY <1>1, <2>1, <2>2 DEF IInv, Addresses, Rows
  <1>. QED
    BY <1>7, <1>8, <1>9, <1>10, <1>11, <1>12, <1>13 DEF IInv

\* A launch of a request answers to nobody, one of the operation to it.
LEMMA AnswersIs ==
    ASSUME IInv, NEW i \in Id, NEW e \in BOOLEAN, Answers(i, e), launch[i].at # "idle"
    PROVE  /\ launch' \in [Id -> LaunchType] /\ launch'[i].at = "idle"
           /\ \A j \in Id \ {i} : launch'[j] = launch[j]
           /\ ~ByOp(i) => op' = op
           /\ ByOp(i) => /\ op.at = "launching" /\ op.todo = {} /\ op.need > 0 /\ op.kind \in {"update", "converge"}
                         /\ op'.at = "surplus" /\ op'.kind = op.kind /\ op'.todo = {}
                         /\ op'.need = (IF e THEN 0 ELSE op.need - 1) /\ op'.errs = (op.errs \/ e)
           /\ op' \in OpType
  <1>1. NoLaunch \in LaunchType /\ NoLaunch.at = "idle"
    BY SMT DEF NoLaunch, LaunchType
  <1>2. /\ launch' \in [Id -> LaunchType] /\ launch'[i].at = "idle"
        /\ \A j \in Id \ {i} : launch'[j] = launch[j]
    BY <1>1 DEF Answers, IInv, Types
  <1>3. CASE ~ByOp(i)
    BY <1>2, <1>3 DEF Answers, ByOp, IInv, Types
  <1>4. CASE ByOp(i)
    <2>1. op.at = "launching" /\ op.todo = {} /\ op.need > 0 /\ op.kind \in {"update", "converge"}
      BY <1>4 DEF IInv, Launching, Stages, Counting
    <2>2. op' = [op EXCEPT !.at = "surplus", !.need = IF e THEN 0 ELSE @ - 1, !.errs = @ \/ e]
      BY <1>4 DEF Answers, ByOp
    <2>3. (op.errs \/ e) \in BOOLEAN
      BY SMT DEF IInv, Types, OpType
    <2>4. (IF e THEN 0 ELSE op.need - 1) \in Nat
      BY <2>1, SMT DEF IInv, Types, OpType
    <2>5. op' \in OpType
      BY <2>2, <2>3, <2>4 DEF IInv, Types, OpType, Where, Counting
    <2>6. /\ op'.at = "surplus" /\ op'.kind = op.kind /\ op'.todo = op.todo
          /\ op'.need = (IF e THEN 0 ELSE op.need - 1)
      BY <2>2, SMT DEF IInv, Types, OpType
    <2>7. op'.errs = (op.errs \/ e)
      BY <2>2, SMT DEF IInv, Types, OpType
    <2>. QED
      BY <1>2, <1>4, <2>1, <2>5, <2>6, <2>7
  <1>. QED
    BY <1>3, <1>4

\* After the answer the operation waits for no launch.
LEMMA AnswersLaunching ==
    ASSUME IInv, NEW i \in Id, NEW e \in BOOLEAN, Answers(i, e), launch[i].at # "idle", settled' = settled, build' = build
    PROVE  Launching' /\ Stages'
  <1>1. /\ launch'[i].at = "idle" /\ \A j \in Id \ {i} : launch'[j] = launch[j]
        /\ ~ByOp(i) => op' = op
        /\ ByOp(i) => /\ op.at = "launching" /\ op.kind \in {"update", "converge"}
                      /\ op'.at = "surplus" /\ op'.kind = op.kind
    BY AnswersIs
  <1>2. \A j \in Id : ByOp(j)' => ByOp(j) /\ j # i
    BY <1>1 DEF ByOp
  <1>3. CASE ~ByOp(i)
    BY <1>1, <1>2, <1>3, StagesKept DEF IInv, Launching
  <1>4. CASE ByOp(i)
    <2>1. Launching'
      BY <1>2, <1>4 DEF IInv, Launching
    <2>2. build.count \in Nat /\ (op.kind = "update" => build.count > 0) /\ ~settled
      BY <1>1, <1>4 DEF IInv, Stages, Counting
    <2>. QED
      BY <1>1, <1>4, <2>1, <2>2 DEF Stages, Updating, Restarting, Counting, Replacing
  <1>. QED
    BY <1>3, <1>4

\* A launch fails: an error of the operation, or a request's own affair.
LEMMA launchFailsKeeps ==
    ASSUME IInv, NEW i \in Id, launchFails(i)
    PROVE  IInv'
  <1>1. UNCHANGED <<build, reads, stops, was, raced, settled>> /\ launch[i].at # "idle" /\ Answers(i, TRUE)
    BY DEF launchFails
  <1>2. Shrinks
    <2>1. CASE Deleted({i})
      BY <1>1, <2>1, DeletedShrinks DEF IInv
    <2>2. CASE port' \in {port, [port EXCEPT ![i] = NoPort]} /\ UNCHANGED <<last, row, on, runs, late, cut>>
      BY <1>1, <2>2 DEF Shrinks, IInv, Types
    <2>. QED
      BY <2>1, <2>2 DEF launchFails
  <1>3. Launching' /\ Stages'
    BY <1>1, AnswersLaunching
  <1>4. /\ op' \in OpType /\ launch' \in [Id -> LaunchType]
        /\ ~ByOp(i) => op' = op
        /\ ByOp(i) => op.at = "launching" /\ op'.errs
    BY <1>1, AnswersIs
  <1>5. Types' /\ Ids' /\ Serves'
    <2>1. \A j \in Id : Pending(j) => Pending(j)'
      <3>1. CASE ByOp(i)
        BY <1>4, <3>1 DEF Pending, Restarting
      <3>2. CASE ~ByOp(i)
        BY <1>4, <3>2 DEF Pending
      <3>. QED
        BY <3>1, <3>2
    <2>. QED
      BY <1>1, <1>2, <1>4, <2>1, ShrinksKeeps DEF IInv, Types
  <1>6. ~Watched'
    <2>1. CASE ByOp(i)
      BY <1>4, <2>1 DEF Watched, Smooth
    <2>2. CASE ~ByOp(i)
      <3>1. ~Watched
        BY <1>1, <2>2, DisturbedUnwatched
      <3>. QED
        BY <1>1, <1>4, <2>2, <3>1 DEF Watched, Smooth
    <2>. QED
      BY <2>1, <2>2
  <1>7. Calm' /\ Tally' /\ Addresses'
    BY <1>5, <1>6, UnwatchedKept DEF Types
  <1>. QED
    BY <1>3, <1>5, <1>7 DEF IInv

\* The prune takes an instance of an on-demand build, the row of a request's launch, or
\* that of the operation's own launch, which then fails.
LEMMA PruneKeeps ==
    ASSUME IInv, NEW i \in Id, Prune(i)
    PROVE  IInv'
  <1>1. UNCHANGED <<build, launch, reads, stops, op, was, taken, raced, settled>> /\ Deleted({i})
    BY DEF Prune
  <1>2. Shrinks
    BY <1>1, DeletedShrinks DEF IInv
  <1>3. Types' /\ Ids' /\ Serves'
    BY <1>1, <1>2, ShrinksKeeps DEF IInv, Types, Pending
  <1>4. Stages' /\ Launching'
    BY <1>1, StagesKept, LaunchingKept DEF IInv
  <1>5. CASE build.count = DYNAMIC_INSTANCES \/ ~ByOp(i)
    <2>1. ~Watched
      BY <1>5, DisturbedUnwatched DEF Prune
    <2>2. Calm' /\ Tally' /\ Addresses'
      BY <1>1, <2>1, RequestUnwatched DEF IInv
    <2>. QED
      BY <1>3, <1>4, <2>2 DEF IInv
  <1>6. CASE ByOp(i)
    <2>1. op.at = "launching" /\ (\A j \in Id : ByOp(j) => j = i) /\ ~settled
      BY <1>6 DEF IInv, Launching, Stages
    <2>2. /\ \A j \in Id \ {i} : row'[j] = row[j] /\ port'[j] = port[j] /\ on'[j] = on[j]
          /\ row'[i] = "none"
      BY <1>1 DEF Deleted
    <2>3. Calm'
      <3>1. Watched' => Watched
        BY <1>1 DEF Watched, Smooth
      <3>2. \A j \in Id : ByOp(j)' <=> ByOp(j)
        BY <1>1 DEF ByOp
      <3>3. Quiet => Quiet'
        BY <1>1, <1>6, <2>2, <3>2 DEF Quiet
      <3>. QED
        BY <3>1, <3>3 DEF IInv, Calm
    <2>4. Tally'
      <3>1. Rows' \ {i} = Rows \ {i}
        BY <2>2 DEF Rows
      <3>2. \A j \in Id : ByOp(j)' => j = i
        BY <1>1, <2>1 DEF ByOp
      <3>3. Smooth' => Cardinality(Rows' \ {i}) + op'.need = build'.count
        BY <1>1, <1>6, <2>1, <3>1 DEF IInv, Tally, Smooth
      <3>. QED
        BY <1>1, <2>1, <3>2, <3>3 DEF Tally
    <2>5. Addresses'
      <3>1. Steady' => Steady
        BY <1>1 DEF Steady
      <3>2. ASSUME NEW j \in DOMAIN was, Address(j)
            PROVE  Address(j)'
        <4>1. j \in Id /\ j # i
          BY <1>6, <3>2 DEF Address, ByOp, IInv, Types
        <4>. QED
          BY <1>1, <2>2, <3>2, <4>1 DEF Address, Stayed, Unvisited, Bare, NextListed
      <3>3. op'.at \notin Updating \cup {"count"}
        BY <1>1, <2>1 DEF Updating, Restarting
      <3>. QED
        BY <1>1, <3>1, <3>2, <3>3 DEF IInv, Addresses
    <2>. QED
      BY <1>3, <1>4, <2>3, <2>4, <2>5 DEF IInv
  <1>. QED
    BY <1>5, <1>6

-----------------------------------------------------------------------------
(* How many instances there are                                            *)

\* The rows are finite in number.
LEMMA RowsFinite ==
    ASSUME Types, Ids
    PROVE  /\ IsFiniteSet(Rows) /\ Cardinality(Rows) \in Nat /\ Rows \subseteq Nat
           /\ IsFiniteSet(DOMAIN was) /\ Cardinality(DOMAIN was) \in Nat
  <1>1. last \in Nat
    BY DEF Types
  <1>2. Rows \in SUBSET Nat /\ DOMAIN was \in SUBSET Nat
    BY RebuildAssumption DEF Rows, Types
  <1>3. (\A i \in Rows : i <= last) /\ \A i \in DOMAIN was : i <= last
    BY DEF Types, Ids, Rows
  <1>4. IsFiniteSet(Rows) /\ IsFiniteSet(DOMAIN was)
    BY <1>1, <1>2, <1>3, FS_BoundedSetOfNaturals
  <1>. QED
    BY <1>2, <1>4, FS_CardinalityType

\* A proper subset of a finite set is smaller.
LEMMA FewerElements ==
    ASSUME NEW S, IsFiniteSet(S), NEW T \in SUBSET S, NEW x \in S \ T
    PROVE  Cardinality(T) < Cardinality(S)
  <1>1. IsFiniteSet(T) /\ Cardinality(T) <= Cardinality(S) /\ Cardinality(S) # Cardinality(T)
    BY FS_Subset
  <1>2. Cardinality(T) \in Nat /\ Cardinality(S) \in Nat
    BY <1>1, FS_CardinalityType
  <1>. QED
    BY <1>1, <1>2, SMT

\* The place of an instance in the list.
Before(S, i) == {j \in S : j < i}
Place(S, i) == Cardinality(Before(S, i))

\* A place in the list lies within its length.
LEMMA PlaceType ==
    ASSUME NEW S, IsFiniteSet(S), S \subseteq Nat, NEW i \in S
    PROVE  /\ IsFiniteSet(Before(S, i)) /\ Place(S, i) \in Nat /\ Place(S, i) < Cardinality(S)
  <1>1. Before(S, i) \in SUBSET S
    BY DEF Before
  <1>2. i \in S \ Before(S, i)
    <2>1. ~(i < i)
      BY SMT
    <2>. QED
      BY <2>1 DEF Before
  <1>. QED
    BY <1>1, <1>2, FewerElements, FS_Subset, FS_CardinalityType DEF Place

\* A later instance has a later place.
LEMMA PlaceRises ==
    ASSUME NEW S, IsFiniteSet(S), S \subseteq Nat, NEW i \in S, NEW j \in S, i < j
    PROVE  Place(S, i) < Place(S, j)
  <1>1. \A k \in S : k < i => k < j
    BY SMT
  <1>2. ~(i < i)
    BY SMT
  <1>3. Before(S, i) \in SUBSET Before(S, j) /\ i \in Before(S, j) \ Before(S, i)
    BY <1>1, <1>2 DEF Before
  <1>4. IsFiniteSet(Before(S, j))
    BY PlaceType
  <1>. QED
    BY <1>3, <1>4, FewerElements DEF Place

\* Of a list that is as long as the count, or longer, the count is kept; of a shorter
\* one, all.
LEMMA SurplusLeaves ==
    ASSUME NEW S, IsFiniteSet(S), S \subseteq Nat, NEW t \in Nat
    PROVE  /\ Cardinality(S) <= t => surplus(S, t) = {}
           /\ t <= Cardinality(S) => Cardinality(S \ surplus(S, t)) = t
  <1>1. Cardinality(S) \in Nat
    BY FS_CardinalityType
  <1>2. surplus(S, t) \subseteq S /\ \A i \in S : i \in surplus(S, t) <=> Place(S, i) >= t
    BY DEF surplus, Place, Before
  <1>3. \A i \in S : Place(S, i) \in Nat /\ Place(S, i) < Cardinality(S)
    BY PlaceType
  <1>4. Cardinality(S) <= t => surplus(S, t) = {}
    <2>1. ASSUME Cardinality(S) <= t, NEW i \in S
          PROVE  ~(Place(S, i) >= t)
      BY <1>1, <1>3, <2>1, SMT
    <2>. QED
      BY <1>2, <2>1
  <1>5. ASSUME t <= Cardinality(S)
        PROVE  Cardinality(S \ surplus(S, t)) = t
    <2> DEFINE n == Cardinality(S)
               K == S \ surplus(S, t)
               f == [i \in S |-> Place(S, i)]
               g == [i \in K |-> Place(S, i)]
    <2>1. \A i, j \in S : Place(S, i) = Place(S, j) => i = j
      <3>1. SUFFICES ASSUME NEW i \in S, NEW j \in S, i # j
                     PROVE  Place(S, i) # Place(S, j)
        OBVIOUS
      <3>2. i < j \/ j < i
        BY <3>1, SMT
      <3>3. Place(S, i) < Place(S, j) \/ Place(S, j) < Place(S, i)
        BY <3>2, PlaceRises
      <3>. QED
        BY <1>3, <3>3, SMT
    <2>2. f \in Injection(S, 0 .. (n - 1))
      <3>1. \A i \in S : Place(S, i) \in 0 .. (n - 1)
        BY <1>1, <1>3, SMT
      <3>. QED
        BY <2>1, <3>1 DEF Injection, IsInjective
    <2>3. IsFiniteSet(0 .. (n - 1)) /\ Cardinality(0 .. (n - 1)) = n
      <3>1. n \in Nat
        BY <1>1
      <3> HIDE DEF n
      <3>. QED
        BY <3>1, FS_Interval, SMT
    <2>4. f \in Surjection(S, 0 .. (n - 1))
      BY <2>2, <2>3, FS_Injection
    <2>5. \A i \in S : i \in K <=> Place(S, i) < t
      BY <1>2, <1>3, SMT
    <2>6. \A k \in 0 .. (t - 1) : \E i \in K : Place(S, i) = k
      <3>1. SUFFICES ASSUME NEW k \in 0 .. (t - 1)
                     PROVE  \E i \in K : Place(S, i) = k
        OBVIOUS
      <3>2. k \in 0 .. (n - 1) /\ k < t
        BY <1>1, <1>5, SMT
      <3>3. PICK i \in S : f[i] = k
        BY <2>4, <3>2 DEF Surjection
      <3>. QED
        BY <2>5, <3>2, <3>3
    <2>7. \A i \in K : Place(S, i) \in 0 .. (t - 1)
      BY <1>3, <2>5, SMT
    <2>8. g \in Bijection(K, 0 .. (t - 1))
      BY <2>1, <2>6, <2>7 DEF Bijection, Injection, Surjection, IsInjective
    <2>9. IsFiniteSet(K) /\ ExistsBijection(K, 0 .. (t - 1))
      BY <2>8, FS_Subset DEF ExistsBijection
    <2>10. Cardinality(0 .. (t - 1)) = Cardinality(K)
      BY <2>9, FS_Bijection
    <2>11. Cardinality(0 .. (t - 1)) = t
      BY FS_Interval, SMT
    <2>. QED
      BY <2>10, <2>11
  <1>. QED
    BY <1>4, <1>5

-----------------------------------------------------------------------------
(* Convergence to the count                                                *)

\* A launch ends: of the operation's own, there is one instance more and one fewer to
\* launch.
LEMMA finalizeInstanceKeeps ==
    ASSUME IInv, NEW i \in Id, finalizeInstance(i)
    PROVE  IInv'
  <1>1. /\ UNCHANGED <<build, last, on, port, reads, stops, was, taken, cut, raced, settled>>
        /\ launch[i].at # "idle" /\ row[i] # "none" /\ Answers(i, FALSE)
    BY DEF finalizeInstance
  <1>2. /\ DOMAIN row' = Id /\ row'[i] = "final" /\ \A j \in Id \ {i} : row'[j] = row[j]
        /\ DOMAIN runs' = Id /\ runs'[i] = launch[i].gen /\ \A j \in Id \ {i} : runs'[j] = runs[j]
    BY DEF finalizeInstance, IInv, Types
  <1>3. late \subseteq late' /\ (launch[i].gen = build.gen \/ op.at = "list" \/ i \in late')
    BY DEF finalizeInstance
  <1>4. /\ op' \in OpType /\ launch' \in [Id -> LaunchType] /\ launch'[i].at = "idle"
        /\ \A j \in Id \ {i} : launch'[j] = launch[j]
        /\ ~ByOp(i) => op' = op
        /\ ByOp(i) => /\ op.at = "launching" /\ op.need > 0 /\ op.kind \in {"update", "converge"}
                      /\ op'.at = "surplus" /\ op'.kind = op.kind /\ op'.todo = {}
                      /\ op'.need = op.need - 1 /\ op'.errs = (op.errs \/ FALSE)
    BY <1>1, AnswersIs
  <1>5. Types'
    BY <1>1, <1>2, <1>4 DEF IInv, Types
  <1>6. Ids'
    BY <1>1, <1>2 DEF IInv, Ids
  <1>7. Launching' /\ Stages'
    BY <1>1, AnswersLaunching
  <1>8. Serves'
    <2>1. \A j \in Id : Pending(j) => Pending(j)'
      <3>1. CASE ByOp(i)
        BY <1>4, <3>1 DEF Pending, Restarting
      <3>2. CASE ~ByOp(i)
        BY <1>4, <3>2 DEF Pending
      <3>. QED
        BY <3>1, <3>2
    <2>2. op.at = "list" => Pending(i)
      BY DEF Pending
    <2>. QED
      BY <1>1, <1>2, <1>3, <2>1, <2>2 DEF IInv, Serves
  <1>9. CASE ~ByOp(i)
    <2>1. ~Watched
      BY <1>1, <1>9, DisturbedUnwatched
    <2>2. Calm' /\ Tally' /\ Addresses'
      BY <1>1, <1>4, <1>9, <2>1, RequestUnwatched DEF IInv
    <2>. QED
      BY <1>5, <1>6, <1>7, <1>8, <2>2 DEF IInv
  <1>10. CASE ByOp(i)
    <2>1. /\ op.at = "launching" /\ op'.at = "surplus" /\ op'.kind = op.kind /\ op'.todo = {}
          /\ op'.need = op.need - 1 /\ (op.errs => op'.errs) /\ ~settled
      BY <1>4, <1>10 DEF IInv, Stages
    <2>2. Smooth' => Smooth
      BY <1>1, <2>1 DEF Smooth
    <2>3. Calm'
      <3>1. Smooth => Quiet
        BY <2>1 DEF IInv, Calm, Watched
      <3>2. Quiet => Quiet'
        BY <1>1, <1>2, <1>4, <1>10 DEF Quiet, IInv, Launching, ByOp
      <3>. QED
        BY <2>2, <3>1, <3>2 DEF Calm, Watched
    <2>4. Tally'
      <3>1. Rows' = Rows /\ i \in Rows
        BY <1>1, <1>2 DEF Rows
      <3>2. SUFFICES ASSUME Smooth'
                     PROVE  Cardinality(Rows) + op'.need = build.count
        BY <1>1, <2>1, <3>1 DEF Tally
      <3>3. Cardinality(Rows \ {i}) + op.need = build.count
        BY <1>10, <2>1, <2>2, <3>2 DEF IInv, Tally
      <3>4. Cardinality(Rows \ {i}) = Cardinality(Rows) - 1
        BY <3>1, RowsFinite, FS_RemoveElement DEF IInv
      <3>5. Cardinality(Rows) \in Nat /\ op.need \in Nat
        BY RowsFinite DEF IInv, Types, OpType
      <3>. QED
        BY <2>1, <3>3, <3>4, <3>5, SMT
    <2>5. Addresses'
      <3>1. Steady' => Steady
        BY <1>1, <2>1 DEF Steady
      <3>2. ASSUME NEW j \in DOMAIN was, Address(j)
            PROVE  Address(j)'
        <4>1. j \in Id /\ j # i
          BY <1>1, <3>2 DEF Address, IInv, Types
        <4>. QED
          BY <1>1, <1>4, <2>1, <3>2, <4>1 DEF Address, Stayed, Unvisited, Bare
      <3>3. op'.at \notin Updating \cup {"count"}
        BY <2>1 DEF Updating, Restarting
      <3>. QED
        BY <1>1, <2>1, <3>1, <3>2, <3>3 DEF IInv, Addresses
    <2>. QED
      BY <1>5, <1>6, <1>7, <1>8, <2>3, <2>4, <2>5 DEF IInv
  <1>. QED
    BY <1>9, <1>10

\* The rows are counted: what is kept and what is missing make up the count, and an
\* update that found no more than the count stops none.
LEMMA convergeBuildInstancesKeeps ==
    ASSUME IInv, convergeBuildInstances
    PROVE  IInv'
  <1> DEFINE n == Cardinality(Rows)
             S == surplus(Rows, build.count)
             need == IF n < build.count THEN build.count - n ELSE 0
  <1>1. /\ op.at = "count" /\ op.kind \in {"update", "converge"} /\ ~settled /\ build.count \in Nat
        /\ (op.kind = "update" => build.count > 0)
    BY DEF convergeBuildInstances, IInv, Stages, Counting
  <1>2. n \in Nat /\ IsFiniteSet(Rows) /\ Rows \subseteq Nat
    BY RowsFinite DEF IInv
  <1>3. need \in Nat
    BY <1>1, <1>2, SMT
  <1>4. S \in SUBSET Id
    BY DEF surplus, Rows
  <1>5. op' = [op EXCEPT !.at = "surplus", !.todo = S, !.need = need]
    BY DEF convergeBuildInstances
  <1>6. /\ UNCHANGED <<build, last, row, on, port, runs, launch, reads, stops, was, taken, late, cut, settled>>
        /\ raced' = (raced \/ UnderWay)
    BY DEF convergeBuildInstances, requestVars, recVars
  <1> HIDE DEF S, need
  <1>7. op' \in OpType
    BY <1>3, <1>4, <1>5 DEF IInv, Types, OpType, Where, Counting
  <1>8. op'.at = "surplus" /\ op'.kind = op.kind /\ op'.todo = S /\ op'.need = need /\ op'.errs = op.errs
    BY <1>3, <1>4, <1>5, SMT DEF IInv, Types, OpType
  <1>9. raced' \in BOOLEAN
    BY <1>6, SMT DEF IInv, Types
  <1>10. Types' /\ Ids'
    BY <1>6, <1>7, <1>9, TypesKept, IdsKept DEF IInv, Types, recVars
  <1>11. Stages'
    BY <1>1, <1>6, <1>8 DEF Stages, Updating, Restarting, Counting, Replacing
  <1>12. Launching'
    BY <1>1, <1>6, LaunchingKept DEF IInv
  <1>13. Serves'
    BY <1>1, <1>6 DEF IInv, Serves, Pending, Restarting
  <1>14. Calm'
    BY <1>6 DEF Calm, Watched, Smooth, Quiet, UnderWay
  <1>15. Tally'
    <2>1. Cardinality(Rows \ S) + need = build.count
      <3>1. CASE n < build.count
        <4>1. S = {} /\ need = build.count - n
          <5>1. n <= build.count
            BY <1>1, <1>2, <3>1, SMT
          <5>. QED
            BY <1>1, <1>2, <3>1, <5>1, SurplusLeaves DEF S, need
        <4>2. Rows \ S = Rows
          BY <4>1
        <4>. QED
          BY <1>1, <1>2, <4>1, <4>2, SMT
      <3>2. CASE ~(n < build.count)
        <4>1. build.count <= n
          BY <1>1, <1>2, <3>2, SMT
        <4>2. Cardinality(Rows \ S) = build.count /\ need = 0
          BY <1>1, <1>2, <3>2, <4>1, SurplusLeaves DEF S, need
        <4>. QED
          BY <1>1, <4>2, SMT
      <3>. QED
        BY <3>1, <3>2
    <2>2. Rows' = Rows
      BY <1>6 DEF Rows
    <2>. QED
      BY <1>1, <1>6, <1>8, <2>1, <2>2 DEF Tally
  <1>16. Addresses'
    <2>1. SUFFICES ASSUME Steady'
                   PROVE  S = {} /\ \A i \in DOMAIN was : Address(i)'
      BY <1>6, <1>8 DEF Addresses, Updating, Restarting
    <2>2. Steady
      BY <1>1, <1>6, <1>8, <2>1 DEF Steady
    <2>3. Rows \subseteq DOMAIN was /\ \A i \in DOMAIN was : Address(i)
      BY <1>1, <2>2 DEF IInv, Addresses
    <2>4. IsFiniteSet(DOMAIN was) /\ Cardinality(DOMAIN was) \in Nat
      BY RowsFinite DEF IInv
    <2>5. n <= Cardinality(DOMAIN was)
      BY <2>3, <2>4, FS_Subset
    <2>6. n <= build.count
      BY <1>1, <1>2, <2>2, <2>4, <2>5, SMT DEF Steady
    <2>7. S = {}
      BY <1>1, <1>2, <2>6, SurplusLeaves DEF S
    <2>8. \A i \in DOMAIN was : Address(i) => Address(i)'
      BY <1>1, <1>6, <1>8 DEF Address, Bare, Unvisited, Stayed
    <2>. QED
      BY <2>3, <2>7, <2>8
  <1>. QED
    BY <1>10, <1>11, <1>12, <1>13, <1>14, <1>15, <1>16 DEF IInv

\* A surplus instance is stopped: what is kept stays the same.
LEMMA stopSurplusKeeps ==
    ASSUME IInv, NEW i \in Id, stopSurplus(i)
    PROVE  IInv'
  <1>1. /\ op.at = "surplus" /\ op.kind \in {"update", "converge"} /\ ~settled /\ i \in op.todo
        /\ build.count \in Nat /\ (op.kind = "update" => build.count > 0)
    BY DEF stopSurplus, NextListed, IInv, Stages, Counting
  <1>2. UNCHANGED <<build, launch, reads, stops, was, taken, raced, settled>>
    BY DEF stopSurplus, requestVars
  <1>3. PICK e \in BOOLEAN :
          /\ GoesPast(i, "surplus", e)
          /\ e \/ (row[i] # "none" /\ Deleted({i}))
          /\ Shrinks
    <2>1. CASE row[i] = "none"
      <3>1. GoesPast(i, "surplus", TRUE) /\ UNCHANGED <<recVars, late, cut>>
        BY <2>1 DEF stopSurplus
      <3>2. Shrinks
        BY <1>2, <3>1 DEF recVars, Shrinks, IInv, Types
      <3>. QED
        BY <3>1, <3>2
    <2>2. CASE row[i] # "none"
      <3>1. PICK stopped \in BOOLEAN : stopInstance(i, stopped) /\ GoesPast(i, "surplus", ~stopped)
        BY <2>2 DEF stopSurplus
      <3>2. Shrinks
        BY <1>2, <3>1, stopInstanceShrinks DEF IInv
      <3>3. ~stopped \/ Deleted({i})
        BY <3>1 DEF stopInstance
      <3>4. (~stopped) \in BOOLEAN
        BY SMT
      <3>. QED
        BY <2>2, <3>1, <3>2, <3>3, <3>4
    <2>. QED
      BY <2>1, <2>2
  <1>4. /\ op' \in OpType /\ op'.at = "surplus" /\ op'.kind = op.kind /\ op'.todo = op.todo \ {i}
        /\ op'.need = op.need /\ (op.errs \/ e => op'.errs)
    <2>1. op \in OpType /\ "surplus" \in Where
      BY DEF IInv, Types, Where, Counting
    <2>2. GoesPast(i, "surplus", e)
      BY <1>3
    <2>3. (op.errs \/ e) \in BOOLEAN
      BY <2>1, SMT DEF OpType
    <2>4. op' \in OpType
      BY <2>1, <2>2, <2>3 DEF GoesPast, OpType
    <2>5. op'.at = "surplus" /\ op'.kind = op.kind /\ op'.todo = op.todo \ {i} /\ op'.need = op.need
      BY <2>1, <2>2, SMT DEF GoesPast, OpType
    <2>6. op.errs \/ e => op'.errs
      BY <2>1, <2>2, SMT DEF GoesPast, OpType
    <2>. QED
      BY <2>4, <2>5, <2>6
  <1>5. Types' /\ Ids' /\ Serves'
    BY <1>1, <1>2, <1>3, <1>4, ShrinksKeeps DEF IInv, Types, Pending, Restarting
  <1>6. Stages'
    BY <1>1, <1>2, <1>4 DEF Stages, Updating, Restarting, Counting, Replacing
  <1>7. Launching'
    BY <1>1, <1>2, LaunchingKept DEF IInv
  <1>8. CASE e
    <2>1. ~Watched'
      BY <1>4, <1>8 DEF Watched, Smooth
    <2>2. Calm' /\ Tally' /\ Addresses'
      BY <1>5, <2>1, UnwatchedKept DEF Types
    <2>. QED
      BY <1>5, <1>6, <1>7, <2>2 DEF IInv
  <1>9. CASE ~e
    <2>1. /\ \A j \in Id \ {i} : row'[j] = row[j]
          /\ row'[i] = "none"
      BY <1>3, <1>9 DEF Deleted
    <2>2. Smooth' => Smooth
      BY <1>2, <1>4 DEF Smooth
    <2>3. Calm'
      <3>1. Smooth => Quiet
        BY <1>1 DEF IInv, Calm, Watched
      <3>2. Quiet => Quiet'
        BY <1>2, <2>1 DEF Quiet, ByOp
      <3>. QED
        BY <2>2, <3>1, <3>2 DEF Calm, Watched
    <2>4. Tally'
      <3>1. Rows' \ op'.todo = Rows \ op.todo
        BY <1>1, <1>4, <2>1 DEF Rows
      <3>. QED
        BY <1>1, <1>2, <1>4, <2>2, <3>1 DEF IInv, Tally
    <2>5. ~Steady'
      <3>1. Steady' => Steady
        BY <1>1, <1>2, <1>4 DEF Steady
      <3>. QED
        BY <1>1, <3>1 DEF IInv, Addresses
    <2>. QED
      BY <1>5, <1>6, <1>7, <2>3, <2>4, <2>5 DEF IInv, Addresses
  <1>. QED
    BY <1>8, <1>9

\* A missing instance is opened: it is not counted until it runs.
LEMMA launchMissingKeeps ==
    ASSUME IInv, NEW i \in Id, launchMissing(i)
    PROVE  IInv'
  <1>1. /\ op.at = "surplus" /\ op.kind \in {"update", "converge"} /\ ~settled /\ op.todo = {} /\ op.need > 0
        /\ build.count \in Nat /\ (op.kind = "update" => build.count > 0)
    BY DEF launchMissing, IInv, Stages, Counting
  <1>2. UNCHANGED <<build, reads, stops, was, taken, late, cut, raced, settled>> /\ openInstance(i, build.gen, "op")
    BY DEF launchMissing, requestVars
  <1>3. /\ op' \in OpType /\ op'.at = "launching" /\ op'.kind = op.kind /\ op'.todo = op.todo
        /\ op'.need = op.need /\ op'.errs = (op.errs \/ FALSE)
    <2>1. op \in OpType /\ "launching" \in Where
      BY DEF IInv, Types, Where, Counting
    <2>. QED
      BY <2>1, GoesIs DEF launchMissing
  <1>4. /\ Types' /\ Ids' /\ Serves' /\ i \notin Rows /\ Rows' = Rows \cup {i} /\ i \notin DOMAIN was
        /\ \A j \in Id \ {i} : row'[j] = row[j] /\ port'[j] = port[j] /\ on'[j] = on[j] /\ launch'[j] = launch[j]
        /\ launch'[i].at = "reserve" /\ launch'[i].by = "op"
    <2>1. build.gen \in Int /\ reads' \in [Starter -> Int]
      BY <1>2 DEF IInv, Types, BuildType
    <2>2. \A j \in Id : ~Pending(j)
      BY <1>1 DEF Pending, Restarting
    <2>. QED
      BY <1>2, <1>3, <2>1, <2>2, openInstanceKeeps
  <1>5. Stages'
    BY <1>1, <1>2, <1>3 DEF Stages, Updating, Restarting, Counting, Replacing
  <1>6. \A j \in Id : ByOp(j)' <=> j = i
    BY <1>1, <1>4 DEF IInv, Launching, ByOp
  <1>7. Launching'
    BY <1>3, <1>6 DEF Launching
  <1>8. Smooth' => Smooth
    BY <1>2, <1>3 DEF Smooth
  <1>9. Calm'
    <2>1. Smooth => Quiet
      BY <1>1 DEF IInv, Calm, Watched
    <2>2. Quiet => Quiet'
      BY <1>1, <1>2, <1>4, <1>6 DEF Quiet, IInv, Launching
    <2>. QED
      BY <1>8, <2>1, <2>2 DEF Calm, Watched
  <1>10. Tally'
    <2>1. Rows' \ {i} = Rows /\ Rows \ op.todo = Rows
      BY <1>1, <1>4
    <2>2. Smooth => Cardinality(Rows) + op.need = build.count
      BY <1>1, <2>1 DEF IInv, Tally
    <2>. QED
      BY <1>1, <1>2, <1>3, <1>6, <1>8, <2>1, <2>2 DEF Tally
  <1>11. Addresses'
    <2>1. Steady' => Steady
      BY <1>1, <1>2, <1>3 DEF Steady
    <2>2. ASSUME NEW j \in DOMAIN was, Address(j)
          PROVE  Address(j)'
      <3>1. j \in Id /\ j # i
        BY <1>4 DEF IInv, Types
      <3>. QED
        BY <1>1, <1>2, <1>3, <1>4, <2>2, <3>1 DEF Address, Stayed, Unvisited, Bare
    <2>3. op'.at \notin Updating \cup {"count"}
      BY <1>3 DEF Updating, Restarting
    <2>. QED
      BY <1>1, <1>2, <1>3, <2>1, <2>2, <2>3 DEF IInv, Addresses
  <1>. QED
    BY <1>4, <1>5, <1>7, <1>9, <1>10, <1>11 DEF IInv

\* With nothing missing, what is kept is the count.
LEMMA countEndsKeeps ==
    ASSUME IInv, countEnds
    PROVE  IInv'
  <1> DEFINE e == op.need > 0
  <1>1. /\ op.at = "surplus" /\ op.kind \in {"update", "converge"} /\ op.todo = {}
    BY DEF countEnds, IInv, Stages, Counting
  <1>2. UNCHANGED <<build, last, row, on, port, runs, launch, reads, stops, was, taken, late, cut, raced>>
    BY DEF countEnds, requestVars, recVars
  <1>3. e \in BOOLEAN /\ Ends(e)
    <2>1. e \in BOOLEAN
      BY SMT
    <2>. QED
      BY <2>1 DEF countEnds
  <1> HIDE DEF e
  <1>4. /\ op' \in OpType /\ op'.at = "idle" /\ op'.kind = op.kind /\ ~op'.errs /\ op'.todo = {}
        /\ settled' \in BOOLEAN /\ (settled' => ~op.errs /\ ~e)
    BY <1>3, EndsIs DEF IInv, Types
  <1>5. Types' /\ Ids'
    BY <1>2, <1>4, TypesKept, IdsKept DEF IInv, Types, recVars
  <1>6. Stages'
    BY <1>1, <1>4 DEF Stages, Updating, Restarting, Counting, Replacing
  <1>7. Launching'
    BY <1>1, <1>2, LaunchingKept DEF IInv
  <1>8. Serves'
    BY <1>1, <1>2 DEF IInv, Serves, Pending, Restarting
  <1>9. Calm'
    <2>1. Watched' => Watched
      BY <1>1, <1>2, <1>4 DEF Watched, Smooth
    <2>. QED
      BY <1>2, <2>1 DEF IInv, Calm, Quiet, ByOp
  <1>10. Tally'
    <2>1. SUFFICES ASSUME Smooth', settled'
                   PROVE  Cardinality(Rows) = build.count
      BY <1>2, <1>4 DEF Tally, Rows
    <2>2. Smooth /\ ~e
      BY <1>2, <1>4, <2>1 DEF Smooth
    <2>3. Rows \ op.todo = Rows
      BY <1>1
    <2>4. Cardinality(Rows) + op.need = build.count
      BY <1>1, <2>2, <2>3 DEF IInv, Tally
    <2>5. op.need \in Nat /\ Cardinality(Rows) \in Nat
      BY RowsFinite DEF IInv, Types, OpType
    <2>. QED
      BY <2>2, <2>4, <2>5, SMT DEF e
  <1>11. Addresses'
    <2>1. Steady' => Steady
      BY <1>1, <1>2, <1>4 DEF Steady
    <2>2. \A i \in DOMAIN was : Address(i) => Address(i)'
      BY <1>1, <1>2, <1>4 DEF Address, Bare, Unvisited, Stayed
    <2>3. op'.at \notin Updating \cup {"count"} /\ op'.at \notin {"surplus", "launching"}
      BY <1>4 DEF Updating, Restarting
    <2>. QED
      BY <1>2, <2>1, <2>2, <2>3 DEF IInv, Addresses
  <1>. QED
    BY <1>5, <1>6, <1>7, <1>8, <1>9, <1>10, <1>11 DEF IInv

-----------------------------------------------------------------------------
(* The theorems                                                            *)

\* The invariant holds when corkd starts.
LEMMA InitIInv == Init => IInv
  <1> SUFFICES ASSUME Init
               PROVE  IInv
    OBVIOUS
  <1>1. op \in OpType /\ op.at = "idle" /\ ~op.errs /\ op.kind = "none"
    BY NoOpIs DEF Init
  <1>2. build \in BuildType
    BY SMT DEF Init, BuildType, DYNAMIC_INSTANCES
  <1>3. NoLaunch \in LaunchType /\ NoLaunch.at = "idle" /\ 0 \in Int /\ 0 \in Nat
    BY SMT DEF NoLaunch, LaunchType
  <1>4. was = <<>> => DOMAIN was = {}
    BY SMT
  <1>5. Types
    BY <1>1, <1>2, <1>3, <1>4 DEF Types, Init
  <1>6. Ids /\ Serves
    BY <1>4 DEF Ids, Serves, Init
  <1>7. Stages
    BY <1>1 DEF Stages, Init, Updating, Restarting, Counting, Replacing
  <1>8. Launching
    BY <1>3 DEF Launching, ByOp, Init
  <1>9. ~Watched /\ ~Steady
    BY <1>1 DEF Watched, Steady, Init
  <1>10. Calm /\ Tally /\ Addresses
    BY <1>1, <1>9 DEF Calm, Tally, Addresses, Init
  <1>. QED
    BY <1>5, <1>6, <1>7, <1>8, <1>10 DEF IInv

\* Every step keeps it.
LEMMA NextIInv == IInv /\ [Next]_vars => IInv'
  <1> SUFFICES ASSUME IInv, [Next]_vars
               PROVE  IInv'
    OBVIOUS
  <1>1. CASE UNCHANGED vars
    <2>1. UNCHANGED <<build, last, row, on, port, runs, launch, reads, stops, op, was, taken, late, cut, raced, settled>>
      BY <1>1 DEF vars, recVars, histVars
    <2>2. Types' /\ Ids' /\ Serves'
      BY <2>1 DEF IInv, Types, Ids, Serves, Pending
    <2>3. Stages' /\ Launching'
      BY <2>1, StagesKept, LaunchingKept DEF IInv
    <2>4. Calm'
      BY <2>1 DEF IInv, Calm, Watched, Smooth, Quiet, ByOp
    <2>5. Tally'
      BY <2>1 DEF IInv, Tally, Smooth, ByOp, Rows
    <2>6. Addresses'
      BY <2>1 DEF IInv, Addresses, Steady, Address, Stayed, Unvisited, Bare, NextListed, Rows
    <2>. QED
      BY <2>2, <2>3, <2>4, <2>5, <2>6 DEF IInv
  <1>2. CASE UpdateStep
    BY <1>2, UpdateKeeps, finalizeBuildKeeps, getBuildInstancesKeeps, listFailsKeeps, visitEndsKeeps,
       passOverKeeps, stopOnDemandKeeps, FailuresKeep, restartInstanceKeeps, reassignPortsKeeps,
       relaunchKeeps, removeInsteadKeeps DEF UpdateStep
  <1>3. CASE ConvergeStep
    BY <1>3, BeginsOther, lockSchemaKeeps, openBuildKeeps, openFailsKeeps, generateFailsKeeps,
       convergeBuildInstancesKeeps, countEndsKeeps, stopSurplusKeeps, launchMissingKeeps
       DEF ConvergeStep, UpdateSchema
  <1>4. CASE RemoveStep
    BY <1>4, BeginsOther, removedSchemaInstancesKeeps, removeBuildMetadataKeeps, releaseInstanceKeeps
       DEF RemoveStep, DeleteSchema
  <1>5. CASE RequestStep
    BY <1>5, StartReadsKeeps, StartFailsKeeps, newInstanceKeeps, reservePortKeeps, finalizeInstanceKeeps,
       launchFailsKeeps, PruneKeeps, StopEndsKeeps, StopKeeps DEF RequestStep
  <1>6. CASE WorkerOut \/ WorkerBack \/ RemoveWorker \/ Crash
    BY <1>6, WorkersKeep, RemoveWorkerKeeps, CrashKeeps
  <1>. QED
    BY <1>1, <1>2, <1>3, <1>4, <1>5, <1>6 DEF Next

\* The strengthened invariant of the operations that hold updateMu.
THEOREM RebuildInductive == Spec => []IInv
  BY InitIInv, NextIInv, PTL DEF Spec

\* Between operations no instance serves another generation than the one on record,
\* but for late launches and what a reported error or a crash left behind.
THEOREM RunsRecordedHolds == Spec => []RunsRecorded
  <1>1. IInv => RunsRecorded
    BY DEF IInv, Serves, RunsRecorded, Pending, Restarting
  <1>. QED
    BY <1>1, RebuildInductive, PTL

\* After an update or a converge without an error a persistent build has the instances
\* that its schema asks for.
THEOREM CountHeldHolds == Spec => []CountHeld
  <1>1. ASSUME IInv, settled, build.there, ~raced, build.count >= (IF op.kind = "update" THEN 1 ELSE 0)
        PROVE  /\ Cardinality(Rows) = build.count
               /\ \A i \in Rows : row[i] = "final" /\ (runs[i] = build.gen \/ i \in late \cup cut)
    <2>1. op.at = "idle" /\ ~op.errs /\ op.kind \in {"update", "converge"}
      BY <1>1 DEF IInv, Stages, Types, OpType
    <2>2. build.count # DYNAMIC_INSTANCES /\ (op.kind = "update" => build.count > 0)
      BY <1>1, SMT DEF IInv, Types, BuildType, DYNAMIC_INSTANCES
    <2>3. Smooth
      BY <1>1, <2>1, <2>2 DEF Smooth
    <2>4. Cardinality(Rows) = build.count
      BY <1>1, <2>1, <2>2, <2>3 DEF IInv, Tally
    <2>5. Quiet
      BY <1>1, <2>1, <2>3 DEF IInv, Calm, Watched
    <2>6. \A i \in Id : ~ByOp(i) /\ ~Pending(i)
      BY <1>1, <2>1 DEF IInv, Launching, Pending, Restarting
    <2>7. \A i \in Rows : row[i] = "final"
      BY <1>1, <2>5, <2>6 DEF Quiet, Rows, IInv, Types
    <2>. QED
      BY <1>1, <2>4, <2>6, <2>7 DEF IInv, Serves, Rows
  <1>2. IInv => CountHeld
    BY <1>1 DEF CountHeld
  <1>. QED
    BY <1>2, RebuildInductive, PTL

\* An update without an error has kept every persistent instance's address, or the
\* port was taken by a launch.
THEOREM MovesReportedHolds == Spec => []MovesReported
  <1>1. ASSUME IInv, settled, op.kind = "update", ~raced, Cardinality(DOMAIN was) <= build.count,
               NEW i \in DOMAIN was
        PROVE  Stayed(i)
    <2>1. op.at = "idle" /\ ~op.errs
      BY <1>1 DEF IInv, Stages
    <2>2. Cardinality(DOMAIN was) \in Nat /\ build.count \in Int
      BY <1>1, RowsFinite DEF IInv, Types, BuildType
    <2>3. build.count >= 0
      BY <1>1, <2>2, SMT
    <2>4. Steady
      BY <1>1, <2>1, <2>3 DEF Steady
    <2>. QED
      BY <1>1, <2>1, <2>4 DEF IInv, Addresses, Address, Bare
  <1>2. IInv => MovesReported
    BY <1>1 DEF MovesReported, Stayed
  <1>. QED
    BY <1>2, RebuildInductive, PTL

-----------------------------------------------------------------------------
(* A removal                                                               *)

Removed == settled /\ op.kind = "delete" => Rows = {}

\* Only the end of an operation settles it, and that of a removal without an error finds
\* no instance.
LEMMA SettlesRemoved ==
    ASSUME IInv, [Next]_vars, ~settled, settled', op'.kind = "delete"
    PROVE  Rows' = {}
  <1>0. op \in OpType /\ settled \in BOOLEAN
    BY DEF IInv, Types
  <1>1. settled' # settled
    OBVIOUS
  <1>2. CASE removeBuildMetadata
    <2> DEFINE e == Rows # {}
    <2>1. Cleaned(e) /\ e \in BOOLEAN /\ row' = row
      BY <1>2, SMT DEF removeBuildMetadata, recVars
    <2>2. Rows' = Rows
      BY <2>1 DEF Rows
    <2> HIDE DEF e
    <2>3. ~e
      BY <1>0, <1>1, <2>1, CleanedIs
    <2>. QED
      BY <2>2, <2>3 DEF e
  <1>3. ASSUME NEW i \in Id, releaseInstance(i)
        PROVE  FALSE
    <2>1. Cleaned(TRUE) \/ settled' = settled
      BY <1>3 DEF releaseInstance
    <2>. QED
      BY <1>0, <1>1, <2>1, CleanedIs
  <1>4. CASE visitEnds \/ openBuild \/ countEnds
    <2>1. Ends(FALSE) \/ Ends(op.need > 0)
      BY <1>1, <1>4 DEF visitEnds, openBuild, countEnds
    <2>2. op'.kind = op.kind
      <3>1. FALSE \in BOOLEAN /\ (op.need > 0) \in BOOLEAN
        BY SMT
      <3>. QED
        BY <1>0, <2>1, <3>1, EndsIs
    <2>3. op.kind # "delete"
      BY <1>4 DEF visitEnds, openBuild, countEnds, IInv, Stages, Updating, Counting
    <2>. QED
      BY <2>2, <2>3
  <1>5. CASE listFails \/ generateFails
    BY <1>5, <1>0, EndsIs DEF listFails, generateFails
  <1>6. CASE UNCHANGED vars
    BY <1>1, <1>6 DEF vars, histVars
  <1>7. CASE \/ Update \/ finalizeBuild \/ getBuildInstances
             \/ \E i \in Id : \/ passOver(i) \/ stopOnDemand(i) \/ notReachable(i) \/ restartInstance(i)
                              \/ restartFails(i) \/ reassignPorts(i) \/ relaunch(i) \/ relaunchFails(i)
                              \/ removeInstead(i)
    BY <1>1, <1>7 DEF Update, Begins, finalizeBuild, getBuildInstances, passOver, stopOnDemand, notReachable,
                      restartInstance, restartFails, reassignPorts, relaunch, relaunchFails, removeInstead
  <1>8. CASE \/ UpdateSchema \/ lockSchema \/ openFails \/ convergeBuildInstances
             \/ DeleteSchema \/ removedSchemaInstances
             \/ \E i \in Id : stopSurplus(i) \/ launchMissing(i)
    BY <1>1, <1>8 DEF UpdateSchema, DeleteSchema, Begins, lockSchema, openFails, convergeBuildInstances,
                      removedSchemaInstances, stopSurplus, launchMissing
  <1>9. CASE RequestStep
    BY <1>1, <1>9 DEF RequestStep, StartReads, StartFails, newInstance, reservePort, finalizeInstance,
                      launchFails, Prune, StopEnds, Stop, histVars
  <1>10. CASE WorkerOut \/ WorkerBack \/ RemoveWorker \/ Crash
    BY <1>1, <1>10 DEF WorkerOut, WorkerBack, RemoveWorker, Crash, histVars
  <1>. QED
    BY <1>2, <1>3, <1>4, <1>5, <1>6, <1>7, <1>8, <1>9, <1>10 DEF Next, UpdateStep, ConvergeStep, RemoveStep

\* Deleting instances makes none.
LEMMA RowsOnlyGo ==
    ASSUME NEW S, Deleted(S) \/ row' = row
    PROVE  Rows' \subseteq Rows
  <1>1. CASE row' = row
    BY <1>1 DEF Rows
  <1>2. CASE Deleted(S)
    <2> SUFFICES ASSUME NEW i \in Id, row'[i] # "none" PROVE row[i] # "none"
      BY DEF Rows
    <2>1. row' = [k \in Id |-> IF k \in S THEN "none" ELSE row[k]]
      BY <1>2 DEF Deleted
    <2>2. row'[i] = IF i \in S THEN "none" ELSE row[i]
      BY <2>1
    <2>. QED
      BY <2>2
  <1>. QED
    BY <1>1, <1>2

\* After it nobody makes a row: there is no build to refer to.
LEMMA RemovedStays ==
    ASSUME IInv, Removed, [Next]_vars, settled, settled', op'.kind = "delete"
    PROVE  Rows' = {}
  <1>1. op.at = "idle" /\ \A i \in Id : ~ByOp(i)
    BY DEF IInv, Stages, Launching
  <1>2. ASSUME op' = op, ~build.there => Rows' \subseteq Rows
        PROVE  Rows' = {}
    BY <1>2 DEF Removed, IInv, Stages
  <1>3. CASE UNCHANGED vars
    BY <1>2, <1>3 DEF vars, recVars, Rows
  <1>4. ~UpdateStep
    BY <1>1 DEF UpdateStep, Update, Begins, finalizeBuild, getBuildInstances, listFails, visitEnds, passOver,
                Visits, stopOnDemand, notReachable, restartInstance, restartFails, reassignPorts, relaunch,
                relaunchFails, removeInstead
  <1>5. ~ConvergeStep
    BY <1>1 DEF ConvergeStep, UpdateSchema, Begins, lockSchema, openBuild, openFails, generateFails,
                convergeBuildInstances, countEnds, stopSurplus, launchMissing
  <1>6. ~RemoveStep
    BY <1>1 DEF RemoveStep, DeleteSchema, Begins, removedSchemaInstances, removeBuildMetadata, releaseInstance
  <1>7. CASE RequestStep
    <2>1. ASSUME NEW s \in Starter, StartReads(s) \/ StartFails(s) \/ \E j \in Id : newInstance(s, j)
          PROVE  op' = op /\ (~build.there => Rows' \subseteq Rows)
      BY <2>1 DEF StartReads, StartFails, newInstance, recVars, Rows
    <2>2. ASSUME NEW j \in Id, reservePort(j) \/ Prune(j)
          PROVE  op' = op /\ Rows' \subseteq Rows
      <3>1. op' = op /\ (Deleted({j}) \/ row' = row)
        BY <2>2 DEF reservePort, Prune
      <3>. QED
        BY <3>1, RowsOnlyGo
    <2>3. ASSUME NEW j \in Id, finalizeInstance(j)
          PROVE  op' = op /\ Rows' \subseteq Rows
      <3>1. op' = op
        BY <1>1, <2>3 DEF finalizeInstance, Answers, ByOp
      <3>2. row[j] # "none" /\ row' = [row EXCEPT ![j] = "final"] /\ DOMAIN row = Id
        BY <2>3 DEF finalizeInstance, IInv, Types
      <3>3. Rows' \subseteq Rows
        BY <3>2 DEF Rows
      <3>. QED
        BY <3>1, <3>3
    <2>4. ASSUME NEW j \in Id, launchFails(j)
          PROVE  op' = op /\ Rows' \subseteq Rows
      <3>1. op' = op
        BY <1>1, <2>4 DEF launchFails, Answers, ByOp
      <3>2. Deleted({j}) \/ row' = row
        BY <2>4 DEF launchFails
      <3>. QED
        BY <3>1, <3>2, RowsOnlyGo
    <2>5. ASSUME NEW s \in Stopper, StopEnds(s) \/ \E j \in Id : Stop(s, j)
          PROVE  op' = op /\ Rows' \subseteq Rows
      <3>1. op' = op /\ (row' = row \/ Deleted({stops[s]}))
        BY <2>5 DEF StopEnds, Stop, stopInstance, recVars
      <3>. QED
        BY <3>1, RowsOnlyGo
    <2>. QED
      BY <1>2, <1>7, <2>1, <2>2, <2>3, <2>4, <2>5 DEF RequestStep
  <1>8. CASE WorkerOut \/ WorkerBack \/ RemoveWorker
    <2>1. op' = op /\ Rows' \subseteq Rows
      BY <1>8 DEF WorkerOut, WorkerBack, RemoveWorker, Deleted, recVars, Rows
    <2>. QED
      BY <1>2, <2>1
  <1>9. ~Crash
    BY DEF Crash
  <1>. QED
    BY <1>3, <1>4, <1>5, <1>6, <1>7, <1>8, <1>9 DEF Next

\* After a removal without an error the build has no instance and no request makes one.
THEOREM RemovalFinalHolds == Spec => []RemovalFinal
  <1>1. Init => Removed
    BY DEF Init, Removed
  <1>2. IInv /\ Removed /\ [Next]_vars => Removed'
    <2> SUFFICES ASSUME IInv, Removed, [Next]_vars, settled', op'.kind = "delete"
                 PROVE  Rows' = {}
      BY DEF Removed
    <2>. QED
      BY SettlesRemoved, RemovedStays
  <1>3. IInv /\ Removed => RemovalFinal
    BY DEF IInv, Stages, Removed, RemovalFinal
  <1>. QED
    BY <1>1, <1>2, <1>3, RebuildInductive, PTL DEF Spec

=============================================================================
