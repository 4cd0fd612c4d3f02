--------------------------- MODULE LaunchesProofs ---------------------------
(***************************************************************************)
(* The slots of a worker balance and are not exceeded, for any number of   *)
(* jobs, slots and conns: the inductive invariant of LaunchQueue, how the  *)
(* counts follow a job that moves, the steps of a job and of the worker,   *)
(* and the theorems; every launch is counted once, in the right ring.      *)
(* Then the exporter: it tells of every drop and never announces a         *)
(* recovery that was not one, for any depth of its channel, number of      *)
(* samples and number of outages.  Last the stalls of a worker's daemon:   *)
(* the count ejects it on enough of them and misses none, for any call     *)
(* timeout, window and limit.                                              *)
(***************************************************************************)
EXTENDS LaunchQueue, LaunchMetrics, Stalls, FiniteSetTheorems, TLAPS

\* The leaves are Zenon's, but for arithmetic and the like.
USE Zenon

PC == {"idle", "admit", "images", "join", "queued", "checked", "select", "taken",
       "leave", "refused", "running", "held", "finish", "ring", "done"}
JobRec == [pc : PC, q : Queue, ch : Queue, n : Nat, hold : Nat, ok : BOOLEAN]

ConnType == made \in Conn /\ cur \in {0, made}
KindType == kind \in [Job -> Pool \X {"request", "rebuild"}]
CountType ==
    /\ sem \in [Pool -> [Queue -> Nat]] /\ waiting \in [Pool -> [Queue -> Nat]]
    /\ holdNanos \in [Queue -> Nat]
JobType == job \in [Job -> JobRec]

\* The jobs of pool p in queue q that are at one of pcs.
Of(p, q, pcs) == {j \in Job : PoolOf(j) = p /\ job[j].q = q /\ job[j].pc \in pcs}

\* QueuesBalance, with its sets named.
Balance ==
    \A p \in Pool, q \in Queue :
        /\ sem[p][q] = Cardinality(Of(p, q, InSlot)) /\ sem[p][q] <= Slots
        /\ waiting[p][q] = Cardinality(Of(p, q, InQueue))

\* A job that was not in a queue when a conn was replaced is in the latest conn's: one
\* that joined the local queue, for want of the worker, is refused while the worker
\* is missing.
OnLatest ==
    \A j \in Job \ stranded :
        /\ job[j].pc \in {"checked", "select", "taken", "leave", "running"} => job[j].q = made
        /\ job[j].pc = "queued" => job[j].q \in {0, made} /\ (job[j].q = 0 => cur = 0)

IInv == ConnType /\ KindType /\ CountType /\ JobType /\ Balance /\ OnLatest

\* How much x adds to the size of S.
In(x, S) == IF x \in S THEN 1 ELSE 0

\* Of, after the step.
NextOf(p, q, pcs) == {j \in Job : PoolOf(j) = p /\ job'[j].q = q /\ job'[j].pc \in pcs}

-----------------------------------------------------------------------------
\* Two finite sets that differ at most in x.
LEMMA DifferInOne ==
  ASSUME NEW S, NEW T, NEW x, IsFiniteSet(S), T \ {x} = S \ {x}
  PROVE  Cardinality(T) = Cardinality(S) + In(x, T) - In(x, S)
  <1>1. /\ IsFiniteSet(S \ {x})
        /\ Cardinality(S \ {x}) = IF x \in S THEN Cardinality(S) - 1 ELSE Cardinality(S)
    BY FS_RemoveElement
  <1>2. T = S \ {x} \/ T = (S \ {x}) \cup {x}
    OBVIOUS
  <1>3. IsFiniteSet(T)
    BY SMT, <1>1, <1>2, FS_AddElement
  <1>4. Cardinality(T \ {x}) = IF x \in T THEN Cardinality(T) - 1 ELSE Cardinality(T)
    BY <1>3, FS_RemoveElement
  <1>5. Cardinality(S) \in Nat /\ Cardinality(T) \in Nat
    BY <1>3, FS_CardinalityType
  <1> QED
    BY SMT, <1>1, <1>4, <1>5 DEF In

\* When one job moves, a set of jobs by place changes in that job only.
LEMMA JobMoves ==
  ASSUME NEW j \in Job, \A k \in Job \ {j} : job'[k] = job[k], NEW p, NEW q, NEW pcs
  PROVE  Cardinality(NextOf(p, q, pcs))
            = Cardinality(Of(p, q, pcs)) + In(j, NextOf(p, q, pcs)) - In(j, Of(p, q, pcs))
  <1>1. NextOf(p, q, pcs) \ {j} = Of(p, q, pcs) \ {j}
    BY DEF Of, NextOf
  <1>2. IsFiniteSet(Of(p, q, pcs))
    BY LaunchQueueAssumption, FS_Subset DEF Of
  <1> QED
    BY <1>1, <1>2, DifferInOne

\* The counts follow a job that moves.
LEMMA BalanceKept ==
  ASSUME Balance, kind' = kind, NEW j \in Job, \A k \in Job \ {j} : job'[k] = job[k],
         \A p \in Pool, q \in Queue :
            /\ sem'[p][q] = sem[p][q] + In(j, NextOf(p, q, InSlot)) - In(j, Of(p, q, InSlot))
            /\ sem'[p][q] <= Slots
            /\ waiting'[p][q] = waiting[p][q] + In(j, NextOf(p, q, InQueue)) - In(j, Of(p, q, InQueue))
  PROVE  Balance'
  <1> SUFFICES ASSUME NEW p \in Pool, NEW q \in Queue
               PROVE  /\ sem'[p][q] = Cardinality(Of(p, q, InSlot)')
                      /\ waiting'[p][q] = Cardinality(Of(p, q, InQueue)')
    BY DEF Balance, Pool, Queue
  <1>1. Of(p, q, InSlot)' = NextOf(p, q, InSlot) /\ Of(p, q, InQueue)' = NextOf(p, q, InQueue)
    BY DEF Of, NextOf, PoolOf, InSlot, InQueue
  <1>2. Cardinality(NextOf(p, q, InSlot))
            = Cardinality(Of(p, q, InSlot)) + In(j, NextOf(p, q, InSlot)) - In(j, Of(p, q, InSlot))
    BY SMT, JobMoves
  <1>3. Cardinality(NextOf(p, q, InQueue))
            = Cardinality(Of(p, q, InQueue)) + In(j, NextOf(p, q, InQueue)) - In(j, Of(p, q, InQueue))
    BY SMT, JobMoves
  <1>4. sem[p][q] = Cardinality(Of(p, q, InSlot)) /\ waiting[p][q] = Cardinality(Of(p, q, InQueue))
    BY DEF Balance
  <1> QED
    BY <1>1, <1>2, <1>3, <1>4

\* A move within, or outside, what is counted leaves the counts right.
LEMMA QuietMove ==
  ASSUME Balance, CountType, UNCHANGED <<kind, sem, waiting>>,
         NEW j \in Job, \A k \in Job \ {j} : job'[k] = job[k],
         job'[j].pc \in InSlot <=> job[j].pc \in InSlot,
         job'[j].pc \in InQueue <=> job[j].pc \in InQueue,
         job[j].pc \in InSlot \cup InQueue => job'[j].q = job[j].q
  PROVE  Balance'
  <1>1. ASSUME NEW p \in Pool, NEW q \in Queue
        PROVE  /\ sem'[p][q] = sem[p][q] + In(j, NextOf(p, q, InSlot)) - In(j, Of(p, q, InSlot))
               /\ sem'[p][q] <= Slots
               /\ waiting'[p][q] = waiting[p][q] + In(j, NextOf(p, q, InQueue)) - In(j, Of(p, q, InQueue))
    <2>1. j \in NextOf(p, q, InSlot) <=> j \in Of(p, q, InSlot)
      BY DEF NextOf, Of
    <2>2. j \in NextOf(p, q, InQueue) <=> j \in Of(p, q, InQueue)
      BY DEF NextOf, Of
    <2>3. sem[p][q] \in Nat /\ waiting[p][q] \in Nat /\ sem[p][q] <= Slots
      BY DEF CountType, Balance
    <2> QED
      BY SMT, <2>1, <2>2, <2>3 DEF In
  <1> QED
    BY <1>1, BalanceKept

\* OnLatest, of one job.
Latest(j) ==
    /\ job[j].pc \in {"checked", "select", "taken", "leave", "running"} => job[j].q = made
    /\ job[j].pc = "queued" => job[j].q \in {0, made} /\ (job[j].q = 0 => cur = 0)

\* A step of one job leaves the others on the queue in use.
LEMMA LatestKept ==
  ASSUME OnLatest, UNCHANGED <<cur, made>>, NEW j \in Job, \A k \in Job \ {j} : job'[k] = job[k],
         stranded' \in {stranded, stranded \ {j}}, j \notin stranded' => Latest(j)'
  PROVE  OnLatest'
  <1> SUFFICES ASSUME NEW k \in Job, k \notin stranded'
               PROVE  Latest(k)'
    BY DEF OnLatest, Latest
  <1>1. CASE k = j
    BY <1>1
  <1>2. CASE k # j
    BY <1>2 DEF OnLatest, Latest
  <1> QED
    BY <1>1, <1>2

-----------------------------------------------------------------------------
(* One lemma per action: it keeps the inductive invariant.                 *)

\* The caps are read.
LEMMA AdmitReadsKeeps ==
  ASSUME IInv, NEW j \in Job, admitReads(j)
  PROVE  IInv'
  <1>1. JobType' /\ job'[j].pc \in {"admit", "images"} /\ job[j].pc = "idle"
        /\ \A k \in Job \ {j} : job'[k] = job[k]
    <2>1. daemonQueue \in Queue
      BY SMT, LaunchQueueAssumption DEF IInv, ConnType, Conn, Queue, daemonQueue
    <2>2. waiting["launch"][daemonQueue] \in Nat /\ holdNanos[daemonQueue] \in Nat
      BY <2>1 DEF IInv, CountType, Pool
    <2> QED
      BY SMT, <2>1, <2>2 DEF IInv, JobType, JobRec, PC, admitReads, At, Goto
  <1>2. Balance'
    BY <1>1, QuietMove DEF IInv, admitReads, InSlot, InQueue
  <1>3. OnLatest'
    BY <1>1, LatestKept DEF IInv, admitReads, Latest
  <1>4. ConnType' /\ KindType' /\ CountType'
    BY DEF IInv, ConnType, KindType, CountType, admitReads
  <1> QED
    BY <1>1, <1>2, <1>3, <1>4 DEF IInv

\* A launch is admitted or shed, and its images are ensured.
LEMMA AdmitKeeps ==
  ASSUME IInv, NEW j \in Job, admit(j) \/ ensureImages(j)
  PROVE  IInv'
  <1>1. JobType' /\ job'[j].pc \in {"images", "join", "finish"} /\ job[j].pc \in {"admit", "images"}
        /\ \A k \in Job \ {j} : job'[k] = job[k]
    BY SMT DEF IInv, JobType, JobRec, PC, admit, ensureImages, At, Goto, Fail
  <1>2. Balance'
    BY <1>1, QuietMove DEF IInv, admit, ensureImages, InSlot, InQueue
  <1>3. OnLatest'
    BY <1>1, LatestKept DEF IInv, admit, ensureImages, Latest
  <1>4. ConnType' /\ KindType' /\ CountType'
    BY DEF IInv, ConnType, KindType, CountType, admit, ensureImages
  <1> QED
    BY <1>1, <1>2, <1>3, <1>4 DEF IInv

\* A launch gets its slot, or its wait ends without one.
LEMMA WaitKeeps ==
  ASSUME IInv, NEW j \in Job, acquireSlot(j) \/ workerUnreachableCh(j) \/ waitEnds(j)
  PROVE  IInv'
  <1>1. /\ JobType' /\ job'[j].q = job[j].q
        /\ \A k \in Job \ {j} : job'[k] = job[k]
        /\ job[j].pc \in {"queued", "checked", "select"}
        /\ \/ job'[j].pc = "refused"
           \/ job'[j].pc = "checked" /\ job[j].pc = "queued" /\ ~workerUnreachable
           \/ job'[j].pc = "select" /\ job[j].pc = "checked"
    <2>1. cur \in Queue
      BY SMT, LaunchQueueAssumption DEF IInv, ConnType, Conn, Queue
    <2> QED
      BY SMT, <2>1 DEF IInv, JobType, JobRec, PC, acquireSlot, workerUnreachableCh, waitEnds, At, Goto, Fail
  <1>2. UNCHANGED <<kind, cur, made, sem, waiting, holdNanos, stranded>>
    BY DEF acquireSlot, workerUnreachableCh, waitEnds
  <1>3. Balance'
    BY <1>1, <1>2, QuietMove DEF IInv, InSlot, InQueue
  <1>4. OnLatest'
    <2>1. j \notin stranded => Latest(j)'
      BY <1>1, <1>2 DEF IInv, OnLatest, Latest, workerUnreachable
    <2> QED
      BY <1>1, <1>2, <2>1, LatestKept DEF IInv
  <1>5. ConnType' /\ KindType' /\ CountType'
    BY <1>2 DEF IInv, ConnType, KindType, CountType
  <1> QED
    BY <1>1, <1>3, <1>4, <1>5 DEF IInv

\* The hold is recorded, and the job ends.
LEMMA EndsKeeps ==
  ASSUME IInv, NEW j \in Job, recordHold(j) \/ finish(j) \/ ringOf(j)
  PROVE  IInv'
  <1>1. /\ JobType' /\ \A k \in Job \ {j} : job'[k] = job[k]
        /\ job[j].pc \in {"held", "finish", "ring"} /\ job'[j].pc \in {"finish", "ring", "done"}
    <2>1. 0 \in Queue
      BY SMT, LaunchQueueAssumption DEF Queue
    <2>2. CASE recordHold(j)
      <3>1. /\ job' = [job EXCEPT ![j].pc = "finish", ![j].n = 0, ![j].ch = 0, ![j].q = 0]
            /\ job[j].pc = "held"
        BY <2>2 DEF recordHold, At
      <3>2. job[j] \in JobRec /\ job \in [Job -> JobRec]
        BY DEF IInv, JobType
      <3>3. /\ job' \in [Job -> JobRec] /\ job'[j].pc = "finish"
            /\ \A k \in Job \ {j} : job'[k] = job[k]
        BY <2>1, <3>1, <3>2 DEF JobRec, PC
      <3> QED
        BY <3>1, <3>3 DEF JobType
    <2>3. ASSUME NEW q \in Queue
          PROVE  [Idle EXCEPT !.pc = "done", !.q = q] \in JobRec
                 /\ [Idle EXCEPT !.pc = "done", !.q = q].pc = "done"
      BY <2>1 DEF Idle, JobRec, PC
    <2>4. [Idle EXCEPT !.pc = "done"] \in JobRec /\ [Idle EXCEPT !.pc = "done"].pc = "done"
      BY <2>1 DEF Idle, JobRec, PC
    <2>5. job \in [Job -> JobRec] /\ job[j] \in JobRec
      BY DEF IInv, JobType
    <2>6. CASE finish(j) /\ j \in Counted
      <3>1. job' = [job EXCEPT ![j].pc = "ring"] /\ job[j].pc = "finish"
        BY <2>6 DEF finish, At, Goto
      <3> QED
        BY SMT, <2>5, <3>1 DEF JobType, JobRec, PC
    <2>7. CASE finish(j) /\ j \notin Counted
      <3>1. job' = [job EXCEPT ![j] = [Idle EXCEPT !.pc = "done"]] /\ job[j].pc = "finish"
        BY <2>7 DEF finish, At
      <3> HIDE DEF Idle
      <3> QED
        BY <2>4, <2>5, <3>1 DEF JobType
    <2>8. CASE ringOf(j)
      <3>1. job' = [job EXCEPT ![j] = [Idle EXCEPT !.pc = "done", !.q = cur]] /\ job[j].pc = "ring"
        BY <2>8 DEF ringOf, CountOn, At
      <3>2. cur \in Queue
        BY SMT, LaunchQueueAssumption DEF IInv, ConnType, Conn, Queue
      <3> HIDE DEF Idle
      <3> QED
        BY <2>3, <2>5, <3>1, <3>2 DEF JobType
    <2> QED
      BY <2>2, <2>6, <2>7, <2>8
  <1>2. UNCHANGED <<kind, cur, made, sem, waiting>> /\ stranded' \in {stranded, stranded \ {j}}
    BY DEF recordHold, finish, ringOf, CountOn
  <1>3. holdNanos' \in [Queue -> Nat]
    <2>1. CASE finish(j) \/ ringOf(j)
      BY <2>1 DEF IInv, CountType, finish, ringOf, CountOn
    <2>2. CASE recordHold(j)
      <3>1. PICK d \in Holds :
                holdNanos' = [holdNanos EXCEPT ![job[j].q] =
                                 IF job[j].n = 0 THEN d ELSE (job[j].n * 3) \div 4 + d \div 4]
        BY <2>2 DEF recordHold
      <3>2. d \in Nat /\ job[j].n \in Nat
        BY LaunchQueueAssumption DEF IInv, JobType, JobRec
      <3>3. (job[j].n * 3) \div 4 \in Nat /\ d \div 4 \in Nat
        <4>1. ASSUME NEW m \in Nat PROVE m \div 4 \in Nat
          BY SMT
        <4>2. job[j].n * 3 \in Nat
          BY SMT, <3>2
        <4> QED
          BY <3>2, <4>1, <4>2
      <3> DEFINE v == IF job[j].n = 0 THEN d ELSE (job[j].n * 3) \div 4 + d \div 4
      <3>4. v \in Nat /\ holdNanos' = [holdNanos EXCEPT ![job[j].q] = v]
        BY SMT, <3>1, <3>2, <3>3
      <3>5. holdNanos \in [Queue -> Nat]
        BY DEF IInv, CountType
      <3> HIDE DEF v
      <3> QED
        BY <3>4, <3>5
    <2> QED
      BY <2>1, <2>2
  <1>4. Balance'
    BY <1>1, <1>2, QuietMove DEF IInv, InSlot, InQueue
  <1>5. OnLatest'
    BY <1>1, <1>2, LatestKept DEF IInv, Latest
  <1>6. ConnType' /\ KindType' /\ CountType'
    BY <1>2, <1>3 DEF IInv, ConnType, KindType, CountType
  <1> QED
    BY <1>1, <1>4, <1>5, <1>6 DEF IInv

-----------------------------------------------------------------------------
\* A launch joins the queue.
LEMMA JoinKeeps ==
  ASSUME IInv, NEW j \in Job, acquireLaunchSlot(j)
  PROVE  IInv'
  <1>1. /\ JobType' /\ \A k \in Job \ {j} : job'[k] = job[k]
        /\ job[j].pc \in {"idle", "join"} /\ job'[j].pc = "queued" /\ job'[j].q = cur /\ cur \in Queue
    <2>1. cur \in Queue
      BY SMT, LaunchQueueAssumption DEF IInv, ConnType, Conn, Queue
    <2>2. job[j] \in JobRec /\ job \in [Job -> JobRec]
      BY DEF IInv, JobType
    <2>3. job[j].pc \in {"idle", "join"}
      BY DEF acquireLaunchSlot, At
    <2> DEFINE r == [job[j] EXCEPT !.pc = "queued", !.q = cur]
    <2>4. r \in JobRec
      BY <2>1, <2>2 DEF JobRec, PC
    <2>5. r.q = cur /\ r.pc = "queued"
      BY <2>2 DEF JobRec
    <2>6. job' = [job EXCEPT ![j] = r]
      BY DEF acquireLaunchSlot, daemonQueue
    <2> HIDE DEF r
    <2> QED
      BY <2>1, <2>2, <2>3, <2>4, <2>5, <2>6 DEF JobType
  <1>2. UNCHANGED <<kind, cur, made, sem, holdNanos, stranded>>
        /\ waiting' = [waiting EXCEPT ![PoolOf(j)][cur] = @ + 1]
    BY DEF acquireLaunchSlot, daemonQueue
  <1>3. PoolOf(j) \in Pool
    BY DEF IInv, KindType, PoolOf
  <1>4. Balance'
    <2>1. ASSUME NEW p \in Pool, NEW q \in Queue
          PROVE  /\ sem'[p][q] = sem[p][q] + In(j, NextOf(p, q, InSlot)) - In(j, Of(p, q, InSlot))
                 /\ sem'[p][q] <= Slots
                 /\ waiting'[p][q] = waiting[p][q] + In(j, NextOf(p, q, InQueue)) - In(j, Of(p, q, InQueue))
      <3>1. j \notin NextOf(p, q, InSlot) /\ j \notin Of(p, q, InSlot) /\ j \notin Of(p, q, InQueue)
        BY <1>1 DEF NextOf, Of, InSlot, InQueue
      <3>2. j \in NextOf(p, q, InQueue) <=> PoolOf(j) = p /\ cur = q
        BY <1>1 DEF NextOf, InQueue
      <3>3. sem[p][q] \in Nat /\ waiting[p][q] \in Nat /\ sem[p][q] <= Slots
        BY DEF IInv, CountType, Balance
      <3>4. waiting'[p][q] = IF PoolOf(j) = p /\ cur = q THEN waiting[p][q] + 1 ELSE waiting[p][q]
        BY <1>1, <1>2, <1>3 DEF IInv, CountType
      <3> QED
        BY SMT, <1>2, <3>1, <3>2, <3>3, <3>4 DEF In
    <2> QED
      BY <1>1, <1>2, <2>1, BalanceKept DEF IInv
  <1>5. OnLatest'
    BY <1>1, <1>2, LatestKept DEF IInv, Latest, ConnType
  <1>6. ConnType' /\ KindType' /\ CountType'
    BY SMT, <1>1, <1>2, <1>3 DEF IInv, ConnType, KindType, CountType
  <1> QED
    BY <1>1, <1>4, <1>5, <1>6 DEF IInv

\* A launch takes a slot.
LEMMA TakesSlotKeeps ==
  ASSUME IInv, NEW j \in Job, takesSlot(j)
  PROVE  IInv'
  <1>1. /\ JobType' /\ \A k \in Job \ {j} : job'[k] = job[k]
        /\ job[j].pc = "select" /\ job'[j].pc = "taken" /\ job'[j].q = job[j].q /\ job[j].q \in Queue
    BY SMT DEF IInv, JobType, JobRec, PC, takesSlot, At, Goto
  <1>2. /\ UNCHANGED <<kind, cur, made, waiting, holdNanos, stranded>>
        /\ sem[PoolOf(j)][job[j].q] < Slots
        /\ sem' = [sem EXCEPT ![PoolOf(j)][job[j].q] = @ + 1]
    BY DEF takesSlot
  <1>3. PoolOf(j) \in Pool
    BY DEF IInv, KindType, PoolOf
  <1>4. Balance'
    <2>1. ASSUME NEW p \in Pool, NEW q \in Queue
          PROVE  /\ sem'[p][q] = sem[p][q] + In(j, NextOf(p, q, InSlot)) - In(j, Of(p, q, InSlot))
                 /\ sem'[p][q] <= Slots
                 /\ waiting'[p][q] = waiting[p][q] + In(j, NextOf(p, q, InQueue)) - In(j, Of(p, q, InQueue))
      <3>1. j \notin Of(p, q, InSlot) /\ (j \in NextOf(p, q, InQueue) <=> j \in Of(p, q, InQueue))
        BY <1>1 DEF NextOf, Of, InSlot, InQueue
      <3>2. j \in NextOf(p, q, InSlot) <=> PoolOf(j) = p /\ job[j].q = q
        BY <1>1 DEF NextOf, InSlot
      <3>3. sem[p][q] \in Nat /\ waiting[p][q] \in Nat /\ sem[p][q] <= Slots
        BY DEF IInv, CountType, Balance
      <3>4. sem'[p][q] = IF PoolOf(j) = p /\ job[j].q = q THEN sem[p][q] + 1 ELSE sem[p][q]
        BY <1>1, <1>2, <1>3 DEF IInv, CountType
      <3> QED
        BY SMT, <1>2, <3>1, <3>2, <3>3, <3>4, LaunchQueueAssumption DEF In
    <2> QED
      BY <1>1, <1>2, <2>1, BalanceKept DEF IInv
  <1>5. OnLatest'
    <2>1. j \notin stranded => Latest(j)'
      BY <1>1, <1>2 DEF IInv, OnLatest, Latest
    <2> QED
      BY <1>1, <1>2, <2>1, LatestKept DEF IInv
  <1>6. ConnType' /\ KindType' /\ CountType'
    BY SMT, <1>1, <1>2, <1>3 DEF IInv, ConnType, KindType, CountType
  <1> QED
    BY <1>1, <1>4, <1>5, <1>6 DEF IInv

\* A job's slot and its place among the waiting are counted.
LEMMA Occupied ==
  ASSUME IInv, NEW j \in Job
  PROVE  /\ PoolOf(j) \in Pool /\ job[j].q \in Queue
         /\ job[j].pc \in InSlot => sem[PoolOf(j)][job[j].q] > 0
         /\ job[j].pc \in InQueue => waiting[PoolOf(j)][job[j].q] > 0
  <1>1. PoolOf(j) \in Pool /\ job[j].q \in Queue
    BY DEF IInv, KindType, JobType, JobRec, PoolOf
  <1>2. ASSUME NEW pcs, job[j].pc \in pcs
        PROVE  Cardinality(Of(PoolOf(j), job[j].q, pcs)) > 0
    <2>1. IsFiniteSet(Of(PoolOf(j), job[j].q, pcs))
      BY LaunchQueueAssumption, FS_Subset DEF Of
    <2>2. j \in Of(PoolOf(j), job[j].q, pcs)
      BY <1>2 DEF Of
    <2>3. /\ Cardinality(Of(PoolOf(j), job[j].q, pcs)) \in Nat
          /\ Cardinality(Of(PoolOf(j), job[j].q, pcs)) # 0
      BY <2>1, <2>2, FS_CardinalityType, FS_EmptySet
    <2> QED
      BY SMT, <2>3
  <1> QED
    BY <1>1, <1>2 DEF IInv, Balance

\* A job gives its slot back, on the way out or refused at the last moment.
LEMMA GivesBackKeeps ==
  ASSUME IInv, NEW j \in Job, JobType', \A k \in Job \ {j} : job'[k] = job[k],
         job[j].pc \in InSlot, job'[j].pc \notin InSlot, job'[j].q = job[j].q,
         job'[j].pc \in InQueue <=> job[j].pc \in InQueue,
         job'[j].pc \in {"refused", "held", "finish"},
         sem' = [sem EXCEPT ![PoolOf(j)][job[j].q] = @ - 1],
         UNCHANGED <<kind, cur, made, waiting, holdNanos, stranded>>
  PROVE  IInv'
  <1>1. PoolOf(j) \in Pool /\ job[j].q \in Queue /\ sem[PoolOf(j)][job[j].q] > 0
    BY Occupied
  <1>2. sem \in [Pool -> [Queue -> Nat]]
    BY DEF IInv, CountType
  <1>3. ASSUME NEW p \in Pool, NEW q \in Queue
        PROVE  sem'[p][q] = IF PoolOf(j) = p /\ job[j].q = q THEN sem[p][q] - 1 ELSE sem[p][q]
    BY <1>1, <1>2
  <1>4. Balance'
    <2>1. ASSUME NEW p \in Pool, NEW q \in Queue
          PROVE  /\ sem'[p][q] = sem[p][q] + In(j, NextOf(p, q, InSlot)) - In(j, Of(p, q, InSlot))
                 /\ sem'[p][q] <= Slots
                 /\ waiting'[p][q] = waiting[p][q] + In(j, NextOf(p, q, InQueue)) - In(j, Of(p, q, InQueue))
      <3>1. j \notin NextOf(p, q, InSlot) /\ (j \in NextOf(p, q, InQueue) <=> j \in Of(p, q, InQueue))
        BY DEF NextOf, Of
      <3>2. j \in Of(p, q, InSlot) <=> PoolOf(j) = p /\ job[j].q = q
        BY DEF Of
      <3>3. sem[p][q] \in Nat /\ waiting[p][q] \in Nat /\ sem[p][q] <= Slots
        BY DEF IInv, CountType, Balance
      <3> QED
        BY SMT, <1>3, <3>1, <3>2, <3>3, LaunchQueueAssumption DEF In
    <2> QED
      BY <2>1, BalanceKept DEF IInv
  <1>5. OnLatest'
    BY LatestKept DEF IInv, Latest
  <1>6. ConnType' /\ KindType' /\ CountType'
    <2>1. sem[PoolOf(j)][job[j].q] - 1 \in Nat
      BY SMT, <1>1, <1>2
    <2>2. sem' \in [Pool -> [Queue -> Nat]]
      BY <1>1, <1>2, <2>1
    <2> QED
      BY <2>2 DEF IInv, ConnType, KindType, CountType
  <1> QED
    BY <1>4, <1>5, <1>6 DEF IInv

\* A launch with a slot looks again before it starts.
LEMMA RecheckKeeps ==
  ASSUME IInv, NEW j \in Job, recheck(j)
  PROVE  IInv'
  <1>1. /\ JobType' /\ job'[j].q = job[j].q /\ job[j].pc = "taken"
        /\ \A k \in Job \ {j} : job'[k] = job[k]
        /\ UNCHANGED <<kind, cur, made, waiting, holdNanos, stranded>>
        /\ \/ job'[j].pc = "refused" /\ sem' = [sem EXCEPT ![PoolOf(j)][job[j].q] = @ - 1]
           \/ job'[j].pc = "leave" /\ sem' = sem
    BY SMT DEF IInv, JobType, JobRec, PC, recheck, At, Goto, Fail
  <1>2. CASE job'[j].pc = "refused" /\ sem' = [sem EXCEPT ![PoolOf(j)][job[j].q] = @ - 1]
    BY <1>1, <1>2, GivesBackKeeps DEF InSlot, InQueue
  <1>3. CASE job'[j].pc = "leave" /\ sem' = sem
    <2>1. Balance'
      BY <1>1, <1>3, QuietMove DEF IInv, InSlot, InQueue
    <2>2. OnLatest'
      <3>1. j \notin stranded => Latest(j)'
        BY <1>1, <1>3 DEF IInv, OnLatest, Latest
      <3> QED
        BY <1>1, <3>1, LatestKept DEF IInv
    <2>3. ConnType' /\ KindType' /\ CountType'
      BY <1>1, <1>3 DEF IInv, ConnType, KindType, CountType
    <2> QED
      BY <1>1, <2>1, <2>2, <2>3 DEF IInv
  <1> QED
    BY <1>1, <1>2, <1>3

\* A slot is given back.
LEMMA ReleaseKeeps ==
  ASSUME IInv, NEW j \in Job, release(j)
  PROVE  IInv'
  <1>1. job[j].q \in Queue /\ holdNanos[job[j].q] \in Nat
    BY DEF IInv, CountType, JobType, JobRec
  <1>2. PICK ok \in BOOLEAN, pc \in {"held", "finish"} :
            job' = [job EXCEPT ![j].pc = pc, ![j].n = holdNanos[job[j].q], ![j].ok = ok]
    BY DEF release
  <1>3. /\ JobType' /\ job'[j].q = job[j].q /\ job'[j].pc \in {"held", "finish"}
        /\ \A k \in Job \ {j} : job'[k] = job[k]
    <2>1. job[j] \in JobRec /\ job \in [Job -> JobRec]
      BY DEF IInv, JobType
    <2> DEFINE r == [job[j] EXCEPT !.pc = pc, !.n = holdNanos[job[j].q], !.ok = ok]
    <2>2. r \in JobRec
      BY <1>1, <2>1 DEF JobRec, PC
    <2>3. r.q = job[j].q /\ r.pc = pc
      BY <2>1 DEF JobRec
    <2>4. job' = [job EXCEPT ![j] = r]
      BY <1>2
    <2> HIDE DEF r
    <2> QED
      BY <2>1, <2>2, <2>3, <2>4 DEF JobType
  <1>4. /\ job[j].pc = "running" /\ UNCHANGED <<kind, cur, made, waiting, holdNanos, stranded>>
        /\ sem' = [sem EXCEPT ![PoolOf(j)][job[j].q] = @ - 1]
    BY DEF release, At
  <1> QED
    BY <1>3, <1>4, GivesBackKeeps DEF InSlot, InQueue

\* A launch leaves the queue without a slot.
LEMMA LeaveQueueKeeps ==
  ASSUME IInv, NEW j \in Job, leaveQueue(j)
  PROVE  IInv'
  <1>1. PICK pc \in {"running", "finish"} :
            /\ job' = [job EXCEPT ![j].pc = pc]
            /\ job[j].pc = IF pc = "running" THEN "leave" ELSE "refused"
    BY DEF leaveQueue, At, Goto
  <1>2. /\ JobType' /\ \A k \in Job \ {j} : job'[k] = job[k]
        /\ job'[j].q = job[j].q /\ job'[j].pc = pc
    BY SMT, <1>1 DEF IInv, JobType, JobRec, PC
  <1>3. /\ UNCHANGED <<kind, cur, made, sem, holdNanos, stranded>>
        /\ waiting' = [waiting EXCEPT ![PoolOf(j)][job[j].q] = @ - 1]
    BY DEF leaveQueue
  <1>4. job[j].pc \in InQueue /\ pc \notin InQueue /\ (pc \in InSlot <=> job[j].pc \in InSlot)
    BY <1>1 DEF InQueue, InSlot
  <1>5. PoolOf(j) \in Pool /\ job[j].q \in Queue /\ waiting[PoolOf(j)][job[j].q] > 0
    BY <1>4, Occupied
  <1>6. waiting \in [Pool -> [Queue -> Nat]]
    BY DEF IInv, CountType
  <1>7. ASSUME NEW p \in Pool, NEW q \in Queue
        PROVE  waiting'[p][q] = IF PoolOf(j) = p /\ job[j].q = q THEN waiting[p][q] - 1 ELSE waiting[p][q]
    BY <1>3, <1>5, <1>6
  <1>8. Balance'
    <2>1. ASSUME NEW p \in Pool, NEW q \in Queue
          PROVE  /\ sem'[p][q] = sem[p][q] + In(j, NextOf(p, q, InSlot)) - In(j, Of(p, q, InSlot))
                 /\ sem'[p][q] <= Slots
                 /\ waiting'[p][q] = waiting[p][q] + In(j, NextOf(p, q, InQueue)) - In(j, Of(p, q, InQueue))
      <3>1. j \notin NextOf(p, q, InQueue) /\ (j \in NextOf(p, q, InSlot) <=> j \in Of(p, q, InSlot))
        BY <1>2, <1>4 DEF NextOf, Of
      <3>2. j \in Of(p, q, InQueue) <=> PoolOf(j) = p /\ job[j].q = q
        BY <1>4 DEF Of
      <3>3. sem[p][q] \in Nat /\ waiting[p][q] \in Nat /\ sem[p][q] <= Slots
        BY DEF IInv, CountType, Balance
      <3> QED
        BY SMT, <1>3, <1>7, <3>1, <3>2, <3>3 DEF In
    <2> QED
      BY <1>2, <1>3, <2>1, BalanceKept DEF IInv
  <1>9. OnLatest'
    <2>1. j \notin stranded => Latest(j)'
      BY <1>1, <1>2, <1>3 DEF IInv, OnLatest, Latest
    <2> QED
      BY <1>2, <1>3, <2>1, LatestKept DEF IInv
  <1>10. ConnType' /\ KindType' /\ CountType'
    <2>1. waiting[PoolOf(j)][job[j].q] - 1 \in Nat
      BY SMT, <1>5, <1>6
    <2>2. waiting' \in [Pool -> [Queue -> Nat]]
      BY <1>3, <1>5, <1>6, <2>1
    <2> QED
      BY <1>3, <2>2 DEF IInv, ConnType, KindType, CountType
  <1> QED
    BY <1>2, <1>8, <1>9, <1>10 DEF IInv

\* The worker fails, goes or is replaced: no count changes, and who is in a queue then is stranded.
LEMMA WorkerKeeps ==
  ASSUME IInv, WorkerOut \/ RemoveWorker \/ NewConn \/ UNCHANGED vars
  PROVE  IInv'
  <1>1. UNCHANGED <<kind, job, sem, waiting, holdNanos>>
    BY DEF WorkerOut, RemoveWorker, NewConn, vars
  <1>2. KindType' /\ CountType' /\ JobType'
    BY <1>1 DEF IInv, KindType, CountType, JobType
  <1>3. Balance'
    BY SMT, <1>1 DEF IInv, Balance, Of, PoolOf
  <1>4. ConnType'
    BY SMT, LaunchQueueAssumption DEF IInv, ConnType, Conn, WorkerOut, RemoveWorker, NewConn, vars
  <1>5. OnLatest'
    <2>1. CASE NewConn
      BY <1>1, <2>1 DEF IInv, OnLatest, NewConn, InQueue, InSlot
    <2>2. CASE WorkerOut \/ RemoveWorker \/ UNCHANGED vars
      <3>1. made' = made /\ stranded' = stranded /\ (cur = 0 => cur' = 0)
        BY <2>2 DEF WorkerOut, RemoveWorker, vars
      <3> QED
        BY <1>1, <3>1 DEF IInv, OnLatest
    <2> QED
      BY <2>1, <2>2
  <1> QED
    BY <1>2, <1>3, <1>4, <1>5 DEF IInv

\* Nothing is queued at the start.
LEMMA InitKeeps == Init => IInv
  <1> SUFFICES ASSUME Init
               PROVE  IInv
    OBVIOUS
  <1>1. 0 \in Queue /\ 1 \in Queue /\ made \in Conn /\ cur \in {0, made}
    BY SMT, LaunchQueueAssumption DEF Init, Queue, Conn
  <1>2. ConnType /\ KindType
    BY <1>1, LaunchQueueAssumption DEF Init, ConnType, KindType, Pool
  <1>3. JobType
    <2>1. Idle \in JobRec
      BY <1>1 DEF Idle, JobRec, PC
    <2> HIDE DEF Idle
    <2> QED
      BY <2>1 DEF Init, JobType
  <1>4. CountType
    BY SMT, LaunchQueueAssumption DEF Init, CountType
  <1>5. \A j \in Job : job[j].pc = "idle"
    BY DEF Init, Idle
  <1>6. Balance
    <2> SUFFICES ASSUME NEW p \in Pool, NEW q \in Queue
                 PROVE  /\ sem[p][q] = Cardinality(Of(p, q, InSlot)) /\ sem[p][q] <= Slots
                        /\ waiting[p][q] = Cardinality(Of(p, q, InQueue))
      BY DEF Balance
    <2>1. Of(p, q, InSlot) = {} /\ Of(p, q, InQueue) = {}
      BY <1>5 DEF Of, InSlot, InQueue
    <2>2. sem[p][q] = 0 /\ waiting[p][q] = 0
      BY DEF Init
    <2> QED
      BY SMT, <2>1, <2>2, FS_EmptySet, LaunchQueueAssumption
  <1>7. OnLatest
    BY <1>5 DEF OnLatest
  <1> QED
    BY <1>2, <1>3, <1>4, <1>6, <1>7 DEF IInv

\* Every step keeps the invariant.
LEMMA NextKeeps == IInv /\ [Next]_vars => IInv'
  <1> SUFFICES ASSUME IInv, [Next]_vars
               PROVE  IInv'
    OBVIOUS
  <1>1. CASE \E j \in Job : JobStep(j) \/ admitReads(j) \/ (At(j, "idle") /\ acquireLaunchSlot(j))
    <2>1. PICK j \in Job : JobStep(j) \/ admitReads(j) \/ acquireLaunchSlot(j)
      BY <1>1
    <2>2. CASE admitReads(j) \/ acquireLaunchSlot(j)
      BY <2>2, AdmitReadsKeeps, JoinKeeps
    <2>3. CASE JobStep(j)
      BY SMT, <2>3, AdmitKeeps, WaitKeeps, EndsKeeps, JoinKeeps, TakesSlotKeeps, RecheckKeeps,
         ReleaseKeeps, LeaveQueueKeeps DEF JobStep
    <2> QED
      BY <2>1, <2>2, <2>3
  <1>2. CASE WorkerOut \/ RemoveWorker \/ NewConn \/ UNCHANGED vars
    BY <1>2, WorkerKeeps
  <1> QED
    BY <1>1, <1>2 DEF Next

-----------------------------------------------------------------------------
\* The inductive invariant holds in every reachable state of the slots and their jobs.
THEOREM Invariance == Spec => []IInv
  <1> QED
    BY InitKeeps, NextKeeps, PTL DEF Spec

\* Whatever the number of jobs, slots and conns, a slot is held exactly by the jobs
\* between taking and releasing it, at most Slots are held of a pool, and the waiting
\* counts are those of the jobs in the queue (acquireSlot, acquireLaunchSlot, teardown).
THEOREM SlotsBalance == Spec => []QueuesBalance
  <1>1. IInv => QueuesBalance
    BY DEF IInv, Balance, QueuesBalance, Of
  <1> QED
    BY <1>1, Invariance, PTL

\* Whatever the number of jobs, slots and conns, the jobs of a pool at work on a worker
\* exceed Slots only by those in a queue when its conn was replaced (launchStages
\* resolves the queue after ensureImages, acquireSlot looks at the worker again).
THEOREM SlotsNotExceeded == Spec => []OnlyStrandedExceed
  <1>1. ASSUME IInv, NEW p \in Pool
        PROVE  Cardinality({j \in Job \ stranded : PoolOf(j) = p /\ job[j].pc \in {"leave", "running"}}) <= Slots
    <2> DEFINE W == {j \in Job \ stranded : PoolOf(j) = p /\ job[j].pc \in {"leave", "running"}}
    <2>1. W \subseteq Of(p, made, InSlot)
      BY <1>1 DEF IInv, OnLatest, Of, InSlot
    <2>2. IsFiniteSet(Of(p, made, InSlot))
      BY LaunchQueueAssumption, FS_Subset DEF Of
    <2>3. made \in Queue
      BY SMT, <1>1, LaunchQueueAssumption DEF IInv, ConnType, Conn, Queue
    <2>4. Cardinality(Of(p, made, InSlot)) <= Slots
      BY <1>1, <2>3 DEF IInv, Balance
    <2>5. /\ Cardinality(W) <= Cardinality(Of(p, made, InSlot))
          /\ Cardinality(W) \in Nat /\ Cardinality(Of(p, made, InSlot)) \in Nat
      BY <2>1, <2>2, FS_Subset, FS_CardinalityType
    <2> QED
      BY SMT, <2>4, <2>5, LaunchQueueAssumption
  <1>2. IInv => OnlyStrandedExceed
    BY <1>1 DEF OnlyStrandedExceed
  <1> QED
    BY <1>2, Invariance, PTL

-----------------------------------------------------------------------------
(* The rings.  A launch is counted in one step, and only then.             *)

Ended == {j \in Counted : At(j, "done")}

RingRec ==
    [buf : [0..launchRingSize - 1 -> Nat], next : 0..launchRingSize - 1, filled : 0..launchRingSize,
     total : Nat, failed : Nat]

\* The place to write and the number of durations follow from the launches that succeeded.
Follows(r) ==
    /\ r.failed <= r.total
    /\ r.next = (r.total - r.failed) % launchRingSize
    /\ r.filled = IF r.total - r.failed < launchRingSize THEN r.total - r.failed ELSE launchRingSize

\* The launches counted on conn q.
CountedOn(q) == {j \in Ended : job[j].q = q}

\* A launch about to be counted may be so on the conn that is current.
FitInv ==
    /\ fit \in [Job -> SUBSET Queue]
    /\ \A j \in Job : At(j, "ring") => j \in Counted /\ cur \in fit[j]
    /\ \A j \in Ended : job[j].q \in fit[j]

RingInv ==
    /\ ring \in [Queue -> RingRec] /\ \A q \in Queue : Follows(ring[q])
    /\ FitInv
    /\ ring[0].total = 0
    /\ \A q \in Conn : ring[q].total = Cardinality(CountedOn(q))

\* The next number modulo m.
LEMMA ModStep ==
  ASSUME NEW a \in Nat, NEW m \in Nat \ {0}
  PROVE  (a + 1) % m = ((a % m) + 1) % m
  <1> DEFINE r == a % m
             q == a \div m
  <1>1. r \in 0..m - 1 /\ q \in Nat /\ a = q * m + r
    BY SMT
  <1>2. ASSUME NEW p \in Nat, NEW k \in 0..m - 1 PROVE (p * m + k) % m = k
    BY SMT
  <1>3. CASE r + 1 < m
    <2>1. r + 1 \in 0..m - 1 /\ a + 1 = q * m + (r + 1) /\ (r + 1) % m = r + 1
      BY SMT, <1>1, <1>3
    <2> QED
      BY <1>1, <1>2, <2>1
  <1>4. CASE ~(r + 1 < m)
    <2>1. r + 1 = m /\ m % m = 0 /\ 0 \in 0..m - 1
      BY SMT, <1>1, <1>4
    <2>2. a + 1 = (q + 1) * m + 0 /\ q + 1 \in Nat
      <3>1. (q + 1) * m = q * m + m /\ q * m \in Nat /\ q + 1 \in Nat
        BY SMT, <1>1
      <3> HIDE DEF r, q
      <3> QED
        BY SMT, <1>1, <2>1, <3>1
    <2> QED
      BY <1>2, <2>1, <2>2
  <1> QED
    BY <1>3, <1>4

\* A launch adds one to the total of its ring, and its duration, if it has one, goes to
\* the place after the latest (launchRing.add).
LEMMA AddCounts ==
  ASSUME NEW r \in RingRec, NEW d \in Nat, NEW ok \in BOOLEAN
  PROVE  /\ add(r, d, ok) \in RingRec /\ add(r, d, ok).total = r.total + 1
         /\ Follows(r) => Follows(add(r, d, ok))
  <1> DEFINE n == launchRingSize
  <1>1. /\ r.total \in Nat /\ r.failed \in Nat /\ r.next \in 0..n - 1 /\ r.filled \in 0..n
        /\ r.buf \in [0..n - 1 -> Nat] /\ n \in Nat \ {0}
    BY RingAssumption DEF RingRec
  <1> HIDE DEF n
  <1>2. CASE ~ok
    <2> DEFINE s == [r EXCEPT !.total = r.total + 1, !.failed = r.failed + 1]
    <2>1. add(r, d, ok) = s
      BY <1>2 DEF add
    <2>2. r.total + 1 \in Nat /\ r.failed + 1 \in Nat
      BY SMT, <1>1
    <2>3. s \in RingRec
      BY <2>2 DEF RingRec
    <2>4. /\ s.total = r.total + 1 /\ s.failed = r.failed + 1
          /\ s.next = r.next /\ s.filled = r.filled
      BY SMT DEF RingRec
    <2> HIDE DEF s
    <2>5. s.total - s.failed = r.total - r.failed /\ (r.failed <= r.total => s.failed <= s.total)
      <3>1. \A t, u \in Nat : (t + 1) - (u + 1) = t - u /\ (u <= t => u + 1 <= t + 1)
        BY SMT
      <3> QED
        <4>1. r.total \in Nat /\ r.failed \in Nat
          BY <1>1
        <4>2. (r.total + 1) - (r.failed + 1) = r.total - r.failed
          BY <3>1, <4>1
        <4>3. r.failed <= r.total => r.failed + 1 <= r.total + 1
          BY <3>1, <4>1
        <4> QED
          BY <2>4, <4>2, <4>3
    <2>6. Follows(r) => Follows(s)
      BY <2>4, <2>5 DEF Follows
    <2> QED
      BY <2>1, <2>3, <2>4, <2>6
  <1>3. CASE ok
    <2> DEFINE b == [r.buf EXCEPT ![r.next] = d]
               x == (r.next + 1) % n
               f == IF r.filled < n THEN r.filled + 1 ELSE r.filled
               s == [r EXCEPT !.total = r.total + 1, !.buf = b, !.next = x, !.filled = f]
    <2>1. add(r, d, ok) = s
      BY SMT, <1>3 DEF add, RingRec, n
    <2>2. b \in [0..n - 1 -> Nat] /\ r.total + 1 \in Nat
      BY SMT, <1>1
    <2>3. x \in 0..n - 1 /\ f \in 0..n
      <3>1. ASSUME NEW m \in Nat \ {0}
            PROVE  /\ \A k \in 0..m - 1 : (k + 1) % m \in 0..m - 1
                   /\ \A k \in 0..m : (IF k < m THEN k + 1 ELSE k) \in 0..m
        BY SMT
      <3> QED
        BY <1>1, <3>1
    <2> HIDE DEF b, x, f
    <2>4. s \in RingRec
      BY <2>2, <2>3 DEF RingRec, n
    <2>5. s.total = r.total + 1 /\ s.failed = r.failed /\ s.next = x /\ s.filled = f
      BY SMT DEF RingRec
    <2> HIDE DEF s
    <2>6. ASSUME Follows(r) PROVE Follows(s)
      <3> DEFINE a == r.total - r.failed
      <3>1. /\ a \in Nat /\ s.total - s.failed = a + 1 /\ s.failed <= s.total
            /\ r.next = a % n /\ r.filled = IF a < n THEN a ELSE n
        <4>1. \A t, u \in Nat : u <= t => t - u \in Nat /\ (t + 1) - u = (t - u) + 1 /\ u <= t + 1
          BY SMT
        <4>2. /\ r.failed <= r.total /\ r.next = a % n
              /\ r.filled = IF a < n THEN a ELSE n
          BY <2>6 DEF Follows, n
        <4>3. a \in Nat /\ (r.total + 1) - r.failed = a + 1 /\ r.failed <= r.total + 1
          BY <1>1, <4>1, <4>2
        <4> HIDE DEF a
        <4> QED
          BY <2>5, <4>2, <4>3
      <3> HIDE DEF a
      <3>2. s.next = (a + 1) % n
        <4>1. (a + 1) % n = ((a % n) + 1) % n
          BY <1>1, <3>1, ModStep
        <4> QED
          BY <2>5, <3>1, <4>1 DEF x
      <3>3. s.filled = IF a + 1 < n THEN a + 1 ELSE n
        BY SMT, <1>1, <2>5, <3>1 DEF f
      <3> QED
        BY <3>1, <3>2, <3>3 DEF Follows, n
    <2> QED
      BY <2>1, <2>4, <2>5, <2>6
  <1> QED
    BY <1>2, <1>3

\* Where the ring has its j-th latest duration when the next goes to place p.
Back(p, j) == IF j < p THEN p - 1 - j ELSE p - 1 - j + launchRingSize

\* The ring r has the latest durations of the launches that succeeded, `done', the rest
\* being overwritten: what stats sorts, the first r.filled places, is all of these.
HasLatest(r, done) ==
    /\ r \in RingRec /\ done \in Seq(Nat) /\ r.total - r.failed = Len(done)
    /\ r.filled = IF Len(done) < launchRingSize THEN Len(done) ELSE launchRingSize
    /\ r.filled < launchRingSize => r.next = r.filled
    /\ \A j \in 0..r.filled - 1 : r.buf[Back(r.next, j)] = done[Len(done) - j]

\* A ring of n places, the next one moved from p to x.
LEMMA PlacesMove ==
  ASSUME NEW p \in 0..launchRingSize - 1, NEW x, x = (p + 1) % launchRingSize
  PROVE  /\ x = IF p + 1 < launchRingSize THEN p + 1 ELSE 0
         /\ Back(x, 0) = p
         /\ \A j \in 1..launchRingSize - 1 :
               /\ Back(x, j) = Back(p, j - 1) /\ Back(p, j - 1) # p
               /\ Back(p, j - 1) \in 0..launchRingSize - 1
  <1>1. launchRingSize \in Nat \ {0}
    BY RingAssumption
  <1>2. x = IF p + 1 < launchRingSize THEN p + 1 ELSE 0
    <2>1. CASE p + 1 < launchRingSize
      BY SMT, <1>1, <2>1
    <2>2. CASE ~(p + 1 < launchRingSize)
      <3>1. p + 1 = launchRingSize
        BY SMT, <1>1, <2>2
      <3>2. launchRingSize % launchRingSize = 0
        BY SMT, <1>1
      <3> QED
        BY <2>2, <3>1, <3>2
    <2> QED
      BY <2>1, <2>2
  <1>3. Back(x, 0) = p
    BY SMT, <1>1, <1>2 DEF Back
  <1>4. ASSUME NEW j \in 1..launchRingSize - 1
        PROVE  /\ Back(x, j) = Back(p, j - 1) /\ Back(p, j - 1) # p
               /\ Back(p, j - 1) \in 0..launchRingSize - 1
    BY SMT, <1>1, <1>2 DEF Back
  <1> QED
    BY <1>2, <1>3, <1>4

\* An empty ring has no durations.
LEMMA LatestEmpty == HasLatest(EmptyRing, <<>>)
  <1> DEFINE n == launchRingSize
  <1>1. n \in Nat \ {0} /\ 0 < n /\ 0 \in 0..n - 1 /\ 0 \in 0..n
    BY SMT, RingAssumption
  <1>2. <<>> \in Seq(Nat) /\ Len(<<>>) = 0 /\ 0 - 0 = 0 /\ 0..0 - 1 = {} /\ 0 \in Nat
    BY SMT
  <1>3. /\ EmptyRing.total = 0 /\ EmptyRing.failed = 0 /\ EmptyRing.filled = 0 /\ EmptyRing.next = 0
    BY SMT DEF EmptyRing
  <1>4. EmptyRing \in RingRec
    BY <1>1, <1>2 DEF EmptyRing, RingRec
  <1> QED
    BY <1>1, <1>2, <1>3, <1>4 DEF HasLatest

\* launchRing.add keeps the latest durations of the successes, for any size of the ring
\* and however often it has wrapped: the newest goes over the oldest, and a launch that
\* failed overwrites none.
THEOREM RingKeepsLatest ==
  ASSUME NEW r, NEW done, NEW d \in Nat, NEW ok \in BOOLEAN, HasLatest(r, done)
  PROVE  HasLatest(add(r, d, ok), IF ok THEN Append(done, d) ELSE done)
  <1> DEFINE n == launchRingSize
  <1>1. /\ r \in RingRec /\ done \in Seq(Nat) /\ Len(done) \in Nat
        /\ r.total - r.failed = Len(done)
        /\ r.filled = IF Len(done) < n THEN Len(done) ELSE n
        /\ r.filled < n => r.next = r.filled
        /\ \A j \in 0..r.filled - 1 : r.buf[Back(r.next, j)] = done[Len(done) - j]
    <2>1. r \in RingRec /\ done \in Seq(Nat)
      BY DEF HasLatest
    <2>2. Len(done) \in Nat
      BY SMT, <2>1
    <2> QED
      BY <2>1, <2>2 DEF HasLatest
  <1>2. /\ r.total \in Nat /\ r.failed \in Nat /\ r.next \in 0..n - 1 /\ r.filled \in 0..n
        /\ r.buf \in [0..n - 1 -> Nat] /\ n \in Nat \ {0}
    BY <1>1, RingAssumption DEF RingRec
  <1>3. add(r, d, ok) \in RingRec
    BY <1>1, AddCounts
  <1> HIDE DEF n
  <1>4. CASE ~ok
    <2> DEFINE s == [r EXCEPT !.total = r.total + 1, !.failed = r.failed + 1]
    <2>1. add(r, d, ok) = s
      BY <1>4 DEF add
    <2>2. /\ s.total = r.total + 1 /\ s.failed = r.failed + 1
          /\ s.next = r.next /\ s.filled = r.filled /\ s.buf = r.buf
      BY SMT, <1>1 DEF RingRec
    <2>3. (r.total + 1) - (r.failed + 1) = r.total - r.failed
      <3>1. \A t, u \in Nat : (t + 1) - (u + 1) = t - u
        BY SMT
      <3> QED
        BY <1>2, <3>1
    <2> HIDE DEF s
    <2>4. HasLatest(s, done)
      BY <1>1, <1>3, <2>1, <2>2, <2>3 DEF HasLatest, n
    <2> QED
      BY <1>4, <2>1, <2>4
  <1>5. CASE ok
    <2> DEFINE L == Len(done)
               b == [r.buf EXCEPT ![r.next] = d]
               x == (r.next + 1) % n
               f == IF r.filled < n THEN r.filled + 1 ELSE r.filled
               s == [r EXCEPT !.total = r.total + 1, !.buf = b, !.next = x, !.filled = f]
               t == Append(done, d)
    <2>1. add(r, d, ok) = s
      BY SMT, <1>1, <1>5 DEF add, RingRec, n
    <2>2. /\ s.total = r.total + 1 /\ s.failed = r.failed /\ s.next = x /\ s.filled = f
          /\ s.buf = b
      BY SMT, <1>1 DEF RingRec
    <2>3. /\ t \in Seq(Nat) /\ Len(t) = L + 1 /\ t[L + 1] = d
          /\ \A i \in 1..L : t[i] = done[i]
      BY SMT, <1>1
    <2>4. b[r.next] = d /\ \A i \in (0..n - 1) \ {r.next} : b[i] = r.buf[i]
      BY <1>2
    <2>5. /\ x = IF r.next + 1 < n THEN r.next + 1 ELSE 0
          /\ Back(x, 0) = r.next
          /\ \A j \in 1..n - 1 :
                /\ Back(x, j) = Back(r.next, j - 1) /\ Back(r.next, j - 1) # r.next
                /\ Back(r.next, j - 1) \in 0..n - 1
      BY <1>2, PlacesMove DEF n
    <2> HIDE DEF L, b, x, f, s, t
    <2>6. f = IF L + 1 < n THEN L + 1 ELSE n
      BY SMT, <1>1, <1>2 DEF f, L
    <2>7. f < n => x = f
      BY SMT, <1>1, <1>2, <2>5 DEF f
    <2>8. ASSUME NEW j \in 0..f - 1 PROVE b[Back(x, j)] = t[(L + 1) - j]
      <3>1. CASE j = 0
        <4>1. (L + 1) - 0 = L + 1
          BY SMT, <1>1 DEF L
        <4> QED
          BY <2>3, <2>4, <2>5, <3>1, <4>1
      <3>2. CASE j # 0
        <4>1. j \in 1..n - 1 /\ j - 1 \in 0..r.filled - 1 /\ (L + 1) - j \in 1..L
          BY SMT, <1>1, <1>2, <2>6, <2>8, <3>2 DEF f, L
        <4>2. L - (j - 1) = (L + 1) - j
          BY SMT, <1>1, <2>8, <4>1 DEF L
        <4>3. b[Back(x, j)] = r.buf[Back(r.next, j - 1)]
          BY <2>4, <2>5, <4>1
        <4>4. r.buf[Back(r.next, j - 1)] = done[L - (j - 1)]
          BY <1>1, <4>1 DEF L
        <4> QED
          BY <2>3, <4>1, <4>2, <4>3, <4>4
      <3> QED
        BY <3>1, <3>2
    <2>9. (r.total + 1) - r.failed = L + 1
      <3>1. r.total \in Nat /\ r.failed \in Nat /\ L \in Nat /\ r.total - r.failed = L
        BY <1>1, <1>2 DEF L
      <3> QED
        BY SMT, <3>1
    <2>10. HasLatest(s, t)
      <3>1. s \in RingRec /\ s.total - s.failed = Len(t)
        BY <1>3, <2>1, <2>2, <2>3, <2>9
      <3>2. s.filled = IF Len(t) < n THEN Len(t) ELSE n
        BY <2>2, <2>3, <2>6
      <3>3. s.filled < n => s.next = s.filled
        BY <2>2, <2>7
      <3>4. \A j \in 0..s.filled - 1 : s.buf[Back(s.next, j)] = t[Len(t) - j]
        BY <2>2, <2>3, <2>8
      <3> QED
        BY <2>3, <3>1, <3>2, <3>3, <3>4 DEF HasLatest, n
    <2> QED
      BY <1>5, <2>1, <2>10 DEF t
  <1> QED
    BY <1>4, <1>5

\* A step that ends no job and touches no ring.
LEMMA RingsKept ==
  ASSUME IInv, RingInv, UNCHANGED <<kind, ring, fit, cur>>,
         \A k \in Job : /\ At(k, "done")' <=> At(k, "done")
                        /\ At(k, "done") => job'[k] = job[k]
                        /\ At(k, "ring")' => At(k, "ring")
  PROVE  RingInv'
  <1>1. Counted' = Counted /\ Counted \subseteq Job
    BY DEF Counted, Launches, PoolOf, Bounded
  <1>2. Ended' = Ended /\ Ended \subseteq Job /\ \A k \in Ended : job'[k] = job[k]
    BY <1>1 DEF Ended
  <1>3. \A q \in Conn : CountedOn(q)' = CountedOn(q)
    BY <1>2 DEF CountedOn
  <1>4. FitInv'
    BY <1>1, <1>2 DEF RingInv, FitInv
  <1> QED
    BY <1>3, <1>4 DEF RingInv, Follows

\* The other steps of a job keep the rings.
LEMMA OthersKeepRings ==
  ASSUME IInv, RingInv, NEW j \in Job,
         \/ admitReads(j) \/ admit(j) \/ ensureImages(j) \/ acquireLaunchSlot(j) \/ acquireSlot(j)
         \/ workerUnreachableCh(j) \/ takesSlot(j) \/ waitEnds(j) \/ recheck(j) \/ leaveQueue(j)
         \/ release(j) \/ recordHold(j)
  PROVE  RingInv'
  <1>1. UNCHANGED <<kind, ring, fit, cur>>
    BY DEF admitReads, admit, ensureImages, acquireLaunchSlot, acquireSlot, workerUnreachableCh,
           takesSlot, waitEnds, recheck, leaveQueue, release, recordHold
  <1>2. job \in [Job -> JobRec] /\ job[j] \in JobRec
    BY DEF IInv, JobType
  <1>3. job[j].pc # "done" /\ job'[j].pc \notin {"ring", "done"} /\ \A k \in Job \ {j} : job'[k] = job[k]
    <2>1. CASE admitReads(j)
      BY SMT, <1>2, <2>1 DEF JobRec, admitReads, At, Goto, Fail
    <2>2. CASE admit(j)
      BY SMT, <1>2, <2>2 DEF JobRec, admit, At, Goto, Fail
    <2>3. CASE ensureImages(j)
      BY SMT, <1>2, <2>3 DEF JobRec, ensureImages, At, Goto, Fail
    <2>4. CASE acquireLaunchSlot(j)
      BY SMT, <1>2, <2>4 DEF JobRec, acquireLaunchSlot, At
    <2>5. CASE acquireSlot(j)
      BY SMT, <1>2, <2>5 DEF JobRec, acquireSlot, At, Goto, Fail
    <2>6. CASE workerUnreachableCh(j)
      BY SMT, <1>2, <2>6 DEF JobRec, workerUnreachableCh, At, Goto, Fail
    <2>7. CASE takesSlot(j)
      BY SMT, <1>2, <2>7 DEF JobRec, takesSlot, At, Goto, Fail
    <2>8. CASE waitEnds(j)
      BY SMT, <1>2, <2>8 DEF JobRec, waitEnds, At, Goto, Fail
    <2>9. CASE recheck(j)
      BY SMT, <1>2, <2>9 DEF JobRec, recheck, At, Goto, Fail
    <2>10. CASE leaveQueue(j)
      <3>1. /\ job[j].pc \in {"leave", "refused"}
            /\ job' = [job EXCEPT ![j].pc = IF At(j, "leave") THEN "running" ELSE "finish"]
        BY <2>10 DEF leaveQueue, Goto
      <3> QED
        BY SMT, <1>2, <3>1 DEF JobRec
    <2>11. CASE release(j)
      <3>1. PICK ok \in BOOLEAN :
              job' = [job EXCEPT ![j].pc = IF j \in Launches THEN "held" ELSE "finish",
                                 ![j].n = holdNanos[job[j].q], ![j].ok = ok]
        BY <2>11 DEF release
      <3>2. job[j].pc = "running"
        BY <2>11 DEF release, At
      <3> QED
        BY SMT, <1>2, <3>1, <3>2 DEF JobRec
    <2>12. CASE recordHold(j)
      <3>1. /\ job[j].pc = "held"
            /\ job' = [job EXCEPT ![j].pc = "finish", ![j].n = 0, ![j].ch = 0, ![j].q = 0]
        BY <2>12 DEF recordHold, At
      <3> QED
        BY SMT, <1>2, <3>1 DEF JobRec
    <2> QED
      BY <2>1, <2>2, <2>3, <2>4, <2>5, <2>6, <2>7, <2>8, <2>9, <2>10, <2>11, <2>12
  <1>4. \A k \in Job : /\ At(k, "done")' <=> At(k, "done")
                       /\ At(k, "done") => job'[k] = job[k]
                       /\ At(k, "ring")' => At(k, "ring")
    BY <1>3 DEF At
  <1> QED
    BY <1>1, <1>4, RingsKept

\* When its stages are over a requested launch may be counted on the conn that is current.
LEMMA FinishFits ==
  ASSUME IInv, RingInv, NEW j \in Job, finish(j)
  PROVE  RingInv'
  <1>1. UNCHANGED <<kind, cur, ring>> /\ job[j].pc = "finish"
    BY DEF finish, At
  <1>2. job \in [Job -> JobRec] /\ job[j] \in JobRec /\ cur \in Queue
    <2>1. cur \in Queue
      BY SMT, LaunchQueueAssumption DEF IInv, ConnType, Conn, Queue
    <2> QED
      BY <2>1 DEF IInv, JobType
  <1>3. Counted' = Counted /\ Counted \subseteq Job
    BY <1>1 DEF Counted, Launches, PoolOf, Bounded
  <1>4. \A k \in Job \ {j} : job'[k] = job[k]
    BY <1>2 DEF finish, Goto
  <1>5. j \in Counted => job'[j].pc = "ring" /\ fit' = [fit EXCEPT ![j] = {cur}]
    <2> SUFFICES ASSUME j \in Counted PROVE job'[j].pc = "ring" /\ fit' = [fit EXCEPT ![j] = {cur}]
      OBVIOUS
    <2>1. job' = [job EXCEPT ![j].pc = "ring"] /\ fit' = [fit EXCEPT ![j] = {cur}]
      BY DEF finish, Goto
    <2> QED
      BY SMT, <1>2, <2>1 DEF JobRec
  <1>6. j \notin Counted => job'[j].pc = "done" /\ fit' = fit
    <2>1. [Idle EXCEPT !.pc = "done"].pc = "done"
      BY DEF Idle
    <2> HIDE DEF Idle
    <2> QED
      BY <1>2, <2>1 DEF finish
  <1>7. Ended' = Ended /\ j \notin Ended /\ Ended \subseteq Job /\ \A k \in Ended : job'[k] = job[k]
    BY <1>1, <1>3, <1>4, <1>5, <1>6 DEF Ended, At
  <1>8. \A q \in Conn : CountedOn(q)' = CountedOn(q)
    BY <1>7 DEF CountedOn
  <1>9. fit \in [Job -> SUBSET Queue] /\ \A k \in Ended : job[k].q \in fit[k]
    BY DEF RingInv, FitInv
  <1>10. /\ fit' \in [Job -> SUBSET Queue] /\ \A k \in Job \ {j} : fit'[k] = fit[k]
         /\ j \in Counted => fit'[j] = {cur}
    BY <1>2, <1>5, <1>6, <1>9
  <1>11. \A k \in Job : At(k, "ring")' => k \in Counted /\ cur \in fit'[k]
    <2> SUFFICES ASSUME NEW k \in Job, job'[k].pc = "ring" PROVE k \in Counted /\ cur \in fit'[k]
      BY DEF At
    <2>1. CASE k = j
      BY <1>6, <1>10, <2>1
    <2>2. CASE k # j
      BY <1>4, <1>10, <2>2 DEF RingInv, FitInv, At
    <2> QED
      BY <2>1, <2>2
  <1>12. FitInv'
    BY <1>1, <1>3, <1>7, <1>9, <1>10, <1>11 DEF FitInv
  <1> QED
    BY <1>1, <1>8, <1>12 DEF RingInv, Follows

\* A launch is counted in the ring of the conn that is current then, or in none if the
\* worker has gone.
LEMMA RingOfCounts ==
  ASSUME IInv, RingInv, NEW j \in Job, ringOf(j)
  PROVE  RingInv'
  <1>1. /\ UNCHANGED <<kind, cur, fit>> /\ job[j].pc = "ring"
        /\ job' = [job EXCEPT ![j] = [Idle EXCEPT !.pc = "done", !.q = cur]]
        /\ ring' = IF cur = 0 THEN ring ELSE [ring EXCEPT ![cur] = add(ring[cur], 1, job[j].ok)]
    BY DEF ringOf, CountOn, At
  <1>2. job \in [Job -> JobRec] /\ job[j].ok \in BOOLEAN /\ cur \in {0} \cup Conn
    BY DEF IInv, JobType, JobRec, ConnType
  <1>3. job'[j].pc = "done" /\ job'[j].q = cur /\ \A k \in Job \ {j} : job'[k] = job[k]
    <2>1. [Idle EXCEPT !.pc = "done", !.q = cur].pc = "done" /\ [Idle EXCEPT !.pc = "done", !.q = cur].q = cur
      BY DEF Idle
    <2> HIDE DEF Idle
    <2> QED
      BY <1>1, <1>2, <2>1
  <1>4. Counted' = Counted /\ Counted \subseteq Job /\ j \in Counted /\ cur \in fit[j] /\ j \notin Ended
    BY <1>1 DEF Counted, Launches, PoolOf, Bounded, Ended, At, RingInv, FitInv
  <1>5. Ended' = Ended \cup {j} /\ Ended \subseteq Job
    BY <1>3, <1>4 DEF Ended, At
  <1>6. \A q : CountedOn(q)' = IF q = cur THEN CountedOn(q) \cup {j} ELSE CountedOn(q)
    BY <1>3, <1>4, <1>5 DEF CountedOn
  <1>7. /\ ring \in [Queue -> RingRec] /\ \A q \in Queue : Follows(ring[q])
        /\ ring[0].total = 0 /\ \A q \in Conn : ring[q].total = Cardinality(CountedOn(q))
    BY DEF RingInv
  <1>8. FitInv'
    <2>1. /\ fit \in [Job -> SUBSET Queue] /\ \A k \in Ended : job[k].q \in fit[k]
          /\ \A k \in Job : At(k, "ring") => k \in Counted /\ cur \in fit[k]
      BY DEF RingInv, FitInv
    <2>2. \A k \in Job : At(k, "ring")' => At(k, "ring")
      BY <1>3 DEF At
    <2>3. \A k \in Ended' : job'[k].q \in fit[k]
      BY <1>3, <1>4, <1>5, <2>1
    <2> QED
      BY <1>1, <1>4, <2>1, <2>2, <2>3 DEF FitInv
  <1>9. 0 \in Queue /\ 0 \notin Conn /\ \A q \in Conn : q \in Queue
    BY SMT, LaunchQueueAssumption DEF Conn, Queue
  <1>10. CASE cur = 0
    <2>1. ring' = ring /\ \A q \in Conn : CountedOn(q)' = CountedOn(q)
      BY <1>1, <1>6, <1>9, <1>10
    <2> QED
      BY <1>7, <1>8, <2>1 DEF RingInv, Follows
  <1>11. CASE cur # 0
    <2>1. cur \in Conn /\ cur \in Queue /\ ring' = [ring EXCEPT ![cur] = add(ring[cur], 1, job[j].ok)]
      BY <1>1, <1>2, <1>9, <1>11
    <2>2. ring[cur] \in RingRec /\ Follows(ring[cur]) /\ 1 \in Nat
      BY <1>7, <2>1
    <2>3. /\ add(ring[cur], 1, job[j].ok) \in RingRec
          /\ add(ring[cur], 1, job[j].ok).total = ring[cur].total + 1
          /\ Follows(add(ring[cur], 1, job[j].ok))
      BY <1>2, <2>2, AddCounts
    <2>4. /\ ring' \in [Queue -> RingRec] /\ ring'[cur].total = ring[cur].total + 1
          /\ \A q \in Queue \ {cur} : ring'[q] = ring[q]
          /\ Follows(ring'[cur])
      BY <1>7, <2>1, <2>3
    <2>5. Cardinality(CountedOn(cur) \cup {j}) = Cardinality(CountedOn(cur)) + 1
      <3>1. j \notin CountedOn(cur) /\ CountedOn(cur) \subseteq Job
        BY <1>4, <1>5 DEF CountedOn
      <3>2. IsFiniteSet(CountedOn(cur))
        BY <3>1, FS_Subset, LaunchQueueAssumption
      <3> QED
        BY <3>1, <3>2, FS_AddElement
    <2>6. \A q \in Conn : ring'[q].total = Cardinality(CountedOn(q)')
      <3> SUFFICES ASSUME NEW q \in Conn PROVE ring'[q].total = Cardinality(CountedOn(q)')
        OBVIOUS
      <3>1. CASE q = cur
        BY <1>6, <1>7, <2>4, <2>5, <3>1
      <3>2. CASE q # cur
        BY <1>6, <1>7, <1>9, <2>4, <3>2
      <3> QED
        BY <3>1, <3>2
    <2>7. (\A q \in Queue : Follows(ring'[q])) /\ ring'[0].total = 0
      BY <1>7, <1>9, <1>11, <2>4
    <2> QED
      BY <1>8, <2>4, <2>6, <2>7 DEF RingInv, Follows
  <1> QED
    BY <1>10, <1>11

\* A launch about to be counted fits the conn the worker has got.
LEMMA WorkerKeepsRings ==
  ASSUME IInv, RingInv, RemoveWorker \/ NewConn
  PROVE  RingInv'
  <1>1. UNCHANGED <<kind, job, ring>> /\ fit' = FitNow
    BY DEF RemoveWorker, NewConn
  <1>2. cur' \in Queue
    BY SMT, LaunchQueueAssumption DEF IInv, ConnType, Conn, Queue, RemoveWorker, NewConn
  <1>3. Counted' = Counted /\ Counted \subseteq Job
    BY <1>1 DEF Counted, Launches, PoolOf, Bounded
  <1>4. Ended' = Ended /\ Ended \subseteq Job
    BY <1>1, <1>3 DEF Ended, At
  <1>5. \A q \in Conn : CountedOn(q)' = CountedOn(q)
    BY <1>1, <1>4 DEF CountedOn
  <1>6. fit \in [Job -> SUBSET Queue] /\ \A k \in Job : At(k, "ring") => k \in Counted
    BY DEF RingInv, FitInv
  <1>7. ASSUME NEW k \in Job
        PROVE  /\ fit[k] \subseteq fit'[k] /\ fit'[k] \in SUBSET Queue
               /\ At(k, "ring") => cur' \in fit'[k]
    BY <1>1, <1>2, <1>6 DEF FitNow
  <1>8. fit' \in [Job -> SUBSET Queue]
    BY <1>1, <1>2, <1>6 DEF FitNow
  <1>9. FitInv'
    <2>1. \A k \in Ended : job[k].q \in fit[k]
      BY DEF RingInv, FitInv
    <2> QED
      BY <1>1, <1>3, <1>4, <1>6, <1>7, <1>8, <2>1 DEF FitInv, At
  <1> QED
    BY <1>1, <1>5, <1>9 DEF RingInv, Follows

\* Every step keeps the rings.
LEMMA RingNext == IInv /\ RingInv /\ [Next]_vars => RingInv'
  <1> SUFFICES ASSUME IInv, RingInv, [Next]_vars PROVE RingInv'
    OBVIOUS
  <1>1. ASSUME NEW j \in Job, JobStep(j) \/ admitReads(j) \/ (At(j, "idle") /\ acquireLaunchSlot(j))
        PROVE  RingInv'
    <2>1. CASE finish(j)
      BY <2>1, FinishFits
    <2>2. CASE ringOf(j)
      BY <2>2, RingOfCounts
    <2>3. CASE ~finish(j) /\ ~ringOf(j)
      BY <1>1, <2>3, OthersKeepRings DEF JobStep
    <2> QED
      BY <2>1, <2>2, <2>3
  <1>2. CASE WorkerOut \/ UNCHANGED vars
    <2>1. UNCHANGED <<kind, ring, fit, cur, job>>
      BY <1>2 DEF WorkerOut, vars
    <2>2. \A k \in Job : /\ At(k, "done")' <=> At(k, "done")
                         /\ At(k, "done") => job'[k] = job[k]
                         /\ At(k, "ring")' => At(k, "ring")
      BY <2>1 DEF At
    <2> QED
      BY <2>1, <2>2, RingsKept
  <1>3. CASE RemoveWorker \/ NewConn
    BY <1>3, WorkerKeepsRings
  <1> QED
    BY <1>1, <1>2, <1>3 DEF Next

\* Nothing is counted at the start.
LEMMA RingInit == Init => RingInv
  <1> SUFFICES ASSUME Init PROVE RingInv
    OBVIOUS
  <1>1. /\ ring = [q \in Queue |-> EmptyRing] /\ fit = [j \in Job |-> {}]
        /\ job = [j \in Job |-> Idle]
    BY DEF Init
  <1>2. EmptyRing \in RingRec /\ EmptyRing.total = 0 /\ Follows(EmptyRing)
    BY SMT, RingAssumption DEF EmptyRing, RingRec, Follows
  <1>3. \A j \in Job : job[j].pc = "idle"
    BY <1>1 DEF Idle
  <1>4. Ended = {} /\ \A q \in Conn : CountedOn(q) = {}
    BY <1>3 DEF Ended, CountedOn, At, Counted, Launches
  <1>5. Cardinality({}) = 0
    BY FS_EmptySet
  <1>6. 0 \in Queue /\ \A q \in Conn : q \in Queue
    BY SMT, LaunchQueueAssumption DEF Conn, Queue
  <1>7. FitInv
    BY <1>1, <1>3, <1>4 DEF FitInv, At
  <1>8. \A q \in Queue : ring[q] = EmptyRing
    BY <1>1
  <1> QED
    BY <1>1, <1>2, <1>4, <1>5, <1>6, <1>7, <1>8 DEF RingInv

\* The rings hold every requested launch that ended exactly once, on a conn that was the
\* worker's after the launch was over, or none if it was gone then (launchTimer.finish
\* and ring), for any number of jobs and conns.
THEOREM LaunchesKept == Spec => []LaunchesCounted
  <1>1. RingInv => LaunchesCounted
    BY DEF RingInv, FitInv, LaunchesCounted, Ended, CountedOn
  <1> QED
    BY InitKeeps, NextKeeps, RingInit, RingNext, <1>1, PTL DEF Spec

\* However far a ring has wrapped, its next place and its number of durations are those
\* of the launches that succeeded, modulo its size: launchRing.add overwrites the oldest
\* duration and never another, for any size.
THEOREM RingsFollow == Spec => [](\A q \in Queue : ring[q] \in RingRec /\ Follows(ring[q]))
  <1>1. RingInv => \A q \in Queue : ring[q] \in RingRec /\ Follows(ring[q])
    BY DEF RingInv
  <1> QED
    BY InitKeeps, NextKeeps, RingInit, RingNext, <1>1, PTL DEF Spec

-----------------------------------------------------------------------------
(* The exporter of samples.                                                *)

SampleCounts ==
    /\ ch \in Nat /\ dropped \in Nat /\ loaded \in Nat /\ reportedDrops \in Nat /\ told \in Nat
    /\ emitter \in {"waiting", "taken", "report", "emit"}

Flags ==
    /\ refused \in BOOLEAN /\ agent \in BOOLEAN /\ icmp \in BOOLEAN /\ heard \in BOOLEAN
    /\ socket \in {"none", "wait", "open"}

\* An open socket without a refusal to report has had its last write heard.
OpenIsHeard == socket = "open" /\ ~icmp => heard

SocketInv == Flags /\ OpenIsHeard

\* What is kept as reported was told; a count loaded with the channel empty is the
\* latest, a drop leaving the channel full.
DropInv ==
    /\ SampleCounts /\ told = reportedDrops /\ reportedDrops <= dropped
    /\ emitter = "report" => /\ reportedDrops <= loaded /\ loaded <= dropped
                             /\ ch = 0 => loaded = dropped
    /\ DropsTold

\* The exporter starts with nothing buffered.
LEMMA ExporterInit == MetricsInit => DropInv /\ SocketInv
  <1> SUFFICES ASSUME MetricsInit PROVE DropInv /\ SocketInv
    OBVIOUS
  <1>1. DropInv
    BY SMT DEF MetricsInit, DropInv, SampleCounts, DropsTold
  <1>2. SocketInv
    BY DEF MetricsInit, SocketInv, Flags, OpenIsHeard
  <1> QED
    BY <1>1, <1>2

\* A launch that records finds the channel full, or fills it by one.
LEMMA RecordKeepsDrops ==
  ASSUME DropInv, record PROVE DropInv'
  BY SMT, MetricsAssumption DEF record, DropInv, SampleCounts, DropsTold

\* The emitter takes a sample, reads the count and reports what it has read.
LEMMA ReportKeepsDrops ==
  ASSUME DropInv, EmitterTakes \/ loadDrops \/ reportDrops PROVE DropInv'
  <1>1. CASE EmitterTakes
    BY SMT, <1>1 DEF EmitterTakes, dropVars, DropInv, SampleCounts, DropsTold
  <1>2. CASE loadDrops
    BY SMT, <1>2 DEF loadDrops, DropInv, SampleCounts, DropsTold
  <1>3. CASE reportDrops /\ (loaded = reportedDrops \/ quiet)
    <2>1. /\ emitter = "report" /\ emitter' = "emit" /\ loaded' = 0 /\ held' = (loaded # reportedDrops)
          /\ UNCHANGED <<told, reportedDrops, ch, dropped>>
      BY <1>3 DEF reportDrops
    <2>2. loaded # reportedDrops => held'
      BY <2>1
    <2> QED
      BY SMT, <2>1, <2>2 DEF DropInv, SampleCounts, DropsTold
  <1>4. CASE reportDrops /\ ~(loaded = reportedDrops \/ quiet)
    <2>1. /\ emitter = "report" /\ emitter' = "emit" /\ loaded' = 0
          /\ told' = told + (loaded - reportedDrops) /\ reportedDrops' = loaded
          /\ UNCHANGED <<ch, dropped>>
      BY <1>4 DEF reportDrops
    <2> QED
      BY SMT, <2>1 DEF DropInv, SampleCounts, DropsTold
  <1> QED
    BY <1>1, <1>2, <1>3, <1>4

\* The other steps change no count of drops.
LEMMA OthersKeepDrops ==
  ASSUME DropInv, UNCHANGED <<ch, dropped, loaded, reportedDrops, told, held>>,
         emitter' = emitter \/ (emitter = "emit" /\ emitter' = "waiting")
  PROVE  DropInv'
  BY SMT DEF DropInv, SampleCounts, DropsTold

\* Every step of a launch that records, of the emitter, of the agent and of the clock.
LEMMA ExporterNext == DropInv /\ SocketInv /\ [MetricsNext]_metricsVars => DropInv' /\ SocketInv'
  <1> SUFFICES ASSUME DropInv, SocketInv, [MetricsNext]_metricsVars PROVE DropInv' /\ SocketInv'
    OBVIOUS
  <1>1. CASE record \/ EmitterTakes \/ loadDrops \/ reportDrops
    <2>1. UNCHANGED socketVars
      BY <1>1 DEF record, EmitterTakes, loadDrops, reportDrops
    <2>2. SocketInv'
      BY <2>1 DEF socketVars, SocketInv, Flags, OpenIsHeard
    <2> QED
      BY <1>1, <2>2, RecordKeepsDrops, ReportKeepsDrops
  <1>2. CASE ReportDue \/ RedialDue \/ AgentGoes \/ AgentReturns \/ UNCHANGED metricsVars
    <2>1. UNCHANGED <<ch, dropped, loaded, reportedDrops, told, held, emitter>>
      BY <1>2 DEF ReportDue, RedialDue, AgentGoes, AgentReturns, metricsVars, dropVars
    <2>2. SocketInv'
      BY <1>2 DEF ReportDue, RedialDue, AgentGoes, AgentReturns, metricsVars, socketVars,
                  SocketInv, Flags, OpenIsHeard
    <2> QED
      BY <2>1, <2>2, OthersKeepDrops
  <1>3. CASE EmitWaits \/ DialFails \/ WriteFails \/ emit
    <2>1. Emitted
      BY <1>3 DEF EmitWaits, DialFails, WriteFails, fail, emit
    <2>2. DropInv'
      BY <2>1, OthersKeepDrops DEF Emitted, dropVars
    <2>3. SocketInv'
      <3>1. CASE EmitWaits
        BY <3>1 DEF EmitWaits, socketVars, SocketInv, Flags, OpenIsHeard
      <3>2. CASE DialFails \/ WriteFails
        BY <3>2 DEF DialFails, WriteFails, fail, SocketInv, Flags, OpenIsHeard
      <3>3. CASE emit
        BY <3>3 DEF emit, SocketInv, Flags, OpenIsHeard
      <3> QED
        BY <1>3, <3>1, <3>2, <3>3
    <2> QED
      BY <2>2, <2>3
  <1> QED
    BY <1>1, <1>2, <1>3 DEF MetricsNext, run

\* Whatever the depth of the channel, the log has been told of every drop once the channel
\* has run empty and the emitter is past its report, unless that report was held back
\* (record, and reportDrops, which keeps the count it has told and not a later one).
THEOREM DropsReported == MetricsSpec => []DropsTold
  <1>1. DropInv => DropsTold
    BY DEF DropInv
  <1> QED
    BY ExporterInit, ExporterNext, <1>1, PTL DEF MetricsSpec

\* A step that clears the outage flag wrote a batch.
LEMMA StepIsReal ==
  ASSUME SocketInv, [MetricsNext]_metricsVars PROVE [refused /\ ~refused' => heard]_metricsVars
  <1> SUFFICES ASSUME refused, ~refused' PROVE heard
    OBVIOUS
  <1>1. ~UNCHANGED metricsVars
    BY DEF metricsVars, socketVars
  <1>2. ASSUME emit PROVE heard
    <2>0. socket = "none" => refused' = (refused /\ 1 < 2)
      BY <1>2 DEF emit
    <2>1. socket # "none"
      <3>1. 1 < 2
        BY SMT
      <3> QED
        BY <2>0, <3>1
    <2>2. socket = "open" /\ ~icmp
      BY <1>2, <2>1 DEF emit, SocketInv, Flags
    <2> QED
      BY <2>2 DEF SocketInv, OpenIsHeard
  <1>3. ~(record \/ EmitterTakes \/ loadDrops \/ reportDrops \/ ReportDue \/ EmitWaits \/ RedialDue \/ AgentGoes \/ AgentReturns)
    BY DEF record, EmitterTakes, loadDrops, reportDrops, ReportDue, EmitWaits, RedialDue, AgentGoes,
           AgentReturns, socketVars
  <1>4. ~(DialFails \/ WriteFails)
    BY DEF DialFails, WriteFails, fail
  <1> QED
    BY <1>1, <1>2, <1>3, <1>4 DEF MetricsNext, run

\* A recovery is announced only when the write before this one reached an agent
\* (emit counts two writes after a dial, and fail starts the count again).
THEOREM RecoveryKept == MetricsSpec => RecoveryIsReal
  <1>1. SocketInv /\ [MetricsNext]_metricsVars => [refused /\ ~refused' => heard]_metricsVars
    BY SMT, StepIsReal
  <1> QED
    BY ExporterInit, ExporterNext, <1>1, PTL DEF MetricsSpec, RecoveryIsReal

-----------------------------------------------------------------------------
\* No stall of T counts a timeout at x.
Uncounted(T, x) == \A c \in T : ~(c <= x /\ x - c < callTimeout)

\* The stalls T are some of the timeouts s, a call timeout apart.
Spread(T, s) ==
    /\ T \in SUBSET Nat
    /\ \A a, b \in T : a < b => b - a >= callTimeout
    /\ \A a \in T : \E i \in 1..Len(s) : s[i] = a

\* What the stalls T remembered say of the timeouts s since the last ejection: they are
\* some of them, a call timeout apart, all bursts among them; and the timeouts that none
\* of them counts are of one stall, an earlier one, which has left the window.
Remembers(T, s) ==
    /\ Spread(T, s) /\ IsFiniteSet(T) /\ Cardinality(T) < limit
    /\ s \in Seq(Nat) /\ \A i, k \in 1..Len(s) : i <= k => s[i] <= s[k]
    /\ \A i \in Bursts(s) : s[i] \in T
    /\ \A i \in Recent(s) : Uncounted(T, s[i]) => \A c \in T : s[i] < c
    /\ \A i, k \in Recent(s) : Uncounted(T, s[i]) /\ Uncounted(T, s[k]) => s[k] - s[i] < callTimeout

StallInv ==
    /\ eject \in BOOLEAN /\ times \in Seq(Nat)
    /\ Remembers(timeouts, IF eject THEN <<>> ELSE times)
    /\ eject => \E I \in SUBSET Recent(times) :
                   Cardinality(I) = limit /\ Len(times) \in I /\ Separate(times, I)

\* The settings are positive.
LEMMA Positive ==
  /\ callTimeout \in Nat /\ 0 < callTimeout
  /\ window \in Nat /\ 0 < window
  /\ limit \in Nat /\ 0 < limit
  BY SMT, StallsAssumption

\* A step of the count: the timeouts s become t with one at `now', and R are the stalls
\* that are still in the window.
Notes(T, s, now, t, R) ==
    /\ Remembers(T, s) /\ now \in Nat /\ \A i \in 1..Len(s) : s[i] <= now
    /\ t = Append(s, now) /\ R = {at \in T : now - at < window}

Ordered(T, s, now, t) ==
    /\ Len(s) \in Nat /\ Len(t) = Len(s) + 1 /\ t \in Seq(Nat) /\ DOMAIN t = 1..Len(s) + 1
    /\ t[Len(s) + 1] = now /\ now \in Nat
    /\ \A i \in 1..Len(s) : t[i] = s[i] /\ s[i] \in Nat /\ s[i] <= now
    /\ \A a \in T : a \in Nat /\ a <= now
    /\ \A i, k \in 1..Len(s) + 1 : i <= k => t[i] <= t[k]

\* What a step starts from.
LEMMA NotesOrdered ==
  ASSUME NEW T, NEW s, NEW now, NEW t, NEW R, Notes(T, s, now, t, R)
  PROVE  Ordered(T, s, now, t)
  <1>1. s \in Seq(Nat) /\ Len(s) \in Nat /\ now \in Nat /\ t = Append(s, now)
    BY SMT DEF Notes, Remembers
  <1>2. /\ Len(t) = Len(s) + 1 /\ t \in Seq(Nat) /\ DOMAIN t = 1..Len(s) + 1
        /\ t[Len(s) + 1] = now /\ \A i \in 1..Len(s) : t[i] = s[i] /\ s[i] \in Nat
    BY SMT, <1>1
  <1>3. \A i \in 1..Len(s) : s[i] <= now
    BY DEF Notes
  <1>4. \A a \in T : a \in Nat /\ a <= now
    BY <1>3 DEF Notes, Remembers, Spread
  <1>5. ASSUME NEW i \in 1..Len(s) + 1, NEW k \in 1..Len(s) + 1, i <= k
        PROVE  t[i] <= t[k]
    <2>1. CASE k \in 1..Len(s)
      <3>1. i \in 1..Len(s)
        BY SMT, <1>1, <1>5, <2>1
      <3> QED
        BY <1>2, <1>5, <2>1, <3>1 DEF Notes, Remembers
    <2>2. CASE k = Len(s) + 1
      <3>1. i \in 1..Len(s) \/ i = Len(s) + 1
        BY SMT, <1>1
      <3>2. now <= now
        BY SMT, <1>1
      <3> QED
        BY <1>2, <1>3, <2>2, <3>1, <3>2
    <2>3. k \in 1..Len(s) \/ k = Len(s) + 1
      BY SMT, <1>1
    <2> QED
      BY <2>1, <2>2, <2>3
  <1> QED
    BY <1>1, <1>2, <1>3, <1>4, <1>5 DEF Ordered

\* The stalls still in the window.
LEMMA StillRemembered ==
  ASSUME NEW T, NEW s, NEW now, NEW t, NEW R, Notes(T, s, now, t, R)
  PROVE  /\ Spread(R, s) /\ R \subseteq T /\ IsFiniteSet(R) /\ Cardinality(R) \in Nat
         /\ Cardinality(R) < limit
  <1>1. Spread(T, s) /\ R \subseteq T /\ IsFiniteSet(T) /\ Cardinality(T) < limit
    BY DEF Notes, Remembers
  <1>2. IsFiniteSet(R) /\ Cardinality(R) <= Cardinality(T)
    BY <1>1, FS_Subset
  <1>3. Cardinality(R) \in Nat /\ Cardinality(T) \in Nat
    BY <1>1, <1>2, FS_CardinalityType
  <1>4. Cardinality(R) < limit
    BY SMT, <1>1, <1>2, <1>3, Positive
  <1>5. Spread(R, s)
    BY <1>1 DEF Spread
  <1> QED
    BY <1>1, <1>2, <1>3, <1>4, <1>5

\* It was in the window of the timeout before, too.
Before(s, now, t, i) ==
    i \in 1..Len(s) /\ i \in Recent(s) /\ t[i] = s[i] /\ s[i] \in Nat /\ now - s[i] < window

\* A timeout in the window now was in the window of the timeout before.
LEMMA RecentBefore ==
  ASSUME NEW T, NEW s, NEW now, NEW t, NEW R, Notes(T, s, now, t, R), NEW i \in Recent(t)
  PROVE  i = Len(s) + 1 \/ Before(s, now, t, i)
  <1>0. Ordered(T, s, now, t)
    BY NotesOrdered
  <1>1. i \in 1..Len(s) + 1 /\ now - t[i] < window
    BY <1>0 DEF Ordered, Recent
  <1>2. i = Len(s) + 1 \/ i \in 1..Len(s)
    BY SMT, <1>1, <1>0 DEF Ordered
  <1>3. CASE i \in 1..Len(s)
    <2>1. t[i] = s[i] /\ now - s[i] < window /\ s[i] \in Nat /\ now \in Nat
      BY <1>1, <1>3, <1>0 DEF Ordered
    <2>2. Len(s) \in 1..Len(s)
      BY SMT, <1>3, <1>0 DEF Ordered
    <2>3. s[Len(s)] \in Nat /\ s[Len(s)] <= now /\ DOMAIN s = 1..Len(s)
      BY SMT, <2>2, <1>0 DEF Ordered, Notes, Remembers
    <2>4. s[Len(s)] - s[i] < window
      BY SMT, <2>1, <2>3, Positive
    <2> QED
      BY <1>3, <2>1, <2>3, <2>4 DEF Recent, Before
  <1> QED
    BY <1>2, <1>3

\* All bursts in the window are remembered, the timeout that comes now included when it
\* is one: it is no known stall's.
LEMMA BurstsRemembered ==
  ASSUME NEW T, NEW s, NEW now, NEW t, NEW R, Notes(T, s, now, t, R), NEW i \in Bursts(t)
  PROVE  t[i] \in R \/ (t[i] = now /\ \A at \in R : now - at >= callTimeout)
  <1>0. Ordered(T, s, now, t) /\ (i \in Recent(t) => i = Len(s) + 1 \/ Before(s, now, t, i))
    BY NotesOrdered, RecentBefore
  <1>1. i \in Recent(t) /\ (i = 1 \/ t[i] - t[i - 1] >= callTimeout)
    BY DEF Bursts
  <1>2. CASE Before(s, now, t, i)
    <2>1. i = 1 \/ s[i] - s[i - 1] >= callTimeout
      <3>1. i = 1 \/ i - 1 \in 1..Len(s)
        BY SMT, <1>2, <1>0 DEF Ordered, Before
      <3>2. i - 1 \in 1..Len(s) => t[i - 1] = s[i - 1]
        BY <1>0 DEF Ordered
      <3> QED
        BY <1>1, <1>2, <3>1, <3>2 DEF Before
    <2>2. i \in Bursts(s)
      BY <1>2, <2>1 DEF Bursts, Before
    <2>3. s[i] \in T
      BY <2>2 DEF Notes, Remembers
    <2> QED
      BY <1>2, <2>3 DEF Notes, Before
  <1>3. CASE i = Len(s) + 1
    <2>1. t[i] = now
      BY <1>3, <1>0 DEF Ordered
    <2>2. ASSUME NEW at \in R PROVE now - at >= callTimeout
      <3>1. PICK k \in 1..Len(s) : s[k] = at
        BY StillRemembered DEF Spread
      <3>2. i # 1 /\ i - 1 = Len(s) /\ Len(s) \in 1..Len(s) /\ k <= Len(s)
        BY SMT, <1>3, <3>1, <1>0 DEF Ordered
      <3>3. t[i - 1] = s[Len(s)] /\ s[Len(s)] \in Nat /\ s[k] \in Nat /\ now \in Nat
        BY <3>2, <1>0 DEF Ordered
      <3>4. s[k] <= s[Len(s)]
        BY <3>2 DEF Notes, Remembers
      <3>5. now - s[Len(s)] >= callTimeout
        BY <1>1, <2>1, <3>2, <3>3
      <3> QED
        BY SMT, <3>1, <3>3, <3>4, <3>5, Positive
    <2> QED
      BY <2>1, <2>2
  <1> QED
    BY <1>0, <1>1, <1>2, <1>3

\* The stalls Q remembered after the step: those still in the window and, unless one of
\* them counts the timeout at `now', that one.
Counts(R, now, Q) ==
    \/ Q = R /\ \E c \in R : now - c < callTimeout
    \/ Q = R \cup {now} /\ \A c \in R : now - c >= callTimeout

\* A stall that leaves the window at `now' counted a timeout at x.
Leaves(T, now, x) == \E d \in T : now - d >= window /\ d <= x /\ x - d < callTimeout

\* The timeout that comes is counted, and the stalls stay a call timeout apart.
LEMMA CountsNow ==
  ASSUME NEW T, NEW s, NEW now, NEW t, NEW R, NEW Q, Notes(T, s, now, t, R), Counts(R, now, Q)
  PROVE  R \subseteq Q /\ Q \subseteq R \cup {now} /\ Spread(Q, t) /\ ~Uncounted(Q, now)
  <1>1. Spread(R, s) /\ R \subseteq T
    BY StillRemembered
  <1>2. Ordered(T, s, now, t)
    BY NotesOrdered
  <1>3. now \in Nat /\ \A c \in R : c \in Nat /\ c <= now
    BY <1>1, <1>2 DEF Ordered
  <1>4. R \subseteq Q /\ Q \subseteq R \cup {now}
    BY DEF Counts
  <1>5. Q \in SUBSET Nat
    BY <1>1, <1>3, <1>4 DEF Spread
  <1>6. ~Uncounted(Q, now)
    <2>1. now <= now /\ now - now < callTimeout
      BY SMT, <1>3, Positive
    <2> QED
      BY <1>3, <2>1 DEF Counts, Uncounted
  <1>7. ASSUME NEW a \in Q, NEW b \in Q, a < b PROVE b - a >= callTimeout
    <2>1. CASE a \in R /\ b \in R
      BY <1>1, <1>7, <2>1 DEF Spread
    <2>2. CASE a = now
      BY SMT, <1>3, <1>4, <1>7, <2>2
    <2>3. CASE a \in R /\ b = now /\ b \notin R
      BY <2>3 DEF Counts
    <2> QED
      BY <1>4, <2>1, <2>2, <2>3
  <1>8. ASSUME NEW a \in Q PROVE \E i \in 1..Len(t) : t[i] = a
    <2>1. CASE a = now
      <3>1. Len(s) + 1 \in 1..Len(t)
        BY SMT, <1>2 DEF Ordered
      <3> QED
        BY <1>2, <2>1, <3>1 DEF Ordered
    <2>2. CASE a \in R
      <3>1. PICK k \in 1..Len(s) : s[k] = a
        BY <1>1, <2>2 DEF Spread
      <3>2. k \in 1..Len(t)
        BY SMT, <1>2 DEF Ordered
      <3> QED
        BY <1>2, <3>1, <3>2 DEF Ordered
    <2> QED
      BY <1>4, <2>1, <2>2
  <1> QED
    BY <1>4, <1>5, <1>6, <1>7, <1>8 DEF Spread

\* A timeout in the window that no stall remembered counts was there before, and was
\* counted by none or by a stall that leaves the window.
LEMMA UncountedBefore ==
  ASSUME NEW T, NEW s, NEW now, NEW t, NEW R, NEW Q, Notes(T, s, now, t, R), Counts(R, now, Q),
         NEW i \in Recent(t), Uncounted(Q, t[i])
  PROVE  Before(s, now, t, i) /\ (Uncounted(T, s[i]) \/ Leaves(T, now, s[i]))
  <1>1. Ordered(T, s, now, t) /\ (i = Len(s) + 1 \/ Before(s, now, t, i))
    BY NotesOrdered, RecentBefore
  <1>2. ~Uncounted(Q, now) /\ R \subseteq Q
    BY CountsNow
  <1>3. Before(s, now, t, i)
    BY <1>1, <1>2 DEF Ordered
  <1>4. ASSUME ~Uncounted(T, s[i]) PROVE Leaves(T, now, s[i])
    <2>1. PICK c \in T : c <= s[i] /\ s[i] - c < callTimeout
      BY <1>4 DEF Uncounted
    <2>2. c \notin R
      BY <1>2, <1>3, <2>1 DEF Uncounted, Before
    <2>3. ~(now - c < window)
      BY <2>2 DEF Notes
    <2>4. now \in Nat /\ c \in Nat
      BY <1>1 DEF Ordered
    <2>5. now - c >= window
      BY SMT, <2>3, <2>4, Positive
    <2> QED
      BY <2>1, <2>5 DEF Leaves
  <1> QED
    BY <1>3, <1>4

\* It is earlier than every stall remembered.
LEMMA UncountedEarlier ==
  ASSUME NEW T, NEW s, NEW now, NEW t, NEW R, NEW Q, Notes(T, s, now, t, R), Counts(R, now, Q),
         NEW i \in Recent(t), Uncounted(Q, t[i]), NEW c \in Q
  PROVE  t[i] < c
  <1>1. Before(s, now, t, i) /\ (Uncounted(T, s[i]) \/ Leaves(T, now, s[i]))
    BY UncountedBefore
  <1>2. Ordered(T, s, now, t) /\ R \subseteq T
    BY NotesOrdered, StillRemembered
  <1>3. ~Uncounted(Q, now) /\ Q \subseteq R \cup {now}
    BY CountsNow
  <1>4. t[i] = s[i] /\ s[i] \in Nat /\ now \in Nat /\ s[i] <= now
    BY <1>1, <1>2 DEF Before, Ordered
  <1>5. CASE c = now
    <2>1. s[i] # now
      BY <1>3, <1>4
    <2> QED
      BY SMT, <1>4, <1>5, <2>1
  <1>6. CASE c \in R
    <2>1. c \in T /\ c \in Nat /\ now - c < window
      BY <1>2, <1>6 DEF Notes, Ordered
    <2>2. CASE Uncounted(T, s[i])
      <3>1. i \in Recent(s)
        BY <1>1 DEF Before
      <3>2. s[i] < c
        BY <2>1, <2>2, <3>1 DEF Notes, Remembers
      <3> QED
        BY <1>4, <3>2
    <2>3. CASE Leaves(T, now, s[i])
      <3>1. PICK d \in T : now - d >= window /\ d <= s[i] /\ s[i] - d < callTimeout
        BY <2>3 DEF Leaves
      <3>2. d \in Nat
        BY <1>2 DEF Ordered
      <3>3. d < c
        BY SMT, <1>4, <2>1, <3>1, <3>2, Positive
      <3>4. c - d >= callTimeout
        BY <2>1, <3>3 DEF Notes, Remembers, Spread
      <3> QED
        BY SMT, <1>4, <2>1, <3>1, <3>2, <3>4, Positive
    <2> QED
      BY <1>1, <2>2, <2>3
  <1> QED
    BY <1>3, <1>5, <1>6

\* Two of them are of one stall.
LEMMA UncountedTogether ==
  ASSUME NEW T, NEW s, NEW now, NEW t, NEW R, NEW Q, Notes(T, s, now, t, R), Counts(R, now, Q),
         NEW i \in Recent(t), Uncounted(Q, t[i]), NEW k \in Recent(t), Uncounted(Q, t[k])
  PROVE  t[k] - t[i] < callTimeout
  <1>1. /\ Before(s, now, t, i) /\ (Uncounted(T, s[i]) \/ Leaves(T, now, s[i]))
        /\ Before(s, now, t, k) /\ (Uncounted(T, s[k]) \/ Leaves(T, now, s[k]))
    BY UncountedBefore
  <1>2. Ordered(T, s, now, t)
    BY NotesOrdered
  <1>3. /\ t[i] = s[i] /\ s[i] \in Nat /\ now - s[i] < window /\ i \in Recent(s)
        /\ t[k] = s[k] /\ s[k] \in Nat /\ now - s[k] < window /\ k \in Recent(s)
        /\ now \in Nat /\ \A d \in T : d \in Nat
    BY <1>1, <1>2 DEF Before, Ordered
  <1>4. \A j \in Recent(s) : Uncounted(T, s[j]) => \A c \in T : s[j] < c
    BY DEF Notes, Remembers
  <1>5. CASE Uncounted(T, s[i]) /\ Uncounted(T, s[k])
    BY <1>3, <1>5 DEF Notes, Remembers
  <1>6. CASE Uncounted(T, s[i]) /\ Leaves(T, now, s[k])
    <2>1. PICK d \in T : now - d >= window
      BY <1>6 DEF Leaves
    <2>2. s[i] < d /\ d \in Nat
      BY <1>3, <1>4, <1>6
    <2> QED
      BY SMT, <1>3, <2>1, <2>2, Positive
  <1>7. CASE Leaves(T, now, s[i]) /\ Uncounted(T, s[k])
    <2>1. PICK d \in T : now - d >= window
      BY <1>7 DEF Leaves
    <2>2. s[k] < d /\ d \in Nat
      BY <1>3, <1>4, <1>7
    <2> QED
      BY SMT, <1>3, <2>1, <2>2, Positive
  <1>8. CASE Leaves(T, now, s[i]) /\ Leaves(T, now, s[k])
    <2>1. PICK d \in T : now - d >= window /\ d <= s[i] /\ s[i] - d < callTimeout
      BY <1>8 DEF Leaves
    <2>2. PICK e \in T : now - e >= window /\ e <= s[k] /\ s[k] - e < callTimeout
      BY <1>8 DEF Leaves
    <2>3. (d < e => e - d >= callTimeout) /\ (e < d => d - e >= callTimeout)
      BY DEF Notes, Remembers, Spread
    <2>4. d \in Nat /\ e \in Nat
      BY <1>3
    <2> QED
      BY SMT, <1>3, <2>1, <2>2, <2>3, <2>4, Positive
  <1> QED
    BY <1>1, <1>5, <1>6, <1>7, <1>8

\* A timeout that ejects nobody leaves the count as it should be.
LEMMA StillRemembers ==
  ASSUME NEW T, NEW s, NEW now, NEW t, NEW R, NEW Q, Notes(T, s, now, t, R), Counts(R, now, Q),
         IsFiniteSet(Q), Cardinality(Q) < limit
  PROVE  Remembers(Q, t)
  <1>1. Ordered(T, s, now, t)
    BY NotesOrdered
  <1>2. t \in Seq(Nat) /\ \A i, k \in 1..Len(t) : i <= k => t[i] <= t[k]
    BY <1>1 DEF Ordered
  <1>3. Spread(Q, t)
    BY CountsNow
  <1>4. ASSUME NEW i \in Bursts(t) PROVE t[i] \in Q
    <2>1. t[i] \in R \/ (t[i] = now /\ \A at \in R : now - at >= callTimeout)
      BY BurstsRemembered
    <2>2. now \in Nat /\ Spread(R, s)
      BY <1>1, StillRemembered DEF Ordered
    <2>3. (\A at \in R : now - at >= callTimeout) => ~\E c \in R : now - c < callTimeout
      BY SMT, <2>2, Positive DEF Spread
    <2> QED
      BY <2>1, <2>3 DEF Counts
  <1>5. \A i \in Recent(t) : Uncounted(Q, t[i]) => \A c \in Q : t[i] < c
    BY UncountedEarlier
  <1>6. \A i, k \in Recent(t) : Uncounted(Q, t[i]) /\ Uncounted(Q, t[k]) => t[k] - t[i] < callTimeout
    BY UncountedTogether
  <1> QED
    BY <1>2, <1>3, <1>4, <1>5, <1>6 DEF Remembers

\* A set with a one-to-one map into a finite set has no more elements.
LEMMA OneToOne ==
  ASSUME NEW S, NEW U, NEW f \in [S -> U], \A x, y \in S : f[x] = f[y] => x = y, IsFiniteSet(U)
  PROVE  Cardinality(S) \in Nat /\ Cardinality(U) \in Nat /\ Cardinality(S) <= Cardinality(U)
  <1>1. f \in Injection(S, U)
    BY DEF Injection, IsInjective
  <1>2. IsFiniteSet(S) /\ Cardinality(S) <= Cardinality(U)
    BY <1>1, FS_Injection
  <1> QED
    BY <1>2, FS_CardinalityType

\* The timeouts of a history, in the order of the clock.
LEMMA Clocked ==
  ASSUME NEW T, NEW s, Remembers(T, s)
  PROVE  /\ s \in Seq(Nat) /\ Len(s) \in Nat /\ DOMAIN s = 1..Len(s)
         /\ \A i \in 1..Len(s) : i \in Nat /\ s[i] \in Nat
         /\ \A i, k \in 1..Len(s) : i <= k => s[i] <= s[k]
  <1>1. s \in Seq(Nat) /\ \A i, k \in 1..Len(s) : i <= k => s[i] <= s[k]
    BY DEF Remembers
  <1>2. Len(s) \in Nat /\ DOMAIN s = 1..Len(s) /\ \A i \in 1..Len(s) : i \in Nat /\ s[i] \in Nat
    BY SMT, <1>1
  <1> QED
    BY <1>1, <1>2

\* The bursts of the window are fewer than the limit.
LEMMA BurstsFew ==
  ASSUME NEW T, NEW s, Remembers(T, s)
  PROVE  Cardinality(Bursts(s)) < limit
  <1> DEFINE f == [i \in Bursts(s) |-> s[i]]
  <1>1. /\ Len(s) \in Nat /\ DOMAIN s = 1..Len(s)
        /\ \A i \in 1..Len(s) : i \in Nat /\ s[i] \in Nat
        /\ \A i, k \in 1..Len(s) : i <= k => s[i] <= s[k]
    BY Clocked
  <1>2. IsFiniteSet(T) /\ Cardinality(T) < limit /\ \A i \in Bursts(s) : s[i] \in T
    BY DEF Remembers
  <1>3. ASSUME NEW i \in Bursts(s), NEW k \in Bursts(s), i < k PROVE s[i] < s[k]
    <2>1. i \in 1..Len(s) /\ k \in 1..Len(s) /\ (k = 1 \/ s[k] - s[k - 1] >= callTimeout)
      BY <1>1 DEF Bursts, Recent
    <2>2. k # 1 /\ k - 1 \in 1..Len(s) /\ i <= k - 1
      BY SMT, <1>1, <1>3, <2>1
    <2>3. s[i] <= s[k - 1] /\ s[i] \in Nat /\ s[k - 1] \in Nat /\ s[k] \in Nat
      BY <1>1, <2>1, <2>2
    <2>4. s[k] - s[k - 1] >= callTimeout
      BY <2>1, <2>2
    <2>5. \A x, y, z \in Nat : x <= y /\ z - y >= callTimeout => x < z
      BY SMT, Positive
    <2> QED
      BY <2>3, <2>4, <2>5
  <1>4. ASSUME NEW i \in Bursts(s), NEW k \in Bursts(s), s[i] = s[k] PROVE i = k
    <2>1. i \in Nat /\ k \in Nat /\ s[i] \in Nat
      BY <1>1 DEF Bursts, Recent
    <2>2. ~(s[i] < s[k]) /\ ~(s[k] < s[i])
      BY SMT, <1>4, <2>1
    <2>3. ~(i < k) /\ ~(k < i)
      BY <1>3, <2>2
    <2> QED
      BY SMT, <2>1, <2>3
  <1>5. f \in [Bursts(s) -> T] /\ \A i, k \in Bursts(s) : f[i] = f[k] => i = k
    BY <1>2, <1>4
  <1>6. /\ Cardinality(Bursts(s)) \in Nat /\ Cardinality(T) \in Nat
        /\ Cardinality(Bursts(s)) <= Cardinality(T)
    BY <1>2, <1>5, OneToOne
  <1> QED
    BY SMT, <1>2, <1>6, Positive

\* Timeouts of the window that lie a call timeout apart are at most as many as the limit:
\* each stall remembered counts one of them, and one is counted by none.
LEMMA SeparateFew ==
  ASSUME NEW T, NEW s, Remembers(T, s), NEW I \in SUBSET Recent(s), Separate(s, I)
  PROVE  Cardinality(I) <= limit
  <1> DEFINE of(i) == IF Uncounted(T, s[i]) THEN -1
                      ELSE CHOOSE c \in T : c <= s[i] /\ s[i] - c < callTimeout
             f == [i \in I |-> of(i)]
  <1>1. \A i \in I : i \in Nat /\ s[i] \in Nat /\ i \in Recent(s)
    BY Clocked DEF Recent
  <1>2. T \in SUBSET Nat /\ IsFiniteSet(T) /\ Cardinality(T) < limit
    BY DEF Remembers, Spread
  <1>3. ASSUME NEW i \in I
        PROVE  \/ of(i) = -1 /\ Uncounted(T, s[i])
               \/ of(i) \in T /\ of(i) <= s[i] /\ s[i] - of(i) < callTimeout
    BY DEF Uncounted
  <1> HIDE DEF of
  <1>4. -1 \notin T
    BY SMT, <1>2
  <1>5. ASSUME NEW i \in I, NEW k \in I, of(i) = of(k) PROVE s[k] - s[i] < callTimeout
    <2>1. CASE of(i) = -1
      <3>1. Uncounted(T, s[i]) /\ Uncounted(T, s[k])
        BY <1>3, <1>4, <1>5, <2>1
      <3> QED
        BY <1>1, <3>1 DEF Remembers
    <2>2. CASE of(i) # -1
      <3>1. of(i) \in T /\ of(i) <= s[i] /\ s[k] - of(i) < callTimeout
        BY <1>3, <1>5, <2>2
      <3>2. of(i) \in Nat /\ s[i] \in Nat /\ s[k] \in Nat
        BY <1>1, <1>2, <3>1
      <3> QED
        BY SMT, <3>1, <3>2, Positive
    <2> QED
      BY <2>1, <2>2
  <1>6. ASSUME NEW i \in I, NEW k \in I, of(i) = of(k) PROVE ~(i < k)
    <2>1. s[k] - s[i] < callTimeout /\ s[i] \in Nat /\ s[k] \in Nat
      BY <1>1, <1>5, <1>6
    <2>2. ~(s[k] - s[i] >= callTimeout)
      BY SMT, <2>1, Positive
    <2> QED
      BY <2>2 DEF Separate
  <1>7. ASSUME NEW i \in I, NEW k \in I, of(i) = of(k) PROVE i = k
    <2>1. ~(i < k) /\ ~(k < i) /\ i \in Nat /\ k \in Nat
      BY <1>1, <1>6, <1>7
    <2> QED
      BY SMT, <2>1
  <1>8. f \in [I -> T \cup {-1}] /\ \A i, k \in I : f[i] = f[k] => i = k
    BY <1>3, <1>7
  <1>9. IsFiniteSet(T \cup {-1}) /\ Cardinality(T \cup {-1}) = Cardinality(T) + 1
    BY <1>2, <1>4, FS_AddElement
  <1>10. /\ Cardinality(I) \in Nat /\ Cardinality(T) \in Nat
         /\ Cardinality(I) <= Cardinality(T \cup {-1})
    BY <1>2, <1>8, <1>9, OneToOne, FS_CardinalityType
  <1> QED
    BY SMT, <1>2, <1>9, <1>10, Positive

\* An ejection has its `limit' timeouts: those of the stalls in the window, and the last.
LEMMA EjectsOnEnough ==
  ASSUME NEW T, NEW s, NEW now, NEW t, NEW R, Notes(T, s, now, t, R),
         \A c \in R : now - c >= callTimeout, Cardinality(R) + 1 = limit
  PROVE  \E I \in SUBSET Recent(t) : Cardinality(I) = limit /\ Len(t) \in I /\ Separate(t, I)
  <1> DEFINE f == [a \in R |-> CHOOSE i \in 1..Len(s) : s[i] = a]
             J == {f[a] : a \in R}
             I == J \cup {Len(t)}
  <1>1. Ordered(T, s, now, t)
    BY NotesOrdered
  <1>2. Spread(R, s) /\ IsFiniteSet(R) /\ Cardinality(R) \in Nat
    BY StillRemembered
  <1>3. ASSUME NEW a \in R PROVE f[a] \in 1..Len(s) /\ s[f[a]] = a
    <2>1. \E i \in 1..Len(s) : s[i] = a
      BY <1>2 DEF Spread
    <2> QED
      BY <2>1
  <1>4. f \in [R -> J]
    OBVIOUS
  <1>5. \A j \in J : \E a \in R : j = f[a]
    OBVIOUS
  <1> HIDE DEF f, J
  <1>6. f \in Bijection(R, J)
    <2>1. f \in Injection(R, J)
      <3>1. ASSUME NEW a \in R, NEW b \in R, f[a] = f[b] PROVE a = b
        <4>1. s[f[a]] = a /\ s[f[b]] = b
          BY <1>3
        <4> QED
          BY <3>1, <4>1
      <3> QED
        BY <1>4, <3>1 DEF Injection, IsInjective
    <2>2. f \in Surjection(R, J)
      BY <1>4, <1>5 DEF Surjection
    <2> QED
      BY <2>1, <2>2 DEF Bijection
  <1>7. IsFiniteSet(J) /\ Cardinality(J) = Cardinality(R)
    <2>1. ExistsBijection(R, J)
      BY <1>6 DEF ExistsBijection
    <2> QED
      BY <1>2, <2>1, FS_Bijection
  <1>8. \A j \in J : j \in 1..Len(s) /\ t[j] = s[j] /\ s[j] \in R
    <2>1. \A j \in J : j \in 1..Len(s) /\ s[j] \in R
      BY <1>3, <1>5
    <2> QED
      BY <1>1, <2>1 DEF Ordered
  <1>9. Len(t) \in Nat /\ Len(t) \notin J /\ Len(t) \in DOMAIN t /\ t[Len(t)] = now /\ now \in Nat
    <2>1. Len(s) \in Nat /\ Len(t) = Len(s) + 1
      BY <1>1 DEF Ordered
    <2>2. Len(t) \notin 1..Len(s) /\ Len(t) \in 1..Len(s) + 1 /\ Len(t) \in Nat
      BY SMT, <2>1
    <2> QED
      BY <1>1, <1>8, <2>1, <2>2 DEF Ordered
  <1>10. Cardinality(I) = limit
    BY <1>7, <1>9, FS_AddElement
  <1>11. I \in SUBSET Recent(t)
    <2>1. now - now < window
      BY SMT, <1>9, Positive
    <2>2. Len(t) \in Recent(t)
      BY <1>9, <2>1 DEF Recent
    <2>3. ASSUME NEW j \in J PROVE j \in Recent(t)
      <3>1. now - t[j] < window
        BY <1>8 DEF Notes
      <3>2. j \in 1..Len(s) + 1
        BY SMT, <1>1, <1>8 DEF Ordered
      <3> QED
        BY <1>1, <1>9, <3>1, <3>2 DEF Recent, Ordered
    <2> QED
      BY <2>2, <2>3
  <1>12. ASSUME NEW i \in I, NEW k \in I, i < k PROVE t[k] - t[i] >= callTimeout
    <2>1. i \in J
      <3>1. i # Len(t)
        <4>1. k \in Nat /\ k <= Len(t) /\ Len(t) \in Nat
          BY SMT, <1>1, <1>8, <1>9 DEF Ordered
        <4> QED
          BY SMT, <1>12, <4>1
      <3> QED
        BY <3>1
    <2>2. CASE k = Len(t)
      BY <1>8, <1>9, <2>1, <2>2
    <2>3. CASE k \in J
      <3>1. /\ i \in 1..Len(s) /\ k \in 1..Len(s) /\ t[i] = s[i] /\ t[k] = s[k]
            /\ s[i] \in R /\ s[k] \in R
        BY <1>8, <2>1, <2>3
      <3>2. s[i] # s[k]
        <4>1. PICK a \in R : i = f[a]
          BY <1>5, <2>1
        <4>2. PICK b \in R : k = f[b]
          BY <1>5, <2>3
        <4>3. i # k
          BY SMT, <1>12, <3>1
        <4> QED
          BY <1>3, <4>1, <4>2, <4>3
      <3>3. i <= k /\ s[i] \in Nat /\ s[k] \in Nat
        <4>1. s[i] \in Nat /\ s[k] \in Nat
          BY <1>1, <3>1 DEF Ordered
        <4>2. i <= k
          BY SMT, <1>12, <3>1
        <4> QED
          BY <4>1, <4>2
      <3>4. s[i] <= s[k]
        BY <3>1, <3>3 DEF Notes, Remembers
      <3>5. s[i] < s[k]
        BY SMT, <3>2, <3>3, <3>4
      <3> QED
        BY <1>2, <3>1, <3>5 DEF Spread
    <2> QED
      BY <2>2, <2>3
  <1>13. Separate(t, I)
    BY <1>12 DEF Separate
  <1> QED
    BY <1>10, <1>11, <1>13

\* Nothing remembered of no timeout.
LEMMA RemembersNothing == Remembers({}, <<>>)
  <1>1. <<>> \in Seq(Nat) /\ 1..Len(<<>>) = {} /\ DOMAIN <<>> = {}
    BY SMT
  <1>2. IsFiniteSet({}) /\ Cardinality({}) = 0
    BY FS_EmptySet
  <1>3. 0 < limit
    BY SMT, Positive
  <1>4. Recent(<<>>) = {}
    BY <1>1 DEF Recent
  <1>5. Bursts(<<>>) = {} /\ Spread({}, <<>>)
    BY <1>4 DEF Bursts, Spread
  <1> QED
    BY <1>1, <1>2, <1>3, <1>4, <1>5 DEF Remembers

\* What noteTimeout does with a timeout at `now', the stalls of the window being R.
LEMMA Noted ==
  ASSUME NEW now \in Nat, noteTimeout(now)
  PROVE  LET R == {at \in timeouts : now - at < window} IN
         \/ /\ \E at \in R : now - at < callTimeout
            /\ timeouts' = R /\ eject' = FALSE
         \/ /\ ~\E at \in R : now - at < callTimeout
            /\ Cardinality(R) + 1 < limit
            /\ timeouts' = R \cup {now} /\ eject' = FALSE
         \/ /\ ~\E at \in R : now - at < callTimeout
            /\ ~(Cardinality(R) + 1 < limit)
            /\ timeouts' = {} /\ eject' = TRUE
  BY DEF noteTimeout

\* The count's invariant is inductive.
LEMMA StallStep ==
  ASSUME StallInv, [\E now \in Nat : CallTimesOut(now)]_stallVars
  PROVE  StallInv'
  <1>1. CASE UNCHANGED stallVars
    BY <1>1 DEF StallInv, stallVars, Remembers, Spread, Uncounted, Bursts, Recent, Separate
  <1>2. ASSUME NEW now \in Nat, CallTimesOut(now) PROVE StallInv'
    <2> DEFINE s == IF eject THEN <<>> ELSE times
               t == Append(s, now)
               R == {at \in timeouts : now - at < window}
    <2>1. Remembers(timeouts, s) /\ times \in Seq(Nat) /\ eject \in BOOLEAN
      BY DEF StallInv
    <2>2. times' = t /\ noteTimeout(now) /\ \A i \in DOMAIN times : times[i] <= now
      BY <1>2 DEF CallTimesOut
    <2>3. \A i \in 1..Len(s) : s[i] <= now
      <3>1. CASE eject
        <4>1. 1..Len(<<>>) = {}
          BY SMT
        <4> QED
          BY <3>1, <4>1
      <3>2. CASE ~eject
        <4>1. DOMAIN times = 1..Len(times)
          BY SMT, <2>1
        <4> QED
          BY <2>2, <3>2, <4>1
      <3> QED
        BY <3>1, <3>2
    <2> HIDE DEF s
    <2>4. Notes(timeouts, s, now, t, R)
      BY <2>1, <2>3 DEF Notes
    <2>5. Spread(R, s) /\ IsFiniteSet(R) /\ Cardinality(R) \in Nat /\ Cardinality(R) < limit
      BY <2>4, StillRemembered
    <2>6. t \in Seq(Nat)
      BY <2>4, NotesOrdered DEF Ordered
    <2>7. ASSUME NEW Q, timeouts' = Q, eject' = FALSE, Remembers(Q, t) PROVE StallInv'
      <3>1. /\ eject' \in BOOLEAN /\ times' \in Seq(Nat) /\ ~eject'
            /\ Remembers(timeouts', IF eject' THEN <<>> ELSE times')
        BY <2>2, <2>6, <2>7
      <3> QED
        BY <3>1 DEF StallInv, Remembers, Spread, Uncounted, Bursts, Recent, Separate
    <2> HIDE DEF t, R
    <2>8. CASE (\E at \in R : now - at < callTimeout) /\ timeouts' = R /\ eject' = FALSE
      <3>1. Counts(R, now, R)
        BY <2>8 DEF Counts
      <3>2. Remembers(R, t)
        BY <2>4, <2>5, <3>1, StillRemembers
      <3> QED
        BY <2>7, <2>8, <3>2
    <2>9. ASSUME ~\E at \in R : now - at < callTimeout PROVE \A c \in R : now - c >= callTimeout
      BY SMT, <2>5, <2>9, Positive DEF Spread
    <2>10. CASE /\ ~(\E at \in R : now - at < callTimeout) /\ Cardinality(R) + 1 < limit
                /\ timeouts' = R \cup {now} /\ eject' = FALSE
      <3>1. Counts(R, now, R \cup {now})
        BY <2>9, <2>10 DEF Counts
      <3>2. IsFiniteSet(R \cup {now}) /\ Cardinality(R \cup {now}) < limit
        <4>1. /\ IsFiniteSet(R \cup {now})
              /\ Cardinality(R \cup {now}) = IF now \in R THEN Cardinality(R) ELSE Cardinality(R) + 1
          BY <2>5, FS_AddElement
        <4> QED
          BY <2>5, <2>10, <4>1
      <3>3. Remembers(R \cup {now}, t)
        BY <2>4, <3>1, <3>2, StillRemembers
      <3> QED
        BY <2>7, <2>10, <3>3
    <2>11. CASE /\ ~(\E at \in R : now - at < callTimeout) /\ ~(Cardinality(R) + 1 < limit)
                /\ timeouts' = {} /\ eject' = TRUE
      <3>1. Cardinality(R) + 1 = limit
        BY SMT, <2>5, <2>11, Positive
      <3>2. \E I \in SUBSET Recent(t) : Cardinality(I) = limit /\ Len(t) \in I /\ Separate(t, I)
        BY <2>4, <2>9, <2>11, <3>1, EjectsOnEnough
      <3>3. /\ eject' \in BOOLEAN /\ times' \in Seq(Nat)
            /\ Remembers(timeouts', IF eject' THEN <<>> ELSE times')
        BY <2>2, <2>6, <2>11, RemembersNothing
      <3> QED
        BY <2>2, <3>2, <3>3 DEF StallInv, Remembers, Spread, Uncounted, Bursts, Recent, Separate
    <2>12. \/ /\ \E at \in R : now - at < callTimeout
              /\ timeouts' = R /\ eject' = FALSE
           \/ /\ ~\E at \in R : now - at < callTimeout
              /\ Cardinality(R) + 1 < limit
              /\ timeouts' = R \cup {now} /\ eject' = FALSE
           \/ /\ ~\E at \in R : now - at < callTimeout
              /\ ~(Cardinality(R) + 1 < limit)
              /\ timeouts' = {} /\ eject' = TRUE
      BY <2>2, Noted DEF R
    <2> QED
      BY <2>8, <2>10, <2>11, <2>12
  <1> QED
    BY <1>1, <1>2

\* The verdicts follow from it.
LEMMA StallInvVerdicts == StallInv => StallVerdicts
  <1> SUFFICES ASSUME StallInv PROVE StallVerdicts
    OBVIOUS
  <1>1. ASSUME ~eject
        PROVE  /\ Cardinality(Bursts(times)) < limit
               /\ \A I \in SUBSET Recent(times) : Separate(times, I) => Cardinality(I) <= limit
    <2>1. Remembers(timeouts, times)
      BY <1>1 DEF StallInv
    <2> QED
      BY <2>1, BurstsFew, SeparateFew
  <1> QED
    BY <1>1 DEF StallInv, StallVerdicts

\* noteTimeout (workers.go) ejects a worker only on `limit' timeouts in the window that
\* lie a call timeout apart, and misses neither `limit' bursts nor a trickle of one more.
THEOREM StallsSound == StallsSpec => []StallVerdicts
  <1>1. StallsInit => StallInv
    <2>1. <<>> \in Seq(Nat)
      BY SMT
    <2> QED
      BY <2>1, RemembersNothing DEF StallsInit, StallInv
  <1> QED
    BY <1>1, StallStep, StallInvVerdicts, PTL DEF StallsSpec
=============================================================================
