----------------------------- MODULE WorkerConns -----------------------------
(***************************************************************************)
(* The orchestrator's connections to its workers (cork/workers.go): the    *)
(* workerConn objects and the map that holds them, the goroutine each one  *)
(* runs (runWorker, then pollWorker), the control calls that report        *)
(* transport errors (noteWorkerTransportError), and the operator's         *)
(* worker-add, worker-remove and worker-down.                              *)
(*                                                                         *)
(* A conn is a one-shot object: once it has left placement a new one takes *)
(* its place.  Every atomic operation another goroutine can see is a step  *)
(* of its own: eject takes three, the admission that ends runWorker two, a *)
(* recovery two.  What runs under workersMu is one step.                   *)
(*                                                                         *)
(* When a probe's misses amount to an ejection, and its answers to a       *)
(* recovery, is the subject of module Poller (hysteresis, backoff, the     *)
(* ejection count); here any failed probe may be the last straw and any    *)
(* answered one may be enough.  Load is the subject of module Placement.   *)
(***************************************************************************)
EXTENDS Naturals

CONSTANTS
    Worker,             \* the private IPs a worker can be registered at
    Conn,               \* identities of workerConn objects
    Caller,             \* goroutines making docker control calls
    NoConn              \* no entry in the worker map

ASSUME ConnAssumption ==
    /\ Worker # {}
    /\ NoConn \notin Conn
    /\ Conn \cap Caller = {}

VARIABLES
    rows,           \* the workers table
    cur,            \* m.workers: each registered worker's connection
    daemon,         \* what each worker's dockerd is doing (environment)
    \* the fields of a workerConn (retired stands for unreachCh closed, too)
    ip, reachable, retired, reconciled, daemonFailed, done,
    run,            \* where the conn's own goroutine is
    call,           \* where a control call is,
    on,             \* and the conn it went out on
    ejPc,           \* where an agent is inside eject
    hurt            \* history: the conn's daemon failed something in its life

fieldVars == <<ip, reachable, retired, reconciled, daemonFailed, done>>
vars == <<rows, cur, daemon, fieldVars, run, call, on, ejPc, hurt>>

\* eject runs on the conn's own goroutine or on that of a control call.
Agent == Conn \cup Caller

\* The conn an agent's eject is about.
Target(a) == IF a \in Conn THEN a ELSE on[a]

\* workerReachable, and whether the daemon does what it is asked at the moment (a
\* daemon that answers some calls and not others is one that changes between
\* them).
Reachable == {"unresponsive", "down", "ok"}
DaemonState == {"up", "failing"}
RunState == {"none", "reconciling", "admitting", "polling", "recovering",
             "ejecting"}
CallState == {"idle", "inflight", "refused", "timedout", "pinging", "ejecting"}
EjectState == {"none", "flag", "cas", "stamp"}

\* The type of the connections, their goroutines and the control calls.
TypeOK ==
    /\ rows \in SUBSET Worker
    /\ cur \in [Worker -> Conn \cup {NoConn}]
    /\ daemon \in [Worker -> DaemonState]
    /\ ip \in [Conn -> Worker]
    /\ reachable \in [Conn -> Reachable]
    /\ retired \in [Conn -> BOOLEAN]
    /\ reconciled \in [Conn -> BOOLEAN]
    /\ daemonFailed \in [Conn -> BOOLEAN]
    /\ done \in [Conn -> BOOLEAN]
    /\ run \in [Conn -> RunState]
    /\ call \in [Caller -> CallState]
    /\ on \in [Caller -> Conn \cup {NoConn}]
    /\ ejPc \in [Agent -> EjectState]
    /\ hurt \in [Conn -> BOOLEAN]

-----------------------------------------------------------------------------
\* A conn nothing refers to any more: its identity may be taken by a new one.
Unused(c) ==
    /\ run[c] = "none"
    /\ \A w \in Worker : cur[w] # c
    /\ \A k \in Caller : on[k] # c

\* The fields of the conns in DOMAIN F, at the workers F gives them, before
\* anything happened to them; the conns in Closed have their done channel closed.
Blank(F, Closed) ==
    LET new == DOMAIN F
        set(f, v) == [c \in Conn |-> IF c \in new THEN v ELSE f[c]]
    IN  /\ ip' = [c \in Conn |-> IF c \in new THEN F[c] ELSE ip[c]]
        /\ reachable' = set(reachable, "unresponsive")
        /\ retired' = set(retired, FALSE)
        /\ reconciled' = set(reconciled, FALSE)
        /\ daemonFailed' = set(daemonFailed, FALSE)
        /\ done' = [c \in Conn |-> c \notin new /\ (done[c] \/ c \in Closed)]

\* newWorkerConn(w): out of placement until reconciled; it takes its place in the
\* map, and the conn it replaces, if any, is closed, under the same lock.
newWorkerConn(fresh, w, replaced) ==
    /\ Unused(fresh)
    /\ Blank([c \in {fresh} |-> w], {replaced})
    /\ hurt' = [hurt EXCEPT ![fresh] = daemon[w] = "failing"]
    /\ cur' = [cur EXCEPT ![w] = fresh]

Init ==
    /\ rows = {}
    /\ cur = [w \in Worker |-> NoConn]
    /\ daemon = [w \in Worker |-> "up"]
    /\ ip = [c \in Conn |-> CHOOSE w \in Worker : TRUE]
    /\ reachable = [c \in Conn |-> "unresponsive"]
    /\ retired = [c \in Conn |-> FALSE]
    /\ reconciled = [c \in Conn |-> FALSE]
    /\ daemonFailed = [c \in Conn |-> FALSE]
    /\ done = [c \in Conn |-> FALSE]
    /\ run = [c \in Conn |-> "none"]
    /\ call = [k \in Caller |-> "idle"]
    /\ on = [k \in Caller |-> NoConn]
    /\ ejPc = [a \in Agent |-> "none"]
    /\ hurt = [c \in Conn |-> FALSE]

-----------------------------------------------------------------------------
(* eject, by agent a on conn Target(a).                                    *)

\* daemonFailed.CompareAndSwap(false, true)
EjectFlag(a) ==
    /\ ejPc[a] = "flag"
    /\ daemonFailed' = [daemonFailed EXCEPT ![Target(a)] = TRUE]
    /\ ejPc' = [ejPc EXCEPT ![a] = "cas"]
    /\ UNCHANGED <<rows, cur, daemon, ip, reachable, retired, reconciled, done,
                   run, call, on, hurt>>

\* The goroutine an eject returns to: pollWorker's loop, or the end of
\* noteWorkerTransportError.
EjectReturns(a) ==
    /\ ejPc' = [ejPc EXCEPT ![a] = "none"]
    /\ run' = IF a \in Conn THEN [run EXCEPT ![a] = "polling"] ELSE run
    /\ call' = IF a \in Conn THEN call ELSE [call EXCEPT ![a] = "idle"]
    /\ on' = IF a \in Conn THEN on ELSE [on EXCEPT ![a] = NoConn]

\* Mutant: the state is stored, not swapped.
EjectMoveStores(a) ==
    /\ ejPc[a] = "cas"
    /\ reachable[Target(a)] # "down"
    /\ reachable' = [reachable EXCEPT ![Target(a)] = "unresponsive"]
    /\ ejPc' = [ejPc EXCEPT ![a] = "stamp"]
    /\ UNCHANGED <<rows, cur, daemon, ip, retired, reconciled, daemonFailed,
                   done, run, call, on, hurt>>

\* setReachable(w, workerUnresponsive) up to its CompareAndSwap.
EjectMove(a) ==
    /\ ejPc[a] = "cas"
    /\ reachable[Target(a)] = "ok"
    /\ reachable' = [reachable EXCEPT ![Target(a)] = "unresponsive"]
    /\ ejPc' = [ejPc EXCEPT ![a] = "stamp"]
    /\ UNCHANGED <<rows, cur, daemon, ip, retired, reconciled, daemonFailed,
                   done, run, call, on, hurt>>

\* A worker that is already unresponsive, or that an operator took down, is
\* not moved.
EjectMoot(a) ==
    /\ ejPc[a] = "cas"
    /\ reachable[Target(a)] # "ok"
    /\ EjectReturns(a)
    /\ UNCHANGED <<rows, cur, daemon, fieldVars, hurt>>

\* The rest of setReachable on a conn that left ok: retired, and the close of
\* unreachCh.
EjectStamp(a) ==
    /\ ejPc[a] = "stamp"
    /\ retired' = [retired EXCEPT ![Target(a)] = TRUE]
    /\ EjectReturns(a)
    /\ UNCHANGED <<rows, cur, daemon, ip, reachable, reconciled, daemonFailed,
                   done, hurt>>

-----------------------------------------------------------------------------
(* The conn's own goroutine.                                               *)

\* reconcileWithRetries: the pass finished, or ran out its budget against a
\* daemon that answers but will not do all of it; both join placement.
ReconcileReady(c) ==
    /\ run[c] = "reconciling"
    /\ ~done[c]
    /\ daemon[ip[c]] = "up"
    /\ reconciled' = [reconciled EXCEPT ![c] = TRUE]
    /\ run' = [run EXCEPT ![c] = "admitting"]
    /\ UNCHANGED <<rows, cur, daemon, ip, reachable, retired, daemonFailed,
                   done, call, on, ejPc, hurt>>

\* The daemon stayed unreachable for the whole budget.
ReconcileEjected(c) ==
    /\ run[c] = "reconciling"
    /\ ~done[c]
    /\ daemon[ip[c]] = "failing"
    /\ run' = [run EXCEPT ![c] = "ejecting"]
    /\ ejPc' = [ejPc EXCEPT ![c] = "flag"]
    /\ UNCHANGED <<rows, cur, daemon, fieldVars, call, on, hurt>>

\* runWorker: setReachable(w, workerReachableOk), refused on a conn that is
\* down or has already been in placement; then pollWorker starts.
Admit(c) ==
    /\ run[c] = "admitting"
    /\ reachable' = IF reachable[c] = "unresponsive" /\ ~retired[c]
                    THEN [reachable EXCEPT ![c] = "ok"] ELSE reachable
    /\ run' = [run EXCEPT ![c] = "polling"]
    /\ UNCHANGED <<rows, cur, daemon, ip, retired, reconciled, daemonFailed,
                   done, call, on, ejPc, hurt>>

\* A probe that fails, enough of them having failed: eject.  A worker that is
\* down is not probed.
ProbeEjects(c) ==
    /\ run[c] = "polling"
    /\ reachable[c] # "down"
    /\ daemon[ip[c]] = "failing"
    /\ run' = [run EXCEPT ![c] = "ejecting"]
    /\ ejPc' = [ejPc EXCEPT ![c] = "flag"]
    /\ UNCHANGED <<rows, cur, daemon, fieldVars, call, on, hurt>>

\* A probe is answered by a worker that is not in placement, and it has earned
\* its recovery: recoverWorker is called.
ProbeRecovers(c) ==
    /\ run[c] = "polling"
    /\ reachable[c] = "unresponsive"
    /\ daemon[ip[c]] = "up"
    /\ run' = [run EXCEPT ![c] = "recovering"]
    /\ UNCHANGED <<rows, cur, daemon, fieldVars, call, on, ejPc, hurt>>

\* Mutant: recoverWorker does not look at what the operator said meanwhile.
RecoverableDown(c) == cur[ip[c]] = c

\* recoverWorker, under workersMu: a conn that is no longer the worker's, or
\* that an operator took down while the probe ran, is left alone.
Recoverable(c) == cur[ip[c]] = c /\ reachable[c] # "down"

\* Mutant: the old conn is put back into placement.
recoverWorkerReused(c) ==
    /\ run[c] = "recovering"
    /\ Recoverable(c)
    /\ reachable' = [reachable EXCEPT ![c] = "ok"]
    /\ run' = [run EXCEPT ![c] = "polling"]
    /\ UNCHANGED <<rows, cur, daemon, ip, retired, reconciled, daemonFailed,
                   done, call, on, ejPc, hurt>>

recoverWorker(c) ==
    /\ run[c] = "recovering"
    /\ Recoverable(c)
    /\ \E fresh \in Conn :
          /\ newWorkerConn(fresh, ip[c], c)
          /\ run' = [run EXCEPT ![fresh] = "reconciling", ![c] = "polling"]
    /\ UNCHANGED <<rows, daemon, call, on, ejPc>>

\* recoverWorker's early returns, and its client that could not be rebuilt.
recoverReturns(c) ==
    /\ run[c] = "recovering"
    /\ run' = [run EXCEPT ![c] = "polling"]
    /\ UNCHANGED <<rows, cur, daemon, fieldVars, call, on, ejPc, hurt>>

\* The goroutine ends once its done channel is closed: reconcileWithRetries
\* abandons its pass, or pollWorker's select takes the done case.  Nothing reads
\* the conn's fields after that (an eject still in flight on it concerns
\* nobody), so they are forgotten.
RunnerReturns(c) ==
    /\ run[c] \in {"reconciling", "polling"}
    /\ done[c]
    /\ run' = [run EXCEPT ![c] = "none"]
    /\ Blank([d \in {c} |-> ip[c]], {})
    /\ hurt' = [hurt EXCEPT ![c] = FALSE]
    /\ UNCHANGED <<rows, cur, daemon, call, on, ejPc>>

-----------------------------------------------------------------------------
(* Control calls and noteWorkerTransportError.                             *)

\* A launch, a teardown or a reconcile makes a docker call on the connection
\* the worker has at that moment (instanceClient).
CallStart(k) ==
    /\ call[k] = "idle"
    /\ \E w \in Worker :
          /\ cur[w] # NoConn
          /\ on' = [on EXCEPT ![k] = cur[w]]
    /\ call' = [call EXCEPT ![k] = "inflight"]
    /\ UNCHANGED <<rows, cur, daemon, fieldVars, run, ejPc, hurt>>

CallEnds(k) ==
    /\ call' = [call EXCEPT ![k] = "idle"]
    /\ on' = [on EXCEPT ![k] = NoConn]
    /\ UNCHANGED <<rows, cur, daemon, fieldVars, run, ejPc, hurt>>

\* It comes back with a result or an API error; or with a refused connection;
\* or, whatever the daemon does, with its deadline exceeded.
CallReturns(k) == call[k] = "inflight" /\ CallEnds(k)

CallRefused(k) ==
    /\ call[k] = "inflight"
    /\ daemon[ip[on[k]]] = "failing"
    /\ call' = [call EXCEPT ![k] = "refused"]
    /\ UNCHANGED <<rows, cur, daemon, fieldVars, run, on, ejPc, hurt>>

CallTimesOut(k) ==
    /\ call[k] = "inflight"
    /\ call' = [call EXCEPT ![k] = "timedout"]
    /\ hurt' = [hurt EXCEPT ![on[k]] = TRUE]
    /\ UNCHANGED <<rows, cur, daemon, fieldVars, run, on, ejPc>>

\* Mutant: the connection the call went out on is not compared.
DroppedUnlessNew(k) ==
    cur[ip[on[k]]] # NoConn => ~reconciled[cur[ip[on[k]]]]

\* noteWorkerTransportError drops the error if the worker is unknown, if its
\* connection is no longer the one the call went out on, and if its first
\* reconcile is not over.
Dropped(k) == cur[ip[on[k]]] # on[k] \/ ~reconciled[on[k]]

NoteDropped(k) ==
    /\ call[k] \in {"refused", "timedout"}
    /\ Dropped(k)
    /\ CallEnds(k)

\* Otherwise a timeout is settled with a ping, and the rest ejects the conn
\* found in the map.
NoteTransportError(k) ==
    /\ call[k] \in {"refused", "timedout"}
    /\ ~Dropped(k)
    /\ cur[ip[on[k]]] # NoConn
    /\ on' = [on EXCEPT ![k] = cur[ip[on[k]]]]
    /\ IF call[k] = "timedout"
       THEN /\ call' = [call EXCEPT ![k] = "pinging"]
            /\ ejPc' = ejPc
       ELSE /\ call' = [call EXCEPT ![k] = "ejecting"]
            /\ ejPc' = [ejPc EXCEPT ![k] = "flag"]
    /\ UNCHANGED <<rows, cur, daemon, fieldVars, run, hurt>>

\* No answer to the ping ejects; so does an answer, once noteTimeout has seen
\* enough separate stalls, and otherwise it changes nothing.
PingEjects(k) ==
    /\ call[k] = "pinging"
    /\ call' = [call EXCEPT ![k] = "ejecting"]
    /\ ejPc' = [ejPc EXCEPT ![k] = "flag"]
    /\ UNCHANGED <<rows, cur, daemon, fieldVars, run, on, hurt>>

PingForgives(k) ==
    /\ call[k] = "pinging"
    /\ daemon[ip[on[k]]] = "up"
    /\ CallEnds(k)

-----------------------------------------------------------------------------
(* The operator, the orchestrator's restart, and the box.                  *)

\* AddWorker, under workersMu: the row is upserted, then a fresh conn takes the
\* worker's place.
AddWorker(w) ==
    /\ rows' = rows \cup {w}
    /\ \E fresh \in Conn :
          /\ newWorkerConn(fresh, w, cur[w])
          /\ run' = [run EXCEPT ![fresh] = "reconciling"]
    /\ UNCHANGED <<daemon, call, on, ejPc>>

\* AddWorker when the client could not be built: the row is there already.
AddWorkerNoClient(w) ==
    /\ rows' = rows \cup {w}
    /\ UNCHANGED <<cur, daemon, fieldVars, run, call, on, ejPc, hurt>>

\* Mutant: the removal is not persisted, and a restart brings the worker back.
RemoveWorkerKeepsRow(w) ==
    /\ cur[w] # NoConn
    /\ cur' = [cur EXCEPT ![w] = NoConn]
    /\ done' = [done EXCEPT ![cur[w]] = TRUE]
    /\ UNCHANGED <<rows, daemon, ip, reachable, retired, reconciled,
                   daemonFailed, run, call, on, ejPc, hurt>>

\* Mutant: the removed worker's goroutine is not told to stop.
RemoveWorkerKeepsRunner(w) ==
    /\ cur[w] # NoConn
    /\ rows' = rows \ {w}
    /\ cur' = [cur EXCEPT ![w] = NoConn]
    /\ UNCHANGED <<daemon, fieldVars, run, call, on, ejPc, hurt>>

RemoveWorker(w) ==
    /\ cur[w] # NoConn
    /\ rows' = rows \ {w}
    /\ cur' = [cur EXCEPT ![w] = NoConn]
    /\ done' = [done EXCEPT ![cur[w]] = TRUE]
    /\ UNCHANGED <<daemon, ip, reachable, retired, reconciled, daemonFailed,
                   run, call, on, ejPc, hurt>>

\* SetWorkerDown: setReachable(w, workerDown) on the worker's conn, under
\* workersMu.  Leaving ok retires the conn.
SetWorkerDown(w) ==
    /\ cur[w] # NoConn
    /\ reachable[cur[w]] # "down"
    /\ reachable' = [reachable EXCEPT ![cur[w]] = "down"]
    /\ retired' = [retired EXCEPT ![cur[w]] = @ \/ reachable[cur[w]] = "ok"]
    /\ UNCHANGED <<rows, cur, daemon, ip, reconciled, daemonFailed, done, run,
                   call, on, ejPc, hurt>>

\* corkd stops, by a crash or not, and starts again: its memory is gone, and
\* initWorkers makes a conn for every row of the table.
Restart ==
    /\ \E F \in [rows -> Conn] :
          /\ \A v, w \in rows : F[v] = F[w] => v = w
          /\ LET at(c) == {w \in rows : F[w] = c}
             IN  /\ Blank([c \in Conn |-> IF at(c) = {} THEN ip[c]
                                          ELSE CHOOSE w \in at(c) : TRUE], {})
                 /\ run' = [c \in Conn |-> IF at(c) = {} THEN "none"
                                           ELSE "reconciling"]
                 /\ hurt' = [c \in Conn |-> \E w \in at(c) : daemon[w] = "failing"]
          /\ cur' = [w \in Worker |-> IF w \in rows THEN F[w] ELSE NoConn]
    /\ call' = [k \in Caller |-> "idle"]
    /\ on' = [k \in Caller |-> NoConn]
    /\ ejPc' = [a \in Agent |-> "none"]
    /\ UNCHANGED <<rows, daemon>>

\* A worker's dockerd dies, wedges or comes back.  What fails while a conn
\* exists is remembered in hurt.
DaemonChanges(w) ==
    /\ \E s \in DaemonState \ {daemon[w]} :
          /\ daemon' = [daemon EXCEPT ![w] = s]
          /\ hurt' = [c \in Conn |->
                          hurt[c] \/ (run[c] # "none" /\ ip[c] = w /\ s = "failing")]
    /\ UNCHANGED <<rows, cur, fieldVars, run, call, on, ejPc>>

-----------------------------------------------------------------------------
Eject(a) == EjectFlag(a) \/ EjectMove(a) \/ EjectMoot(a) \/ EjectStamp(a)

Runner(c) ==
    \/ ReconcileReady(c) \/ ReconcileEjected(c) \/ Admit(c)
    \/ ProbeEjects(c) \/ ProbeRecovers(c)
    \/ recoverWorker(c) \/ recoverReturns(c) \/ RunnerReturns(c)

ControlCall(k) ==
    \/ CallStart(k) \/ CallReturns(k) \/ CallRefused(k) \/ CallTimesOut(k)
    \/ NoteDropped(k) \/ NoteTransportError(k)
    \/ PingEjects(k) \/ PingForgives(k)

Operator(w) ==
    \/ AddWorker(w) \/ AddWorkerNoClient(w) \/ RemoveWorker(w)
    \/ SetWorkerDown(w)

Next ==
    \/ \E a \in Agent : Eject(a)
    \/ \E c \in Conn : Runner(c)
    \/ \E k \in Caller : ControlCall(k)
    \/ \E w \in Worker : Operator(w) \/ DaemonChanges(w)
    \/ Restart

Spec == Init /\ [][Next]_vars

-----------------------------------------------------------------------------
(* Properties.                                                             *)

\* workerUnreachable: whether the stop path may skip the daemon and delete an
\* instance's records alone.
workerUnreachable(w) ==
    \/ cur[w] = NoConn
    \/ reachable[cur[w]] = "down"
    \/ reachable[cur[w]] = "unresponsive" /\ daemonFailed[cur[w]]

\* A worker that selectWorker may place an instance on has a conn that has been
\* reconciled since it was made and whose unreachCh is still open: a launch that
\* picks it neither meets the leftovers of an outage unswept nor fails at once
\* on a channel an earlier outage closed.
PlacedIsSound ==
    \A w \in Worker : cur[w] # NoConn /\ reachable[cur[w]] = "ok" =>
        reconciled[cur[w]] /\ ~retired[cur[w]]

\* The map and the goroutines agree: the conn in the map is the worker's own, is
\* running and has not been closed (so closing it, which would panic the second
\* time, is safe), and every goroutine that has not been told to stop runs the
\* conn its worker has in the map.
OneLiveConn ==
    /\ \A w \in Worker : cur[w] # NoConn =>
          ip[cur[w]] = w /\ ~done[cur[w]] /\ run[cur[w]] # "none"
    /\ \A c \in Conn : run[c] # "none" /\ ~done[c] => cur[ip[c]] = c

\* setReachable closes unreachCh at most once (a second close would panic): no
\* two goroutines are past the swap on one conn, and none is on a conn whose
\* channel is closed already or that can still be taken out of ok.
ClosesOnce ==
    /\ \A c \in Conn : reachable[c] = "ok" => ~retired[c]
    /\ \A a \in Agent : ejPc[a] = "stamp" =>
          ~retired[Target(a)] /\ reachable[Target(a)] # "ok"
    /\ \A a, b \in Agent :
          ejPc[a] = "stamp" /\ ejPc[b] = "stamp" /\ Target(a) = Target(b) => a = b

\* A registered worker no operator took down is unreachable to the stop path
\* only if its daemon failed during the life of the conn it has now: an error
\* that comes back late, from a conn since replaced, never makes a stop delete
\* the records of a container that is still running on a healthy box.
UnreachableIsReal ==
    \A w \in Worker : cur[w] # NoConn /\ workerUnreachable(w) =>
        reachable[cur[w]] = "down" \/ hurt[cur[w]]

\* What the operator and the launch path see of it is the state machine of
\* module Fleet: a worker joins placement once per connection, and after it has
\* left comes back only through a new one.
status == [w \in Worker |-> IF cur[w] = NoConn THEN "absent"
                            ELSE reachable[cur[w]]]
joining == {w \in Worker : /\ cur[w] # NoConn
                           /\ run[cur[w]] \in {"reconciling", "admitting"}}
Abs == INSTANCE Fleet WITH rows <- rows, status <- status, joining <- joining
ImplementsFleet == Abs!Spec

\* No observation lifts an asserted down: a worker an operator took down leaves
\* that state only through worker-add, worker-remove or a restart of corkd,
\* whatever probe or recovery was under way when it was taken down.
DownIsAsserted ==
    [][\A w \in Worker : status[w] = "down" =>
           status'[w] \in {"down", "absent"} \/ AddWorker(w) \/ Restart]_vars

=============================================================================
