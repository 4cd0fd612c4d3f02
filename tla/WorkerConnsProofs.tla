-------------------------- MODULE WorkerConnsProofs -------------------------
(***************************************************************************)
(* WorkerConns for every set of workers, conns and control calls: its      *)
(* inductive invariant, the preservation of it by each action, the         *)
(* properties that follow from it, and that WorkerConns implements Fleet.  *)
(***************************************************************************)
EXTENDS WorkerConns, TLAPS

\* The leaves are Zenon's, but for arithmetic and the like.
USE Zenon

\* An agent is inside eject exactly when its goroutine is, and a call holds a
\* conn exactly when it is not idle.
PcsAgree ==
    /\ \A c \in Conn : ejPc[c] # "none" <=> run[c] = "ejecting"
    /\ \A k \in Caller : ejPc[k] # "none" <=> call[k] = "ejecting"
    /\ \A k \in Caller : on[k] = NoConn <=> call[k] = "idle"

\* Until its admission a conn has not been in placement, and is not leaving it;
\* nor is one that is being recovered in placement.
FreshUntilAdmitted ==
    /\ \A c \in Conn :
          run[c] \in {"none", "reconciling", "admitting", "recovering"} =>
              reachable[c] # "ok"
    /\ \A c \in Conn : run[c] \in {"reconciling", "admitting"} => ~retired[c]
    /\ \A c \in Conn : run[c] = "admitting" => reconciled[c]
    /\ \A c \in Conn : reachable[c] = "ok" => reconciled[c]
    /\ \A a \in Agent : ejPc[a] = "stamp" =>
          run[Target(a)] \notin {"reconciling", "admitting"}

\* Whatever blames a daemon has seen it fail.
BlameIsReal ==
    /\ \A c \in Conn : run[c] # "none" /\ daemon[ip[c]] = "failing" => hurt[c]
    /\ \A c \in Conn : run[c] # "none" /\ daemonFailed[c] => hurt[c]
    /\ \A c \in Conn : ejPc[c] # "none" => hurt[c]
    /\ \A k \in Caller :
          /\ call[k] \in {"refused", "timedout", "pinging", "ejecting"}
          /\ run[on[k]] # "none"
          => hurt[on[k]]

IInv == /\ TypeOK /\ OneLiveConn /\ ClosesOnce
        /\ PcsAgree /\ FreshUntilAdmitted /\ BlameIsReal

-----------------------------------------------------------------------------
\* The first states.
LEMMA InitIInv == Init => IInv
  <1> SUFFICES ASSUME Init PROVE IInv
    OBVIOUS
  <1> USE ConnAssumption DEF Init
  <1>1. (CHOOSE w \in Worker : TRUE) \in Worker
    OBVIOUS
  <1>2. ip \in [Conn -> Worker]
    BY <1>1
  <1>3. TypeOK
    <2> HIDE <1>1
    <2>1. /\ rows \in SUBSET Worker
          /\ cur \in [Worker -> Conn \cup {NoConn}]
          /\ daemon \in [Worker -> DaemonState]
      BY DEF DaemonState
    <2>2. /\ reachable \in [Conn -> Reachable]
          /\ retired \in [Conn -> BOOLEAN]
          /\ reconciled \in [Conn -> BOOLEAN]
          /\ daemonFailed \in [Conn -> BOOLEAN]
          /\ done \in [Conn -> BOOLEAN]
          /\ run \in [Conn -> RunState]
          /\ hurt \in [Conn -> BOOLEAN]
      BY DEF Reachable, RunState
    <2>3. /\ call \in [Caller -> CallState]
          /\ on \in [Caller -> Conn \cup {NoConn}]
          /\ ejPc \in [Agent -> EjectState]
      BY DEF CallState, EjectState
    <2> QED
      BY <1>2, <2>1, <2>2, <2>3 DEF TypeOK
  <1> QED
    BY <1>3 DEF IInv, OneLiveConn, ClosesOnce, PcsAgree, FreshUntilAdmitted,
       BlameIsReal, Agent

\* A new conn preserves the invariant when it replaces the worker's own, whose
\* goroutine may at most go back to polling in the same step.
LEMMA NewConnIInv ==
  ASSUME IInv, NEW fresh \in Conn, NEW w \in Worker,
         newWorkerConn(fresh, w, cur[w]),
         rows' \in SUBSET Worker,
         run' \in [Conn -> RunState],
         run'[fresh] = "reconciling",
         \A c \in Conn \ {fresh} :
             run'[c] = run[c] \/ (run[c] = "recovering" /\ run'[c] = "polling"),
         UNCHANGED <<daemon, call, on, ejPc>>
  PROVE  IInv'
  <1> USE ConnAssumption
  <1> DEFINE D == [c \in {fresh} |-> w]
  <1>1. /\ Unused(fresh)
        /\ hurt' = [hurt EXCEPT ![fresh] = daemon[w] = "failing"]
        /\ cur' = [cur EXCEPT ![w] = fresh]
        /\ Blank(D, {cur[w]})
    BY DEF newWorkerConn
  <1>2. D[fresh] = w /\ \A c \in Conn : c \in DOMAIN D <=> c = fresh
    OBVIOUS
  <1> HIDE DEF D
  <1>3. TypeOK'
    BY <1>1, <1>2 DEF IInv, TypeOK, Reachable, Blank
  <1>4. /\ ip'[fresh] = w
        /\ reachable'[fresh] = "unresponsive"
        /\ ~retired'[fresh]
        /\ ~reconciled'[fresh]
        /\ ~daemonFailed'[fresh]
        /\ ~done'[fresh]
        /\ hurt'[fresh] <=> daemon[w] = "failing"
        /\ cur'[w] = fresh
    BY <1>1, <1>2 DEF IInv, TypeOK, Blank
  <1>5. \A c \in Conn \ {fresh} :
          /\ ip'[c] = ip[c]
          /\ reachable'[c] = reachable[c]
          /\ retired'[c] <=> retired[c]
          /\ reconciled'[c] <=> reconciled[c]
          /\ daemonFailed'[c] <=> daemonFailed[c]
          /\ done'[c] <=> done[c] \/ c = cur[w]
          /\ hurt'[c] <=> hurt[c]
    BY <1>1, <1>2 DEF IInv, TypeOK, Blank
  <1>6. \A v \in Worker \ {w} : cur'[v] = cur[v]
    BY <1>1 DEF IInv, TypeOK
  <1>7. /\ run[fresh] = "none"
        /\ \A v \in Worker : cur[v] # fresh
        /\ \A k \in Caller : on[k] # fresh
    BY <1>1 DEF Unused
  <1>8. \A a \in Agent : ejPc[a] # "none" => Target(a) # fresh
    BY <1>7 DEF IInv, PcsAgree, Target, Agent
  <1>9. \A a \in Agent : ejPc[a] # "none" => Target(a) \in Conn
    BY SMT DEF IInv, TypeOK, PcsAgree, Target, Agent
  <1>10. \A a \in Agent : Target(a)' = Target(a)
    BY DEF Target
  <1>11. OneLiveConn'
    BY SMT, <1>3, <1>4, <1>5, <1>6, <1>7 DEF IInv, TypeOK, OneLiveConn
  <1>12. ClosesOnce'
    BY SMT, <1>4, <1>5, <1>8, <1>9, <1>10 DEF IInv, ClosesOnce
  <1>13. PcsAgree'
    BY SMT, <1>7 DEF IInv, PcsAgree
  <1>14. FreshUntilAdmitted'
    BY SMT, <1>4, <1>5, <1>8, <1>9, <1>10 DEF IInv, FreshUntilAdmitted
  <1>15. BlameIsReal'
    BY SMT, <1>4, <1>5, <1>7 DEF IInv, TypeOK, BlameIsReal, PcsAgree
  <1> QED
    BY <1>3, <1>11, <1>12, <1>13, <1>14, <1>15 DEF IInv

\* A worker is added.
LEMMA AddWorkerIInv == ASSUME IInv, NEW w \in Worker, AddWorker(w) PROVE IInv'
  <1>1. PICK fresh \in Conn : /\ newWorkerConn(fresh, w, cur[w])
                              /\ run' = [run EXCEPT ![fresh] = "reconciling"]
    BY DEF AddWorker
  <1>2. rows' \in SUBSET Worker /\ UNCHANGED <<daemon, call, on, ejPc>>
    BY DEF AddWorker, IInv, TypeOK
  <1>3. /\ run' \in [Conn -> RunState]
        /\ run'[fresh] = "reconciling"
        /\ \A c \in Conn \ {fresh} : run'[c] = run[c]
    BY <1>1 DEF IInv, TypeOK, RunState
  <1> QED
    BY <1>1, <1>2, <1>3, NewConnIInv

\* A worker is recovered.
LEMMA recoverWorkerIInv ==
  ASSUME IInv, NEW c \in Conn, recoverWorker(c) PROVE IInv'
  <1>1. ip[c] \in Worker /\ cur[ip[c]] = c /\ run[c] = "recovering"
    BY DEF recoverWorker, Recoverable, IInv, TypeOK
  <1>2. PICK fresh \in Conn : /\ newWorkerConn(fresh, ip[c], c)
                              /\ run' = [run EXCEPT ![fresh] = "reconciling",
                                                    ![c] = "polling"]
    BY DEF recoverWorker
  <1>3. rows' \in SUBSET Worker /\ UNCHANGED <<daemon, call, on, ejPc>>
    BY DEF recoverWorker, IInv, TypeOK
  <1>4. fresh # c
    BY <1>1, <1>2 DEF newWorkerConn, Unused
  <1>5. /\ run' \in [Conn -> RunState]
        /\ run'[fresh] = "reconciling"
        /\ run'[c] = "polling"
        /\ \A d \in Conn \ {fresh, c} : run'[d] = run[d]
    BY <1>2, <1>4 DEF IInv, TypeOK, RunState
  <1> QED
    BY SMT, <1>1, <1>2, <1>3, <1>5, NewConnIInv

\* The end of a goroutine that was told to stop: its conn is in no map.
LEMMA RunnerReturnsIInv ==
  ASSUME IInv, NEW c \in Conn, RunnerReturns(c) PROVE IInv'
  <1> USE ConnAssumption
  <1> DEFINE D == [d \in {c} |-> ip[c]]
  <1>1. /\ run[c] \in {"reconciling", "polling"} /\ done[c]
        /\ run' = [run EXCEPT ![c] = "none"]
        /\ hurt' = [hurt EXCEPT ![c] = FALSE]
        /\ Blank(D, {})
        /\ UNCHANGED <<rows, cur, daemon, call, on, ejPc>>
    BY DEF RunnerReturns
  <1>2. D[c] = ip[c] /\ \A d \in Conn : d \in DOMAIN D <=> d = c
    OBVIOUS
  <1> HIDE DEF D
  <1>3. TypeOK'
    BY <1>1, <1>2 DEF IInv, TypeOK, Reachable, RunState, Blank
  <1>4. /\ ip'[c] = ip[c]
        /\ reachable'[c] = "unresponsive"
        /\ ~retired'[c]
        /\ ~daemonFailed'[c]
        /\ run'[c] = "none"
    BY <1>1, <1>2 DEF IInv, TypeOK, Blank
  <1>5. \A d \in Conn \ {c} :
          /\ ip'[d] = ip[d]
          /\ reachable'[d] = reachable[d]
          /\ retired'[d] <=> retired[d]
          /\ reconciled'[d] <=> reconciled[d]
          /\ daemonFailed'[d] <=> daemonFailed[d]
          /\ done'[d] <=> done[d]
          /\ hurt'[d] <=> hurt[d]
          /\ run'[d] = run[d]
    BY <1>1, <1>2 DEF IInv, TypeOK, Blank
  <1>6. \A a \in Agent : Target(a)' = Target(a)
    BY <1>1 DEF Target
  <1>7. \A a \in Agent : ejPc[a] # "none" => Target(a) \in Conn
    BY DEF IInv, TypeOK, PcsAgree, Target, Agent
  <1>8. \A w \in Worker : cur[w] # c
    BY SMT, <1>1 DEF IInv, OneLiveConn
  <1>9. OneLiveConn'
    BY SMT, <1>1, <1>3, <1>4, <1>5, <1>8 DEF IInv, TypeOK, OneLiveConn
  <1>10. ClosesOnce'
    BY SMT, <1>1, <1>4, <1>5, <1>6, <1>7 DEF IInv, ClosesOnce
  <1>11. PcsAgree'
    BY SMT, <1>1, <1>4, <1>5 DEF IInv, PcsAgree
  <1>12. FreshUntilAdmitted'
    BY SMT, <1>1, <1>4, <1>5, <1>6, <1>7 DEF IInv, FreshUntilAdmitted
  <1>13. BlameIsReal'
    BY SMT, <1>1, <1>3, <1>4, <1>5, <1>11 DEF IInv, TypeOK, BlameIsReal, PcsAgree
  <1> QED
    BY <1>3, <1>9, <1>10, <1>11, <1>12, <1>13 DEF IInv

\* A restart makes one blank conn per row, and nothing else survives it.
LEMMA RestartIInv == ASSUME IInv, Restart PROVE IInv'
  <1> USE ConnAssumption
  <1>1. PICK G \in [rows -> Conn] :
          /\ \A v, w \in rows : G[v] = G[w] => v = w
          /\ Blank([c \in Conn |-> IF {w \in rows : G[w] = c} = {} THEN ip[c]
                                   ELSE CHOOSE w \in {v \in rows : G[v] = c} :
                                            TRUE], {})
          /\ run' = [c \in Conn |-> IF {w \in rows : G[w] = c} = {} THEN "none"
                                    ELSE "reconciling"]
          /\ hurt' = [c \in Conn |-> \E w \in {v \in rows : G[v] = c} :
                                         daemon[w] = "failing"]
          /\ cur' = [w \in Worker |-> IF w \in rows THEN G[w] ELSE NoConn]
    BY DEF Restart
  <1>2. /\ call' = [k \in Caller |-> "idle"]
        /\ on' = [k \in Caller |-> NoConn]
        /\ ejPc' = [a \in Agent |-> "none"]
        /\ UNCHANGED <<rows, daemon>>
    BY DEF Restart
  <1> DEFINE D == [c \in Conn |-> IF {w \in rows : G[w] = c} = {} THEN ip[c]
                                  ELSE CHOOSE w \in {v \in rows : G[v] = c} :
                                           TRUE]
  <1>3. ASSUME NEW c \in Conn
        PROVE  D[c] \in Worker
    <2>1. CASE {w \in rows : G[w] = c} = {}
      BY <2>1 DEF IInv, TypeOK
    <2>2. CASE {w \in rows : G[w] = c} # {}
      <3>1. (CHOOSE w \in {v \in rows : G[v] = c} : TRUE) \in rows
        BY <2>2
      <3> QED
        BY <2>2, <3>1 DEF IInv, TypeOK
    <2> QED
      BY <2>1, <2>2
  <1>4. ASSUME NEW w \in rows
        PROVE  D[G[w]] = w
    <2>1. {v \in rows : G[v] = G[w]} = {w}
      BY <1>1
    <2>2. (CHOOSE v \in {w} : TRUE) = w
      OBVIOUS
    <2> QED
      BY <2>1, <2>2, <1>1
  <1>5. DOMAIN D = Conn /\ Blank(D, {})
    BY <1>1
  <1> HIDE DEF D
  <1>6. /\ ip' = [c \in Conn |-> D[c]]
        /\ reachable' = [c \in Conn |-> "unresponsive"]
        /\ retired' = [c \in Conn |-> FALSE]
        /\ reconciled' = [c \in Conn |-> FALSE]
        /\ daemonFailed' = [c \in Conn |-> FALSE]
        /\ done' = [c \in Conn |-> FALSE]
    BY <1>5 DEF Blank
  <1>7. TypeOK'
    <2>1. /\ rows' \in SUBSET Worker
          /\ cur' \in [Worker -> Conn \cup {NoConn}]
          /\ daemon' \in [Worker -> DaemonState]
      BY <1>1, <1>2 DEF IInv, TypeOK
    <2>2. /\ ip' \in [Conn -> Worker]
          /\ reachable' \in [Conn -> Reachable]
          /\ retired' \in [Conn -> BOOLEAN]
          /\ reconciled' \in [Conn -> BOOLEAN]
          /\ daemonFailed' \in [Conn -> BOOLEAN]
          /\ done' \in [Conn -> BOOLEAN]
      BY <1>3, <1>6 DEF Reachable
    <2>3. /\ run' \in [Conn -> RunState]
          /\ hurt' \in [Conn -> BOOLEAN]
      BY <1>1 DEF RunState
    <2>4. /\ call' \in [Caller -> CallState]
          /\ on' \in [Caller -> Conn \cup {NoConn}]
          /\ ejPc' \in [Agent -> EjectState]
      BY <1>2 DEF CallState, EjectState
    <2> QED
      BY <2>1, <2>2, <2>3, <2>4 DEF TypeOK
  <1>8. OneLiveConn'
    <2>1. ASSUME NEW w \in Worker, cur'[w] # NoConn
          PROVE  ip'[cur'[w]] = w /\ ~done'[cur'[w]] /\ run'[cur'[w]] # "none"
      <3>1. w \in rows /\ cur'[w] = G[w] /\ G[w] \in Conn
        BY <1>1, <2>1
      <3>2. ip'[G[w]] = w
        BY <1>4, <1>6, <3>1
      <3>3. ~done'[G[w]]
        BY <1>6, <3>1
      <3>4. run'[G[w]] = "reconciling"
        BY <1>1, <3>1
      <3> QED
        BY <3>1, <3>2, <3>3, <3>4
    <2>2. ASSUME NEW c \in Conn, run'[c] # "none"
          PROVE  cur'[ip'[c]] = c
      <3>1. PICK w \in rows : G[w] = c
        BY <1>1, <2>2
      <3>2. ip'[c] = w
        BY <1>4, <1>6, <3>1
      <3> QED
        BY <1>1, <3>1, <3>2 DEF IInv, TypeOK
    <2> QED
      BY <2>1, <2>2 DEF OneLiveConn
  <1>9. ClosesOnce' /\ PcsAgree' /\ FreshUntilAdmitted'
    BY <1>1, <1>2, <1>6 DEF ClosesOnce, PcsAgree, FreshUntilAdmitted, Agent
  <1>10. BlameIsReal'
    <2>1. ASSUME NEW c \in Conn, run'[c] # "none", daemon'[ip'[c]] = "failing"
          PROVE  hurt'[c]
      <3>1. PICK w \in rows : G[w] = c
        BY <1>1, <2>1
      <3>2. ip'[c] = w
        BY <1>4, <1>6, <3>1
      <3> QED
        BY <1>1, <1>2, <2>1, <3>1, <3>2
    <2> QED
      BY <1>2, <1>6, <2>1 DEF BlameIsReal, Agent
  <1> QED
    BY <1>7, <1>8, <1>9, <1>10 DEF IInv

\* eject returns: a conn's goroutine goes back to polling, and a call lets go of
\* its conn.
LEMMA EjectReturnsEffect ==
  ASSUME IInv, NEW a \in Agent, EjectReturns(a), ejPc[a] # "none"
  PROVE  /\ run' \in [Conn -> RunState] /\ call' \in [Caller -> CallState]
         /\ on' \in [Caller -> Conn \cup {NoConn}]
         /\ ejPc' \in [Agent -> EjectState] /\ ejPc'[a] = "none"
         /\ \A b \in Agent \ {a} : ejPc'[b] = ejPc[b] /\ Target(b)' = Target(b)
         /\ \A c \in Conn : \/ run'[c] = run[c]
                            \/ run[c] = "ejecting" /\ run'[c] = "polling"
         /\ \A k \in Caller : \/ call'[k] = call[k] /\ on'[k] = on[k]
                              \/ call'[k] = "idle" /\ on'[k] = NoConn
         /\ PcsAgree'
  <1> USE ConnAssumption
  <1>1. /\ ejPc' = [ejPc EXCEPT ![a] = "none"]
        /\ ejPc \in [Agent -> EjectState]
    BY DEF EjectReturns, IInv, TypeOK
  <1>2. /\ ejPc' \in [Agent -> EjectState] /\ ejPc'[a] = "none"
        /\ \A b \in Agent \ {a} : ejPc'[b] = ejPc[b]
    BY <1>1 DEF EjectState
  <1>3. CASE a \in Conn
    <2>1. /\ run' = [run EXCEPT ![a] = "polling"] /\ call' = call /\ on' = on
          /\ run[a] = "ejecting"
      BY <1>3 DEF EjectReturns, IInv, PcsAgree
    <2>2. /\ run' \in [Conn -> RunState] /\ run'[a] = "polling"
          /\ \A c \in Conn \ {a} : run'[c] = run[c]
      BY <1>3, <2>1 DEF IInv, TypeOK, RunState
    <2>3. PcsAgree'
      BY SMT, <1>2, <1>3, <2>1, <2>2 DEF IInv, PcsAgree, Agent
    <2> QED
      BY <1>2, <2>1, <2>2, <2>3 DEF IInv, TypeOK, Target
  <1>4. CASE a \in Caller
    <2>1. /\ run' = run /\ call' = [call EXCEPT ![a] = "idle"]
          /\ on' = [on EXCEPT ![a] = NoConn]
      BY <1>4 DEF EjectReturns
    <2>2. /\ call' \in [Caller -> CallState] /\ call'[a] = "idle"
          /\ on' \in [Caller -> Conn \cup {NoConn}] /\ on'[a] = NoConn
          /\ \A k \in Caller \ {a} : call'[k] = call[k] /\ on'[k] = on[k]
      BY <1>4, <2>1 DEF IInv, TypeOK, CallState
    <2>3. PcsAgree'
      BY SMT, <1>2, <1>4, <2>1, <2>2 DEF IInv, PcsAgree, Agent
    <2>4. \A b \in Agent \ {a} : Target(b)' = Target(b)
      BY <2>2 DEF Target, Agent
    <2> QED
      BY <1>2, <2>1, <2>2, <2>3, <2>4 DEF IInv, TypeOK
  <1> QED
    BY <1>3, <1>4 DEF Agent

\* What eject stores before it returns aside, the return keeps the invariant.
LEMMA EjectReturnsKeeps ==
  ASSUME IInv, NEW a \in Agent, EjectReturns(a), ejPc[a] # "none",
         UNCHANGED <<rows, cur, daemon, ip, reachable, reconciled,
                     daemonFailed, done, hurt>>,
         retired' \in [Conn -> BOOLEAN]
  PROVE  TypeOK' /\ OneLiveConn' /\ PcsAgree' /\ BlameIsReal'
  <1> USE ConnAssumption
  <1>1. TypeOK' /\ PcsAgree'
    BY EjectReturnsEffect DEF IInv, TypeOK
  <1>2. OneLiveConn'
    BY SMT, EjectReturnsEffect DEF IInv, TypeOK, OneLiveConn
  <1>3. /\ \A c \in Conn : ejPc'[c] # "none" => ejPc[c] # "none"
        /\ \A c \in Conn : run'[c] # "none" => run[c] # "none"
        /\ \A k \in Caller : \/ call'[k] = call[k] /\ on'[k] = on[k]
                             \/ call'[k] = "idle"
    BY EjectReturnsEffect DEF Agent
  <1>4. \A k \in Caller : on[k] \in Conn \/ call[k] = "idle"
    BY DEF IInv, TypeOK, PcsAgree
  <1>5. BlameIsReal'
    BY SMT, <1>3, <1>4 DEF IInv, BlameIsReal
  <1> QED
    BY <1>1, <1>2, <1>5

\* An ejection finds nothing left to do.
LEMMA EjectMootIInv == ASSUME IInv, NEW a \in Agent, EjectMoot(a) PROVE IInv'
  <1> USE ConnAssumption
  <1>1. /\ ejPc[a] = "cas" /\ EjectReturns(a)
        /\ UNCHANGED <<rows, cur, daemon, ip, reachable, retired, reconciled,
                       daemonFailed, done, hurt>>
    BY DEF EjectMoot, fieldVars
  <1>2. TypeOK' /\ OneLiveConn' /\ PcsAgree' /\ BlameIsReal'
    BY <1>1, EjectReturnsKeeps DEF IInv, TypeOK
  <1>3. /\ ejPc'[a] = "none"
        /\ \A b \in Agent \ {a} : ejPc'[b] = ejPc[b] /\ Target(b)' = Target(b)
        /\ \A c \in Conn : \/ run'[c] = run[c]
                           \/ run[c] = "ejecting" /\ run'[c] = "polling"
    BY <1>1, EjectReturnsEffect
  <1>4. \A b \in Agent : ejPc[b] # "none" => Target(b) \in Conn
    BY DEF IInv, TypeOK, PcsAgree, Target, Agent
  <1>5. ClosesOnce'
    BY SMT, <1>1, <1>3 DEF IInv, ClosesOnce
  <1>6. FreshUntilAdmitted'
    BY <1>1, <1>3, <1>4 DEF IInv, FreshUntilAdmitted
  <1> QED
    BY <1>2, <1>5, <1>6 DEF IInv

\* An ejection is stamped.
LEMMA EjectStampIInv == ASSUME IInv, NEW a \in Agent, EjectStamp(a) PROVE IInv'
  <1> USE ConnAssumption
  <1>1. /\ ejPc[a] = "stamp" /\ EjectReturns(a)
        /\ UNCHANGED <<rows, cur, daemon, ip, reachable, reconciled,
                       daemonFailed, done, hurt>>
        /\ retired' = [retired EXCEPT ![Target(a)] = TRUE]
    BY DEF EjectStamp
  <1>2. TypeOK' /\ OneLiveConn' /\ PcsAgree' /\ BlameIsReal'
    <2>1. retired' \in [Conn -> BOOLEAN]
      BY <1>1 DEF IInv, TypeOK
    <2> QED
      BY <1>1, <2>1, EjectReturnsKeeps
  <1>3. /\ ejPc'[a] = "none"
        /\ \A b \in Agent \ {a} : ejPc'[b] = ejPc[b] /\ Target(b)' = Target(b)
        /\ \A c \in Conn : \/ run'[c] = run[c]
                           \/ run[c] = "ejecting" /\ run'[c] = "polling"
    BY <1>1, EjectReturnsEffect
  <1>4. \A b \in Agent : ejPc[b] # "none" => Target(b) \in Conn
    BY DEF IInv, TypeOK, PcsAgree, Target, Agent
  <1>5. /\ retired'[Target(a)]
        /\ \A c \in Conn \ {Target(a)} : retired'[c] = retired[c]
    <2>1. Target(a) \in Conn /\ retired \in [Conn -> BOOLEAN]
      BY <1>1, <1>4 DEF IInv, TypeOK
    <2>2. retired' = [retired EXCEPT ![Target(a)] = TRUE]
      BY <1>1
    <2> QED
      BY <2>1, <2>2
  <1>6. ClosesOnce'
    BY SMT, <1>1, <1>3, <1>4, <1>5 DEF IInv, ClosesOnce
  <1>7. FreshUntilAdmitted'
    BY SMT, <1>1, <1>3, <1>4, <1>5 DEF IInv, FreshUntilAdmitted
  <1> QED
    BY <1>2, <1>6, <1>7 DEF IInv

\* The steps of eject, whichever goroutine takes them.
LEMMA EjectIInv == ASSUME IInv, NEW a \in Agent, Eject(a) PROVE IInv'
  <1> USE ConnAssumption
  <1>1. CASE EjectFlag(a)
    <2> USE <1>1 DEF EjectFlag, fieldVars
    <2>1. TypeOK' /\ PcsAgree'
      BY DEF IInv, TypeOK, PcsAgree, Agent, Reachable, EjectState
    <2>2. OneLiveConn'
      BY DEF IInv, TypeOK, OneLiveConn
    <2>3. ClosesOnce'
      BY DEF IInv, TypeOK, ClosesOnce, PcsAgree, Target, Agent
    <2>4. FreshUntilAdmitted'
      BY DEF IInv, TypeOK, FreshUntilAdmitted, PcsAgree, Target, Agent
    <2>5. BlameIsReal'
      BY SMT DEF IInv, TypeOK, BlameIsReal, PcsAgree, OneLiveConn, Target, Agent
    <2> HIDE <1>1
    <2> QED
      BY <2>1, <2>2, <2>3, <2>4, <2>5 DEF IInv
  <1>2. CASE EjectMove(a)
    <2> USE <1>2 DEF EjectMove
    <2>1. TypeOK' /\ PcsAgree'
      BY DEF IInv, TypeOK, PcsAgree, Agent, Reachable, EjectState
    <2>2. OneLiveConn'
      BY DEF IInv, TypeOK, OneLiveConn
    <2>3. ClosesOnce'
      BY SMT DEF IInv, TypeOK, ClosesOnce, PcsAgree, Target, Agent
    <2>4. FreshUntilAdmitted'
      BY SMT DEF IInv, TypeOK, FreshUntilAdmitted, PcsAgree, Target, Agent
    <2>5. BlameIsReal'
      BY DEF IInv, TypeOK, BlameIsReal, PcsAgree, OneLiveConn, Target, Agent
    <2> HIDE <1>2
    <2> QED
      BY <2>1, <2>2, <2>3, <2>4, <2>5 DEF IInv
  <1>3. CASE EjectMoot(a)
    BY <1>3, EjectMootIInv
  <1>4. CASE EjectStamp(a)
    BY <1>4, EjectStampIInv
  <1> QED
    BY <1>1, <1>2, <1>3, <1>4 DEF Eject

\* The steps of a conn's own goroutine.
LEMMA RunnerIInv == ASSUME IInv, NEW c \in Conn, Runner(c) PROVE IInv'
  <1> USE ConnAssumption
  <1>1. CASE recoverWorker(c)
    BY <1>1, recoverWorkerIInv
  <1>2. CASE RunnerReturns(c)
    BY <1>2, RunnerReturnsIInv
  <1>3. CASE ReconcileReady(c)
    <2> USE <1>3 DEF ReconcileReady
    <2>1. TypeOK' /\ PcsAgree'
      BY DEF IInv, TypeOK, PcsAgree, Agent, Reachable, RunState, EjectState
    <2>2. OneLiveConn'
      BY SMT DEF IInv, TypeOK, OneLiveConn
    <2>3. ClosesOnce'
      BY DEF IInv, TypeOK, ClosesOnce, PcsAgree, Target, Agent
    <2>4. FreshUntilAdmitted'
      BY SMT DEF IInv, TypeOK, FreshUntilAdmitted, PcsAgree, Target, Agent
    <2>5. BlameIsReal'
      BY SMT DEF IInv, TypeOK, BlameIsReal, PcsAgree, OneLiveConn, Target, Agent
    <2> HIDE <1>3
    <2> QED
      BY <2>1, <2>2, <2>3, <2>4, <2>5 DEF IInv
  <1>4. CASE ReconcileEjected(c)
    <2> USE <1>4 DEF ReconcileEjected, fieldVars
    <2>1. TypeOK' /\ PcsAgree'
      BY SMT DEF IInv, TypeOK, PcsAgree, Agent, Reachable, RunState, EjectState
    <2>2. OneLiveConn'
      BY SMT DEF IInv, TypeOK, OneLiveConn
    <2>3. ClosesOnce'
      BY DEF IInv, TypeOK, ClosesOnce, PcsAgree, Target, Agent
    <2>4. FreshUntilAdmitted'
      BY SMT DEF IInv, TypeOK, FreshUntilAdmitted, PcsAgree, Target, Agent
    <2>5. BlameIsReal'
      BY SMT DEF IInv, TypeOK, BlameIsReal, PcsAgree, OneLiveConn, Target, Agent
    <2> HIDE <1>4
    <2> QED
      BY <2>1, <2>2, <2>3, <2>4, <2>5 DEF IInv
  <1>5. CASE Admit(c)
    <2> USE <1>5 DEF Admit
    <2>1. TypeOK' /\ PcsAgree'
      BY DEF IInv, TypeOK, PcsAgree, Agent, Reachable, RunState, EjectState
    <2>2. OneLiveConn'
      BY SMT DEF IInv, TypeOK, OneLiveConn
    <2>3. ClosesOnce'
      BY SMT DEF IInv, TypeOK, ClosesOnce, FreshUntilAdmitted, Target, Agent
    <2>4. FreshUntilAdmitted'
      BY SMT DEF IInv, TypeOK, FreshUntilAdmitted, PcsAgree, Target, Agent
    <2>5. BlameIsReal'
      BY SMT DEF IInv, TypeOK, BlameIsReal, PcsAgree, OneLiveConn, Target, Agent
    <2> HIDE <1>5
    <2> QED
      BY <2>1, <2>2, <2>3, <2>4, <2>5 DEF IInv
  <1>6. CASE ProbeEjects(c)
    <2> USE <1>6 DEF ProbeEjects, fieldVars
    <2>1. TypeOK' /\ PcsAgree'
      BY SMT DEF IInv, TypeOK, PcsAgree, Agent, Reachable, RunState, EjectState
    <2>2. OneLiveConn'
      BY SMT DEF IInv, TypeOK, OneLiveConn
    <2>3. ClosesOnce'
      BY DEF IInv, TypeOK, ClosesOnce, PcsAgree, Target, Agent
    <2>4. FreshUntilAdmitted'
      BY SMT DEF IInv, TypeOK, FreshUntilAdmitted, PcsAgree, Target, Agent
    <2>5. BlameIsReal'
      BY SMT DEF IInv, TypeOK, BlameIsReal, PcsAgree, OneLiveConn, Target, Agent
    <2> HIDE <1>6
    <2> QED
      BY <2>1, <2>2, <2>3, <2>4, <2>5 DEF IInv
  <1>7. CASE ProbeRecovers(c)
    <2> USE <1>7 DEF ProbeRecovers, fieldVars
    <2>1. TypeOK' /\ PcsAgree'
      BY DEF IInv, TypeOK, PcsAgree, Agent, Reachable, RunState, EjectState
    <2>2. OneLiveConn'
      BY DEF IInv, TypeOK, OneLiveConn
    <2>3. ClosesOnce'
      BY DEF IInv, TypeOK, ClosesOnce, PcsAgree, Target, Agent
    <2>4. FreshUntilAdmitted'
      BY SMT DEF IInv, TypeOK, FreshUntilAdmitted, PcsAgree, Target, Agent
    <2>5. BlameIsReal'
      BY SMT DEF IInv, TypeOK, BlameIsReal, PcsAgree, OneLiveConn, Target, Agent
    <2> HIDE <1>7
    <2> QED
      BY <2>1, <2>2, <2>3, <2>4, <2>5 DEF IInv
  <1>8. CASE recoverReturns(c)
    <2> USE <1>8 DEF recoverReturns, fieldVars
    <2>1. TypeOK' /\ PcsAgree'
      BY DEF IInv, TypeOK, PcsAgree, Agent, Reachable, RunState, EjectState
    <2>2. OneLiveConn'
      BY SMT DEF IInv, TypeOK, OneLiveConn
    <2>3. ClosesOnce'
      BY DEF IInv, TypeOK, ClosesOnce, PcsAgree, Target, Agent
    <2>4. FreshUntilAdmitted'
      BY SMT DEF IInv, TypeOK, FreshUntilAdmitted, PcsAgree, Target, Agent
    <2>5. BlameIsReal'
      BY SMT DEF IInv, TypeOK, BlameIsReal, PcsAgree, OneLiveConn, Target, Agent
    <2> HIDE <1>8
    <2> QED
      BY <2>1, <2>2, <2>3, <2>4, <2>5 DEF IInv
  <1> QED
    BY <1>1, <1>2, <1>3, <1>4, <1>5, <1>6, <1>7, <1>8 DEF Runner

\* An error that is not dropped concerns the conn the call went out on.
LEMMA NoteTransportErrorIInv ==
  ASSUME IInv, NEW k \in Caller, NoteTransportError(k) PROVE IInv'
  <1> USE ConnAssumption
  <1>1. on[k] \in Conn /\ cur[ip[on[k]]] = on[k]
    BY SMT DEF NoteTransportError, Dropped, IInv, TypeOK, PcsAgree
  <1>2. UNCHANGED <<rows, cur, daemon, ip, reachable, retired, reconciled,
                    daemonFailed, done, run, on, hurt>>
    BY <1>1 DEF NoteTransportError, fieldVars, IInv, TypeOK
  <1>3. /\ call[k] \in {"refused", "timedout"}
        /\ \/ /\ call' = [call EXCEPT ![k] = "pinging"]
              /\ ejPc' = ejPc
           \/ /\ call' = [call EXCEPT ![k] = "ejecting"]
              /\ ejPc' = [ejPc EXCEPT ![k] = "flag"]
    BY DEF NoteTransportError
  <1>4. TypeOK'
    BY <1>2, <1>3 DEF IInv, TypeOK, CallState, EjectState, Agent
  <1>5. PcsAgree'
    BY SMT, <1>2, <1>3 DEF IInv, TypeOK, PcsAgree, Agent
  <1>6. \A a \in Agent : /\ Target(a)' = Target(a)
                         /\ ejPc'[a] = "stamp" => ejPc[a] = "stamp"
    BY <1>2, <1>3 DEF IInv, TypeOK, Target, Agent
  <1>7. OneLiveConn' /\ ClosesOnce' /\ FreshUntilAdmitted'
    BY SMT, <1>2, <1>6 DEF IInv, OneLiveConn, ClosesOnce, FreshUntilAdmitted
  <1>8. \A c \in Conn : ejPc'[c] = ejPc[c]
    BY <1>3 DEF IInv, TypeOK, Agent
  <1>9. BlameIsReal'
    BY SMT, <1>2, <1>3, <1>8 DEF IInv, TypeOK, BlameIsReal
  <1> QED
    BY <1>4, <1>5, <1>7, <1>9 DEF IInv

\* A call that gives its conn up without having begun to eject it.
LEMMA CallEndsIInv ==
  ASSUME IInv, NEW k \in Caller, CallEnds(k),
         call[k] \in {"inflight", "refused", "timedout", "pinging"}
  PROVE  IInv'
  <1> USE ConnAssumption
  <1>1. /\ UNCHANGED <<rows, cur, daemon, ip, reachable, retired, reconciled,
                       daemonFailed, done, run, ejPc, hurt>>
        /\ call' = [call EXCEPT ![k] = "idle"]
        /\ on' = [on EXCEPT ![k] = NoConn]
    BY DEF CallEnds, fieldVars
  <1>2. ejPc[k] = "none"
    BY DEF IInv, TypeOK, PcsAgree
  <1>3. \A j \in Caller \ {k} : call'[j] = call[j] /\ on'[j] = on[j]
    BY <1>1 DEF IInv, TypeOK
  <1>4. call'[k] = "idle" /\ on'[k] = NoConn
    BY <1>1 DEF IInv, TypeOK
  <1>5. TypeOK'
    BY <1>1 DEF IInv, TypeOK, CallState
  <1>6. PcsAgree'
    BY SMT, <1>1, <1>2, <1>3, <1>4 DEF IInv, PcsAgree
  <1>7. \A a \in Agent : ejPc[a] # "none" => Target(a)' = Target(a)
    BY <1>1, <1>2, <1>3 DEF Target, Agent
  <1>8. OneLiveConn' /\ ClosesOnce' /\ FreshUntilAdmitted'
    BY SMT, <1>1, <1>7 DEF IInv, OneLiveConn, ClosesOnce, FreshUntilAdmitted
  <1>9. BlameIsReal'
    BY <1>1, <1>3, <1>4 DEF IInv, BlameIsReal
  <1> QED
    BY <1>5, <1>6, <1>8, <1>9 DEF IInv

\* The steps of a control call up to its eject.
LEMMA ControlCallIInv ==
  ASSUME IInv, NEW k \in Caller, ControlCall(k) PROVE IInv'
  <1> USE ConnAssumption
  <1>1. CASE CallStart(k)
    <2> USE <1>1 DEF CallStart, fieldVars
    <2>1. TypeOK' /\ PcsAgree'
      BY SMT DEF IInv, TypeOK, PcsAgree, Agent, CallState, EjectState
    <2>2. OneLiveConn'
      BY DEF IInv, TypeOK, OneLiveConn
    <2>3. ClosesOnce'
      BY SMT DEF IInv, TypeOK, ClosesOnce, PcsAgree, Target, Agent
    <2>4. FreshUntilAdmitted'
      BY DEF IInv, TypeOK, FreshUntilAdmitted, PcsAgree, Target, Agent
    <2>5. BlameIsReal'
      BY SMT DEF IInv, TypeOK, BlameIsReal, PcsAgree, OneLiveConn, Target, Agent
    <2> HIDE <1>1
    <2> QED
      BY <2>1, <2>2, <2>3, <2>4, <2>5 DEF IInv
  <1>2. CASE CallReturns(k)
    BY <1>2, CallEndsIInv DEF CallReturns
  <1>3. CASE CallRefused(k)
    <2> USE <1>3 DEF CallRefused, fieldVars
    <2>1. TypeOK' /\ PcsAgree'
      BY DEF IInv, TypeOK, PcsAgree, Agent, CallState, EjectState
    <2>2. OneLiveConn'
      BY DEF IInv, TypeOK, OneLiveConn
    <2>3. ClosesOnce'
      BY DEF IInv, TypeOK, ClosesOnce, PcsAgree, Target, Agent
    <2>4. FreshUntilAdmitted'
      BY DEF IInv, TypeOK, FreshUntilAdmitted, PcsAgree, Target, Agent
    <2>5. BlameIsReal'
      BY SMT DEF IInv, TypeOK, BlameIsReal, PcsAgree, OneLiveConn, Target, Agent
    <2> HIDE <1>3
    <2> QED
      BY <2>1, <2>2, <2>3, <2>4, <2>5 DEF IInv
  <1>4. CASE CallTimesOut(k)
    <2> USE <1>4 DEF CallTimesOut, fieldVars
    <2>1. TypeOK' /\ PcsAgree'
      BY DEF IInv, TypeOK, PcsAgree, Agent, CallState, EjectState
    <2>2. OneLiveConn'
      BY DEF IInv, TypeOK, OneLiveConn
    <2>3. ClosesOnce'
      BY DEF IInv, TypeOK, ClosesOnce, PcsAgree, Target, Agent
    <2>4. FreshUntilAdmitted'
      BY DEF IInv, TypeOK, FreshUntilAdmitted, PcsAgree, Target, Agent
    <2>5. BlameIsReal'
      BY SMT DEF IInv, TypeOK, BlameIsReal, PcsAgree, OneLiveConn, Target, Agent
    <2> HIDE <1>4
    <2> QED
      BY <2>1, <2>2, <2>3, <2>4, <2>5 DEF IInv
  <1>5. CASE NoteDropped(k)
    BY <1>5, CallEndsIInv DEF NoteDropped
  <1>6. CASE NoteTransportError(k)
    BY <1>6, NoteTransportErrorIInv
  <1>7. CASE PingEjects(k)
    <2> USE <1>7 DEF PingEjects, fieldVars
    <2>1. TypeOK' /\ PcsAgree'
      BY SMT DEF IInv, TypeOK, PcsAgree, Agent, CallState, EjectState
    <2>2. OneLiveConn'
      BY DEF IInv, TypeOK, OneLiveConn
    <2>3. ClosesOnce'
      BY DEF IInv, TypeOK, ClosesOnce, PcsAgree, Target, Agent
    <2>4. FreshUntilAdmitted'
      BY DEF IInv, TypeOK, FreshUntilAdmitted, PcsAgree, Target, Agent
    <2>5. BlameIsReal'
      BY SMT DEF IInv, TypeOK, BlameIsReal, PcsAgree, OneLiveConn, Target, Agent
    <2> HIDE <1>7
    <2> QED
      BY <2>1, <2>2, <2>3, <2>4, <2>5 DEF IInv
  <1>8. CASE PingForgives(k)
    BY <1>8, CallEndsIInv DEF PingForgives
  <1> QED
    BY <1>1, <1>2, <1>3, <1>4, <1>5, <1>6, <1>7, <1>8 DEF ControlCall

\* A daemon that starts failing hurts every conn that is running against it.
LEMMA DaemonChangesIInv ==
  ASSUME IInv, NEW w \in Worker, DaemonChanges(w) PROVE IInv'
  <1>1. PICK s \in DaemonState \ {daemon[w]} :
          /\ daemon' = [daemon EXCEPT ![w] = s]
          /\ hurt' = [c \in Conn |->
                          hurt[c] \/ (run[c] # "none" /\ ip[c] = w /\ s = "failing")]
    BY DEF DaemonChanges
  <1>2. UNCHANGED <<rows, cur, ip, reachable, retired, reconciled, daemonFailed,
                    done, run, call, on, ejPc>>
    BY DEF DaemonChanges, fieldVars
  <1>3. TypeOK'
    BY <1>1, <1>2 DEF IInv, TypeOK
  <1>4. \A c \in Conn :
          /\ hurt[c] => hurt'[c]
          /\ run[c] # "none" /\ ip[c] = w /\ s = "failing" => hurt'[c]
    BY <1>1
  <1>5. \A v \in Worker \ {w} : daemon'[v] = daemon[v]
    BY <1>1 DEF IInv, TypeOK
  <1>6. daemon'[w] = s
    BY <1>1 DEF IInv, TypeOK
  <1>7. BlameIsReal'
    BY SMT, <1>2, <1>4, <1>5, <1>6 DEF IInv, TypeOK, BlameIsReal, PcsAgree
  <1>8. OneLiveConn' /\ ClosesOnce' /\ PcsAgree' /\ FreshUntilAdmitted'
    BY SMT, <1>2 DEF IInv, OneLiveConn, ClosesOnce, PcsAgree, FreshUntilAdmitted,
       Target
  <1> QED
    BY <1>3, <1>7, <1>8 DEF IInv

\* The operator's steps and the environment's.
LEMMA OperatorIInv ==
  ASSUME IInv, NEW w \in Worker, Operator(w) \/ DaemonChanges(w) PROVE IInv'
  <1> USE ConnAssumption
  <1>1. CASE AddWorker(w)
    BY <1>1, AddWorkerIInv
  <1>2. CASE DaemonChanges(w)
    BY <1>2, DaemonChangesIInv
  <1>3. CASE AddWorkerNoClient(w)
    <2> USE <1>3 DEF AddWorkerNoClient, fieldVars
    <2>1. TypeOK' /\ PcsAgree'
      BY DEF IInv, TypeOK, PcsAgree, Agent, Reachable
    <2>2. OneLiveConn'
      BY DEF IInv, TypeOK, OneLiveConn
    <2>3. ClosesOnce'
      BY DEF IInv, TypeOK, ClosesOnce, PcsAgree, Target, Agent
    <2>4. FreshUntilAdmitted'
      BY DEF IInv, TypeOK, FreshUntilAdmitted, PcsAgree, Target, Agent
    <2>5. BlameIsReal'
      BY DEF IInv, TypeOK, BlameIsReal, PcsAgree, OneLiveConn, Target, Agent
    <2> HIDE <1>3
    <2> QED
      BY <2>1, <2>2, <2>3, <2>4, <2>5 DEF IInv
  <1>4. CASE RemoveWorker(w)
    <2> USE <1>4 DEF RemoveWorker
    <2>1. TypeOK' /\ PcsAgree'
      BY DEF IInv, TypeOK, PcsAgree, Agent, Reachable
    <2>2. OneLiveConn'
      BY SMT DEF IInv, TypeOK, OneLiveConn
    <2>3. ClosesOnce'
      BY DEF IInv, TypeOK, ClosesOnce, PcsAgree, Target, Agent
    <2>4. FreshUntilAdmitted'
      BY DEF IInv, TypeOK, FreshUntilAdmitted, PcsAgree, Target, Agent
    <2>5. BlameIsReal'
      BY DEF IInv, TypeOK, BlameIsReal, PcsAgree, OneLiveConn, Target, Agent
    <2> HIDE <1>4
    <2> QED
      BY <2>1, <2>2, <2>3, <2>4, <2>5 DEF IInv
  <1>5. CASE SetWorkerDown(w)
    <2> USE <1>5 DEF SetWorkerDown
    <2>1. TypeOK' /\ PcsAgree'
      BY DEF IInv, TypeOK, PcsAgree, Agent, Reachable
    <2>2. OneLiveConn'
      BY DEF IInv, TypeOK, OneLiveConn
    <2>3. ClosesOnce'
      BY SMT DEF IInv, TypeOK, ClosesOnce, PcsAgree, Target, Agent
    <2>4. FreshUntilAdmitted'
      BY SMT DEF IInv, TypeOK, FreshUntilAdmitted, PcsAgree, Target, Agent
    <2>5. BlameIsReal'
      BY DEF IInv, TypeOK, BlameIsReal, PcsAgree, OneLiveConn, Target, Agent
    <2> HIDE <1>5
    <2> QED
      BY <2>1, <2>2, <2>3, <2>4, <2>5 DEF IInv
  <1> QED
    BY <1>1, <1>2, <1>3, <1>4, <1>5 DEF Operator

\* Every step keeps the invariant.
LEMMA NextIInv == ASSUME IInv, [Next]_vars PROVE IInv'
  <1>1. CASE UNCHANGED vars
    <2>1. UNCHANGED <<rows, cur, daemon, ip, reachable, retired, reconciled,
                      daemonFailed, done, run, call, on, ejPc, hurt>>
      BY <1>1 DEF vars, fieldVars
    <2>2. TypeOK' /\ OneLiveConn'
      BY <2>1 DEF IInv, TypeOK, OneLiveConn
    <2>3. \A a \in Agent : Target(a)' = Target(a)
      BY <2>1 DEF Target
    <2>4. ClosesOnce' /\ FreshUntilAdmitted'
      BY <2>1, <2>3 DEF IInv, ClosesOnce, FreshUntilAdmitted
    <2>5. PcsAgree' /\ BlameIsReal'
      BY <2>1 DEF IInv, PcsAgree, BlameIsReal
    <2> QED
      BY <2>2, <2>4, <2>5 DEF IInv
  <1>2. CASE Next
    BY <1>2, EjectIInv, RunnerIInv, ControlCallIInv, OperatorIInv, RestartIInv
       DEF Next
  <1> QED
    BY <1>1, <1>2

\* In every reachable state the connections, their goroutines and the calls on
\* them have the types the module gives them.
THEOREM TypeCorrect == Spec => []TypeOK
  BY InitIInv, NextIInv, PTL DEF Spec, IInv

\* In every reachable state, whatever the number of workers, conns and calls in
\* flight: a placed worker's conn has been reconciled and its unreachCh is open.
THEOREM PlacementSound == Spec => []PlacedIsSound
  <1>1. IInv => PlacedIsSound
    BY ConnAssumption DEF IInv, TypeOK, ClosesOnce, FreshUntilAdmitted,
       PlacedIsSound
  <1> QED
    BY <1>1, InitIInv, NextIInv, PTL DEF Spec

\* The worker map and the goroutines never disagree, so no done channel is
\* closed twice and no poller outlives its conn unasked.
THEOREM MapSound == Spec => []OneLiveConn
  BY InitIInv, NextIInv, PTL DEF Spec, IInv

\* unreachCh is closed at most once per conn, however many goroutines eject it.
THEOREM CloseSound == Spec => []ClosesOnce
  BY InitIInv, NextIInv, PTL DEF Spec, IInv

\* The stop path skips a worker's daemon only when that daemon failed during the
\* life of the worker's present conn, or an operator took the worker down.
THEOREM UnreachableSound == Spec => []UnreachableIsReal
  <1>1. IInv => UnreachableIsReal
    BY SMT, ConnAssumption DEF IInv, TypeOK, OneLiveConn, BlameIsReal,
       UnreachableIsReal, workerUnreachable
  <1> QED
    BY <1>1, InitIInv, NextIInv, PTL DEF Spec

-----------------------------------------------------------------------------
(* Down is asserted.                                                       *)

\* A step keeps a worker down, unregisters it, is its worker-add, or is the
\* restart of corkd.
LEMMA DownStep ==
  ASSUME IInv, [Next]_vars, NEW w \in Worker, status[w] = "down"
  PROVE  status'[w] \in {"down", "absent"} \/ AddWorker(w) \/ Restart
  <1>1. /\ cur[w] \in Conn /\ cur[w] # NoConn
        /\ reachable[cur[w]] = "down"
        /\ ip[cur[w]] = w /\ ~done[cur[w]]
    BY SMT DEF IInv, TypeOK, OneLiveConn, status
  <1> DEFINE Kept == cur'[w] = cur[w] /\ reachable'[cur[w]] = "down"
  <1>2. Kept \/ cur'[w] = NoConn => status'[w] \in {"down", "absent"}
    BY <1>1 DEF status
  <1>3. SUFFICES Kept \/ cur'[w] = NoConn \/ AddWorker(w) \/ Restart
    BY <1>2
  <1> HIDE DEF Kept
  <1>4. CASE UNCHANGED vars
    BY <1>1, <1>4 DEF vars, fieldVars, Kept
  <1>5. ASSUME NEW a \in Agent, Eject(a) PROVE Kept
    BY <1>1, <1>5 DEF Eject, EjectFlag, EjectMove, EjectMoot, EjectStamp,
       EjectReturns, fieldVars, Kept, IInv, TypeOK
  <1>6. ASSUME NEW c \in Conn, Runner(c) PROVE Kept
    <2>1. CASE recoverWorker(c)
      <3>1. PICK fresh \in Conn : newWorkerConn(fresh, ip[c], c)
        BY <2>1 DEF recoverWorker
      <3>2. ip[c] # w
        BY <1>1, <2>1 DEF recoverWorker, Recoverable
      <3> QED
        BY <1>1, <3>1, <3>2 DEF newWorkerConn, Unused, Blank, Kept, IInv, TypeOK
    <2>2. CASE RunnerReturns(c)
      BY <1>1, <2>2 DEF RunnerReturns, Blank, Kept
    <2> QED
      BY <1>1, <1>6, <2>1, <2>2 DEF Runner, ReconcileReady, ReconcileEjected,
         Admit, ProbeEjects, ProbeRecovers, recoverReturns, fieldVars, Kept,
         IInv, TypeOK
  <1>7. ASSUME NEW k \in Caller, ControlCall(k) PROVE Kept
    <2>1. cur' = cur /\ reachable' = reachable
      BY <1>7 DEF ControlCall, CallStart, CallReturns, CallEnds,
         CallRefused, CallTimesOut, NoteDropped, NoteTransportError, PingEjects,
         PingForgives, fieldVars
    <2> QED
      BY <1>1, <2>1 DEF Kept
  <1>8. ASSUME NEW v \in Worker, Operator(v) \/ DaemonChanges(v)
        PROVE  Kept \/ cur'[w] = NoConn \/ AddWorker(w)
    <2>1. CASE AddWorker(v)
      <3>1. CASE v # w
        <4>1. PICK fresh \in Conn : newWorkerConn(fresh, v, cur[v])
          BY <2>1 DEF AddWorker
        <4> QED
          BY <1>1, <3>1, <4>1 DEF newWorkerConn, Unused, Blank, Kept, IInv,
             TypeOK
      <3> QED
        BY <2>1, <3>1
    <2> QED
      BY <1>1, <1>8, <2>1 DEF Operator, AddWorkerNoClient, RemoveWorker,
         SetWorkerDown, DaemonChanges, fieldVars, Kept, IInv, TypeOK
  <1> QED
    BY <1>4, <1>5, <1>6, <1>7, <1>8 DEF Next

\* Whatever probe, recovery or call was under way when an operator took a worker
\* down, it stays down until worker-add, worker-remove or a restart of corkd.
THEOREM DownAsserted == Spec => DownIsAsserted
  <1>1. IInv /\ [Next]_vars =>
        [\A w \in Worker : status[w] = "down" =>
            status'[w] \in {"down", "absent"} \/ AddWorker(w) \/ Restart]_vars
    BY DownStep
  <1> QED
    BY <1>1, InitIInv, NextIInv, PTL DEF Spec, DownIsAsserted

\* A step that leaves every worker's conn, its reachable state and its progress
\* to admission alone is invisible to Fleet.
LEMMA Invisible ==
  ASSUME IInv, rows' = rows, cur' = cur,
         \A w \in Worker : cur[w] # NoConn =>
             /\ reachable'[cur[w]] = reachable[cur[w]]
             /\ run'[cur[w]] \in {"reconciling", "admitting"}
                    <=> run[cur[w]] \in {"reconciling", "admitting"}
  PROVE  UNCHANGED Abs!vars
  BY DEF Abs!vars, status, joining

\* A step that changes one worker's state, worker by worker.
LEMMA StatusUpdate ==
  ASSUME NEW w \in Worker, NEW s, status'[w] = s,
         \A v \in Worker \ {w} : status'[v] = status[v]
  PROVE  status' = [status EXCEPT ![w] = s]
  <1>1. DOMAIN status = Worker /\ DOMAIN status' = Worker
    BY DEF status
  <1>2. status = [v \in Worker |-> status[v]]
    BY DEF status
  <1>3. status' = [v \in Worker |-> status'[v]]
    BY DEF status
  <1> QED
    BY <1>1, <1>2, <1>3

\* A step that only changes conn c, which is its worker's, and not the map.
LEMMA Visible ==
  ASSUME IInv, rows' = rows, cur' = cur, NEW c \in Conn, cur[ip[c]] = c,
         \A d \in Conn \ {c} : reachable'[d] = reachable[d] /\ run'[d] = run[d]
  PROVE  /\ ip[c] \in Worker
         /\ status[ip[c]] = reachable[c]
         /\ status' = [status EXCEPT ![ip[c]] = reachable'[c]]
         /\ ip[c] \in joining <=> run[c] \in {"reconciling", "admitting"}
         /\ joining' = IF run'[c] \in {"reconciling", "admitting"}
                       THEN joining \cup {ip[c]} ELSE joining \ {ip[c]}
  <1> USE ConnAssumption
  <1>1. ip[c] \in Worker /\ \A w \in Worker : cur[w] = c <=> w = ip[c]
    BY SMT DEF IInv, TypeOK, OneLiveConn
  <1>2. \A w \in Worker \ {ip[c]} : cur[w] # NoConn => cur[w] \in Conn \ {c}
    BY <1>1 DEF IInv, TypeOK
  <1>3. status[ip[c]] = reachable[c] /\ status'[ip[c]] = reachable'[c]
    BY <1>1 DEF status
  <1>4. \A w \in Worker \ {ip[c]} : status'[w] = status[w]
    BY <1>2 DEF status
  <1>5. /\ ip[c] \in joining <=> run[c] \in {"reconciling", "admitting"}
        /\ ip[c] \in joining' <=> run'[c] \in {"reconciling", "admitting"}
    BY <1>1 DEF joining
  <1>6. \A w \in Worker \ {ip[c]} : w \in joining' <=> w \in joining
    BY <1>2 DEF joining
  <1>7. joining \in SUBSET Worker /\ joining' \in SUBSET Worker
    BY DEF joining
  <1>8. joining' = IF run'[c] \in {"reconciling", "admitting"}
                   THEN joining \cup {ip[c]} ELSE joining \ {ip[c]}
    BY SMT, <1>1, <1>5, <1>6, <1>7
  <1> QED
    BY SMT, <1>1, <1>3, <1>4, <1>5, <1>8, StatusUpdate

\* An ejection is a step of the fleet, or none.
LEMMA EjectFleet ==
  ASSUME IInv, NEW a \in Agent, Eject(a) PROVE [Abs!Next]_(Abs!vars)
  <1> USE ConnAssumption
  <1>1. CASE EjectMove(a)
    <2>1. PICK c \in Conn : c = Target(a)
      BY SMT, <1>1 DEF EjectMove, IInv, TypeOK, PcsAgree, Target, Agent
    <2>2. /\ reachable[c] = "ok"
          /\ reachable' = [reachable EXCEPT ![c] = "unresponsive"]
          /\ rows' = rows /\ cur' = cur /\ run' = run
      BY <1>1, <2>1 DEF EjectMove
    <2>3. CASE cur[ip[c]] = c
      <3>1. joining' = joining
        BY <2>2 DEF joining
      <3>2. /\ reachable'[c] = "unresponsive"
            /\ \A d \in Conn \ {c} : reachable'[d] = reachable[d]
        BY <2>2 DEF IInv, TypeOK
      <3>3. /\ ip[c] \in Worker
            /\ status[ip[c]] = "ok"
            /\ status' = [status EXCEPT ![ip[c]] = "unresponsive"]
        BY <2>2, <2>3, <3>2, Visible
      <3> QED
        BY <2>2, <3>1, <3>3 DEF Abs!Next, Abs!Eject
    <2>4. CASE cur[ip[c]] # c
      <3>1. \A w \in Worker : cur[w] # c
        BY <2>4 DEF IInv, OneLiveConn
      <3> QED
        BY <2>2, <3>1, Invisible DEF IInv, TypeOK
    <2> QED
      BY <2>3, <2>4
  <1>2. CASE EjectFlag(a)
    BY <1>2, Invisible DEF EjectFlag
  <1>3. CASE EjectMoot(a) \/ EjectStamp(a)
    <2>1. /\ rows' = rows /\ cur' = cur /\ reachable' = reachable
          /\ \A c \in Conn : run'[c] = run[c] \/ (/\ run[c] = "ejecting"
                                                  /\ run'[c] = "polling")
      <3>1. EjectReturns(a) /\ UNCHANGED <<rows, cur, reachable>>
        BY <1>3 DEF EjectMoot, EjectStamp, fieldVars
      <3>2. /\ DOMAIN run = Conn
            /\ ejPc[a] # "none" /\ a \in Conn => run[a] = "ejecting"
        BY <1>3 DEF EjectMoot, EjectStamp, IInv, TypeOK, PcsAgree
      <3> QED
        BY <1>3, <3>1, <3>2 DEF EjectReturns, EjectMoot, EjectStamp
    <2>2. \A w \in Worker : cur[w] # NoConn => cur[w] \in Conn
      BY DEF IInv, TypeOK
    <2> QED
      BY <2>1, <2>2, Invisible
  <1> QED
    BY <1>1, <1>2, <1>3 DEF Eject

\* A run is a step of the fleet, or none.
LEMMA RunnerFleet ==
  ASSUME IInv, NEW c \in Conn, Runner(c) PROVE [Abs!Next]_(Abs!vars)
  <1> USE ConnAssumption
  <1>1. (\E w \in Worker : cur[w] = c) <=> cur[ip[c]] = c
    BY SMT DEF IInv, TypeOK, OneLiveConn
  <1>2. CASE ReconcileReady(c) \/ ProbeEjects(c) \/ ProbeRecovers(c)
             \/ recoverReturns(c)
    BY <1>2, Invisible DEF ReconcileReady, ProbeEjects, ProbeRecovers,
       recoverReturns, fieldVars, IInv, TypeOK
  <1>3. CASE ReconcileEjected(c)
    <2>1. /\ rows' = rows /\ cur' = cur /\ reachable' = reachable
          /\ run[c] = "reconciling" /\ ~done[c]
          /\ run' = [run EXCEPT ![c] = "ejecting"]
      BY <1>3 DEF ReconcileEjected, fieldVars
    <2>2. cur[ip[c]] = c
      BY <2>1 DEF IInv, OneLiveConn
    <2>3. /\ ip[c] \in Worker /\ ip[c] \in joining
          /\ status' = status /\ joining' = joining \ {ip[c]}
      <3>1. \A d \in Conn \ {c} : run'[d] = run[d]
        BY <2>1 DEF IInv, TypeOK
      <3>2. run'[c] = "ejecting"
        BY <2>1 DEF IInv, TypeOK
      <3>3. status' = status
        BY <2>1 DEF status
      <3> QED
        BY <2>1, <2>2, <3>1, <3>2, <3>3, Visible
    <2> QED
      BY <2>1, <2>3 DEF Abs!Next, Abs!TurnAway
  <1>4. CASE Admit(c)
    <2>1. /\ rows' = rows /\ cur' = cur /\ run[c] = "admitting"
          /\ run' = [run EXCEPT ![c] = "polling"]
          /\ \/ /\ reachable[c] = "unresponsive"
                /\ reachable' = [reachable EXCEPT ![c] = "ok"]
             \/ reachable' = reachable
      BY <1>4 DEF Admit
    <2>2. CASE cur[ip[c]] = c
      <3>1. /\ \A d \in Conn \ {c} : reachable'[d] = reachable[d]
                                     /\ run'[d] = run[d]
            /\ run'[c] = "polling"
        BY <2>1 DEF IInv, TypeOK
      <3>2. /\ ip[c] \in Worker /\ ip[c] \in joining
            /\ status[ip[c]] = reachable[c]
            /\ status' = [status EXCEPT ![ip[c]] = reachable'[c]]
            /\ joining' = joining \ {ip[c]}
        BY <2>1, <2>2, <3>1, Visible
      <3>3. CASE /\ reachable[c] = "unresponsive"
                 /\ reachable' = [reachable EXCEPT ![c] = "ok"]
        <4>1. reachable'[c] = "ok"
          BY <3>3 DEF IInv, TypeOK
        <4> QED
          BY <2>1, <3>2, <3>3, <4>1 DEF Abs!Next, Abs!Admit
      <3>4. CASE reachable' = reachable
        <4>1. status' = status
          BY <2>1, <3>4 DEF status
        <4> QED
          BY <2>1, <3>2, <4>1 DEF Abs!Next, Abs!TurnAway
      <3> QED
        BY <2>1, <3>3, <3>4
    <2>3. CASE cur[ip[c]] # c
      BY <1>1, <2>1, <2>3, Invisible DEF IInv, TypeOK
    <2> QED
      BY <2>2, <2>3
  <1>5. CASE recoverWorker(c)
    <2>1. PICK fresh \in Conn : /\ newWorkerConn(fresh, ip[c], c)
                                /\ run' = [run EXCEPT ![fresh] = "reconciling",
                                                      ![c] = "polling"]
      BY <1>5 DEF recoverWorker
    <2>2. PICK w \in Worker : w = ip[c]
      BY DEF IInv, TypeOK
    <2>3. /\ rows' = rows /\ run[c] = "recovering"
          /\ cur[w] = c /\ reachable[c] = "unresponsive"
      BY <1>5, <2>2 DEF recoverWorker, Recoverable, IInv, TypeOK, Reachable,
         FreshUntilAdmitted
    <2>4. /\ cur'[w] = fresh
          /\ reachable'[fresh] = "unresponsive"
          /\ run'[fresh] = "reconciling"
          /\ \A v \in Worker \ {w} : cur'[v] = cur[v]
          /\ \A d \in Conn \ {fresh} : reachable'[d] = reachable[d]
          /\ \A d \in Conn \ {fresh, c} : run'[d] = run[d]
      <3>1. c # fresh
        BY <2>1, <2>2, <2>3 DEF newWorkerConn, Unused
      <3> QED
        BY <2>1, <2>2, <3>1 DEF newWorkerConn, Blank, IInv, TypeOK
    <2>5. \A v \in Worker : cur[v] # fresh
      BY <2>1 DEF newWorkerConn, Unused
    <2>6. \A v \in Worker \ {w} : cur[v] # c
      BY SMT, <1>1, <2>2 DEF IInv, OneLiveConn
    <2>7. status' = status
      BY SMT, <2>3, <2>4, <2>5, <2>6 DEF status, IInv, TypeOK
    <2>8. w \notin joining /\ joining' = joining \cup {w}
      BY SMT, <2>3, <2>4, <2>5, <2>6 DEF joining, IInv, TypeOK
    <2>9. status[w] = "unresponsive"
      BY <2>3 DEF status
    <2> QED
      BY <2>3, <2>7, <2>8, <2>9 DEF Abs!Next, Abs!Reconnect
  <1>6. CASE RunnerReturns(c)
    <2>1. /\ rows' = rows /\ cur' = cur /\ done[c]
          /\ \A d \in Conn \ {c} : reachable'[d] = reachable[d]
                                   /\ run'[d] = run[d]
      BY <1>6 DEF RunnerReturns, Blank, IInv, TypeOK
    <2>2. \A w \in Worker : cur[w] # c
      BY SMT, <2>1 DEF IInv, OneLiveConn
    <2> QED
      BY <2>1, <2>2, Invisible DEF IInv, TypeOK
  <1> QED
    BY <1>2, <1>3, <1>4, <1>5, <1>6 DEF Runner

\* The operator's steps are the fleet's.
LEMMA OperatorFleet ==
  ASSUME IInv, NEW w \in Worker, Operator(w) PROVE [Abs!Next]_(Abs!vars)
  <1> USE ConnAssumption
  <1>1. CASE AddWorker(w)
    <2>1. PICK fresh \in Conn : /\ newWorkerConn(fresh, w, cur[w])
                                /\ run' = [run EXCEPT ![fresh] = "reconciling"]
      BY <1>1 DEF AddWorker
    <2>2. /\ cur'[w] = fresh
          /\ reachable'[fresh] = "unresponsive"
          /\ run'[fresh] = "reconciling"
          /\ \A v \in Worker \ {w} : cur'[v] = cur[v]
          /\ \A d \in Conn \ {fresh} : reachable'[d] = reachable[d]
                                       /\ run'[d] = run[d]
      BY <2>1 DEF newWorkerConn, Blank, IInv, TypeOK
    <2>3. \A v \in Worker : cur[v] # fresh
      BY <2>1 DEF newWorkerConn, Unused
    <2>4. status' = [status EXCEPT ![w] = "unresponsive"]
      <3>1. \A v \in Worker \ {w} : cur[v] # NoConn =>
                                        reachable'[cur[v]] = reachable[cur[v]]
        BY SMT, <2>2, <2>3 DEF IInv, TypeOK
      <3>2. fresh # NoConn
        OBVIOUS
      <3>3. status'[w] = "unresponsive"
        BY <2>2, <3>2 DEF status
      <3>4. \A v \in Worker \ {w} : status'[v] = status[v]
        BY <2>2, <3>1 DEF status
      <3> QED
        BY <3>3, <3>4, StatusUpdate
    <2>5. joining' = joining \cup {w}
      BY SMT, <2>2, <2>3 DEF joining, IInv, TypeOK
    <2> QED
      BY <1>1, <2>4, <2>5 DEF AddWorker, Abs!Next, Abs!Add
  <1>2. CASE AddWorkerNoClient(w)
    <2>1. status' = status /\ joining' = joining
      BY <1>2 DEF AddWorkerNoClient, fieldVars, status, joining
    <2> QED
      BY <1>2, <2>1 DEF AddWorkerNoClient, Abs!Next, Abs!AddFails
  <1>3. CASE RemoveWorker(w)
    <2>1. /\ cur[w] # NoConn
          /\ cur' = [cur EXCEPT ![w] = NoConn]
          /\ reachable' = reachable /\ run' = run
      BY <1>3 DEF RemoveWorker
    <2>2. status' = [status EXCEPT ![w] = "absent"] /\ status[w] # "absent"
      BY <2>1 DEF status, IInv, TypeOK, Reachable
    <2>3. joining' = joining \ {w}
      BY <2>1 DEF joining, IInv, TypeOK
    <2> QED
      BY <1>3, <2>2, <2>3 DEF RemoveWorker, Abs!Next, Abs!Remove
  <1>4. CASE SetWorkerDown(w)
    <2>1. PICK c \in Conn : c = cur[w]
      BY <1>4 DEF SetWorkerDown, IInv, TypeOK
    <2>2. /\ rows' = rows /\ cur' = cur /\ run' = run
          /\ reachable[c] \in {"unresponsive", "ok"}
          /\ reachable'[c] = "down"
          /\ \A d \in Conn \ {c} : reachable'[d] = reachable[d]
      BY <1>4, <2>1 DEF SetWorkerDown, IInv, TypeOK, Reachable
    <2>3. ip[c] = w
      BY <2>1 DEF IInv, OneLiveConn
    <2>4. joining' = joining
      BY <2>2 DEF joining
    <2>5. /\ status[w] = reachable[c]
          /\ status' = [status EXCEPT ![w] = "down"]
      BY <2>1, <2>2, <2>3, Visible
    <2> QED
      BY <2>2, <2>4, <2>5 DEF Abs!Next, Abs!Down
  <1> QED
    BY <1>1, <1>2, <1>3, <1>4 DEF Operator

\* A restart is the fleet's.
LEMMA RestartFleet == ASSUME IInv, Restart PROVE Abs!Restart
  <1> USE ConnAssumption
  <1>1. PICK G \in [rows -> Conn] :
          /\ run' = [c \in Conn |-> IF {w \in rows : G[w] = c} = {} THEN "none"
                                    ELSE "reconciling"]
          /\ reachable' = [c \in Conn |-> "unresponsive"]
          /\ cur' = [w \in Worker |-> IF w \in rows THEN G[w] ELSE NoConn]
    BY SMT DEF Restart, Blank
  <1>2. rows' = rows /\ rows \in SUBSET Worker
    BY DEF Restart, IInv, TypeOK
  <1>3. \A w \in rows : /\ cur'[w] = G[w] /\ G[w] \in Conn
                        /\ reachable'[G[w]] = "unresponsive"
                        /\ run'[G[w]] = "reconciling"
    BY <1>1, <1>2
  <1>4. \A w \in Worker \ rows : cur'[w] = NoConn
    BY <1>1
  <1>5. status' = [w \in Worker |-> IF w \in rows THEN "unresponsive"
                                    ELSE "absent"]
    BY SMT, <1>3, <1>4 DEF status
  <1>6. joining' = rows
    BY SMT, <1>2, <1>3, <1>4 DEF joining
  <1> QED
    BY <1>2, <1>5, <1>6 DEF Abs!Restart

\* Every step is a step of the fleet, or none.
LEMMA NextFleet == ASSUME IInv, [Next]_vars PROVE [Abs!Next]_(Abs!vars)
  <1>1. CASE UNCHANGED vars
    BY <1>1 DEF vars, fieldVars, Abs!vars, status, joining
  <1>2. CASE \E k \in Caller : ControlCall(k)
    <2>1. UNCHANGED <<rows, cur, reachable, run>>
      BY <1>2 DEF ControlCall, CallStart, CallReturns, CallEnds, CallRefused,
         CallTimesOut, NoteDropped, NoteTransportError, PingEjects,
         PingForgives, fieldVars
    <2> QED
      BY <2>1 DEF Abs!vars, status, joining
  <1>3. CASE \E w \in Worker : DaemonChanges(w)
    <2>1. UNCHANGED <<rows, cur, reachable, run>>
      BY <1>3 DEF DaemonChanges, fieldVars
    <2> QED
      BY <2>1 DEF Abs!vars, status, joining
  <1>4. CASE Restart
    BY <1>4, RestartFleet DEF Abs!Next
  <1> QED
    BY <1>1, <1>2, <1>3, <1>4, EjectFleet, RunnerFleet, OperatorFleet DEF Next

\* The connections, with all their goroutines, replacements and late errors,
\* implement the one-state-per-worker machine of module Fleet.
THEOREM FleetImplemented == Spec => ImplementsFleet
  <1>1. Init => Abs!Init
    BY SMT DEF Init, Abs!Init, status, joining
  <1> QED
    BY <1>1, InitIInv, NextIInv, NextFleet, PTL DEF Spec, ImplementsFleet,
       Abs!Spec

=============================================================================
