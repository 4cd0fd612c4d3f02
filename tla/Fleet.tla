------------------------------- MODULE Fleet -------------------------------
(***************************************************************************)
(* What the connections to the workers promise, seen from outside          *)
(* (cork/workers.go; README, "Workers"): one state per worker, whichever   *)
(* conn object stands for it and however many goroutines look after it.    *)
(*                                                                         *)
(* A worker joins placement once per connection.  After it has left, only  *)
(* a new connection, which is reconciled first, brings it back.            *)
(***************************************************************************)
CONSTANT Worker

VARIABLES
    rows,       \* the workers table
    status,     \* what worker-list reports: the worker's reachable state
    joining     \* workers whose connection has yet to be admitted

vars == <<rows, status, joining>>

Init ==
    /\ rows = {}
    /\ status = [w \in Worker |-> "absent"]
    /\ joining = {}

\* worker-add: a fresh connection, whatever the state.
Add(w) ==
    /\ rows' = rows \cup {w}
    /\ status' = [status EXCEPT ![w] = "unresponsive"]
    /\ joining' = joining \cup {w}

\* worker-add that could not build its connection.
AddFails(w) ==
    /\ rows' = rows \cup {w}
    /\ UNCHANGED <<status, joining>>

Remove(w) ==
    /\ status[w] # "absent"
    /\ rows' = rows \ {w}
    /\ status' = [status EXCEPT ![w] = "absent"]
    /\ joining' = joining \ {w}

Down(w) ==
    /\ status[w] \in {"unresponsive", "ok"}
    /\ status' = [status EXCEPT ![w] = "down"]
    /\ UNCHANGED <<rows, joining>>

\* The connection is admitted, or turned away: taken down meanwhile, or its
\* daemon never answered.
Admit(w) ==
    /\ w \in joining
    /\ status[w] = "unresponsive"
    /\ status' = [status EXCEPT ![w] = "ok"]
    /\ joining' = joining \ {w}
    /\ UNCHANGED rows

TurnAway(w) ==
    /\ w \in joining
    /\ joining' = joining \ {w}
    /\ UNCHANGED <<rows, status>>

Eject(w) ==
    /\ status[w] = "ok"
    /\ status' = [status EXCEPT ![w] = "unresponsive"]
    /\ UNCHANGED <<rows, joining>>

\* The poller found an ejected worker answering: a new connection.
Reconnect(w) ==
    /\ status[w] = "unresponsive"
    /\ w \notin joining
    /\ joining' = joining \cup {w}
    /\ UNCHANGED <<rows, status>>

\* corkd restarts with the workers of its table.
Restart ==
    /\ status' = [w \in Worker |-> IF w \in rows THEN "unresponsive" ELSE "absent"]
    /\ joining' = rows
    /\ UNCHANGED rows

Next ==
    \/ \E w \in Worker :
          \/ Add(w) \/ AddFails(w) \/ Remove(w) \/ Down(w) \/ Admit(w)
          \/ TurnAway(w) \/ Eject(w) \/ Reconnect(w)
    \/ Restart

Spec == Init /\ [][Next]_vars
=============================================================================
