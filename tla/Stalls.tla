------------------------------- MODULE Stalls -------------------------------
(***************************************************************************)
(* Counting the stalls of a worker's daemon (noteTimeout in                *)
(* cork/workers.go): a control call that timed out although the daemon     *)
(* answered a ping.  Calls that time out together are one stall; enough    *)
(* stalls within the window eject the worker, and the count starts again.  *)
(* Timeouts are noted in the order of the clock.                           *)
(***************************************************************************)
EXTENDS Integers, Sequences, FiniteSets

CONSTANTS callTimeout, window, limit

ASSUME StallsAssumption == {callTimeout, window, limit} \subseteq Nat \ {0}

VARIABLES
    timeouts,       \* the stalls remembered, each by the time it was counted at: no
                    \* two are closer than a call timeout, so a set holds them all
    eject,          \* the verdict on the latest timeout
    times           \* history: the timeouts noted since the last ejection

stallVars == <<timeouts, eject, times>>

StallsInit == timeouts = {} /\ eject = FALSE /\ times = <<>>

\* Mutant: a call is compared with the last timeout seen, counted or not.
noteTimeoutSlides(now) ==
    LET recent == {at \in timeouts : now - at < window}
        same   == {at \in recent : now - at < callTimeout}
    IN  IF same # {} THEN timeouts' = (recent \ same) \cup {now} /\ eject' = FALSE
        ELSE IF Cardinality(recent) + 1 < limit
        THEN timeouts' = recent \cup {now} /\ eject' = FALSE
        ELSE timeouts' = {} /\ eject' = TRUE

\* A timeout within a call timeout of the latest stall, which is the nearest, is of
\* that stall.
noteTimeout(now) ==
    LET recent == {at \in timeouts : now - at < window}
    IN  IF \E at \in recent : now - at < callTimeout
        THEN timeouts' = recent /\ eject' = FALSE
        ELSE IF Cardinality(recent) + 1 < limit
        THEN timeouts' = recent \cup {now} /\ eject' = FALSE
        ELSE timeouts' = {} /\ eject' = TRUE

CallTimesOut(now) ==
    /\ \A i \in DOMAIN times : times[i] <= now
    /\ noteTimeout(now)
    /\ times' = Append(IF eject THEN <<>> ELSE times, now)

StallsSpec == StallsInit /\ [][\E now \in Nat : CallTimesOut(now)]_stallVars

-----------------------------------------------------------------------------
\* The timeouts of a history that fall in the window of its last one.
Recent(s) == {i \in DOMAIN s : s[Len(s)] - s[i] < window}

\* Some of them, each a call timeout or more after the one before: no single stall.
Separate(s, I) == \A i, k \in I : i < k => s[k] - s[i] >= callTimeout

\* Those that come after a call timeout of quiet.
Bursts(s) == {i \in Recent(s) : i = 1 \/ s[i] - s[i - 1] >= callTimeout}

\* noteTimeout ejects a worker only on `limit' timeouts within the window that lie a
\* call timeout apart, the last one among them, so that no single stall of the daemon
\* counts twice.  It never misses `limit' bursts each preceded by a call timeout of
\* quiet, nor one timeout more than that of a trickle without quiet.
StallVerdicts ==
    /\ eject => \E I \in SUBSET Recent(times) :
                   Cardinality(I) = limit /\ Len(times) \in I /\ Separate(times, I)
    /\ ~eject => /\ Cardinality(Bursts(times)) < limit
                 /\ \A I \in SUBSET Recent(times) : Separate(times, I) => Cardinality(I) <= limit
=============================================================================
