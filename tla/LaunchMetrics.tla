--------------------------- MODULE LaunchMetrics ---------------------------
(***************************************************************************)
(* The export of launch samples (launchMetrics in cork/launchmetrics.go):  *)
(* a goroutine takes them off a bounded channel, says what the full        *)
(* channel has dropped and writes them to a UDP socket.  A connected UDP   *)
(* socket reports a refusal on the write after the one that drew it.       *)
(***************************************************************************)
EXTENDS Naturals

CONSTANTS
    emfQueueDepth,
    MaxSamples,         \* bound: launches and teardowns that end
    MaxOutages          \* bound: times the agent goes away

ASSUME MetricsAssumption ==
    emfQueueDepth \in Nat \ {0} /\ MaxSamples \in Nat /\ MaxOutages \in Nat

VARIABLES
    ch,             \* samples in the channel
    emitter,        \* where run is with a sample: waiting for one; before reportDrops; in it; at emit
    dropped,
    loaded,         \* reportDrops' reading of dropped
    reportedDrops,
    quiet,          \* nextDropReport is yet to come
    socket,         \* "none": no conn, redial due; "wait": no conn, redial pending; "open"
    sinceDial,      \* writes that returned no error since the dial, up to two
    refused,
    agent,          \* the agent listens
    icmp,           \* a refusal the socket has not reported yet
    outages,
    recorded,       \* samples handed to record
    \* history
    told,           \* drops the log has been told of
    held,           \* the last report was held back: it came before nextDropReport
    heard           \* the last write reached an agent

dropVars == <<dropped, loaded, reportedDrops, quiet, told, held>>
socketVars == <<socket, sinceDial, refused, agent, icmp, outages, heard>>
metricsVars == <<ch, emitter, recorded, dropVars, socketVars>>

MetricsInit ==
    /\ ch = 0 /\ emitter = "waiting" /\ recorded = 0
    /\ dropped = 0 /\ loaded = 0 /\ reportedDrops = 0 /\ quiet = FALSE
    /\ told = 0 /\ held = FALSE
    /\ socket = "none" /\ sinceDial = 0 /\ refused = FALSE
    /\ agent = TRUE /\ icmp = FALSE /\ outages = 0 /\ heard = FALSE

-----------------------------------------------------------------------------
\* A full channel drops the sample rather than make the launch wait.
record ==
    /\ recorded < MaxSamples /\ recorded' = recorded + 1
    /\ IF ch < emfQueueDepth THEN ch' = ch + 1 /\ UNCHANGED dropped
       ELSE dropped' = dropped + 1 /\ UNCHANGED ch
    /\ UNCHANGED <<emitter, loaded, reportedDrops, quiet, told, held, socketVars>>

EmitterTakes ==
    /\ emitter = "waiting" /\ ch > 0
    /\ emitter' = "taken" /\ ch' = ch - 1
    /\ UNCHANGED <<recorded, dropVars, socketVars>>

loadDrops ==
    /\ emitter = "taken"
    /\ emitter' = "report" /\ loaded' = dropped
    /\ UNCHANGED <<ch, recorded, dropped, reportedDrops, quiet, told, held, socketVars>>

\* Mutant: the count is read again when it is kept.
reportDropsRereads ==
    /\ emitter = "report" /\ emitter' = "emit" /\ loaded' = 0
    /\ IF loaded = reportedDrops \/ quiet
       THEN held' = (loaded # reportedDrops) /\ UNCHANGED <<told, reportedDrops, quiet>>
       ELSE /\ told' = told + (loaded - reportedDrops)
            /\ reportedDrops' = dropped
            /\ quiet' = TRUE /\ held' = FALSE
    /\ UNCHANGED <<ch, recorded, dropped, socketVars>>

\* What was dropped since the last report is logged, at most once a dropReportInterval.
reportDrops ==
    /\ emitter = "report" /\ emitter' = "emit" /\ loaded' = 0
    /\ IF loaded = reportedDrops \/ quiet
       THEN held' = (loaded # reportedDrops) /\ UNCHANGED <<told, reportedDrops, quiet>>
       ELSE /\ told' = told + (loaded - reportedDrops)
            /\ reportedDrops' = loaded
            /\ quiet' = TRUE /\ held' = FALSE
    /\ UNCHANGED <<ch, recorded, dropped, socketVars>>

\* dropReportInterval is over.
ReportDue ==
    /\ quiet /\ quiet' = FALSE
    /\ UNCHANGED <<ch, emitter, recorded, dropped, loaded, reportedDrops, told, held, socketVars>>

\* The emitter is done with its sample.
Emitted == emitter = "emit" /\ emitter' = "waiting" /\ UNCHANGED <<ch, recorded, dropVars>>

\* fail closes the socket and schedules a redial.
fail ==
    /\ Emitted
    /\ socket' = "wait" /\ sinceDial' = 0 /\ refused' = TRUE /\ icmp' = FALSE
    /\ heard' = FALSE
    /\ UNCHANGED <<agent, outages>>

\* While a redial is pending a sample goes nowhere.
EmitWaits == socket = "wait" /\ Emitted /\ UNCHANGED socketVars

\* The name of the endpoint may not resolve.
DialFails == socket = "none" /\ fail

WriteFails == socket = "open" /\ icmp /\ fail

\* Mutant: the first write after a dial is taken for an answer.
emitBelievesFirst ==
    /\ Emitted /\ socket # "wait" /\ ~icmp
    /\ LET n == IF socket = "none" \/ sinceDial = 0 THEN 1 ELSE 2
       IN  sinceDial' = n /\ refused' = (refused /\ n < 1)
    /\ socket' = "open"
    /\ icmp' = ~agent /\ heard' = agent
    /\ UNCHANGED <<agent, outages>>

emit ==
    /\ Emitted /\ socket # "wait" /\ ~icmp
    /\ LET n == IF socket = "none" \/ sinceDial = 0 THEN 1 ELSE 2
       IN  sinceDial' = n /\ refused' = (refused /\ n < 2)
    /\ socket' = "open"
    /\ icmp' = ~agent /\ heard' = agent
    /\ UNCHANGED <<agent, outages>>

\* emfRedialInterval is over.
RedialDue ==
    /\ socket = "wait" /\ socket' = "none"
    /\ UNCHANGED <<ch, emitter, recorded, dropVars, sinceDial, refused, agent, icmp, outages, heard>>

AgentGoes ==
    /\ agent /\ outages < MaxOutages /\ agent' = FALSE /\ outages' = outages + 1
    /\ UNCHANGED <<ch, emitter, recorded, dropVars, socket, sinceDial, refused, icmp, heard>>

AgentReturns ==
    /\ ~agent /\ agent' = TRUE
    /\ UNCHANGED <<ch, emitter, recorded, dropVars, socket, sinceDial, refused, icmp, outages, heard>>

run == EmitterTakes \/ loadDrops \/ reportDrops \/ EmitWaits \/ DialFails \/ WriteFails \/ emit

MetricsNext == record \/ run \/ ReportDue \/ RedialDue \/ AgentGoes \/ AgentReturns

MetricsSpec == MetricsInit /\ [][MetricsNext]_metricsVars

\* Once the channel has run empty and the emitter is past its report, the log has been
\* told of every drop, those that came while a report was being made included, unless
\* the last report was held back for coming too soon after the one before; and it is
\* never told of more (record and reportDrops).
DropsTold ==
    /\ told <= dropped
    /\ ch = 0 /\ emitter \in {"waiting", "emit"} /\ told < dropped => held

\* The exporter says an endpoint takes samples again only when the write before
\* this one reached an agent, however the agent came and went between the dial and
\* the writes (emit's count of writes since the dial).
RecoveryIsReal == [][refused /\ ~refused' => heard]_metricsVars
=============================================================================
