CONSTANTS
    j1 = j1
    j2 = j2
    Job = {j1, j2}
    Kinds <- MCKinds
    Slots = 1
    slotWait = 3
    Holds = {4}
    MaxConns = 2
    emfQueueDepth = 2
    MaxSamples = 7
    MaxOutages = 2
    launchRingSize = 3
    MaxLaunches = 6
    Durations = {0, 1, 2, 3}
    callTimeout = 2
    window = 8
    limit = 3
    MaxTimeouts = 6
    MaxTime = 9
SPECIFICATION MCSpec
INVARIANT QueuesBalance
INVARIANT OnlyStrandedExceed
 
INVARIANT DropsTold
INVARIANT RingIsRecent
INVARIANT StallVerdicts
PROPERTY RecoveryIsReal
PROPERTY JobsEnd
CHECK_DEADLOCK FALSE
