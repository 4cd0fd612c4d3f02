CONSTANTS
    w1 = w1
    w2 = w2
    Id = {1, 2, 3}
    Worker = {w1, w2}
    NoWorker = NoWorker
    NoPort = NoPort
    p1 = p1
    p2 = p2
    Port = {p1, p2}
    Starter = {s1}
    Stopper = {t1}
    Counts <- MCCounts
    MaxGen = 2
    MaxOps = 2
    MaxRequests = 2
    MaxFaults = 1
SPECIFICATION Spec
INVARIANT RunsRecorded
INVARIANT CountHeld
INVARIANT MovesReported
INVARIANT RemovalFinal
SYMMETRY Symmetry
CHECK_DEADLOCK FALSE
