CONSTANTS
    Id = {i1}
    Stopper = {s1}
    Port = {p1}
    NoPort = NoPort
    NoId = NoId
    Pruning = FALSE
    Mortal = FALSE
    MaxFaults = 0
SPECIFICATION Spec
SYMMETRY Symmetry
INVARIANT ReservedWhileRunning
CHECK_DEADLOCK FALSE
