CONSTANTS
    Id = {i1}
    Stopper = {s1, s2}
    Port = {p1}
    NoPort = NoPort
    NoId = NoId
    Pruning = TRUE
    Mortal = TRUE
    MaxFaults = 2
SPECIFICATION Spec
SYMMETRY Symmetry
INVARIANT PassSparesRecorded Accounted
CHECK_DEADLOCK FALSE
