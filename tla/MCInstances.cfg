CONSTANTS
    Id = {i1, i2}
    Stopper = {s1}
    Port = {p1}
    NoPort = NoPort
    NoId = NoId
    Pruning = TRUE
    Mortal = FALSE
    MaxFaults = 1
SPECIFICATION Spec
SYMMETRY Symmetry
INVARIANT BindSucceeds
CHECK_DEADLOCK FALSE
