CONSTANTS
    w1 = w1
    Worker <- MCWorker
    Schema <- MCSchema
    Deployed = {"s"}
    Challenge <- MCChallenge
    Gens = {1, 2}
    preloadPulls = 1
    MaxOps = 2
    MaxFaults = 1
SPECIFICATION Spec
INVARIANTS
    UsedTagged
    CoverageReported
PROPERTY
    NamedKept
    PreloadedEverywhere
    SupersededGone
CHECK_DEADLOCK FALSE
