CONSTANTS
    Worker = {w1, w2, w3}
    NoWorker = NoWorker
    loadMissesToUnknown = 2
    MaxRemovals = 2
SPECIFICATION PlacementSpec
SYMMETRY Symmetry
INVARIANT TurnsComeRound FailsOnlyExhausted VerdictIsFresh
