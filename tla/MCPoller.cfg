CONSTANTS
    Caller = {k1}
    Self = Self
    maxMisses = 2
    healthyThreshold = 2
    BackoffMax = 2
    MaxEjections = 3
SPECIFICATION FairSpec
INVARIANT EscalationKept
PROPERTY RecoveryIsEarned Recovers Leaves
