SPECIFICATION MCSpec
CONSTANTS
    Schema = {"s1", "s2"}
    Dest = {"A", "B"}
    MaxGen = 2
    MaxOps = 3
    MaxFaults = 1
INVARIANTS ServedIsPullable BundlesAddressed
PROPERTIES ImplementsCustody Redeploys
CHECK_DEADLOCK FALSE
