SPECIFICATION Spec
CONSTANTS
    MtuValues <- MCMtuValues
    MaxProxies = 1
INVARIANT GroupFreedThroughItsRing
CHECK_DEADLOCK FALSE
