SPECIFICATION FairSpec
CONSTANTS
    b1 = b1  a2 = a2  b2 = b2  a3 = a3  b3 = b3
    Certificate = {b1, a2, b2, a3, b3}
    RoundOf <- MCRoundOf
    Parents <- MCParents
    GcDepth = 1
    RoundLimit = 2
    MaxQueue = 1
    MaxBatch = 1
    MaxCrash = 1
CHECK_DEADLOCK FALSE
INVARIANTS OnlySuspendedPanic StoreCausal SuspensionConsistent SuspendedForAReason ParentsRecovered
PROPERTY EventuallyAccepted
