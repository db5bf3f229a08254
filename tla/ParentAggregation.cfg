SPECIFICATION Spec
CONSTANTS
    v1 = v1  v2 = v2  v3 = v3  v4 = v4
    Authority = {v1, v2, v3, v4}
    Stake <- EqualStake
    Byzantine = {}
    MaxRound = 2
    MaxCrash = 1
INVARIANTS HeaderHasQuorum ParentsAccepted AllParentsDelivered
SYMMETRY Symmetry
CHECK_DEADLOCK FALSE
