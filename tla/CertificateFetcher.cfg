SPECIFICATION FairSpec
CONSTANTS
    a = a  b = b  p = p  q = q
    Origin = {a, b}
    Peer = {p, q}
    MaxRound = 3
    Parents <- MCParents
    PeerStore <- MCPeerStore
    MaxItems = 2
    RoundLimit = 2
    GcDepth = 1
    MaxGc = 1
    MaxCrash = 1
INVARIANT SuspendedIsCovered
PROPERTIES SuspendedIsFetched FetchingEnds
