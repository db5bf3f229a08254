SPECIFICATION MCSpec
CONSTANTS
    v = v  w = w  c = c  d = d
    Authority = {v, w}
    Stake <- MCStake
    Byzantine = {}
    Certificate = {c, d}
    Randomness = {{}, {d}}
    Clients <- MCClients
    MaxLag = 1
    MaxCrash = 1
INVARIANT EndOfPublishRecovered
CHECK_DEADLOCK FALSE
