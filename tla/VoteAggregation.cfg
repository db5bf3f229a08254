SPECIFICATION Spec
CONSTANTS
    v1 = v1  v2 = v2  v3 = v3  v4 = v4  v5 = v5  v6 = v6
    Authority <- SixAuthorities
    Stake <- UnequalStake
    Byzantine <- TwoByzantine
    Self = v1
    MaxTask = 2
INVARIANTS AggregatorExact CertificateSound QuorumCertifies
CHECK_DEADLOCK FALSE
