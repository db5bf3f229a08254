SPECIFICATION MCSpec
CONSTANTS
  a1 = a1
  a2 = a2
  a3 = a3
  b = b
  p1 = p1
  p2 = p2
  Authority = {a1, a2, a3, b}
  Byzantine = {b}
  Stake <- UnitStake
  Author = {a1, b}
  Payload = {p1, p2}
  MaxRound = 2
  MaxCrash = 1
  MaxQueue = 1
  InflightLimit = 1
SYMMETRY VoterSymmetry
INVARIANTS
  VoteOnce
  NoEquivocation
  CertificateUnique
PROPERTY
  VoteStoreMonotonic
