CONSTANTS
  Ref = ref
  Validator = {ref, v}
  Authority <- MCAuthority
  Stake <- UnitStake
  Byzantine = {}
  BaseLeader <- MCBaseLeader
  SwapSeed <- MCSwapSeed
  BadNodesThreshold = 33
  Dags <- MCDags
  CreatedAt <- MCCreatedAt
  NumSubDagsPerSchedule = 2
  GcDepth = 3
  MaxCrash = 1
  LastRound = 7
  Omitting3 = {{}, {0, 1, 2}, {0, 1, 2, 3}}
  Omitting4 = {{}, {0, 3}}
  Omitting5 = {{}, {1, 2, 3}, {0, 1, 2, 3}}
SPECIFICATION MCSpec
INVARIANTS NoPanic NoDuplicateCommit CommittedCausally RecoverySame ScheduleSound
PROPERTIES AppendOnly ImplementsBroadcast
