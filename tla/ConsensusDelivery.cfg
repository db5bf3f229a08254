CONSTANTS
  ChannelCapacity = 1
  MaxPendingPayloads = 2
  MaxCommits = 4
  MaxGap = 2
  MaxCrash = 2
SPECIFICATION FairSpec
INVARIANTS NoPanic ExecutedIsPrefix
PROPERTIES ImplementsBroadcast EverythingExecuted
CHECK_DEADLOCK FALSE
