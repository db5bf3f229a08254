CONSTANTS
  Digest = {d1, d2}
  SystemMessage = {m1}
  MaxHeaderNumOfBatches = 1
  MaxHeaders = 3
  MaxMessages = 2
  MaxCrash = 1
SPECIFICATION FairSpec
PROPERTY EventuallyCommitted
INVARIANTS AckedIsTracked CommittedOnce
