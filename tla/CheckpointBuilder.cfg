SPECIFICATION Spec
CONSTANTS
    Transaction <- MCTransaction
    Scenarios <- MCScenarios
    Size <- MCSize
    MaxTransactions = 2
    MaxSize = 2
    MaxCrash = 1
    MaxError = 1
INVARIANTS
    CheckpointsAgree
    CausallyOrdered
PROPERTY PendingIsBuilt
CHECK_DEADLOCK FALSE
