SPECIFICATION FairSpec
CONSTANTS
    Esis = {e1, e2, e3}
    Keys = {k1}
    ConfigKeys = {}
    Commands <- NoCommands
    Preemptive = TRUE
    Failures = TRUE
    MaxLines = 2
    MaxCommands = 0
    NoEsi = NoEsi
    NoKey = NoKey
CHECK_DEADLOCK FALSE
INVARIANTS
    FreeKeyHasRetrier
    MutualExclusion
    LockTablesAgree
    GrantIsFresh
PROPERTIES
    ImplementsKeyLocks
    EveryEsiFinishes
    OperationEnds
