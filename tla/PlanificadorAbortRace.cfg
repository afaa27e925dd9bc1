SPECIFICATION FairSpec
CONSTANTS
    Esis = {e1}
    Keys = {k1}
    ConfigKeys = {}
    Commands <- KillCommands
    Preemptive = FALSE
    Failures = FALSE
    MaxLines = 2
    MaxCommands = 1
    NoEsi = NoEsi
    NoKey = NoKey
CHECK_DEADLOCK FALSE
PROPERTIES
    OperationEnds
