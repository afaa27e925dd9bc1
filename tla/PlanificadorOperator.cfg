SPECIFICATION Spec
CONSTANTS
    Esis = {e1, e2}
    Keys = {k1}
    ConfigKeys = {}
    Commands <- EveryCommand
    Preemptive = FALSE
    Failures = TRUE
    MaxLines = 2
    MaxCommands = 2
    NoEsi = NoEsi
    NoKey = NoKey
SYMMETRY Symmetry
CHECK_DEADLOCK FALSE
INVARIANTS
    TypeOK
    QueuesExist
    AtMostOneOperation
    NothingIdles
