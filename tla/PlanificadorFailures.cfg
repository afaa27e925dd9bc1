SPECIFICATION DeathsSpec
CONSTANTS
    Esis = {e1, e2, e3}
    Keys = {k1, k2, k3}
    ConfigKeys = {k3}
    Commands <- NoCommands
    Preemptive = FALSE
    Failures = TRUE
    MaxLines = 2
    MaxCommands = 0
    MaxDeaths = 1
    NoEsi = NoEsi
    NoKey = NoKey
SYMMETRY Symmetry
CHECK_DEADLOCK FALSE
INVARIANTS
    OnePlace
    OperationIsOfRunning
    LocksSurviveDeaths
