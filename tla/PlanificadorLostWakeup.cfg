SPECIFICATION FairSpec
CONSTANTS
    Esis = {e1, e2, e3}
    Keys = {k1}
    ConfigKeys = {}
    Commands <- NoCommands
    Preemptive = FALSE
    Failures = TRUE
    MaxLines = 2
    MaxCommands = 0
    NoEsi = NoEsi
    NoKey = NoKey
CHECK_DEADLOCK FALSE
PROPERTIES
    WaitersAreWoken
