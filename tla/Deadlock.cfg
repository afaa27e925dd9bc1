SPECIFICATION DeadlockSpec
CONSTANTS
    Esis = {e1, e2, e3, e4}
    Keys = {k1, k2, k3, k4}
    Reserved = {}
SYMMETRY Symmetry
INVARIANTS
    ReportIsRight
PROPERTY DeadlockLasts
