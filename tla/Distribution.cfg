SPECIFICATION Spec
CONSTANTS
    Instancias = {i1, i2, i3, i4}
    kA = kA
    kZ = kZ
    kLow = kLow
    kHigh = kHigh
    Keys = {kA, kZ, kLow, kHigh}
    Letter <- Letters
    Algorithms = {"EL", "LSU", "KE"}
    MaxSpace = 1
    NoInstancia = NoInstancia
SYMMETRY Symmetry
INVARIANTS
    TypeOK
    RoundRobin
    SomebodyIsNext
    IndexIsInList
    SimulationPredicts
