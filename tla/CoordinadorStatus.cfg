SPECIFICATION FairSpec
CONSTANTS
    Esis = {e1, e2}
    Keys = {k1}
    Instancias = {i1, i2}
    Letter <- Letters
    Algorithms = {"EL"}
    MaxSpace = 0
    MaxOperations = 3
    MaxStatus = 1
    MaxFalls = 0
    MaxEvents = 1
    NoEsi = NoEsi
    NoInstancia = NoInstancia
    Planificador = Planificador
    NoThread = NoThread
CHECK_DEADLOCK FALSE
PROPERTY RequestsAreAnswered
