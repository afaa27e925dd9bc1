SPECIFICATION FairSpec
CONSTANTS
    Esis = {e1, e2}
    Keys = {k1}
    Instancias = {i1, i2}
    Letter <- Letters
    Algorithms = {"EL"}
    MaxSpace = 0
    MaxOperations = 3
    MaxStatus = 1
    MaxFalls = 2
    MaxEvents = 2
    NoEsi = NoEsi
    NoInstancia = NoInstancia
    Planificador = Planificador
    NoThread = NoThread
CHECK_DEADLOCK FALSE
INVARIANTS
    TypeOK
    KeyInOneInstancia
    OutcomeIsOwnIfSent
    CompactPostsAreAwaited
    SetKeysAreKnown
PROPERTY EveryoneIsAnswered
