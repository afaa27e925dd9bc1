SPECIFICATION FairSpec
CONSTANTS
    Keys = {k1, k2}
    Values <- AllValues
    Size <- SizeOfAll
    EntriesAmount = 3
    EntrySize = 2
    Algorithms = {"CIRC", "LRU", "BSU"}
    Falls = TRUE
    DiskFails = TRUE
    NoKey = NoKey
    NoValue = NoValue
    v1 = v1
    v3 = v3
    v9 = v9
PROPERTY SetEnds
