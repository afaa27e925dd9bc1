SPECIFICATION Spec
CONSTANTS
    Keys = {k1, k2, k3}
    Values <- MixedValues
    Size <- SizeOfMixed
    EntriesAmount = 3
    EntrySize = 2
    Algorithms = {"CIRC", "LRU", "BSU"}
    Falls = TRUE
    DiskFails = TRUE
    NoKey = NoKey
    NoValue = NoValue
    v1 = v1
    v3 = v3
    v9 = v9
INVARIANT TypeOK
INVARIANT StoreIsKept
INVARIANT BitmapIsTable
INVARIANT ValuesIntact
INVARIANT RetryFits
INVARIANT SpaceNeverUnderstated
SYMMETRY Symmetry
