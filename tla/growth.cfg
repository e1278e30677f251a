CONSTANTS
    NumInodes = 6
    NumBlocks = 6
    DentriesPerBlock = 2
    MaxExtents = 2
    Names = {n1, n2, n3}
    MaxDirectories = 2
    MaxSubEntries = 1
    MaxLeaked = 1
SPECIFICATION FirstMountSpec
SYMMETRY NameSymmetry
CONSTRAINT SmallTree
CHECK_DEADLOCK FALSE
INVARIANTS
    BlocksCounted
    DirectoriesDense
    BlocksOwnedOnce
    OwnedAllocated
PROPERTIES
    SuccessLeaksNothing
