CONSTANTS
    NumInodes = 4
    NumBlocks = 6
    DentriesPerBlock = 2
    MaxExtents = 2
    Names = {n1, n2}
    MaxDirectories = 3
    MaxSubEntries = 2
    MaxLeaked = 9
SPECIFICATION Spec
SYMMETRY NameSymmetry
CONSTRAINT SmallTree
CHECK_DEADLOCK FALSE
INVARIANTS FreeBlockIsFound
