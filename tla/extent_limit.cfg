CONSTANTS
    NumInodes = 6
    NumBlocks = 6
    DentriesPerBlock = 2
    MaxExtents = 1
    Names = {n1, n2, n3}
    MaxDirectories = 2
    MaxSubEntries = 2
    MaxLeaked = 9
SPECIFICATION FirstMountSpec
SYMMETRY NameSymmetry
CONSTRAINT SmallTree
CHECK_DEADLOCK FALSE
INVARIANTS ExtentsFit
