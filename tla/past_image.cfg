CONSTANTS
    NumInodes = 6
    NumBlocks = 5
    DentriesPerBlock = 2
    MaxExtents = 2
    Names = {n1, n2, n3}
    MaxDirectories = 3
    MaxSubEntries = 3
    MaxLeaked = 9
SPECIFICATION FirstMountSpec
SYMMETRY NameSymmetry
CONSTRAINT SmallTree
CHECK_DEADLOCK FALSE
INVARIANTS BlocksInImage
