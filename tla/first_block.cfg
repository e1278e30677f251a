CONSTANTS
    NumInodes = 3
    NumBlocks = 7
    DentriesPerBlock = 2
    MaxExtents = 2
    Names = {n1, n2}
    BlockSize = 2
    WordSize = 18
    MaxFileSize = 8
    MaxLinkedThen = 2
    MaxExcess = 1
SPECIFICATION FilesSpec
SYMMETRY NameSymmetry
CHECK_DEADLOCK FALSE
INVARIANTS FileBlocksMarked
