CONSTANTS
    NumInodes = 3
    NumBlocks = 6
    DentriesPerBlock = 2
    MaxExtents = 2
    Names = {n1, n2}
    BlockSize = 2
    WordSize = 16
    MaxFileSize = 17
    MaxLinkedThen = 2
    MaxExcess = 1
SPECIFICATION FilesSpec
SYMMETRY NameSymmetry
CHECK_DEADLOCK FALSE
CONSTRAINT SmallOnceOversized
INVARIANTS
    FilesDense
    CounterCoversUse
PROPERTIES
    FailureKeepsBytes
