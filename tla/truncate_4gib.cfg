CONSTANTS
    NumInodes = 3
    NumBlocks = 5
    DentriesPerBlock = 2
    MaxExtents = 2
    Names = {n1, n2}
    BlockSize = 2
    WordSize = 14
    MaxFileSize = 14
    MaxLinkedThen = 2
    MaxExcess = 1
SPECIFICATION FilesSpec
SYMMETRY NameSymmetry
CHECK_DEADLOCK FALSE
PROPERTIES ExtendedFilesHaveBlocks
