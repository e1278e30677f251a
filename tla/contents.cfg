CONSTANTS
    NumInodes = 4
    NumBlocks = 7
    DentriesPerBlock = 2
    MaxExtents = 2
    Names = {n1, n2}
    BlockSize = 3
    MaxFileSize = 5
    Bytes = {1}
    OldByte = 2
    WordSize = 27
    OldBits = {6}
    SearchLengths = {4, 7}
    MaxFiles = 2
    MaxSubdirectories = 1
    MaxSubEntries = 1
    MaxLeaked = 0
    MaxStale = 3
SPECIFICATION ContentsSpec
SYMMETRY NameSymmetry
CHECK_DEADLOCK FALSE
CONSTRAINT SmallImage
INVARIANTS
    ReadsReturnWrites
