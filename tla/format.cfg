CONSTANTS
    A1FS_BLOCK_SIZE = 4
    InodeSize = 2
    WordSize = 64
    Sizes = {0, 4, 6, 8, 16, 20, 24, 36, 44, 60, 64, 72}
    InodeCounts = {0, 1, 2, 5, 9, 17, 64, 66}
SPECIFICATION Spec
INVARIANTS
    AcceptedFits
    MountAgrees
    BitmapsStartClear
