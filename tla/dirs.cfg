CONSTANTS
    NumInodes = 4
    NumBlocks = 5
    DentriesPerBlock = 2
    MaxExtents = 2
    Names = {n1, n2, n3}
    MaxDirectories = 4
    MaxSubEntries = 3
    MaxLeaked = 9
SPECIFICATION Spec
SYMMETRY NameSymmetry
CHECK_DEADLOCK FALSE
INVARIANTS
    TypeOK
    InodesCounted
    BlocksCounted
    ListedOnce
    LinkedAllocated
    LinksCounted
    DirectoriesDense
    BlocksOwnedOnce
    OwnedAllocated
    ReachedFromRoot
    PathsNameInodes
    ReaddirListsLookups
    FreeAndUsedAddUp
    SetattrAnswersFromTheRoot
PROPERTIES
    SuccessLeaksNothing
    ImplementsTree
