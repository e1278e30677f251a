CONSTANTS
    NumInodes = 6
    NumBlocks = 5
    DentriesPerBlock = 2
    MaxExtents = 2
    Names = {n1, n2, n3}
    MaxKills = 1
    MaxRemovals = 1
    MaxDirectories = 2
    MaxSubEntries = 1
    MaxLeaked = 2
SPECIFICATION Spec
SYMMETRY NameSymmetry
CHECK_DEADLOCK FALSE
CONSTRAINT SmallImage
INVARIANTS
    AdditionsOnlyLeak
    
    CountersDrift
    RemovalsTearTheEnd
    CountsDifferPerKill
    AbsentNamesPerKill
PROPERTIES
    SeenOldOrNew
    ImplementsNamespace
