SPECIFICATION Spec
CONSTANTS
    Capacity = 2
    DrainLimit = 2
    MaxSeq = 4
    MaxBoot = 2
INVARIANTS InOrder BufferIsRecent GapsAreExplained
PROPERTY BufferDrains
CHECK_DEADLOCK TRUE
