SPECIFICATION Spec
CONSTANTS
    NumGpus = 2
    Hole = 4
    End = 18
    KernelRanges <- SomeRanges
INVARIANTS
    TypeOK
    NoSharedAddress
    GivesUpOnlyIfFull
CHECK_DEADLOCK FALSE
