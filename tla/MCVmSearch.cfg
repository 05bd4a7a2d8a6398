SPECIFICATION FairSearchSpec
CONSTANTS
    MaxNodes = 5
    Keys <- Objects
    Addresses = {0, 1, 3, 4, 6, 7}
INVARIANTS
    WalkStaysInBounds
    FindsCovering
PROPERTIES
    PrevIsPredecessor
    EndsUnlessPrevSpins
CHECK_DEADLOCK FALSE
