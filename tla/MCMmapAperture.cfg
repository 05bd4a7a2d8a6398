SPECIFICATION Spec
CONSTANTS
    LastPage = 8
    Base = 2
    Limit = 6
    Guard = 1
    MinAlign = 1
    AlignmentSize = 2
    Powers = {1, 2, 4}
    Sizes = {1, 2}
INVARIANTS
    TypeOK
    MappedExactly
    AreasApart
    PlacedInAperture
