SPECIFICATION ObjectsSpec
CONSTANTS
    LastPage = 6
    Base = 2
    Limit = 5
    Guard = 1
    MinAlign = 1
    AlignmentSize = 2
    Powers = {1, 2}
    Sizes = {1}
    Gpus = 2
INVARIANTS
    ObjectsTypeOK
    MmioIsBacked
    OwnObject
PROPERTY
    ImplementsAperture
