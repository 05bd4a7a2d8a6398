SPECIFICATION FairSpec
CONSTANTS
    MaxNodes = 8
    Keys <- TwoKeys
INVARIANTS
    TypeOK
    ReadsAreValid
    LinksAgree
    OrderAndBalance
PROPERTIES
    ImplementsIndex
    InsertReturns
CHECK_DEADLOCK FALSE
