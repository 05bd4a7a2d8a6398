SPECIFICATION Spec
CONSTANTS
    MaxNodes = 8
    Keys <- TwoKeys
INVARIANT
    NothingIsLost
CHECK_DEADLOCK FALSE
