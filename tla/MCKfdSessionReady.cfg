SPECIFICATION Spec
CONSTANTS
    NumNodes = 3
    Gpus = {2, 3}
    MaxFd = 4
    MaxOpens = 2
INVARIANT
    AcquireMeansReady
CHECK_DEADLOCK FALSE
