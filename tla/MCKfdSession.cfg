SPECIFICATION Spec
CONSTANTS
    NumNodes = 3
    Gpus = {2, 3}
    MaxFd = 4
    MaxOpens = 2
INVARIANTS
    TypeOK
    DescriptorsAreValid
    RenderOpenedOnce
    ReadyHasEveryGpu
CHECK_DEADLOCK FALSE
