SPECIFICATION FairSpec
CONSTANTS
    Machines <- SomeMachines
    HugePage = 4
    Canonical = 16
    ReservationLimit = 13
    MinVmSize = 4
INVARIANT
    PolicyMatchesAperture
CHECK_DEADLOCK FALSE
