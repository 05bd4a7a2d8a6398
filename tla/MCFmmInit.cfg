SPECIFICATION FairSpec
CONSTANTS
    Machines <- SomeMachines
    HugePage = 4
    Canonical = 16
    ReservationLimit = 13
    MinVmSize = 4
INVARIANTS
    TypeOK
    EntriesMatch
    SvmIsCommon
    MmioIsPrepared
PROPERTY
    EndsUnlessReserving
CHECK_DEADLOCK FALSE
