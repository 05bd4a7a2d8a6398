SPECIFICATION FairSpec
CONSTANTS
    Modulus = 8
    Layouts <- Machines
    MaxGeneration = 3
INVARIANTS
    TypeOK
    OnlyLoadIsOlder
    LinkCountAgrees
    QuietSnapshotIsExact
PROPERTY
    EndsUnlessUnavailable
CHECK_DEADLOCK FALSE
