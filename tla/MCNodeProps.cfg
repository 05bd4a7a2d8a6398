SPECIFICATION Spec
CONSTANTS
    Gfxip <- Table
    Machines <- SomeMachines
    MaxChanges = 2
INVARIANTS
    TypeOK
    CountsAgree
    ListedOnce
    PanicsForAReason
    EngineDecides
CHECK_DEADLOCK FALSE
