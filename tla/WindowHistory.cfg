CONSTANTS
    Requests = {r1, r2}
    MaxRows = 3
    CompactEvery = 2
    MaxWindows = 4
    MaxRestarts = 1
    MaxFaults = 1
    None = none
SPECIFICATION Spec
INVARIANTS
    TypeOK
    StatsFresh
    LossBounded
    FileBounded
    RegistryKept
SYMMETRY Symmetry
CHECK_DEADLOCK FALSE
