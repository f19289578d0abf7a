CONSTANTS
    Boards = {b1}
    MaxRuns = 2
    Faults = {"native"}
    Launcher = launcher
    DirectHelpers = {direct}
    AllowLegacy = FALSE
    Services = {}
    Commands = {"start", "stop"}
    None = none
SPECIFICATION Spec
INVARIANTS
    FailedStopBlocksStart
CHECK_DEADLOCK FALSE
