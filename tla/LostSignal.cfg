CONSTANTS
    Boards = {b1}
    MaxRuns = 1
    Faults = {}
    Launcher = launcher
    DirectHelpers = {direct}
    AllowLegacy = FALSE
    Services = {}
    Commands = {"start", "stop"}
    None = none
SPECIFICATION FairSpec
PROPERTIES
    PendingStopResolves
CHECK_DEADLOCK FALSE
