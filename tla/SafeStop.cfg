CONSTANTS
    Boards = {b1, b2}
    MaxRuns = 1
    Faults = {"native", "crash", "helper", "launcher"}
    Launcher = launcher
    DirectHelpers = {direct}
    AllowLegacy = FALSE
    Services = {}
    Commands = {"start", "stop"}
    None = none
SYMMETRY BoardSymmetry
SPECIFICATION Spec
PROPERTIES
    ImplementsFleet
INVARIANTS
    TypeOK
    AcceptedStopIsReal
    StopPermitsStart
CHECK_DEADLOCK FALSE
