CONSTANTS
    Boards = {b1}
    MaxRuns = 2
    Faults = {"native", "exception", "crash", "helper", "pidlost", "reuse"}
    Launcher = launcher
    DirectHelpers = {direct}
    AllowLegacy = TRUE
    Services = {}
    Commands = {"start", "stop"}
    None = none
SPECIFICATION Spec
INVARIANTS
    AtMostOneInterrupt
    SignalIsOnRecord
    GateFindsBoardsIdle
    LegacyStopCoversStarted
PROPERTIES
    RequestOutlivesFailure
CHECK_DEADLOCK FALSE
