CONSTANTS
    Boards = {b1}
    MaxRuns = 1
    Faults = {"external", "service"}
    Launcher = launcher
    DirectHelpers = {}
    AllowLegacy = FALSE
    Services = {"webchat", "geniex"}
    Commands = {"start", "stop", "restart", "stop-model", "restart-webchat"}
    None = none
SPECIFICATION FairSpec
PROPERTIES
    SignalEndsLogger
    PendingStopResolves
    ServicesGoLast
CHECK_DEADLOCK FALSE
