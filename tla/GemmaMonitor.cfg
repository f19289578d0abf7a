CONSTANTS
    Pages = {p1}
    MaxGets = 1
    Stale = 0
    MaxLag = 1
    WatchdogLimit = 1
    MaxSwitches = 1
    MaxChats = 1
    MaxFaults = 1
    None = none
SPECIFICATION FairSpec
INVARIANTS
    PageFollowsSwitch
    ServedIsRecent
PROPERTIES
    VerdictReturns
CHECK_DEADLOCK FALSE
