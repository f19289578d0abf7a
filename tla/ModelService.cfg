CONSTANTS
    Requests = {r1, r2, r3}
    ImageRequests = {r1}
    Main = main
    Configs <- UsualConfigs
    MaxBodies = 2
    ServerTimeout = 1
    CallerTimeout = 1
    WatchdogLimit = 1
    ReloadBudget = 2
    FailureLimit = 2
    Wedges = {"template", "generate", "reload"}
    None = none
SPECIFICATION FairSpec
INVARIANTS
    TypeOK
    LeakBounded
    BreakerStopsNative
    ImagesReclaimed
    QuietIsWhole
    ModelOrBreaker
PROPERTIES
    SingleShot
    EveryoneAnswered
    LockComesBack
CHECK_DEADLOCK FALSE
