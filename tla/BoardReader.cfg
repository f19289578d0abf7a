CONSTANTS
    Callers = {c1, c2}
    Warmers = {w1}
    Main = main
    Timeout = 1
    Grace = 2
    Faults <- AllFaults
    None = none
SPECIFICATION FairSpec
INVARIANTS
    TypeOK
    NothingGivenUp
PROPERTIES
    YoungSpared
    LiveWorkerKept
    EveryReadEnds
    BoardRecovers
CHECK_DEADLOCK FALSE
