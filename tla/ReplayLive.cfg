CONSTANTS
    Polls = {p1, p2}
    CachedPolls = {p1}
    Chats = {c1}
    EventCount = 2
    Loop = FALSE
    MaxCycle = 0
    MaxFailures = 2
    MaxChats = 1
    Exceptions = FALSE
    None = none
SPECIFICATION FairSpec
INVARIANTS
    ClaimsAccounted
PROPERTIES
    EveryEventAnalysed
CHECK_DEADLOCK FALSE
