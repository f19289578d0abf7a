CONSTANTS
    Polls = {p1, p2}
    CachedPolls = {p1}
    Chats = {c1}
    EventCount = 2
    Loop = TRUE
    MaxCycle = 2
    MaxFailures = 1
    MaxChats = 1
    Exceptions = TRUE
    None = none
SPECIFICATION Spec
INVARIANTS
    TypeOK
    ClaimsExclusive
PROPERTIES
    ImplementsLedger
CHECK_DEADLOCK FALSE
