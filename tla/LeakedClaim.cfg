CONSTANTS
    Polls = {p1, p2}
    CachedPolls = {}
    Chats = {c1}
    EventCount = 1
    Loop = TRUE
    MaxCycle = 2
    MaxFailures = 1
    MaxChats = 1
    Exceptions = TRUE
    None = none
SYMMETRY PollSymmetry
SPECIFICATION Spec
INVARIANTS
    ClaimsAccounted
CHECK_DEADLOCK FALSE
