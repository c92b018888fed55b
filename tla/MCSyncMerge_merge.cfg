SPECIFICATION FairSpec
CONSTANTS
    s1 = s1
    s2 = s2
    Linked <- Two
    MaxChapter = 2
    Status = {"reading", "completed"}
    Reading = "reading"
    Policies = {"newest_wins", "ask_me"}
    Start <- Settled
    Foreign <- Ahead
    MaxEdits = 1
    MaxRequests = 1
    MaxUpsets = 1
    None = None
INVARIANTS
    TypeOK
    RecordedWasHeld
PROPERTIES
    MergeAgrees
    ComesToRest
CHECK_DEADLOCK FALSE
