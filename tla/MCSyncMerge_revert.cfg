SPECIFICATION Spec
CONSTANTS
    s1 = s1
    s2 = s2
    Linked <- One
    MaxChapter = 2
    Status = {"reading", "completed"}
    Reading = "reading"
    Policies = {"local_wins"}
    Start <- Settled
    Foreign <- Nobody
    MaxEdits = 1
    MaxRequests = 1
    MaxUpsets = 0
    None = None
INVARIANT RevertSticks
CHECK_DEADLOCK FALSE
