SPECIFICATION Spec
CONSTANTS
    p1 = p1
    p2 = p2
    Participants = {p1, p2}
    Request <- TwoRequests
    BoundRun <- TwoRuns
    NoRun = "none"
    SessionTtl = 4
    IdleTtl = 2
    BindingTtl = 5
    Lead = 1
    RetryDelay = 1
    JoinDelay = 1
    LastJoin = 0
    MaxStrays = 1
    MaxTime = 5
CHECK_DEADLOCK FALSE
INVARIANTS
    ActiveIsAuthorised
    GrantedForTheBinding
PROPERTIES
    DeadSessionIsNoticed
    ScrubbedStays
