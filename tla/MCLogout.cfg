SPECIFICATION WatchSpec
CONSTANTS
    u1 = u1
    u2 = u2
    t1 = t1
    t2 = t2
    r1 = r1
    r2 = r2
    None = None
    Users <- MCUsers
    Tokens <- MCTokens
    Requests <- MCRequests
    Idle = 1
    Lifetime = 2
    MaxTouches = 1
    Faults = FALSE
INVARIANTS LogoutTerminates
