SPECIFICATION FairSpec
CONSTANTS
    c1 = c1
    c2 = c2
    NoVisitor = NoVisitor
    Clients <- MCClients
    Cost = 2
    Rate = 1
    Burst = 3
    TTL = 3
    SweepEvery = 2
    RetryAfter = 2
    AgeCap = 4
    AuditTicks = 3
INVARIANTS TypeOK WindowBound RetryAfterHonoured
PROPERTIES ImplementsTokenBucket IdleVisitorsForgotten
