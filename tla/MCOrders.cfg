SPECIFICATION FairSpec
CONSTANTS
    i1 = i1
    i2 = i2
    e1 = e1
    r1 = r1
    r2 = r2
    None = None
    Blank = Blank
    Ids <- MCIds
    Refs <- MCRefs
    Matches <- MCMatches
    Requests <- MCRequests
    Written = {"pending", "shipped"}
    Failing = {"insert", "fallback", "lookup", "confirm", "status"}
    MaxRestarts = 1
INVARIANTS TypeOK ConfirmedMeansPaid PaidIsAcknowledged HoldersNeverWait
PROPERTIES ChargesSettle ImplementsLedger
