SPECIFICATION Spec
CONSTANTS
    ann = ann
    f1 = f1
    r1 = r1
    r2 = r2
    None = None
    Shared = Shared
    Users <- MCUsers
    References <- MCReferences
    Requests <- MCRequests
    PerDay <- MCPerDay
    Year <- MCYear
    Horizon <- MCHorizon
SYMMETRY Symmetric
INVARIANTS TypeOK AccessUntilEnd ExpiryNoticed LapseIsFinal
