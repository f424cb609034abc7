SPECIFICATION Spec
CONSTANTS
    u1 = u1
    u2 = u2
    c1 = c1
    c2 = c2
    blank = blank
    r1 = r1
    r2 = r2
    None = None
    Absent = Absent
    Users <- MCUsers
    Uids <- MCUids
    BlankUid = blank
    NameOf <- MCNameOf
    Requests <- MCRequests
    Failing = {"select", "lookup"}
SYMMETRY Symmetric
INVARIANTS TypeOK OwnersExist OwnedByClaimant OwnedIsRefused
