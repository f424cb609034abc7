SPECIFICATION Spec
CONSTANTS
    u1 = u1
    u2 = u2
    n1 = n1
    n2 = n2
    i1 = i1
    i2 = i2
    e1 = e1
    r1 = r1
    r2 = r2
    None = None
    Users <- MCUsers
    Names <- MCNames
    RowIds <- MCRowIds
    Entries <- MCEntries
    Requests <- MCRequests
    Cooldown = 2
    Failing = {"read", "count", "rename", "profile", "delete", "insert", "sync", "save"}
SYMMETRY Symmetric
INVARIANTS TypeOK UniqueNames NoOrphanHandles
PROPERTIES CooldownKept SyncWhole OnlyOwnersRemove
