SPECIFICATION Spec
CONSTANTS
    Statuses = {"busy", "waiting"}
    Conns = {c1, c2}
    MaxEvents = 4
    WireCap = 1
    RingCap = 2
    SeedLimit = 2
    MaxShown = 4
    InboxCap = 2
    MaxBoots = 1
    Plans <- MCPlans
INVARIANTS
    TypeOK
    ShownOnce
    ShownIsStored
    ShownIsComplete
    TimelineOrder
    ChainIsWhole
    AuditTrail
CHECK_DEADLOCK FALSE
SYMMETRY Perms
