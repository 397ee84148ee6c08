SPECIFICATION Spec
CONSTANTS
    d1 = d1
    m1 = m1
    o1 = o1
    NoConn = NoConn
    NoMachine = NoMachine
    NoProc = NoProc
    HubProc = hubproc
    Machines = {m1}
    Role <- MCRole
    OrgOf <- MCOrgOf
    MachineOf <- MCMachineOf
    Orgs = {o1, o2}
    Conns = {d1}
    Procs = {hubproc, http, pump}
    HTTPProcs = {http}
    SendBuffer = 2
    MaxSent <- MCDashTwice
INVARIANTS
    NoGap
    NothingMissing
    SnapshotFirst
PROPERTY ImplementsFeed
CHECK_DEADLOCK FALSE
