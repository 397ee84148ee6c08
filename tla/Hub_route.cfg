SPECIFICATION FairSpec
CONSTANTS
    d1 = d1
    m1 = m1
    o1 = o1
    NoConn = NoConn
    NoMachine = NoMachine
    NoProc = NoProc
    HubProc = hubproc
    Machines = {m1}
    Role <- MCRole
    OrgOf <- MCOrgOf
    MachineOf <- MCMachineOf
    Orgs = {o1}
    Conns = {a1, a2}
    Procs = {hubproc, http}
    HTTPProcs = {http}
    SendBuffer = 1
    MaxSent <- MCBothOnce
INVARIANTS
    TypeOK
    RouteIsNewest
    FanOutIsSafe
PROPERTY DeadIsReaped
CHECK_DEADLOCK FALSE
