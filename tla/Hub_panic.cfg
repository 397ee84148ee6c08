SPECIFICATION Spec
CONSTANTS
    d1 = d1
    m1 = m1
    o1 = o1
    NoConn = NoConn
    NoMachine = NoMachine
    NoProc = NoProc
    HubProc = hubproc
    Machines = {m1}
    Role <- MCRole
    OrgOf <- MCOrgOf
    MachineOf <- MCMachineOf
    Orgs = {o1}
    Conns = {a1, d1}
    Procs = {hubproc, pump}
    HTTPProcs = {}
    SendBuffer = 1
    MaxSent <- MCBothOnce
INVARIANT NoPanic
CHECK_DEADLOCK FALSE
