SPECIFICATION FairSpec
CONSTANTS
    m1 = m1
    Machines = {m1}
    MachineOf <- MCMachineOf
    AgentOf <- MCAgentOf
    NoConn = NoConn
    NoSession = NoSession
    NoMachine = NoMachine
    HubG = hubG
    HttpG = httpG
    Sessions = {s1}
    Conns = {c1, c2}
    Browsers = {}
    Plans <- MCRestart
    PipeCap = 1
    QueueCap = 1
PROPERTY IndexConverges
