SPECIFICATION Spec
CONSTANTS
    t1 = t1
    t2 = t2
    o1 = o1
    o2 = o2
    NoOrg = NoOrg
    NoMachine = NoMachine
    NoToken = NoToken
    TokenOrg <- MCTokenOrg
    Orgs = {o1, o2}
    Machines = {m1}
    Tokens = {t1, t2}
    Reqs = {r1, r2, r3}
    Modes <- MCModes
INVARIANTS
    TypeOK
    OneKeyPerToken
    OneWorkspace
    CacheCurrent
SYMMETRY MCReqSymmetry
CHECK_DEADLOCK FALSE
