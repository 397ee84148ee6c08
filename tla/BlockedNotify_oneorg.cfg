SPECIFICATION FairSpec
CONSTANTS
    s1 = s1
    s2 = s2
    s3 = s3
    o1 = o1
    o2 = o2
    OrgOf <- MCOrgOf
    NoOrg = NoOrg
    Sessions = {s1, s2}
    Orgs = {o1}
    Pinned = {s2}
    Devices = {d1}
    Threshold = 2
    MaxLag = 2
INVARIANTS
    TypeOK
    OncePerEpisode
    NeverEarly
PROPERTY EventuallyTold
