SPECIFICATION FairSpec
CONSTANTS
    s1 = s1
    s2 = s2
    s3 = s3
    o1 = o1
    o2 = o2
    OrgOf <- MCOrgOf
    NoOrg = NoOrg
    Sessions = {s1, s3}
    Orgs = {o1, o2}
    Pinned = {s1, s3}
    Devices = {}
    Threshold = 2
    MaxLag = 2
PROPERTY EventuallyTold
