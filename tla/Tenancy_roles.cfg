SPECIFICATION Spec
CONSTANTS
    Ids = {u1, u2, u3}
    Emails = {e1, e2}
    Orgs = {o1, o2}
    Invites = {n1}
    Reqs = {r1, r2}
    AdminEmails = {e1}
    DefaultOrg = o1
    NoOrg = NoOrg
    NoId = NoId
    NoInvite = NoInvite
    NoEmail = NoEmail
    MaxClaims = 2
INVARIANTS
    TypeOK
    AdminRemains
    NoAccessBeforeApproval
    InviteOnce
SYMMETRY MCSymmetry
