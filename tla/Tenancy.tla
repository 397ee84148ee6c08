------------------------------ MODULE Tenancy ------------------------------
(***************************************************************************)
(* Accounts, workspaces, roles and invites (internal/server:               *)
(* auth_handlers.go, admin_handlers.go, middleware.go; internal/store/     *)
(* tenancy.go; internal/auth). What a request may do is decided by the     *)
(* claims of its token, which stay as they were when it was issued while   *)
(* the account changes or goes.                                            *)
(*                                                                         *)
(* A handler that makes one conditional statement is one step. Passwords   *)
(* are left out: whoever owns an account can log in to it. A check that    *)
(* the unique index on the email repeats is one step with the insert.      *)
(* Emails are in lower case, as every path but bootstrapAdmin makes them.  *)
(***************************************************************************)
EXTENDS Naturals, FiniteSets

CONSTANTS
    Ids,          \* bound: accounts ever created; an id is never used again
    Emails, Orgs, Invites, Reqs,
    AdminEmails,  \* values ADMIN_EMAIL may have at a start
    DefaultOrg,   \* the org with slug "default"
    NoOrg, NoId, NoInvite, NoEmail,
    MaxClaims     \* bound: tokens in use at one time

ASSUME TenancyAssumption ==
    /\ AdminEmails \subseteq Emails /\ NoEmail \notin Emails
    /\ DefaultOrg \in Orgs /\ NoOrg \notin Orgs
    /\ NoId \notin Ids /\ NoInvite \notin Invites
    /\ MaxClaims \in Nat

VARIABLES
    running,   \* the server has been started
    user,      \* the users table; st "free": id not used yet, "gone": row deleted
    orgs,      \* the orgs table
    invite,    \* the invites table
    claims,    \* tokens that have been issued and have not expired
    req,       \* requests inside handleAcceptInvite
    let_in,    \* history: ids approved, invited, or created at a start
    outdated,  \* history: orgs whose members were changed with outdated claims
    led,       \* history: orgs that have had an admin
    made,      \* history: accounts created from an invite
    torn       \* history: invites accepted twice at once, or created and not marked

hist == <<let_in, outdated, led, made, torn>>
vars == <<running, user, orgs, invite, claims, req, hist>>

Roles  == {"admin", "member"}
Levels == {"user", "platform"}    \* PlatformAdmin
FreeId == [st |-> "free", email |-> NoEmail, org |-> NoOrg, role |-> "member", level |-> "user"]
Gone == [FreeId EXCEPT !.st = "gone"]
Idle == [at |-> "idle", inv |-> NoInvite, id |-> NoId]
NoRow == [st |-> "none", org |-> NoOrg, email |-> NoEmail, role |-> "member"]

Row(i) == user[i].st \notin {"free", "gone"}
UserByEmail(e) == {i \in Ids : Row(i) /\ user[i].email = e}
AdminsOf(o) == {i \in Ids : Row(i) /\ user[i].org = o /\ user[i].role = "admin"}

Init ==
    /\ running = FALSE
    /\ user = [i \in Ids |-> FreeId]
    /\ orgs = {}
    /\ invite = [n \in Invites |-> NoRow]
    /\ claims = {}
    /\ req = [r \in Reqs |-> Idle]
    /\ let_in = {} /\ outdated = {} /\ led = {} /\ torn = {}
    /\ made = [n \in Invites |-> 0]

-----------------------------------------------------------------------------
(***************************************************************************)
(* Steps of the store and of the token manager.                            *)
(***************************************************************************)

\* CreateUser under a new uuid. Status is empty for an invited user until the
\* next start; only "pending" is ever asked for.
CreateUser(i, row) ==
    /\ user[i] = FreeId
    /\ UserByEmail(row.email) = {}
    /\ user' = [user EXCEPT ![i] = row]
    /\ led' = IF row.role = "admin" /\ row.org # NoOrg THEN led \cup {row.org} ELSE led

\* issueAuth.
Issue(i, row) ==
    LET c == [id |-> i, org |-> row.org, role |-> row.role, level |-> row.level]
    IN  /\ Cardinality(claims \cup {c}) <= MaxClaims
        /\ claims' = claims \cup {c}

\* The row of the account still says what the claims say.
Current(c) ==
    Row(c.id) /\ user[c.id].org = c.org /\ user[c.id].role = c.role

-----------------------------------------------------------------------------
(***************************************************************************)
(* New: bootstrapAdmin and ActivateLegacyUsers. The requests of the server *)
(* that ran before have ended.                                             *)
(***************************************************************************)
Activated(u) == [i \in Ids |-> IF u[i].st = "" THEN [u[i] EXCEPT !.st = "active"] ELSE u[i]]

Promote(e) ==
    /\ \E i \in UserByEmail(e) :
          user' = Activated([user EXCEPT ![i] = [@ EXCEPT !.level = "platform"]])
    /\ UNCHANGED <<orgs, let_in, led>>

Bootstrap(e) ==
    /\ UserByEmail(e) = {}
    /\ orgs' = orgs \cup {DefaultOrg}
    /\ \/ \E i \in Ids :
             /\ user[i] = FreeId
             /\ user' = Activated([user EXCEPT ![i] = [st |-> "active", email |-> e,
                          org |-> DefaultOrg, role |-> "admin", level |-> "platform"]])
             /\ let_in' = let_in \cup {i}
             /\ led' = led \cup {DefaultOrg}
       \/ user' = Activated(user) /\ UNCHANGED <<let_in, led>>    \* CreateUser failed

Start ==
    /\ running' = TRUE
    /\ req' = [r \in Reqs |-> Idle]
    /\ torn' = torn \cup {req[r].inv : r \in {q \in Reqs : req[q].at = "mark"}}
    /\ \/ \E e \in AdminEmails : Promote(e) \/ Bootstrap(e)
       \/ user' = Activated(user) /\ UNCHANGED <<orgs, let_in, led>>   \* no ADMIN_EMAIL
    /\ UNCHANGED <<invite, claims, outdated, made>>

-----------------------------------------------------------------------------
(***************************************************************************)
(* Registration, login and the approval queue.                             *)
(***************************************************************************)
Register(e) ==
    /\ running
    /\ \E i \in Ids : CreateUser(i, [st |-> "pending", email |-> e, org |-> NoOrg,
                                     role |-> "member", level |-> "user"])
    /\ UNCHANGED <<running, orgs, invite, claims, req, let_in, outdated, made, torn>>

\* Mutant: a pending account may log in.
Login_AnyStatus(i) ==
    /\ running /\ Row(i)
    /\ Issue(i, user[i])
    /\ UNCHANGED <<running, user, orgs, invite, req, hist>>

Login(i) ==
    /\ running /\ Row(i)
    /\ user[i].st # "pending"
    /\ Issue(i, user[i])
    /\ UNCHANGED <<running, user, orgs, invite, req, hist>>

\* A token expires, or its owner logs out.
Expires(c) ==
    /\ claims' = claims \ {c}
    /\ UNCHANGED <<running, user, orgs, invite, req, hist>>

\* ApproveUser: "id = ? AND status = pending", else nothing.
Approved(i, o, role) ==
    IF user[i].st = "pending"
    THEN /\ user' = [user EXCEPT ![i] = [@ EXCEPT !.st = "active", !.org = o, !.role = role]]
         /\ let_in' = let_in \cup {i}
         /\ led' = IF role = "admin" THEN led \cup {o} ELSE led
    ELSE UNCHANGED <<user, let_in, led>>

\* Mutant: the org is not looked up.
Approve_AnyOrg(c, i, o, role) ==
    /\ running /\ c.level = "platform"
    /\ Approved(i, o, role)
    /\ UNCHANGED <<running, orgs, invite, claims, req, outdated, made, torn>>

\* handleApproveUser: with an existing org, or a new one, which stays even when
\* there is no such pending user.
Approve(c, i, o, role) ==
    /\ running /\ c.level = "platform"
    /\ o \notin orgs => o # DefaultOrg
    /\ orgs' = orgs \cup {o}
    /\ Approved(i, o, role)
    /\ UNCHANGED <<running, invite, claims, req, outdated, made, torn>>

\* handleRejectUser.
Reject(c, i) ==
    /\ running /\ c.level = "platform"
    /\ user[i].st = "pending"
    /\ user' = [user EXCEPT ![i] = Gone]
    /\ UNCHANGED <<running, orgs, invite, claims, req, hist>>

-----------------------------------------------------------------------------
(***************************************************************************)
(* Members: by claims of an admin, in the org of the claims, not oneself.  *)
(***************************************************************************)

\* Mutant: an admin may act on their own account.
MayChange_Self(c, i) ==
    /\ running /\ c.role = "admin"
    /\ Row(i) /\ user[i].org = c.org

MayChange(c, i) ==
    /\ running /\ c.role = "admin"
    /\ i # c.id
    /\ Row(i) /\ user[i].org = c.org

Noted(c) == outdated' = IF Current(c) THEN outdated ELSE outdated \cup {c.org}

SetUserRole(c, i, role) ==
    /\ MayChange(c, i)
    /\ user' = [user EXCEPT ![i] = [@ EXCEPT !.role = role]]
    /\ led' = IF role = "admin" THEN led \cup {c.org} ELSE led
    /\ Noted(c)
    /\ UNCHANGED <<running, orgs, invite, claims, req, let_in, made, torn>>

RemoveUser(c, i) ==
    /\ MayChange(c, i)
    /\ user' = [user EXCEPT ![i] = Gone]
    /\ Noted(c)
    /\ UNCHANGED <<running, orgs, invite, claims, req, let_in, led, made, torn>>

-----------------------------------------------------------------------------
(***************************************************************************)
(* Invites. A token is random: a row that is gone does not come back.      *)
(***************************************************************************)
CreateInvite(c, n, e, role) ==
    /\ running /\ c.role = "admin"
    /\ invite[n] = NoRow
    /\ invite' = [invite EXCEPT ![n] = [st |-> "open", org |-> c.org, email |-> e, role |-> role]]
    /\ UNCHANGED <<running, user, orgs, claims, req, hist>>

\* handleRevokeInvite asks for no role.
RevokeInvite(c, n) ==
    /\ running
    /\ invite[n].st \in {"open", "expired", "accepted"} /\ invite[n].org = c.org
    /\ invite' = [invite EXCEPT ![n].st = "revoked"]
    /\ UNCHANGED <<running, user, orgs, claims, req, hist>>

InviteExpires(n) ==
    /\ invite[n].st = "open"
    /\ invite' = [invite EXCEPT ![n].st = "expired"]
    /\ UNCHANGED <<running, user, orgs, claims, req, hist>>

AcceptGoesOn(r, n) ==
    /\ req' = [req EXCEPT ![r] = [at |-> "create", inv |-> n, id |-> NoId]]
    /\ torn' = IF \E q \in Reqs \ {r} : req[q].inv = n THEN torn \cup {n} ELSE torn
    /\ UNCHANGED <<running, user, orgs, invite, claims, let_in, outdated, led, made>>

\* Mutant: an accepted invite is not refused.
AcceptReads_Accepted(r, n) ==
    /\ running /\ req[r] = Idle
    /\ invite[n].st \in {"open", "accepted"}
    /\ AcceptGoesOn(r, n)

\* handleAcceptInvite: GetInvite and its checks, ...
AcceptReads(r, n) ==
    /\ running /\ req[r] = Idle
    /\ invite[n].st = "open"
    /\ AcceptGoesOn(r, n)

\* ... CreateUser, which fails when the email has an account, ...
AcceptCreates(r) ==
    LET n == req[r].inv
    IN  /\ req[r].at = "create"
        /\ \/ \E i \in Ids :
                 /\ CreateUser(i, [st |-> "", email |-> invite[n].email, org |-> invite[n].org,
                                   role |-> invite[n].role, level |-> "user"])
                 /\ req' = [req EXCEPT ![r] = [@ EXCEPT !.at = "mark", !.id = i]]
                 /\ let_in' = let_in \cup {i}
                 /\ made' = [made EXCEPT ![n] = @ + 1]
           \/ /\ UserByEmail(invite[n].email) # {}
              /\ req' = [req EXCEPT ![r] = Idle]
              /\ UNCHANGED <<user, led, let_in, made>>
        /\ UNCHANGED <<running, orgs, invite, claims, outdated, torn>>

\* ... AcceptInvite, whose error is ignored, and issueAuth for the new account.
AcceptMarks(r) ==
    LET n == req[r].inv
    IN  /\ req[r].at = "mark"
        /\ \/ /\ invite' = [invite EXCEPT ![n].st = IF @ = "revoked" THEN @ ELSE "accepted"]
              /\ UNCHANGED torn
           \/ UNCHANGED invite /\ torn' = torn \cup {n}
        /\ req' = [req EXCEPT ![r] = Idle]
        /\ Issue(req[r].id, [org |-> invite[n].org, role |-> invite[n].role, level |-> "user"])
        /\ UNCHANGED <<running, user, orgs, let_in, outdated, led, made>>

-----------------------------------------------------------------------------
AccountStep ==
    \/ \E e \in Emails : Register(e)
    \/ \E i \in Ids : Login(i)
    \/ \E c \in claims : Expires(c)

AdminStep ==
    \E c \in claims, i \in Ids :
        \/ \E o \in Orgs, role \in Roles : Approve(c, i, o, role)
        \/ Reject(c, i)
        \/ \E role \in Roles : SetUserRole(c, i, role)
        \/ RemoveUser(c, i)

InviteStep ==
    \/ \E c \in claims, n \in Invites :
          \/ \E e \in Emails, role \in Roles : CreateInvite(c, n, e, role)
          \/ RevokeInvite(c, n)
    \/ \E n \in Invites : InviteExpires(n)
    \/ \E r \in Reqs : \/ \E n \in Invites : AcceptReads(r, n)
                       \/ AcceptCreates(r) \/ AcceptMarks(r)

Next == Start \/ AccountStep \/ AdminStep \/ InviteStep

Spec == Init /\ [][Next]_vars

-----------------------------------------------------------------------------
OrgOrNone == Orgs \cup {NoOrg}
Users == [st : {"free", "gone", "pending", "active", ""}, email : Emails \cup {NoEmail},
          org : OrgOrNone, role : Roles, level : Levels]
InviteRows == [st : {"none", "open", "expired", "accepted", "revoked"}, org : OrgOrNone,
               email : Emails \cup {NoEmail}, role : Roles]
Requests == [at : {"idle", "create", "mark"}, inv : Invites \cup {NoInvite}, id : Ids \cup {NoId}]

\* An email has one account; a pending account has no org (store.go:33) and
\* every other one has an org that exists.
AccountsOK ==
    /\ \A i, j \in Ids : Row(i) /\ Row(j) /\ user[i].email = user[j].email => i = j
    /\ \A i \in Ids : Row(i) => IF user[i].st = "pending" THEN user[i].org = NoOrg
                                                         ELSE user[i].org \in orgs

\* An invite is for an org that exists, and a request works on an invite.
InvitesOK ==
    /\ \A n \in Invites : invite[n].st # "none" => invite[n].org \in orgs
    /\ \A r \in Reqs : IF req[r].at = "idle" THEN req[r].inv = NoInvite
                      ELSE req[r].inv \in Invites /\ invite[req[r].inv].st # "none"
    /\ \A r \in Reqs : req[r].at = "mark" => req[r].id \in Ids

\* Every variable has its type, and accounts, orgs and invites fit together,
\* whatever approval, invite or start they come from.
TypeOK ==
    /\ running \in BOOLEAN /\ orgs \subseteq Orgs
    /\ user \in [Ids -> Users]
    /\ invite \in [Invites -> InviteRows]
    /\ claims \subseteq [id : Ids, org : OrgOrNone, role : Roles, level : Levels]
    /\ req \in [Reqs -> Requests]
    /\ made \in [Invites -> Nat]
    /\ let_in \subseteq Ids /\ outdated \subseteq OrgOrNone
    /\ led \subseteq Orgs /\ torn \subseteq Invites
    /\ AccountsOK
    /\ InvitesOK

\* "avoids locking a workspace out of admin" (auth_handlers.go:265): a workspace
\* that has had an administrator has one, as long as its members were changed
\* with claims that were still true. Two administrators who demote each other
\* need outdated claims for the second change; nothing else may do it, neither
\* approvals, invites, rejections nor starts.
AdminRemains == \A o \in led \ outdated : AdminsOf(o) # {}

\* "New signups get no org and no access until a platform admin approves them"
\* (handleRegister): whoever holds a token was approved, invited or created at
\* a start, and is in an org that exists. An account that a start promotes while
\* it is pending is no exception. docs/SAAS.md:23 says that the request "creates a
\* new org + owner (self-serve signup)": the code makes neither, it saves a
\* pending account without an org (auth_handlers.go:108).
NoAccessBeforeApproval == \A c \in claims : c.id \in let_in /\ c.org \in orgs

\* An invite is good for one account, also when that account is removed later,
\* unless it was accepted twice at once or the mark was lost: CreateUser and
\* AcceptInvite (auth_handlers.go:179, :186) are not one transaction.
InviteOnce == \A n \in Invites \ torn : made[n] <= 1
=============================================================================
