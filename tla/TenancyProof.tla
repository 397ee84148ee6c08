---------------------------- MODULE TenancyProof ----------------------------
(***************************************************************************)
(* Proofs about accounts, workspaces and invites, for every number of      *)
(* accounts, orgs, invites, tokens and requests.                           *)
(***************************************************************************)
EXTENDS Tenancy, TLAPS

USE TenancyAssumption

\* Whoever may log in, and whoever an invite is creating, has been let in.
AccessInv ==
    /\ NoAccessBeforeApproval
    /\ \A i \in Ids : Row(i) /\ user[i].st # "pending" => i \in let_in
    /\ \A r \in Reqs : req[r].at = "mark" => req[r].id \in let_in

\* What is known of an invite that is not torn: one request at a time works on
\* it, and how far that request is says how many accounts there are.
InviteFacts(n) ==
    /\ made[n] <= 1
    /\ \A q, r \in Reqs : req[q].inv = n /\ req[r].inv = n => q = r
    /\ \A r \in Reqs : req[r].inv = n /\ req[r].at = "create" => made[n] = 0
    /\ invite[n].st \in {"none", "open", "expired"} /\ (\A r \in Reqs : req[r].inv # n) => made[n] = 0

InviteInv == \A n \in Invites \ torn : InviteFacts(n)

IInv == TypeOK /\ AccessInv /\ AdminRemains /\ InviteInv

-----------------------------------------------------------------------------
(***************************************************************************)
(* Types, and how accounts, orgs and invites fit together.                 *)
(***************************************************************************)

\* A row that enters under a free id and an unused email keeps AccountsOK.
LEMMA CreateKeeps ==
    ASSUME TypeOK, NEW i \in Ids, NEW row \in Users, CreateUser(i, row),
           row.st \in {"pending", "active", ""}, UNCHANGED orgs,
           IF row.st = "pending" THEN row.org = NoOrg ELSE row.org \in orgs
    PROVE  user' \in [Ids -> Users] /\ AccountsOK' /\ led' \subseteq Orgs
<1>1. user' \in [Ids -> Users]
  BY DEF TypeOK, CreateUser
<1>2. led' \subseteq Orgs
  BY DEF TypeOK, CreateUser, Users, OrgOrNone
<1>3. ASSUME NEW j \in Ids, NEW k \in Ids, Row(j)', Row(k)', user'[j].email = user'[k].email
      PROVE  j = k
  BY <1>3 DEF TypeOK, AccountsOK, CreateUser, UserByEmail, Row
<1>4. ASSUME NEW j \in Ids, Row(j)'
      PROVE  (IF user[j].st = "pending" THEN user[j].org = NoOrg ELSE user[j].org \in orgs)'
  BY <1>4 DEF TypeOK, AccountsOK, CreateUser, Row
<1> QED
  BY <1>1, <1>2, <1>3, <1>4 DEF AccountsOK

\* Rows that keep their email, or go, keep AccountsOK when their orgs are right.
LEMMA ChangeKeeps ==
    ASSUME TypeOK, orgs \subseteq orgs', NEW i \in Ids, Row(i), NEW row \in Users,
           user' = [user EXCEPT ![i] = row],
           row.st \notin {"free", "gone"} =>
              /\ row.email = user[i].email
              /\ IF row.st = "pending" THEN row.org = NoOrg ELSE row.org \in orgs'
    PROVE  user' \in [Ids -> Users] /\ AccountsOK'
<1>1. user' \in [Ids -> Users]
  BY DEF TypeOK
<1>2. ASSUME NEW j \in Ids, Row(j)'
      PROVE  /\ Row(j) /\ user'[j].email = user[j].email
             /\ (IF user[j].st = "pending" THEN user[j].org = NoOrg ELSE user[j].org \in orgs)'
  BY <1>2 DEF TypeOK, AccountsOK, Row
<1> QED
  BY <1>1, <1>2 DEF TypeOK, AccountsOK

\* A step that leaves the accounts alone keeps AccountsOK.
LEMMA AccountsFrame == TypeOK /\ UNCHANGED user /\ orgs \subseteq orgs' => AccountsOK'
  BY DEF TypeOK, AccountsOK, Row

\* The same of the invites and the requests that work on them.
LEMMA InvitesFrame == TypeOK /\ UNCHANGED <<invite, req>> /\ orgs \subseteq orgs' => InvitesOK'
  BY DEF TypeOK, InvitesOK

\* Before the first start the tables are empty.
LEMMA TypeInit == Init => TypeOK
<1> SUFFICES ASSUME Init PROVE TypeOK
  OBVIOUS
<1>1. user \in [Ids -> Users] /\ AccountsOK
  BY DEF Init, AccountsOK, FreeId, Row, Users, OrgOrNone, Roles, Levels
<1>2. invite \in [Invites -> InviteRows] /\ req \in [Reqs -> Requests] /\ InvitesOK
  BY DEF Init, InvitesOK, NoRow, Idle, InviteRows, Requests, OrgOrNone, Roles, Levels
<1>3. made \in [Invites -> Nat]
  BY DEF Init
<1> QED
  BY <1>1, <1>2, <1>3 DEF Init, TypeOK

\* ActivateLegacyUsers changes a status that nobody asks for.
LEMMA ActivatedKeeps ==
    ASSUME NEW u \in [Ids -> Users], user' = Activated(u)
    PROVE  /\ user' \in [Ids -> Users]
           /\ \A i \in Ids :
                 /\ user'[i].email = u[i].email /\ user'[i].org = u[i].org
                 /\ user'[i].role = u[i].role
                 /\ user'[i].st = "pending" <=> u[i].st = "pending"
                 /\ Row(i)' <=> u[i].st \notin {"free", "gone"}
<1>1. ASSUME NEW i \in Ids
      PROVE  /\ user'[i] \in Users
             /\ user'[i].email = u[i].email /\ user'[i].org = u[i].org
             /\ user'[i].role = u[i].role
             /\ user'[i].st = IF u[i].st = "" THEN "active" ELSE u[i].st
  <2>1. u[i] \in Users /\ user'[i] = IF u[i].st = "" THEN [u[i] EXCEPT !.st = "active"] ELSE u[i]
    BY DEF Activated
  <2> QED
    BY <2>1 DEF Users
<1>2. user' \in [Ids -> Users]
  BY <1>1 DEF Activated
<1> QED
  BY <1>1, <1>2 DEF Row

\* A row that was there before a start keeps what matters of it.
Same(j) ==
    /\ Row(j)'
    /\ user'[j].email = user[j].email /\ user'[j].org = user[j].org
    /\ user'[j].role = user[j].role
    /\ user'[j].st = "pending" <=> user[j].st = "pending"

\* The one row a start may add: bootstrapAdmin's, under an unused email.
Added(j) ==
    /\ ~Row(j) /\ Row(j)' /\ j \in let_in'
    /\ user'[j].st # "pending" /\ user'[j].org = DefaultOrg /\ user'[j].role = "admin"
    /\ \A k \in Ids : Row(k) => user[k].email # user'[j].email
    /\ \A k \in Ids : ~Row(k) /\ Row(k)' => k = j
    /\ DefaultOrg \in orgs'

\* A start, with or without ADMIN_EMAIL, keeps every row and adds at most one.
LEMMA StartRows ==
    ASSUME TypeOK, Start
    PROVE  /\ user' \in [Ids -> Users]
           /\ orgs \subseteq orgs' /\ orgs' \subseteq Orgs
           /\ let_in \subseteq let_in' /\ let_in' \subseteq Ids
           /\ \A j \in Ids : (Row(j) => Same(j)) /\ (~Row(j) /\ Row(j)' => Added(j))
           /\ \/ led' = led
              \/ led' = led \cup {DefaultOrg} /\ \E j \in Ids : Added(j)
<1> DEFINE Goal == /\ user' \in [Ids -> Users]
                   /\ \A j \in Ids : (Row(j) => Same(j)) /\ (~Row(j) /\ Row(j)' => Added(j))
                   /\ \/ led' = led
                      \/ led' = led \cup {DefaultOrg} /\ \E j \in Ids : Added(j)
<1>1. ASSUME user' = Activated(user), led' = led PROVE Goal
  <2>1. user \in [Ids -> Users]
    BY DEF TypeOK
  <2> QED
    BY <1>1, <2>1, ActivatedKeeps DEF Row, Same
<1>2. ASSUME NEW e \in AdminEmails, Promote(e) PROVE Goal
  <2>1. PICK i \in Ids : user' = Activated([user EXCEPT ![i] = [@ EXCEPT !.level = "platform"]])
    BY <1>2 DEF Promote, UserByEmail
  <2> DEFINE u == [user EXCEPT ![i] = [@ EXCEPT !.level = "platform"]]
  <2>2. user[i] \in Users
    BY DEF TypeOK
  <2>3. [user[i] EXCEPT !.level = "platform"] \in Users
    BY <2>2 DEF Users, Levels
  <2>4. u \in [Ids -> Users]
    BY <2>3 DEF TypeOK
  <2>5. \A j \in Ids : /\ u[j].st = user[j].st /\ u[j].email = user[j].email
                       /\ u[j].org = user[j].org /\ u[j].role = user[j].role
    BY <2>2 DEF TypeOK, Users
  <2>6. user' = Activated(u)
    BY <2>1
  <2>7. led' = led
    BY <1>2 DEF Promote
  <2> HIDE DEF u
  <2>8. /\ user' \in [Ids -> Users]
        /\ \A j \in Ids :
              /\ user'[j].email = u[j].email /\ user'[j].org = u[j].org
              /\ user'[j].role = u[j].role
              /\ user'[j].st = "pending" <=> u[j].st = "pending"
              /\ Row(j)' <=> u[j].st \notin {"free", "gone"}
    BY <2>4, <2>6, ActivatedKeeps
  <2>9. \A j \in Ids : (Row(j) => Same(j)) /\ (~Row(j) => ~Row(j)')
    BY <2>5, <2>8 DEF Row, Same
  <2> QED
    BY <2>7, <2>8, <2>9
<1>3. ASSUME NEW e \in AdminEmails, Bootstrap(e), NEW i \in Ids, user[i] = FreeId,
             user' = Activated([user EXCEPT ![i] = [st |-> "active", email |-> e,
                       org |-> DefaultOrg, role |-> "admin", level |-> "platform"]]),
             let_in' = let_in \cup {i}, led' = led \cup {DefaultOrg}
      PROVE  Goal
  <2> DEFINE row == [st |-> "active", email |-> e, org |-> DefaultOrg, role |-> "admin", level |-> "platform"]
             u == [user EXCEPT ![i] = row]
  <2>1. row \in Users /\ row.st = "active" /\ row.email = e /\ row.org = DefaultOrg /\ row.role = "admin"
    BY DEF Users, OrgOrNone, Roles, Levels
  <2> HIDE DEF row
  <2>2. u \in [Ids -> Users] /\ u[i] = row /\ \A j \in Ids \ {i} : u[j] = user[j]
    BY <2>1 DEF TypeOK
  <2>3. user' = Activated(u)
    BY <1>3 DEF row
  <2>4. /\ orgs' = orgs \cup {DefaultOrg} /\ ~Row(i)
        /\ \A j \in Ids : Row(j) => user[j].email # e
    BY <1>3 DEF Bootstrap, UserByEmail, Row, FreeId
  <2> HIDE DEF u
  <2>5. /\ user' \in [Ids -> Users]
        /\ \A j \in Ids : (Row(j) => Same(j)) /\ (~Row(j) /\ Row(j)' => j = i)
        /\ Row(i)' /\ user'[i].email = e /\ user'[i].org = DefaultOrg
        /\ user'[i].role = "admin" /\ user'[i].st # "pending"
    BY <2>1, <2>2, <2>3, <2>4, ActivatedKeeps DEF Row, Same
  <2>6. Added(i)
    BY <1>3, <2>4, <2>5 DEF Added
  <2> QED
    BY <1>3, <2>5, <2>6
<1>4. Goal
  BY <1>1, <1>2, <1>3 DEF Start, Bootstrap, Promote
<1>5. orgs \subseteq orgs' /\ orgs' \subseteq Orgs /\ let_in \subseteq let_in' /\ let_in' \subseteq Ids
  BY DEF Start, Promote, Bootstrap, TypeOK
<1> QED
  BY <1>4, <1>5

\* Every step keeps the types and the way the tables fit together. That an admin's
\* claims name an org that exists is needed for the invites they create.
LEMMA TypeStep == TypeOK /\ NoAccessBeforeApproval /\ [Next]_vars => TypeOK'
<1> SUFFICES ASSUME TypeOK, NoAccessBeforeApproval, [Next]_vars PROVE TypeOK'
  OBVIOUS
<1> USE DEF hist
<1>1. ASSUME Start PROVE TypeOK'
  <2>1. req' \in [Reqs -> Requests] /\ InvitesOK'
    <3>1. orgs \subseteq orgs'
      BY <1>1 DEF Start, Promote, Bootstrap
    <3> QED
      BY <1>1, <3>1 DEF Start, Idle, Requests, TypeOK, InvitesOK
  <2>2. user' \in [Ids -> Users] /\ orgs' \subseteq Orgs /\ let_in' \subseteq Ids /\ led' \subseteq Orgs
    BY <1>1, StartRows DEF TypeOK
  <2>4. AccountsOK'
    <3>1. ASSUME NEW j \in Ids, NEW k \in Ids, Row(j)', Row(k)', user'[j].email = user'[k].email
          PROVE  j = k
      <4>1. \A l \in Ids : (Row(l) => Same(l)) /\ (~Row(l) /\ Row(l)' => Added(l))
        BY <1>1, StartRows
      <4>2. CASE Row(j) /\ Row(k)
        BY <3>1, <4>1, <4>2 DEF Same, TypeOK, AccountsOK
      <4>3. CASE ~Row(j)
        BY <3>1, <4>1, <4>3 DEF Same, Added
      <4>4. CASE ~Row(k)
        BY <3>1, <4>1, <4>4 DEF Same, Added
      <4> QED
        BY <4>2, <4>3, <4>4
    <3>2. ASSUME NEW j \in Ids, Row(j)'
          PROVE  (IF user[j].st = "pending" THEN user[j].org = NoOrg ELSE user[j].org \in orgs)'
      <4>1. (Row(j) => Same(j)) /\ (~Row(j) => Added(j)) /\ orgs \subseteq orgs'
        BY <1>1, <3>2, StartRows
      <4>2. CASE Row(j)
        BY <4>1, <4>2 DEF Same, TypeOK, AccountsOK
      <4>3. CASE ~Row(j)
        BY <4>1, <4>3 DEF Added
      <4> QED
        BY <4>2, <4>3
    <3> QED
      BY <3>1, <3>2 DEF AccountsOK
  <2>3. torn' \subseteq Invites
    BY <1>1 DEF Start, TypeOK, InvitesOK
  <2> QED
    BY <1>1, <2>1, <2>2, <2>3, <2>4 DEF Start, TypeOK
<1>2. ASSUME NEW e \in Emails, Register(e) PROVE TypeOK'
  BY <1>2, CreateKeeps DEF Register, TypeOK, InvitesOK, Users, OrgOrNone, Roles, Levels
<1>3. ASSUME NEW i \in Ids, Login(i) PROVE TypeOK'
  <2>0. user[i] \in Users
    BY DEF TypeOK
  <2>1. [id |-> i, org |-> user[i].org, role |-> user[i].role, level |-> user[i].level]
           \in [id : Ids, org : OrgOrNone, role : Roles, level : Levels]
    BY <2>0 DEF Users
  <2>2. claims' \subseteq [id : Ids, org : OrgOrNone, role : Roles, level : Levels]
    BY <1>3, <2>1 DEF Login, Issue, TypeOK
  <2> QED
    BY <1>3, <2>2, AccountsFrame, InvitesFrame DEF Login, TypeOK
<1>4. ASSUME NEW c \in claims, Expires(c) PROVE TypeOK'
  BY <1>4, AccountsFrame, InvitesFrame DEF Expires, TypeOK
<1>5. ASSUME NEW c \in claims, NEW i \in Ids, NEW o \in Orgs, NEW role \in Roles, Approve(c, i, o, role)
      PROVE  TypeOK'
  <2>1. InvitesOK'
    BY <1>5, InvitesFrame DEF Approve
  <2>2. CASE user[i].st = "pending"
    <3> DEFINE row == [user[i] EXCEPT !.st = "active", !.org = o, !.role = role]
    <3>0. user[i] \in Users /\ o \in OrgOrNone
      BY DEF TypeOK, OrgOrNone
    <3>1. row \in Users /\ row.st = "active" /\ row.org = o /\ row.email = user[i].email
      BY <3>0 DEF Users
    <3>2. user' = [user EXCEPT ![i] = row]
      BY <1>5, <2>2 DEF Approve, Approved, TypeOK, Users
    <3>3. Row(i) /\ orgs \subseteq orgs' /\ o \in orgs'
      BY <1>5, <2>2 DEF Approve, Row
    <3> HIDE DEF row
    <3>4. user' \in [Ids -> Users] /\ AccountsOK'
      BY <3>1, <3>2, <3>3, ChangeKeeps
    <3> QED
      BY <1>5, <2>1, <2>2, <3>4 DEF Approve, Approved, TypeOK
  <2>3. CASE user[i].st # "pending"
    BY <1>5, <2>1, <2>3, AccountsFrame DEF Approve, Approved, TypeOK
  <2> QED
    BY <2>2, <2>3
<1>6. ASSUME NEW c \in claims, NEW i \in Ids, Reject(c, i) PROVE TypeOK'
  <2>1. Gone \in Users /\ Gone.st = "gone"
    BY DEF Gone, FreeId, Users, OrgOrNone, Roles, Levels
  <2>2. user' \in [Ids -> Users] /\ AccountsOK'
    BY <1>6, <2>1, ChangeKeeps DEF Reject, Row
  <2> QED
    BY <1>6, <2>2, InvitesFrame DEF Reject, TypeOK
<1>7. ASSUME NEW c \in claims, NEW i \in Ids, NEW role \in Roles, SetUserRole(c, i, role)
      PROVE  TypeOK'
  <2> DEFINE row == [user[i] EXCEPT !.role = role]
  <2>0. user[i] \in Users
    BY DEF TypeOK
  <2>1. row \in Users /\ row.st = user[i].st /\ row.org = user[i].org /\ row.email = user[i].email
    BY <2>0 DEF Users
  <2>2. user' = [user EXCEPT ![i] = row] /\ Row(i)
    BY <1>7 DEF SetUserRole, MayChange, TypeOK, Users
  <2>3. IF row.st = "pending" THEN row.org = NoOrg ELSE row.org \in orgs
    BY <2>1, <2>2 DEF TypeOK, AccountsOK
  <2>4. user' \in [Ids -> Users] /\ AccountsOK'
    BY <1>7, <2>1, <2>2, <2>3, ChangeKeeps DEF SetUserRole
  <2>5. c.org \in Orgs /\ c.org \in OrgOrNone
    BY DEF NoAccessBeforeApproval, TypeOK, OrgOrNone
  <2> QED
    BY <1>7, <2>4, <2>5, InvitesFrame DEF SetUserRole, Noted, TypeOK
<1>8. ASSUME NEW c \in claims, NEW i \in Ids, RemoveUser(c, i) PROVE TypeOK'
  <2>1. Gone \in Users /\ Gone.st = "gone"
    BY DEF Gone, FreeId, Users, OrgOrNone, Roles, Levels
  <2>2. user' \in [Ids -> Users] /\ AccountsOK'
    BY <1>8, <2>1, ChangeKeeps DEF RemoveUser, MayChange
  <2> QED
    BY <1>8, <2>2, InvitesFrame DEF RemoveUser, Noted, TypeOK
<1>9. ASSUME NEW c \in claims, NEW n \in Invites, NEW e \in Emails, NEW role \in Roles,
             CreateInvite(c, n, e, role)
      PROVE  TypeOK'
  BY <1>9 DEF CreateInvite, NoRow, NoAccessBeforeApproval, TypeOK, AccountsOK, InvitesOK, Row, InviteRows, OrgOrNone
<1>10. ASSUME NEW c \in claims, NEW n \in Invites, RevokeInvite(c, n) PROVE TypeOK'
  BY <1>10 DEF RevokeInvite, TypeOK, AccountsOK, InvitesOK, Row, InviteRows
<1>11. ASSUME NEW n \in Invites, InviteExpires(n) PROVE TypeOK'
  <2>1. invite' \in [Invites -> InviteRows] /\ InvitesOK'
    BY <1>11 DEF InviteExpires, TypeOK, InvitesOK, InviteRows
  <2> QED
    BY <1>11, <2>1, AccountsFrame DEF InviteExpires, TypeOK
<1>12. ASSUME NEW r \in Reqs, NEW n \in Invites, AcceptReads(r, n) PROVE TypeOK'
  BY <1>12 DEF AcceptReads, AcceptGoesOn, TypeOK, AccountsOK, InvitesOK, Row, Requests
<1>13. ASSUME NEW r \in Reqs, AcceptCreates(r) PROVE TypeOK'
  <2> DEFINE n == req[r].inv
  <2>1. n \in Invites /\ invite[n] \in InviteRows /\ invite[n].org \in orgs
    BY <1>13 DEF AcceptCreates, TypeOK, InvitesOK
  <2>2. req' \in [Reqs -> Requests] /\ InvitesOK' /\ made' \in [Invites -> Nat] /\ let_in' \subseteq Ids
    <3>1. CASE UserByEmail(invite[n].email) # {} /\ req' = [req EXCEPT ![r] = Idle] /\ UNCHANGED <<let_in, made>>
      BY <1>13, <3>1 DEF AcceptCreates, TypeOK, InvitesOK, Requests, Idle
    <3>2. ASSUME NEW i \in Ids, req' = [req EXCEPT ![r] = [@ EXCEPT !.at = "mark", !.id = i]],
                 let_in' = let_in \cup {i}, made' = [made EXCEPT ![n] = @ + 1]
          PROVE  req' \in [Reqs -> Requests] /\ InvitesOK' /\ made' \in [Invites -> Nat] /\ let_in' \subseteq Ids
      <4> DEFINE q == [req[r] EXCEPT !.at = "mark", !.id = i]
      <4>1. req[r] \in Requests
        BY DEF TypeOK
      <4>2. q \in Requests /\ q.at = "mark" /\ q.inv = n /\ q.id = i
        BY <4>1 DEF Requests
      <4>3. req' = [req EXCEPT ![r] = q]
        BY <3>2
      <4> HIDE DEF q
      <4>4. req' \in [Reqs -> Requests]
        BY <4>2, <4>3 DEF TypeOK
      <4>5. InvitesOK'
        BY <1>13, <2>1, <4>2, <4>3 DEF AcceptCreates, TypeOK, InvitesOK
      <4> QED
        BY <2>1, <3>2, <4>4, <4>5 DEF TypeOK
    <3> QED
      BY <1>13, <3>1, <3>2 DEF AcceptCreates
  <2>3. user' \in [Ids -> Users] /\ AccountsOK' /\ led' \subseteq Orgs
    <3>1. CASE UNCHANGED <<user, led>>
      BY <1>13, <3>1, AccountsFrame DEF AcceptCreates, TypeOK
    <3> DEFINE row == [st |-> "", email |-> invite[n].email, org |-> invite[n].org,
                       role |-> invite[n].role, level |-> "user"]
    <3>2. row \in Users /\ row.st = "" /\ row.org \in orgs
      BY <2>1 DEF InviteRows, Users, Levels
    <3>3. ASSUME NEW i \in Ids, CreateUser(i, row)
          PROVE  user' \in [Ids -> Users] /\ AccountsOK' /\ led' \subseteq Orgs
      <4> HIDE DEF row
      <4> QED
        BY <1>13, <3>2, <3>3, CreateKeeps DEF AcceptCreates
    <3> QED
      BY <1>13, <3>1, <3>3 DEF AcceptCreates
  <2> QED
    BY <1>13, <2>2, <2>3 DEF AcceptCreates, TypeOK
<1>14. ASSUME NEW r \in Reqs, AcceptMarks(r) PROVE TypeOK'
  <2> DEFINE n == req[r].inv
  <2>1. n \in Invites /\ invite[n] \in InviteRows /\ req[r].id \in Ids
    BY <1>14 DEF AcceptMarks, TypeOK, InvitesOK
  <2>2. invite' \in [Invites -> InviteRows] /\ req' \in [Reqs -> Requests] /\ InvitesOK'
    <3>1. req' = [req EXCEPT ![r] = Idle] /\ Idle \in Requests /\ Idle.at = "idle" /\ Idle.inv = NoInvite
      BY <1>14 DEF AcceptMarks, Idle, Requests
    <3>2. invite' \in [Invites -> InviteRows]
      BY <1>14, <2>1 DEF AcceptMarks, TypeOK, InviteRows
    <3>3. ASSUME NEW m \in Invites
          PROVE  invite'[m].org = invite[m].org /\ (invite[m].st # "none" => invite'[m].st # "none")
      BY <1>14, <2>1 DEF AcceptMarks, TypeOK, InviteRows
    <3>4. UNCHANGED orgs /\ invite[n].st # "none"
      BY <1>14 DEF AcceptMarks, TypeOK, InvitesOK
    <3>5. ASSUME NEW m \in Invites, invite'[m].st # "none" PROVE invite'[m].org \in orgs
      <4>1. invite[m].st # "none"
        BY <1>14, <3>4, <3>5 DEF AcceptMarks, TypeOK
      <4> QED
        BY <3>3, <4>1 DEF TypeOK, InvitesOK
    <3>6. req' \in [Reqs -> Requests]
      BY <3>1 DEF TypeOK
    <3>7. InvitesOK'
      BY <3>1, <3>3, <3>4, <3>5 DEF TypeOK, InvitesOK
    <3> QED
      BY <3>2, <3>6, <3>7
  <2>3. [id |-> req[r].id, org |-> invite[n].org, role |-> invite[n].role, level |-> "user"]
           \in [id : Ids, org : OrgOrNone, role : Roles, level : Levels]
    BY <2>1 DEF InviteRows, Levels
  <2>4. claims' \subseteq [id : Ids, org : OrgOrNone, role : Roles, level : Levels]
    BY <1>14, <2>3 DEF AcceptMarks, Issue, TypeOK
  <2>5. torn' \subseteq Invites
    BY <1>14, <2>1 DEF AcceptMarks, TypeOK
  <2> QED
    BY <1>14, <2>2, <2>4, <2>5, AccountsFrame DEF AcceptMarks, TypeOK
<1>15. CASE UNCHANGED vars
  BY <1>15, AccountsFrame, InvitesFrame DEF vars, TypeOK
<1> QED
  BY <1>1, <1>2, <1>3, <1>4, <1>5, <1>6, <1>7, <1>8, <1>9, <1>10, <1>11, <1>12, <1>13, <1>14,
     <1>15 DEF Next, AccountStep, AdminStep, InviteStep

-----------------------------------------------------------------------------
(***************************************************************************)
(* Access.                                                                 *)
(***************************************************************************)
\* Every step lets in only those who were approved, invited or bootstrapped.
LEMMA AccessStep == TypeOK /\ AccessInv /\ [Next]_vars => AccessInv'
<1> SUFFICES ASSUME TypeOK, AccessInv, [Next]_vars PROVE AccessInv'
  OBVIOUS
<1> USE DEF hist
<1>1. ASSUME Start PROVE AccessInv'
  <2>1. orgs \subseteq orgs' /\ let_in \subseteq let_in' /\ UNCHANGED claims
    BY <1>1 DEF Start, Promote, Bootstrap
  <2>2. \A r \in Reqs : req'[r].at # "mark"
    BY <1>1 DEF Start, Idle
  <2>3. ASSUME NEW j \in Ids, Row(j)', user'[j].st # "pending" PROVE j \in let_in'
    <3>1. (Row(j) => Same(j)) /\ (~Row(j) => Added(j))
      BY <1>1, <2>3, StartRows
    <3> QED
      BY <2>1, <2>3, <3>1 DEF AccessInv, Same, Added
  <2> QED
    BY <2>1, <2>2, <2>3 DEF AccessInv, NoAccessBeforeApproval
<1>2. ASSUME NEW e \in Emails, Register(e) PROVE AccessInv'
  BY <1>2 DEF Register, CreateUser, TypeOK, AccessInv, NoAccessBeforeApproval, Row
<1>3. ASSUME NEW i \in Ids, Login(i) PROVE AccessInv'
  BY <1>3 DEF Login, Issue, TypeOK, AccountsOK, AccessInv, NoAccessBeforeApproval, Row
<1>4. ASSUME NEW c \in claims, Expires(c) PROVE AccessInv'
  BY <1>4 DEF Expires, AccessInv, NoAccessBeforeApproval, Row
<1>5. ASSUME NEW c \in claims, NEW i \in Ids, NEW o \in Orgs, NEW role \in Roles, Approve(c, i, o, role)
      PROVE  AccessInv'
  <2>1. let_in \subseteq let_in' /\ orgs \subseteq orgs' /\ UNCHANGED <<claims, req>>
    BY <1>5 DEF Approve, Approved
  <2>2. ASSUME NEW j \in Ids, Row(j)', user'[j].st # "pending" PROVE j \in let_in'
    BY <1>5, <2>2 DEF Approve, Approved, AccessInv, TypeOK, Row
  <2> QED
    BY <2>1, <2>2 DEF AccessInv, NoAccessBeforeApproval
<1>6. ASSUME NEW c \in claims, NEW i \in Ids, Reject(c, i) PROVE AccessInv'
  BY <1>6 DEF Reject, Gone, FreeId, TypeOK, AccessInv, NoAccessBeforeApproval, Row
<1>7. ASSUME NEW c \in claims, NEW i \in Ids, NEW role \in Roles, SetUserRole(c, i, role)
      PROVE  AccessInv'
  <2>1. user[i] \in Users /\ user' = [user EXCEPT ![i] = [user[i] EXCEPT !.role = role]] /\ Row(i)
    BY <1>7 DEF SetUserRole, MayChange, TypeOK
  <2>2. \A j \in Ids : user'[j].st = user[j].st
    BY <2>1 DEF TypeOK, Users
  <2> QED
    BY <1>7, <2>2 DEF SetUserRole, AccessInv, NoAccessBeforeApproval, Row
<1>8. ASSUME NEW c \in claims, NEW i \in Ids, RemoveUser(c, i) PROVE AccessInv'
  BY <1>8 DEF RemoveUser, Gone, FreeId, TypeOK, AccessInv, NoAccessBeforeApproval, Row
<1>9. ASSUME NEW c \in claims, NEW n \in Invites, NEW e \in Emails, NEW role \in Roles,
             CreateInvite(c, n, e, role)
      PROVE  AccessInv'
  BY <1>9 DEF CreateInvite, AccessInv, NoAccessBeforeApproval, Row
<1>10. ASSUME NEW c \in claims, NEW n \in Invites, RevokeInvite(c, n) PROVE AccessInv'
  BY <1>10 DEF RevokeInvite, AccessInv, NoAccessBeforeApproval, Row
<1>11. ASSUME NEW n \in Invites, InviteExpires(n) PROVE AccessInv'
  BY <1>11 DEF InviteExpires, AccessInv, NoAccessBeforeApproval, Row
<1>12. ASSUME NEW r \in Reqs, NEW n \in Invites, AcceptReads(r, n) PROVE AccessInv'
  BY <1>12 DEF AcceptReads, AcceptGoesOn, TypeOK, AccessInv, NoAccessBeforeApproval, Row
<1>13. ASSUME NEW r \in Reqs, AcceptCreates(r) PROVE AccessInv'
  <2>1. CASE req' = [req EXCEPT ![r] = Idle] /\ UNCHANGED <<user, let_in>>
    BY <1>13, <2>1 DEF AcceptCreates, Idle, TypeOK, AccessInv, NoAccessBeforeApproval, Row
  <2>2. ASSUME NEW i \in Ids, NEW row, CreateUser(i, row),
               req' = [req EXCEPT ![r] = [@ EXCEPT !.at = "mark", !.id = i]],
               let_in' = let_in \cup {i}
        PROVE  AccessInv'
    <3>1. ASSUME NEW q \in Reqs, req'[q].at = "mark" PROVE req'[q].id \in let_in'
      <4>1. req[r] \in Requests /\ req \in [Reqs -> Requests]
        BY DEF TypeOK
      <4>2. CASE q = r
        BY <2>2, <4>1, <4>2 DEF Requests
      <4>3. CASE q # r
        BY <2>2, <3>1, <4>1, <4>3 DEF AccessInv
      <4> QED
        BY <4>2, <4>3
    <3>2. ASSUME NEW j \in Ids, Row(j)', user'[j].st # "pending" PROVE j \in let_in'
      BY <2>2, <3>2 DEF CreateUser, TypeOK, AccessInv, Row
    <3> QED
      BY <1>13, <2>2, <3>1, <3>2 DEF AcceptCreates, AccessInv, NoAccessBeforeApproval
  <2> QED
    BY <1>13, <2>1, <2>2 DEF AcceptCreates
<1>14. ASSUME NEW r \in Reqs, AcceptMarks(r) PROVE AccessInv'
  <2>1. req[r].id \in let_in /\ invite[req[r].inv].org \in orgs
    BY <1>14 DEF AcceptMarks, TypeOK, InvitesOK, AccessInv
  <2>2. NoAccessBeforeApproval'
    BY <1>14, <2>1 DEF AcceptMarks, Issue, AccessInv, NoAccessBeforeApproval
  <2>3. \A q \in Reqs : req'[q].at = "mark" => req'[q].id \in let_in
    BY <1>14 DEF AcceptMarks, Idle, TypeOK, AccessInv
  <2> QED
    BY <1>14, <2>2, <2>3 DEF AcceptMarks, AccessInv, Row
<1>15. CASE UNCHANGED vars
  BY <1>15 DEF vars, AccessInv, NoAccessBeforeApproval, Row
<1> QED
  BY <1>1, <1>2, <1>3, <1>4, <1>5, <1>6, <1>7, <1>8, <1>9, <1>10, <1>11, <1>12, <1>13, <1>14,
     <1>15 DEF Next, AccountStep, AdminStep, InviteStep

-----------------------------------------------------------------------------
(***************************************************************************)
(* Administrators.                                                         *)
(***************************************************************************)

\* Steps that leave the accounts and the two histories alone.
LEMMA AdminFrame == AdminRemains /\ UNCHANGED <<user, led, outdated>> => AdminRemains'
  BY DEF AdminRemains, AdminsOf, Row

\* An id that is not used has no row.
LEMMA FreeRow == FreeId.st = "free"
  BY DEF FreeId

\* A new account takes nobody's place.
LEMMA CreateKeepsAdmins ==
    ASSUME TypeOK, AdminRemains, NEW i \in Ids, NEW row \in Users, CreateUser(i, row),
           row.st \in {"pending", "active", ""}, UNCHANGED outdated
    PROVE  AdminRemains'
<1>1. user'[i] = row /\ \A j \in Ids \ {i} : user'[j] = user[j]
  BY DEF CreateUser, TypeOK
<1>2. ASSUME NEW o \in led' \ outdated' PROVE AdminsOf(o)' # {}
  <2>1. CASE o \in led
    <3>1. PICK k \in AdminsOf(o) : TRUE
      BY <1>2, <2>1 DEF AdminRemains
    <3>2. k \in Ids /\ k # i
      <4>0. user[i] = FreeId
        BY DEF CreateUser
      <4>1. user[i].st = "free"
        BY <4>0, FreeRow
      <4> QED
        BY <3>1, <4>1 DEF AdminsOf, Row
    <3>3. k \in AdminsOf(o)'
      BY <1>1, <3>1, <3>2 DEF AdminsOf, Row
    <3> QED
      BY <3>3
  <2>2. CASE o \notin led
    <3>1. row.role = "admin" /\ row.org = o
      BY <1>2, <2>2 DEF CreateUser
    <3>2. i \in AdminsOf(o)'
      BY <1>1, <3>1 DEF AdminsOf, Row
    <3> QED
      BY <3>2
  <2> QED
    BY <2>1, <2>2
<1> QED
  BY <1>2 DEF AdminRemains

\* A change of members leaves the one who makes it, if their claims are true.
LEMMA AdminKept == TypeOK /\ NoAccessBeforeApproval /\ AdminRemains /\ [Next]_vars => AdminRemains'
<1> SUFFICES ASSUME TypeOK, NoAccessBeforeApproval, AdminRemains, [Next]_vars PROVE AdminRemains'
  OBVIOUS
<1> USE DEF hist
<1>1. ASSUME Start PROVE AdminRemains'
  <2>1. UNCHANGED outdated
    BY <1>1 DEF Start
  <2>2. \A o \in Orgs : AdminsOf(o) # {} => AdminsOf(o)' # {}
    BY <1>1, StartRows DEF AdminsOf, Same
  <2>3. \/ led' = led
        \/ led' = led \cup {DefaultOrg} /\ AdminsOf(DefaultOrg)' # {}
    <3>1. CASE led' = led
      BY <3>1
    <3>2. CASE led' = led \cup {DefaultOrg} /\ \E j \in Ids : Added(j)
      <4>1. PICK j \in Ids : Added(j)
        BY <3>2
      <4>2. j \in AdminsOf(DefaultOrg)'
        BY <4>1 DEF Added, AdminsOf
      <4> QED
        BY <3>2, <4>2
    <3> QED
      BY <1>1, <3>1, <3>2, StartRows
  <2> QED
    BY <2>1, <2>2, <2>3 DEF AdminRemains, TypeOK
<1>2. ASSUME NEW e \in Emails, Register(e) PROVE AdminRemains'
  BY <1>2, CreateKeepsAdmins DEF Register, Users, OrgOrNone, Roles, Levels
<1>3. ASSUME NEW c \in claims, NEW i \in Ids, NEW o \in Orgs, NEW role \in Roles, Approve(c, i, o, role)
      PROVE  AdminRemains'
  <2>1. CASE user[i].st = "pending"
    <3>1. user[i] \in Users /\ user[i].org = NoOrg
      BY <2>1 DEF TypeOK, AccountsOK, Row
    <3>2. user'[i].st = "active" /\ user'[i].org = o /\ user'[i].role = role
      <4>1. user' = [user EXCEPT ![i] = [user[i] EXCEPT !.st = "active", !.org = o, !.role = role]]
        BY <1>3, <2>1 DEF Approve, Approved
      <4>2. user'[i] = [user[i] EXCEPT !.st = "active", !.org = o, !.role = role]
        BY <4>1 DEF TypeOK
      <4> QED
        BY <3>1, <4>2 DEF Users
    <3>3. \A j \in Ids \ {i} : user'[j] = user[j]
      BY <1>3, <2>1 DEF Approve, Approved, TypeOK
    <3>4. ASSUME NEW q \in led' \ outdated' PROVE AdminsOf(q)' # {}
      <4>1. CASE q \in led
        <5>1. PICK k \in AdminsOf(q) : TRUE
          BY <1>3, <3>4, <4>1 DEF Approve, AdminRemains
        <5>2. k \in Ids /\ k # i
          BY <3>1, <4>1, <5>1 DEF AdminsOf, TypeOK
        <5> QED
          BY <3>3, <5>1, <5>2 DEF AdminsOf, Row
      <4>2. CASE q \notin led
        BY <1>3, <2>1, <3>2, <3>4, <4>2 DEF Approve, Approved, AdminsOf, Row
      <4> QED
        BY <4>1, <4>2
    <3> QED
      BY <3>4 DEF AdminRemains
  <2>2. CASE user[i].st # "pending"
    BY <1>3, <2>2, AdminFrame DEF Approve, Approved
  <2> QED
    BY <2>1, <2>2
<1>4. ASSUME NEW c \in claims, NEW i \in Ids, Reject(c, i) PROVE AdminRemains'
  <2>1. \A q \in led : i \notin AdminsOf(q)
    BY <1>4 DEF Reject, TypeOK, AccountsOK, AdminsOf, Row
  <2>2. \A j \in Ids \ {i} : user'[j] = user[j]
    BY <1>4 DEF Reject, TypeOK
  <2> QED
    BY <1>4, <2>1, <2>2 DEF Reject, AdminRemains, AdminsOf, Row
<1>5. ASSUME NEW c \in claims, NEW i \in Ids, MayChange(c, i), Noted(c),
             \A j \in Ids \ {i} : user'[j] = user[j],
             \/ led' = led
             \/ led' = led \cup {c.org} /\ i \in AdminsOf(c.org)'
      PROVE  AdminRemains'
  <2>1. ASSUME NEW q \in led' \ outdated' PROVE AdminsOf(q)' # {}
    <3>1. CASE q # c.org
      <4>1. PICK k \in AdminsOf(q) : TRUE
        BY <1>5, <2>1, <3>1 DEF AdminRemains, Noted
      <4>2. k \in Ids /\ k # i
        BY <1>5, <3>1, <4>1 DEF AdminsOf, MayChange
      <4> QED
        BY <1>5, <4>1, <4>2 DEF AdminsOf, Row
    <3>2. CASE q = c.org
      <4>1. Current(c)
        BY <2>1, <1>5, <3>2 DEF Noted
      <4>2. c.id \in Ids /\ c.id # i
        BY <1>5 DEF MayChange, TypeOK
      <4>3. c.id \in AdminsOf(q)'
        BY <1>5, <3>2, <4>1, <4>2 DEF Current, MayChange, AdminsOf, Row
      <4> QED
        BY <4>3
    <3> QED
      BY <3>1, <3>2
  <2> QED
    BY <2>1 DEF AdminRemains
<1>6. ASSUME NEW c \in claims, NEW i \in Ids, NEW role \in Roles, SetUserRole(c, i, role)
      PROVE  AdminRemains'
  <2>1. user[i] \in Users /\ user' = [user EXCEPT ![i] = [user[i] EXCEPT !.role = role]]
    BY <1>6 DEF SetUserRole, TypeOK
  <2>2. user'[i].role = role /\ user'[i].st = user[i].st /\ user'[i].org = user[i].org
    BY <2>1 DEF TypeOK, Users
  <2>3. \A j \in Ids \ {i} : user'[j] = user[j]
    BY <2>1 DEF TypeOK
  <2>4. \/ led' = led
        \/ led' = led \cup {c.org} /\ i \in AdminsOf(c.org)'
    BY <1>6, <2>2 DEF SetUserRole, MayChange, AdminsOf, Row
  <2> QED
    BY <1>5, <1>6, <2>3, <2>4 DEF SetUserRole
<1>7. ASSUME NEW c \in claims, NEW i \in Ids, RemoveUser(c, i) PROVE AdminRemains'
  <2>1. \A j \in Ids \ {i} : user'[j] = user[j]
    BY <1>7 DEF RemoveUser, TypeOK
  <2> QED
    BY <1>5, <1>7, <2>1 DEF RemoveUser
<1>8. ASSUME NEW r \in Reqs, AcceptCreates(r) PROVE AdminRemains'
  <2> DEFINE n == req[r].inv
             row == [st |-> "", email |-> invite[n].email, org |-> invite[n].org,
                     role |-> invite[n].role, level |-> "user"]
  <2>1. n \in Invites /\ invite[n] \in InviteRows
    BY <1>8 DEF AcceptCreates, TypeOK, InvitesOK
  <2>2. row \in Users /\ row.st = ""
    BY <2>1 DEF InviteRows, Users, Levels
  <2>3. CASE UNCHANGED <<user, led>>
    BY <1>8, <2>3, AdminFrame DEF AcceptCreates
  <2>4. ASSUME NEW i \in Ids, CreateUser(i, row) PROVE AdminRemains'
    <3> HIDE DEF row
    <3> QED
      BY <1>8, <2>2, <2>4, CreateKeepsAdmins DEF AcceptCreates
  <2> QED
    BY <1>8, <2>3, <2>4 DEF AcceptCreates
<1>9. ASSUME UNCHANGED <<user, led, outdated>> PROVE AdminRemains'
  BY <1>9, AdminFrame
<1> QED
  BY <1>1, <1>2, <1>3, <1>4, <1>6, <1>7, <1>8, <1>9 DEF Next, AccountStep, AdminStep, InviteStep,
     Login, Expires, CreateInvite, RevokeInvite, InviteExpires, AcceptReads, AcceptGoesOn, AcceptMarks, vars

-----------------------------------------------------------------------------
(***************************************************************************)
(* Invites.                                                                *)
(***************************************************************************)

\* Every step keeps what is known of an invite that is not torn.
LEMMA InvitesKept == TypeOK /\ InviteInv /\ [Next]_vars => InviteInv'
<1> SUFFICES ASSUME TypeOK, InviteInv, [Next]_vars, NEW n \in Invites, n \notin torn'
             PROVE  InviteFacts(n)'
  BY DEF InviteInv
<1> USE DEF hist
<1>0. torn \subseteq torn' /\ InviteFacts(n) /\ made[n] \in Nat
  <2>1. torn \subseteq torn'
    BY DEF Next, Start, AccountStep, AdminStep, InviteStep, Register, Login, Expires, Approve, Reject,
       SetUserRole, RemoveUser, CreateInvite, RevokeInvite, InviteExpires, AcceptReads, AcceptGoesOn,
       AcceptCreates, AcceptMarks, vars
  <2> QED
    BY <2>1 DEF InviteInv, InviteFacts, TypeOK
<1>1. ASSUME Start PROVE InviteFacts(n)'
  <2>1. UNCHANGED <<invite, made>> /\ \A r \in Reqs : req'[r].inv # n
    BY <1>1 DEF Start, Idle
  <2>2. \A r \in Reqs : req[r].inv = n => req[r].at = "create"
    <3>1. \A r \in Reqs : req[r].at \in {"idle", "create", "mark"}
      BY DEF TypeOK, Requests
    <3>2. \A r \in Reqs : req[r].at = "mark" => req[r].inv # n
      BY <1>1 DEF Start
    <3> QED
      BY <3>1, <3>2 DEF TypeOK, InvitesOK
  <2> QED
    BY <1>0, <2>1, <2>2 DEF InviteFacts
<1>2. ASSUME UNCHANGED <<req, made>>,
             invite'[n].st \in {"none", "open", "expired"} => invite[n].st \in {"none", "open", "expired"}
      PROVE  InviteFacts(n)'
  BY <1>0, <1>2 DEF InviteFacts
<1>3. ASSUME NEW r \in Reqs, NEW m \in Invites, AcceptReads(r, m) PROVE InviteFacts(n)'
  <2>1. /\ UNCHANGED <<invite, made>> /\ req[r].inv = NoInvite /\ invite[m].st = "open"
        /\ req'[r].inv = m /\ \A q \in Reqs \ {r} : req'[q] = req[q]
    BY <1>3 DEF AcceptReads, AcceptGoesOn, Idle, TypeOK
  <2>2. CASE n = m
    <3>1. \A q \in Reqs : req[q].inv # n
      BY <1>3, <2>1, <2>2 DEF AcceptReads, AcceptGoesOn
    <3>2. made[n] = 0
      BY <1>0, <2>1, <2>2, <3>1 DEF InviteFacts
    <3> QED
      BY <2>1, <3>1, <3>2 DEF InviteFacts
  <2>3. CASE n # m
    <3>1. \A q \in Reqs : (req'[q].inv = n) <=> (req[q].inv = n)
      BY <2>1, <2>3
    <3> QED
      BY <1>0, <2>1, <2>3, <3>1 DEF InviteFacts
  <2> QED
    BY <2>2, <2>3
<1>4. ASSUME NEW r \in Reqs, AcceptCreates(r) PROVE InviteFacts(n)'
  <2> DEFINE m == req[r].inv
  <2>1. m \in Invites /\ req[r] \in Requests /\ UNCHANGED invite /\ req[r].at = "create"
    BY <1>4 DEF AcceptCreates, TypeOK, InvitesOK
  <2>2. CASE req' = [req EXCEPT ![r] = Idle] /\ UNCHANGED made
    <3>1. req'[r].inv = NoInvite /\ \A q \in Reqs \ {r} : req'[q] = req[q]
      BY <2>2 DEF Idle, TypeOK
    <3>2. n = m => made[n] = 0
      BY <1>0, <2>1 DEF InviteFacts
    <3>3. n # m => \A q \in Reqs : (req'[q].inv = n) <=> (req[q].inv = n)
      BY <3>1
    <3>4. n = m => \A q \in Reqs : req'[q].inv # n
      BY <1>0, <3>1 DEF InviteFacts
    <3> QED
      BY <1>0, <2>1, <2>2, <3>1, <3>2, <3>3, <3>4 DEF InviteFacts
  <2>3. ASSUME NEW i \in Ids, req' = [req EXCEPT ![r] = [@ EXCEPT !.at = "mark", !.id = i]],
               made' = [made EXCEPT ![m] = @ + 1]
        PROVE  InviteFacts(n)'
    <3>1. /\ req'[r].inv = m /\ req'[r].at = "mark"
          /\ \A q \in Reqs \ {r} : req'[q] = req[q]
      <4>1. req'[r] = [req[r] EXCEPT !.at = "mark", !.id = i] /\ \A q \in Reqs \ {r} : req'[q] = req[q]
        BY <2>3 DEF TypeOK
      <4> QED
        BY <2>1, <4>1 DEF Requests
    <3>2. \A q \in Reqs : req'[q].inv = req[q].inv
      BY <3>1
    <3>3. n = m => made[n] = 0 /\ made'[n] = 1
      BY <1>0, <2>1, <2>3 DEF InviteFacts, TypeOK
    <3>4. n # m => made'[n] = made[n]
      BY <2>3 DEF TypeOK
    <3>5. made'[n] <= 1
      BY <1>0, <3>3, <3>4 DEF InviteFacts
    <3>6. \A q \in Reqs : req'[q].inv = n /\ req'[q].at = "create" => made'[n] = 0
      BY <1>0, <3>1, <3>2, <3>4 DEF InviteFacts
    <3>7. invite'[n].st \in {"none", "open", "expired"} /\ (\A q \in Reqs : req'[q].inv # n) => made'[n] = 0
      BY <1>0, <2>1, <3>2, <3>4 DEF InviteFacts
    <3> QED
      BY <1>0, <3>2, <3>5, <3>6, <3>7 DEF InviteFacts
  <2> QED
    BY <1>4, <2>2, <2>3 DEF AcceptCreates
<1>5. ASSUME NEW r \in Reqs, AcceptMarks(r) PROVE InviteFacts(n)'
  <2> DEFINE m == req[r].inv
  <2>1. m \in Invites /\ UNCHANGED made /\ invite[m] \in InviteRows
    BY <1>5 DEF AcceptMarks, TypeOK, InvitesOK
  <2>2. req'[r].inv = NoInvite /\ \A q \in Reqs \ {r} : req'[q] = req[q]
    BY <1>5 DEF AcceptMarks, Idle, TypeOK
  <2>3. n # m => invite'[n] = invite[n]
    BY <1>5 DEF AcceptMarks, TypeOK
  <2>4. n = m => invite'[n].st \in {"accepted", "revoked"}
    BY <1>5, <2>1 DEF AcceptMarks, TypeOK, InviteRows
  <2>5. n # m => \A q \in Reqs : (req'[q].inv = n) <=> (req[q].inv = n)
    BY <2>2
  <2>6. n = m => \A q \in Reqs : req'[q].inv # n
    BY <1>0, <2>2 DEF InviteFacts
  <2> QED
    BY <1>0, <2>1, <2>2, <2>3, <2>4, <2>5, <2>6 DEF InviteFacts
<1>6. ASSUME NEW c \in claims, NEW m \in Invites, NEW e \in Emails, NEW role \in Roles,
             CreateInvite(c, m, e, role)
      PROVE  InviteFacts(n)'
  BY <1>2, <1>6 DEF CreateInvite, NoRow, TypeOK
<1>7. ASSUME NEW c \in claims, NEW m \in Invites, RevokeInvite(c, m) PROVE InviteFacts(n)'
  <2>1. invite[m] \in InviteRows
    BY DEF TypeOK
  <2> QED
    BY <1>2, <1>7, <2>1 DEF RevokeInvite, TypeOK, InviteRows
<1>8. ASSUME NEW m \in Invites, InviteExpires(m) PROVE InviteFacts(n)'
  <2>1. invite[m] \in InviteRows
    BY DEF TypeOK
  <2> QED
    BY <1>2, <1>8, <2>1 DEF InviteExpires, TypeOK, InviteRows
<1>9. ASSUME UNCHANGED <<req, made, invite>> PROVE InviteFacts(n)'
  BY <1>2, <1>9
<1> QED
  BY <1>1, <1>3, <1>4, <1>5, <1>6, <1>7, <1>8, <1>9 DEF Next, AccountStep, AdminStep, InviteStep,
     Register, CreateUser, Login, Expires, Approve, Reject, SetUserRole, RemoveUser, vars

-----------------------------------------------------------------------------
(***************************************************************************)
(* The theorems.                                                           *)
(***************************************************************************)

\* The four parts hold together in every reachable state.
LEMMA Inductive == Spec => []IInv
<1>1. Init => IInv
  <2> SUFFICES ASSUME Init PROVE IInv
    OBVIOUS
  <2>1. AccessInv /\ AdminRemains
    BY DEF Init, AccessInv, NoAccessBeforeApproval, AdminRemains, Row, FreeId, Idle
  <2>2. InviteInv
    BY DEF Init, InviteInv, InviteFacts, Idle
  <2> QED
    BY <2>1, <2>2, TypeInit DEF IInv
<1>2. IInv /\ [Next]_vars => IInv'
  BY TypeStep, AccessStep, AdminKept, InvitesKept DEF IInv, AccessInv
<1> QED
  BY <1>1, <1>2, PTL DEF Spec

\* Accounts, orgs and invites fit together: no two accounts with one email, no
\* approved account, token or invite for an org that does not exist.
THEOREM TenancyTypes == Spec => []TypeOK
<1>1. IInv => TypeOK
  BY DEF IInv
<1> QED
  BY <1>1, Inductive, PTL

\* Nobody holds a token who was not approved, invited or created at a start.
THEOREM AccessCorrect == Spec => []NoAccessBeforeApproval
<1>1. IInv => NoAccessBeforeApproval
  BY DEF IInv, AccessInv
<1> QED
  BY <1>1, Inductive, PTL

\* A workspace loses its last administrator only to outdated claims.
THEOREM AdminCorrect == Spec => []AdminRemains
<1>1. IInv => AdminRemains
  BY DEF IInv
<1> QED
  BY <1>1, Inductive, PTL

\* An invite makes one account unless it is accepted twice at once or its mark
\* is lost.
THEOREM InviteCorrect == Spec => []InviteOnce
<1>1. IInv => InviteOnce
  BY DEF IInv, InviteInv, InviteFacts, InviteOnce
<1> QED
  BY <1>1, Inductive, PTL
=============================================================================
