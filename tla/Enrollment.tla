----------------------------- MODULE Enrollment -----------------------------
(***************************************************************************)
(* Which workspace a machine belongs to: enrollment tokens, agent keys and *)
(* the machine row in the store (internal/store: enrollment.go,            *)
(* tenancy.go, queries.go), the key set the server keeps in memory         *)
(* (server.go, middleware.go), the request handlers that change them       *)
(* (internal/server: enroll.go, handlers.go, admin_handlers.go), and the   *)
(* agent connections, whose org is fixed when they say hello (ws.go).      *)
(*                                                                         *)
(* A handler is a sequence of store transactions; between two of them      *)
(* other requests run. A key is named after the request that minted it.    *)
(***************************************************************************)
EXTENDS Naturals, Sequences, FiniteSets

CONSTANTS
    Orgs, NoOrg,
    Machines, NoMachine,
    Tokens, NoToken,
    TokenOrg,     \* TokenOrg[t]: the org a token enrolls into
    Reqs,         \* bound: requests that get past validation
    Modes         \* deployments to consider, of AllModes

\* overlap: requests run concurrently; serial: the store serialises its
\* transactions (SQLite; Postgres runs them at READ COMMITTED); fails: a store
\* call may return an error.
AllModes == [overlap : BOOLEAN, serial : BOOLEAN, fails : BOOLEAN]

ASSUME EnrollmentAssumption ==
    /\ NoOrg \notin Orgs /\ NoMachine \notin Machines /\ NoToken \notin Tokens
    /\ TokenOrg \in [Tokens -> Orgs]
    /\ Modes \subseteq AllModes

VARIABLES
    mode,       \* the deployment; never changes
    tok,        \* rows of enrollment_tokens: exists, revoked, used
    expired,    \* tokens whose expires_at has passed
    key,        \* rows of agent_keys
    minted,     \* agent_keys in the order of created_at
    row,        \* org_id of the machine row, NoOrg when there is none
    cache,      \* Server.agentKeys: the org of every accepted key
    req,        \* what each request is doing
    copy,       \* rows a reload has read and not yet swapped in
    agentKey,   \* the request whose key the agent of a machine holds
    conn,       \* Client.OrgID of the machine's connection, or NoOrg
    live        \* orgs whose partition of the live index lists the machine

storeVars == <<mode, tok, expired, key, minted, row>>
agentVars == <<agentKey, conn, live>>
vars == <<mode, tok, expired, key, minted, row, cache, req, copy, agentKey, conn, live>>

NoRow == [exists |-> FALSE, revoked |-> FALSE, used |-> FALSE]
NoKey == [st |-> "none", m |-> NoMachine, o |-> NoOrg, t |-> NoToken]
Fresh == [pc |-> "new", m |-> NoMachine, o |-> NoOrg, t |-> NoToken]
NoKeys == [k \in Reqs |-> NoOrg]

Init ==
    /\ mode \in Modes
    /\ tok = [t \in Tokens |-> NoRow]
    /\ expired = {}
    /\ key = [k \in Reqs |-> NoKey]
    /\ minted = <<>>
    /\ row = [m \in Machines |-> NoOrg]
    /\ cache = NoKeys
    /\ req = [r \in Reqs |-> Fresh]
    /\ copy = [r \in Reqs |-> NoKeys]
    /\ agentKey = [m \in Machines |-> {}]
    /\ conn = [m \in Machines |-> NoOrg]
    /\ live = [m \in Machines |-> {}]

\* EnrollmentToken.Status(now) == TokenActive
Active(t) == tok[t].exists /\ ~tok[t].revoked /\ ~tok[t].used /\ t \notin expired

\* ActiveAgentKeys, as the map reloadAgentKeys builds.
ActiveAgentKeys == [k \in Reqs |-> IF key[k].st = "active" THEN key[k].o ELSE NoOrg]

\* AgentKeyByMachine: the newest key of the machine that is not revoked, as
\* the set of at most one key.
AgentKeyByMachine(m) ==
    LET mine == {i \in DOMAIN minted : key[minted[i]].m = m /\ key[minted[i]].st = "active"}
    IN  {minted[i] : i \in {j \in mine : \A l \in mine : l <= j}}

\* Store.UpsertMachine, whose error every caller ignores. The row is saved
\* whole, org_id included.
SaveRow(m, o) ==
    \/ row' = [row EXCEPT ![m] = o]
    \/ mode.fails /\ UNCHANGED row

Goto(r, pc) == req' = [req EXCEPT ![r].pc = pc]
Running(r) == req[r].pc \notin {"new", "done"}
MayStart(r) == req[r].pc = "new" /\ (mode.overlap \/ \A q \in Reqs : ~Running(q))

-----------------------------------------------------------------------------
(***************************************************************************)
(* Tokens.                                                                 *)
(***************************************************************************)

\* handleCreateEnrollToken
CreateEnrollToken(t) ==
    /\ tok[t] = NoRow /\ t \notin expired
    /\ tok' = [tok EXCEPT ![t].exists = TRUE]
    /\ UNCHANGED <<mode, expired, key, minted, row, cache, req, copy, agentVars>>

\* handleRevokeEnrollToken: one UPDATE of one column, whatever the status.
RevokeEnrollToken(t) ==
    /\ tok[t].exists
    /\ tok' = [tok EXCEPT ![t].revoked = TRUE]
    /\ UNCHANGED <<mode, expired, key, minted, row, cache, req, copy, agentVars>>

Expire(t) ==
    /\ tok[t].exists
    /\ expired' = expired \cup {t}
    /\ UNCHANGED <<mode, tok, key, minted, row, cache, req, copy, agentVars>>

\* retentionLoop: expired tokens that were never used are deleted.
PruneExpiredTokens ==
    /\ \E t \in expired : tok[t].exists /\ ~tok[t].used
    /\ tok' = [t \in Tokens |-> IF t \in expired /\ ~tok[t].used THEN NoRow ELSE tok[t]]
    /\ UNCHANGED <<mode, expired, key, minted, row, cache, req, copy, agentVars>>

-----------------------------------------------------------------------------
(***************************************************************************)
(* handleEnroll.                                                           *)
(***************************************************************************)

\* EnrollTokenOrg; without an active token the answer is 401.
EnrollStarts(r, t, m) ==
    /\ MayStart(r)
    /\ Active(t)
    /\ req' = [req EXCEPT ![r] = [pc |-> "bound", m |-> m, o |-> TokenOrg[t], t |-> t]]
    /\ UNCHANGED <<storeVars, cache, copy, agentVars>>

\* Mutant: the machine's other keys are not looked at.
CheckMachine_Skip(r) ==
    /\ req[r].pc = "bound"
    /\ Goto(r, "consume")
    /\ UNCHANGED <<storeVars, cache, copy, agentVars>>

\* A machine bound to another workspace is answered 409. An error of the query
\* is taken for a machine that is not bound.
CheckMachine(r) ==
    /\ req[r].pc = "bound"
    /\ LET other == \E k \in AgentKeyByMachine(req[r].m) : key[k].o # req[r].o
       IN  \/ Goto(r, IF other THEN "done" ELSE "consume")
           \/ mode.fails /\ Goto(r, "consume")
    /\ UNCHANGED <<storeVars, cache, copy, agentVars>>

\* Mutant: the token is not marked as used.
SaveAndMint_NoMark(r, read) ==
    /\ tok' = [tok EXCEPT ![req[r].t] = read]
    /\ key' = [key EXCEPT ![r] = [st |-> "active", m |-> req[r].m, o |-> req[r].o, t |-> req[r].t]]
    /\ minted' = Append(minted, r)
    /\ Goto(r, "load")

\* The second half of the transaction: Save writes the whole row as it was
\* read, with used_at set, and the key is created.
SaveAndMint(r, read) ==
    /\ tok' = [tok EXCEPT ![req[r].t] = [read EXCEPT !.used = TRUE]]
    /\ key' = [key EXCEPT ![r] = [st |-> "active", m |-> req[r].m, o |-> req[r].o, t |-> req[r].t]]
    /\ minted' = Append(minted, r)
    /\ Goto(r, "load")

\* Mutant: the status of the token is not checked again in the transaction.
Consume_NoCheck(r) ==
    /\ req[r].pc = "consume" /\ mode.serial
    /\ SaveAndMint(r, tok[req[r].t])
    /\ UNCHANGED <<mode, expired, row, cache, copy, agentVars>>

\* ConsumeEnrollToken as one step: no other transaction in between.
Consume(r) ==
    /\ req[r].pc = "consume" /\ mode.serial
    /\ \/ Active(req[r].t) /\ SaveAndMint(r, tok[req[r].t])
       \/ (~Active(req[r].t) \/ mode.fails) /\ Goto(r, "done") /\ UNCHANGED <<tok, key, minted>>
    /\ UNCHANGED <<mode, expired, row, cache, copy, agentVars>>

\* At READ COMMITTED the row is read first, without a lock, ...
ConsumeReads(r) ==
    /\ req[r].pc = "consume" /\ ~mode.serial
    /\ \/ Goto(r, IF Active(req[r].t) THEN "save" ELSE "done")
       \/ mode.fails /\ Goto(r, "done")
    /\ UNCHANGED <<storeVars, cache, copy, agentVars>>

\* ...and written later, with the values it had when it was active; an error
\* rolls the transaction back.
ConsumeSaves(r) ==
    /\ req[r].pc = "save"
    /\ \/ SaveAndMint(r, [exists |-> TRUE, revoked |-> FALSE, used |-> FALSE])
       \/ mode.fails /\ Goto(r, "done") /\ UNCHANGED <<tok, key, minted>>
    /\ UNCHANGED <<mode, expired, row, cache, copy, agentVars>>

\* UpsertMachine, and the answer that brings the agent its key.
EnrollAnswers(r) ==
    /\ req[r].pc = "row"
    /\ SaveRow(req[r].m, req[r].o)
    /\ agentKey' = [agentKey EXCEPT ![req[r].m] = {r}]
    /\ Goto(r, "done")
    /\ UNCHANGED <<mode, tok, expired, key, minted, cache, copy, conn, live>>

-----------------------------------------------------------------------------
(***************************************************************************)
(* reloadAgentKeys: read the store, then replace the map.                  *)
(***************************************************************************)
AfterReload(r) == IF req[r].t = NoToken THEN "done" ELSE "row"

ReloadReads(r) ==
    /\ req[r].pc = "load"
    /\ \/ copy' = [copy EXCEPT ![r] = ActiveAgentKeys] /\ Goto(r, "swap")
       \/ mode.fails /\ Goto(r, AfterReload(r)) /\ UNCHANGED copy
    /\ UNCHANGED <<storeVars, cache, agentVars>>

ReloadSwaps(r) ==
    /\ req[r].pc = "swap"
    /\ cache' = copy[r]
    /\ copy' = [copy EXCEPT ![r] = NoKeys]
    /\ Goto(r, AfterReload(r))
    /\ UNCHANGED <<storeVars, agentVars>>

-----------------------------------------------------------------------------
(***************************************************************************)
(* handleDeleteMachine and handleReassignMachine.                          *)
(***************************************************************************)

\* The rows of agent_keys for a machine.
KeysOf(m) == {k \in Reqs : key[k].m = m /\ key[k].st # "deleted"}

\* Store.DeleteMachine, within the caller's org (with force, if the machine is
\* online). Only the error of the last statement is looked at: on SQLite the
\* transaction commits when another one failed.
DeleteStarts(r, m, o) ==
    /\ MayStart(r)
    /\ row[m] = o
    /\ row' = [row EXCEPT ![m] = NoOrg]
    /\ \/ key' = [k \in Reqs |-> IF k \in KeysOf(m) /\ key[k].o = o
                                 THEN [key[k] EXCEPT !.st = "deleted"] ELSE key[k]]
       \/ mode.fails /\ mode.serial /\ UNCHANGED key
    /\ req' = [req EXCEPT ![r] = [pc |-> "drop", m |-> m, o |-> o, t |-> NoToken]]
    /\ UNCHANGED <<mode, tok, expired, minted, cache, copy, agentVars>>

\* RemoveMachineSessions and RemoveMachine.
DeleteDropsLive(r) ==
    /\ req[r].pc = "drop"
    /\ live' = [live EXCEPT ![req[r].m] = @ \ {req[r].o}]
    /\ Goto(r, "revoke")
    /\ UNCHANGED <<storeVars, cache, copy, agentKey, conn>>

RevokeThen(r, pc) ==
    /\ req[r].pc = "revoke"
    /\ \/ key' = [k \in Reqs |-> IF k \in KeysOf(req[r].m)
                                 THEN [key[k] EXCEPT !.st = "revoked"] ELSE key[k]]
       \/ mode.fails /\ UNCHANGED key
    /\ Goto(r, pc)
    /\ UNCHANGED <<mode, tok, expired, minted, row, cache, copy, agentVars>>

\* Mutant: the keys in memory are not refreshed.
DeleteRevokes_NoReload(r) == RevokeThen(r, "done")

\* RevokeAgentKeysForMachine, in every org; its error is ignored.
DeleteRevokes(r) == RevokeThen(r, "load")

\* Store.ReassignMachine: the keys and the row of the machine, in one
\* transaction, with errors as in DeleteMachine. The live index and the
\* connection are not touched.
ReassignStarts(r, m, o) ==
    /\ MayStart(r)
    /\ row[m] # NoOrg
    /\ row' = [row EXCEPT ![m] = o]
    /\ \/ key' = [k \in Reqs |-> IF k \in KeysOf(m) THEN [key[k] EXCEPT !.o = o] ELSE key[k]]
       \/ mode.fails /\ mode.serial /\ UNCHANGED key
    /\ req' = [req EXCEPT ![r] = [pc |-> "load", m |-> m, o |-> o, t |-> NoToken]]
    /\ UNCHANGED <<mode, tok, expired, minted, cache, copy, agentVars>>

-----------------------------------------------------------------------------
(***************************************************************************)
(* The agent connection and the server process.                            *)
(***************************************************************************)

\* handleWS and onAgentHello: the org of the key is the connection's for good.
Connect(m) ==
    /\ conn[m] = NoOrg
    /\ \E k \in agentKey[m] :
          /\ cache[k] # NoOrg
          /\ conn' = [conn EXCEPT ![m] = cache[k]]
          /\ live' = [live EXCEPT ![m] = @ \cup {cache[k]}]
          /\ SaveRow(m, cache[k])
    /\ UNCHANGED <<mode, tok, expired, key, minted, cache, req, copy, agentKey>>

\* A known machine's heartbeat saves the whole row, org_id included.
Heartbeat(m) ==
    /\ conn[m] # NoOrg /\ conn[m] \in live[m]
    /\ SaveRow(m, conn[m])
    /\ UNCHANGED <<mode, tok, expired, key, minted, cache, req, copy, agentVars>>

\* onUnregister: so does the last report of the machine as offline.
Disconnect(m) ==
    /\ conn[m] # NoOrg
    /\ IF conn[m] \in live[m] THEN SaveRow(m, conn[m]) ELSE UNCHANGED row
    /\ conn' = [conn EXCEPT ![m] = NoOrg]
    /\ UNCHANGED <<mode, tok, expired, key, minted, cache, req, copy, agentKey, live>>

\* The process ends between any two steps; New reloads the keys.
ServerRestarts ==
    /\ \/ cache' = ActiveAgentKeys
       \/ mode.fails /\ cache' = NoKeys
    /\ req' = [r \in Reqs |-> IF Running(r) THEN [req[r] EXCEPT !.pc = "done"] ELSE req[r]]
    /\ copy' = [r \in Reqs |-> NoKeys]
    /\ conn' = [m \in Machines |-> NoOrg]
    /\ live' = [m \in Machines |-> {}]
    /\ UNCHANGED <<storeVars, agentKey>>

-----------------------------------------------------------------------------
TokenStep ==
    \/ \E t \in Tokens : CreateEnrollToken(t) \/ RevokeEnrollToken(t) \/ Expire(t)
    \/ PruneExpiredTokens

RequestStep(r) ==
    \/ \E t \in Tokens, m \in Machines : EnrollStarts(r, t, m)
    \/ CheckMachine(r) \/ Consume(r) \/ ConsumeReads(r) \/ ConsumeSaves(r)
    \/ ReloadReads(r) \/ ReloadSwaps(r) \/ EnrollAnswers(r)
    \/ \E m \in Machines, o \in Orgs : DeleteStarts(r, m, o) \/ ReassignStarts(r, m, o)
    \/ DeleteDropsLive(r) \/ DeleteRevokes(r)

Next ==
    \/ TokenStep
    \/ \E r \in Reqs : RequestStep(r)
    \/ \E m \in Machines : Connect(m) \/ Heartbeat(m) \/ Disconnect(m)
    \/ ServerRestarts

Spec == Init /\ [][Next]_vars

-----------------------------------------------------------------------------
PCs == {"new", "bound", "consume", "save", "load", "swap", "row", "drop", "revoke", "done"}

\* Every variable has its type, and a key is only ever there with a used token.
TypeOK ==
    /\ mode \in Modes
    /\ tok \in [Tokens -> [exists : BOOLEAN, revoked : BOOLEAN, used : BOOLEAN]]
    /\ expired \subseteq Tokens
    /\ key \in [Reqs -> [st : {"none", "active", "revoked", "deleted"},
                         m : Machines \cup {NoMachine}, o : Orgs \cup {NoOrg},
                         t : Tokens \cup {NoToken}]]
    /\ minted \in Seq(Reqs)
    /\ \A k \in Reqs : key[k].st # "none" => tok[key[k].t].used
    /\ row \in [Machines -> Orgs \cup {NoOrg}]
    /\ cache \in [Reqs -> Orgs \cup {NoOrg}]
    /\ req \in [Reqs -> [pc : PCs, m : Machines \cup {NoMachine},
                         o : Orgs \cup {NoOrg}, t : Tokens \cup {NoToken}]]
    /\ copy \in [Reqs -> [Reqs -> Orgs \cup {NoOrg}]]
    /\ agentKey \in [Machines -> SUBSET Reqs]
    /\ conn \in [Machines -> Orgs \cup {NoOrg}]
    /\ live \in [Machines -> SUBSET Orgs]

Quiet == \A r \in Reqs : ~Running(r)

\* ConsumeEnrollToken "atomically validates and consumes a token"
\* (enrollment.go:100): on a store that serialises transactions one token never
\* mints two keys, whatever requests overlap, fail or are cut off by a restart;
\* on one that does not, as long as enrollments do not overlap.
OneKeyPerToken ==
    mode.serial \/ ~mode.overlap =>
        \A k, l \in Reqs :
            key[k].st # "none" /\ key[l].st # "none" /\ key[k].t = key[l].t => k = l

\* "One machine = one workspace" (docs/DEPLOYMENT.md:162, enroll.go:113): the
\* keys of a machine that are accepted are all of one org, through enrollment,
\* reassignment, deletion and restarts, as long as requests do not overlap (the
\* check precedes the transaction) and the store does not fail (an error of the
\* check is taken for a machine that is not bound).
OneWorkspace ==
    ~mode.overlap /\ ~mode.fails =>
        \A k, l \in Reqs :
            key[k].st = "active" /\ key[l].st = "active" /\ key[k].m = key[l].m
                => key[k].o = key[l].o

\* "The server keeps a non-revoked key set in memory (refreshed on
\* mint/revoke)" (docs/SCHEMA.md:102): with no request in progress the memory
\* has exactly the keys of the store, each with its org, unless two reloads
\* overlapped or the store failed one.
CacheCurrent == ~mode.overlap /\ ~mode.fails /\ Quiet => cache = ActiveAgentKeys
=============================================================================
