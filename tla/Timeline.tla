------------------------------ MODULE Timeline ------------------------------
(***************************************************************************)
(* The activity timeline of one organisation: the agent compares each poll *)
(* with the copy it has of the session and reports the difference          *)
(* (internal/agent/events.go, runtime.go), the server records what agents  *)
(* report and what it does itself (internal/server/events.go, handlers.go, *)
(* files.go, ws.go), keeps the newest events in a ring                     *)
(* (internal/state/manager.go) and all of them in the database             *)
(* (internal/store/queries.go), and a dashboard starts from a snapshot of  *)
(* the ring and goes on with what is broadcast                             *)
(* (apps/dashboard/src/store/live.ts).                                     *)
(*                                                                         *)
(* An event is its place in the history log: that number is its id and     *)
(* stands for its timestamp (the clocks of agent and server agree). One    *)
(* machine with one session; its status stands for each of the attributes  *)
(* diffSessionEvents compares. The machine list and the session list are   *)
(* in LiveIndex.                                                           *)
(***************************************************************************)
EXTENDS Integers, Sequences, SequencesExt, FiniteSets, FiniteSetsExt

CONSTANTS
    Statuses,    \* of a session that runs
    Conns,       \* bound: connections of the agent that the server knows at once
    MaxEvents,   \* bound: events created
    WireCap,     \* bound: messages in flight on a connection, each way
    RingCap,     \* maxRecentEvents
    SeedLimit,   \* events read at startup, over all organisations (1000)
    MaxShown,    \* MAX_EVENTS of the dashboard
    InboxCap,    \* sendBuffer of the dashboard's connection
    MaxBoots,    \* bound: restarts of the server
    Plans        \* what may happen in one behaviour: subsets of Faults

\* Connections break, the agent or the server restarts, the database refuses a
\* write, the retention job runs; a dashboard connects and reconnects, users
\* send commands, agents publish files.
Faults == {"network", "agent", "server", "db", "prune", "dash", "commands", "files"}
Absent == "absent"
NoConn == "noconn"
Hub == "hub"
Http == "http"
Ids == 1 .. MaxEvents
Goroutines == Conns \cup {Hub, Http}

ASSUME TimelineAssumption ==
    /\ {Absent, NoConn, Hub, Http} \cap (Statuses \cup Conns) = {}
    /\ {MaxEvents, WireCap, RingCap, SeedLimit, MaxShown, InboxCap, MaxBoots}
          \subseteq Nat \ {0}
    /\ RingCap <= MaxShown
    /\ Plans \subseteq SUBSET Faults

\* from and to are the agent's copy before and after the poll, via is the
\* goroutine that records the event (NoConn: the report could not be sent).
SessionKinds == {"started", "changed", "ended"}
Kinds == SessionKinds \cup {"connected", "offline", "command", "file"}
Event(k, f, t, g) == [kind |-> k, from |-> f, to |-> t, via |-> g]
ServerEvent(k, g) == Event(k, Absent, Absent, g)

VARIABLES
    plan,     \* what may happen in this behaviour
    boots,    \* restarts of the server so far
    known,    \* the agent's copy: Runtime.sessions
    log,      \* history: every event created, in order
    cur,      \* the agent's connection, wsClient.conn
    conn,     \* server side: "free", "dialed", "hello", "open", "ended"
    broken,   \* connections that carry nothing any more
    up,       \* events on their way to the server
    down,     \* commands on their way to the agent
    agents,   \* hub.agentsByID of the machine
    rec,      \* what each goroutine of the server records, and how far it is
    stored,   \* rows of the events table
    ring,     \* orgState.events, newest last
    files,    \* published files, by the event that announces them
    dash,     \* "off", "snapped" (snapshot queued, not registered), "live"
    inbox,    \* messages on their way to the dashboard
    shown,    \* LiveState.events, newest first
    sent,     \* history: commands put on a connection
    acted,    \* history: commands the agent acted on
    pruned,   \* history: events deleted by the retention job
    unsaved,  \* history: events the database refused or a crash cut off
    missed,   \* history: events broadcast between snapshot and registration
    cut       \* history: a report was lost, or the agent forgot its copy

runVars   == <<plan, boots>>
agentVars == <<known, cur, acted>>
netVars   == <<conn, broken, up, down, agents>>
dbVars    == <<stored, files, pruned, unsaved>>
dashVars  == <<dash, inbox, shown, missed>>
vars == <<plan, boots, log, agentVars, netVars, rec, dbVars, ring, dashVars, sent, cut>>

Idle == [at |-> 0, id |-> 0]

Init ==
    /\ plan \in Plans
    /\ known = Absent /\ cur = NoConn /\ acted = {}
    /\ log = <<>> /\ boots = 0
    /\ conn = [c \in Conns |-> "free"]
    /\ broken = {}
    /\ up = [c \in Conns |-> <<>>]
    /\ down = [c \in Conns |-> <<>>]
    /\ agents = NoConn
    /\ rec = [g \in Goroutines |-> Idle]
    /\ stored = {} /\ files = {} /\ pruned = {} /\ unsaved = {}
    /\ ring = <<>>
    /\ dash = "off" /\ inbox = <<>> /\ shown = <<>> /\ missed = {}
    /\ sent = {} /\ cut = FALSE

NewId == Len(log) + 1
Create(e) == NewId \in Ids /\ log' = Append(log, e)
LastN(s, k) == SubSeq(s, Max({1, Len(s) - k + 1}), Len(s))

-----------------------------------------------------------------------------
(***************************************************************************)
(* The agent.                                                              *)
(***************************************************************************)

\* wsClient.send: without a connection the report is lost, on a broken one too.
Send(id) ==
    IF cur = NoConn \/ cur \in broken
    THEN cut' = TRUE /\ UNCHANGED up
    ELSE /\ Len(up[cur]) < WireCap
         /\ up' = [up EXCEPT ![cur] = Append(@, id)]
         /\ UNCHANGED cut

\* diffSessionEvents, and session.ended for a session that is gone.
DiffSessionEvents(prev, seen) ==
    Event(CASE seen = Absent -> "ended" [] prev = Absent -> "started" [] OTHER -> "changed",
          prev, seen, cur)

\* Mutant: a session that ended stays in the agent's copy.
Discover_KeepsEnded(seen) ==
    /\ seen # known
    /\ known' = IF seen = Absent THEN known ELSE seen
    /\ Create(DiffSessionEvents(known, seen))
    /\ Send(NewId)
    /\ UNCHANGED <<runVars, cur, acted, conn, broken, down, agents, rec, dbVars, ring,
                   dashVars, sent>>

\* discover: upsertSession and diffSessionEvents for a session that is seen
\* (started, or its status changed), removal and session.ended for one that is
\* not: it ended, or its provider failed to list processes. Between two polls
\* anything can happen to the process, so any status may be seen. The copy
\* changes whether or not the report can be sent.
Discover(seen) ==
    /\ seen # known
    /\ known' = seen
    /\ Create(DiffSessionEvents(known, seen))
    /\ Send(NewId)
    /\ UNCHANGED <<runVars, cur, acted, conn, broken, down, agents, rec, dbVars, ring,
                   dashVars, sent>>

\* wsClient.connect: a new connection, and agent.hello is on its way or is about
\* to be sent.
Dial(c) ==
    /\ cur = NoConn /\ conn[c] = "free"
    /\ cur' = c
    /\ conn' = [conn EXCEPT ![c] = "dialed"]
    /\ broken' = broken \ {c}
    /\ UNCHANGED <<runVars, log, known, acted, up, down, agents, rec, dbVars, ring,
                   dashVars, sent, cut>>

\* The read loop of the agent ends; connect returns and is called again.
AgentNotices ==
    /\ cur \in broken
    /\ cur' = NoConn
    /\ UNCHANGED <<runVars, log, known, acted, netVars, rec, dbVars, ring, dashVars, sent, cut>>

\* The provider's Control signals the process that has the session's PID.
Control(id) == acted' = acted \cup {id}

\* handleCommand: Control for a session in the agent's copy; otherwise nothing
\* but an error result, which the server only logs.
HandleCommand ==
    /\ cur # NoConn
    /\ down[cur] # <<>>
    /\ down' = [down EXCEPT ![cur] = Tail(@)]
    /\ IF known = Absent THEN UNCHANGED acted ELSE Control(Head(down[cur]))
    /\ UNCHANGED <<runVars, log, known, cur, conn, broken, up, agents, rec, dbVars, ring,
                   dashVars, sent, cut>>

\* The agent process restarts: its copy is empty, its connection is gone.
AgentRestarts ==
    /\ "agent" \in plan
    /\ known # Absent
    /\ known' = Absent /\ cur' = NoConn /\ cut' = TRUE
    /\ broken' = broken \cup ({cur} \cap Conns)
    /\ down' = [c \in Conns |-> IF c = cur THEN <<>> ELSE down[c]]
    /\ UNCHANGED <<runVars, log, acted, conn, up, agents, rec, dbVars, ring, dashVars, sent>>

\* A connection breaks. The server may still read some of what was sent.
Break(c) ==
    /\ "network" \in plan
    /\ conn[c] \in {"dialed", "hello", "open"} /\ c \notin broken
    /\ broken' = broken \cup {c}
    /\ down' = [down EXCEPT ![c] = <<>>]
    /\ \E k \in 0 .. Len(up[c]) :
          /\ up' = [up EXCEPT ![c] = SubSeq(@, 1, k)]
          /\ cut' = (cut \/ k < Len(up[c]))
    /\ UNCHANGED <<runVars, log, agentVars, conn, agents, rec, dbVars, ring, dashVars, sent>>

-----------------------------------------------------------------------------
(***************************************************************************)
(* Recording an event: recordEvent, three steps of the goroutine g.        *)
(***************************************************************************)

\* Mutants: the ring is filled before the row is saved; the event is broadcast
\* before it is in the ring.
Steps_RingFirst == <<"ring", "save", "emit">>
Steps_EmitFirst == <<"save", "emit", "ring">>

Steps == <<"save", "ring", "emit">>

Start(g, id) == [rec EXCEPT ![g] = [at |-> 1, id |-> id]]
Doing(g, step) == rec[g].at > 0 /\ Steps[rec[g].at] = step
Advance(g) ==
    rec' = [rec EXCEPT ![g] = IF rec[g].at = Len(Steps) THEN Idle
                              ELSE [rec[g] EXCEPT !.at = @ + 1]]
Recording == {rec[g].id : g \in Goroutines}

\* SaveEvent; its error is ignored.
SaveEvent(g) ==
    /\ Doing(g, "save") /\ Advance(g)
    /\ \/ /\ stored' = stored \cup {rec[g].id}
          /\ UNCHANGED <<unsaved, cut>>
       \/ /\ "db" \in plan
          /\ unsaved' = unsaved \cup {rec[g].id}
          /\ cut' = TRUE
          /\ UNCHANGED stored
    /\ UNCHANGED <<runVars, log, agentVars, netVars, files, pruned, ring, dashVars, sent>>

\* Mutant: the ring is not cut.
AddEvent_Grows(g) ==
    /\ Doing(g, "ring") /\ Advance(g)
    /\ ring' = Append(ring, rec[g].id)
    /\ UNCHANGED <<runVars, log, agentVars, netVars, dbVars, dashVars, sent, cut>>

\* AddEvent.
AddEvent(g) ==
    /\ Doing(g, "ring") /\ Advance(g)
    /\ ring' = LastN(Append(ring, rec[g].id), RingCap)
    /\ UNCHANGED <<runVars, log, agentVars, netVars, dbVars, dashVars, sent, cut>>

\* EmitOrg. A dashboard whose buffer is full loses its connection.
EmitEvent(g) ==
    LET full == dash = "live" /\ Len(inbox) >= InboxCap
    IN  /\ Doing(g, "emit") /\ Advance(g)
        /\ dash' = IF full THEN "off" ELSE dash
        /\ inbox' = IF full THEN <<>>
                    ELSE IF dash = "live" THEN Append(inbox, <<rec[g].id>>)
                    ELSE inbox
        /\ missed' = IF dash = "snapped" THEN missed \cup {rec[g].id} ELSE missed
        /\ UNCHANGED <<runVars, log, agentVars, netVars, dbVars, ring, shown, sent, cut>>

Record(g) == SaveEvent(g) \/ AddEvent(g) \/ EmitEvent(g)

-----------------------------------------------------------------------------
(***************************************************************************)
(* What is recorded.                                                       *)
(***************************************************************************)

\* onAgentHello records agent.connected; the connection is registered after it.
AcceptHello(c) ==
    /\ conn[c] = "dialed"
    /\ conn' = [conn EXCEPT ![c] = "hello"]
    /\ Create(ServerEvent("connected", c))
    /\ rec' = Start(c, NewId)
    /\ UNCHANGED <<runVars, agentVars, broken, up, down, agents, dbVars, ring, dashVars, sent, cut>>

\* The connection breaks before agent.hello is read, or a report came first: the
\* agent's loops may use a connection before its hello is sent (wsclient.go:96),
\* and the server closes one whose first message is another (ws.go:58).
AcceptFails(c) ==
    /\ conn[c] = "dialed" /\ (c \in broken \/ up[c] # <<>>)
    /\ conn' = [conn EXCEPT ![c] = "free"]
    /\ broken' = broken \cup {c}
    /\ up' = [up EXCEPT ![c] = <<>>]
    /\ cut' = (cut \/ up[c] # <<>>)
    /\ UNCHANGED <<runVars, log, agentVars, down, agents, rec, dbVars, ring, dashVars, sent>>

Register(c) ==
    /\ conn[c] = "hello" /\ rec[c] = Idle
    /\ conn' = [conn EXCEPT ![c] = "open"]
    /\ agents' = c
    /\ UNCHANGED <<runVars, log, agentVars, broken, up, down, rec, dbVars, ring, dashVars, sent, cut>>

\* readPump: onAgentMessage for event.report, once the message before it is
\* handled.
ReadReport(c) ==
    /\ conn[c] = "open" /\ rec[c] = Idle /\ up[c] # <<>>
    /\ up' = [up EXCEPT ![c] = Tail(@)]
    /\ rec' = Start(c, Head(up[c]))
    /\ UNCHANGED <<runVars, log, agentVars, conn, broken, down, agents, dbVars, ring, dashVars,
                   sent, cut>>

ReadFails(c) ==
    /\ c \in broken /\ conn[c] = "open" /\ rec[c] = Idle /\ up[c] = <<>>
    /\ conn' = [conn EXCEPT ![c] = "ended"]
    /\ UNCHANGED <<runVars, log, agentVars, broken, up, down, agents, rec, dbVars, ring, dashVars,
                   sent, cut>>

\* The hub forgets the connection and onUnregister records agent.disconnected.
Unregister(c) ==
    /\ conn[c] = "ended" /\ rec[Hub] = Idle
    /\ conn' = [conn EXCEPT ![c] = "free"]
    /\ down' = [down EXCEPT ![c] = <<>>]
    /\ agents' = IF agents = c THEN NoConn ELSE agents
    /\ Create(ServerEvent("offline", Hub))
    /\ rec' = Start(Hub, NewId)
    /\ UNCHANGED <<runVars, agentVars, broken, up, dbVars, ring, dashVars, sent, cut>>

\* sendCommand: SendToAgent puts the command on the connection the hub has for
\* the machine, then command.issued is recorded; without one the answer is
\* agent_offline. A command for a session that is not listed changes nothing.
SendCommand ==
    /\ "commands" \in plan
    /\ rec[Http] = Idle
    /\ agents # NoConn
    /\ IF agents \in broken
       THEN UNCHANGED down
       ELSE /\ Len(down[agents]) < WireCap
            /\ down' = [down EXCEPT ![agents] = Append(@, NewId)]
    /\ sent' = sent \cup {NewId}
    /\ Create(ServerEvent("command", Http))
    /\ rec' = Start(Http, NewId)
    /\ UNCHANGED <<runVars, agentVars, conn, broken, up, agents, dbVars, ring, dashVars, cut>>

\* Mutant: the error of SaveFile is not looked at.
Publish_IgnoresError ==
    /\ "files" \in plan
    /\ rec[Http] = Idle
    /\ \/ files' = files \cup {NewId}
       \/ "db" \in plan /\ UNCHANGED files
    /\ Create(ServerEvent("file", Http))
    /\ rec' = Start(Http, NewId)
    /\ UNCHANGED <<runVars, agentVars, netVars, stored, pruned, unsaved, ring, dashVars, sent, cut>>

\* handlePublish: SaveFile, then file.published is recorded; when the file
\* cannot be saved nothing is.
Publish ==
    /\ "files" \in plan
    /\ rec[Http] = Idle
    /\ files' = files \cup {NewId}
    /\ Create(ServerEvent("file", Http))
    /\ rec' = Start(Http, NewId)
    /\ UNCHANGED <<runVars, agentVars, netVars, stored, pruned, unsaved, ring, dashVars, sent, cut>>

\* retentionLoop: PruneEvents deletes the rows below a cutoff.
Prune(cutoff) ==
    /\ "prune" \in plan
    /\ \E id \in stored : id < cutoff
    /\ stored' = {id \in stored : id >= cutoff}
    /\ pruned' = pruned \cup {id \in stored : id < cutoff}
    /\ UNCHANGED <<runVars, log, agentVars, netVars, rec, files, unsaved, ring, dashVars, sent, cut>>

\* The newest rows, as many as the limit; k of them are this organisation's.
AllRecentEvents(k) == {id \in stored : Cardinality({j \in stored : j > id}) < k}

\* The one sequence of the members of S in ascending order, as a set.
Ascending(S) == {s \in [1 .. Cardinality(S) -> S] : \A i, j \in DOMAIN s : i < j => s[i] < s[j]}

\* Mutant: the rows are fed to the ring as they come, newest first.
Seed_NewestFirst(k) == {LastN(Reverse(s), RingCap) : s \in Ascending(AllRecentEvents(k))}

\* SeedEvent, oldest first.
Seed(k) == {LastN(s, RingCap) : s \in Ascending(AllRecentEvents(k))}

\* The server restarts: goroutines, connections and ring are gone, what was on
\* its way is lost.
ServerRestarts ==
    /\ "server" \in plan
    /\ boots < MaxBoots
    /\ boots' = boots + 1
    /\ conn' = [c \in Conns |-> "free"]
    /\ broken' = broken \cup ({cur} \cap Conns)
    /\ up' = [c \in Conns |-> <<>>]
    /\ down' = [c \in Conns |-> <<>>]
    /\ agents' = NoConn
    /\ rec' = [g \in Goroutines |-> Idle]
    /\ unsaved' = unsaved \cup ((Recording \ {0}) \ stored)
    /\ cut' = (cut \/ (Recording \ {0}) \ stored # {} \/ \E c \in Conns : up[c] # <<>>)
    /\ \E k \in 0 .. SeedLimit : ring' \in Seed(k)
    /\ dash' = "off" /\ inbox' = <<>>
    /\ UNCHANGED <<plan, log, agentVars, stored, files, pruned, shown, missed, sent>>

-----------------------------------------------------------------------------
(***************************************************************************)
(* The dashboard. A snapshot message is <<"snapshot", ids>>, an event      *)
(* message is <<id>>.                                                      *)
(***************************************************************************)

\* handleWS: the snapshot is queued, then the client is registered.
TakeSnapshot ==
    /\ "dash" \in plan
    /\ dash = "off"
    /\ dash' = "snapped"
    /\ inbox' = <<<<"snapshot", Reverse(ring)>>>>
    /\ missed' = {}
    /\ UNCHANGED <<runVars, log, agentVars, netVars, rec, dbVars, ring, shown, sent, cut>>

RegisterDash ==
    /\ dash = "snapped"
    /\ dash' = "live"
    /\ UNCHANGED <<runVars, log, agentVars, netVars, rec, dbVars, ring, inbox, shown, missed, sent, cut>>

\* Mutant: an event that is already shown is added again.
Shown_Twice(msg) ==
    IF Len(msg) = 2 THEN msg[2] ELSE SubSeq(msg \o shown, 1, Min({MaxShown, Len(shown) + 1}))

\* applyMessage: a snapshot replaces the list, an event whose id is not there
\* is put in front.
Shown(msg) ==
    IF Len(msg) = 2 THEN SubSeq(msg[2], 1, Min({MaxShown, Len(msg[2])}))
    ELSE IF Contains(shown, msg[1]) THEN shown
    ELSE SubSeq(msg \o shown, 1, Min({MaxShown, Len(shown) + 1}))

Receive ==
    /\ dash = "live" /\ inbox # <<>>
    /\ shown' = Shown(Head(inbox))
    /\ inbox' = Tail(inbox)
    /\ UNCHANGED <<runVars, log, agentVars, netVars, rec, dbVars, ring, dash, missed, sent, cut>>

DashDrops ==
    /\ dash # "off"
    /\ dash' = "off" /\ inbox' = <<>>
    /\ UNCHANGED <<runVars, log, agentVars, netVars, rec, dbVars, ring, shown, missed, sent, cut>>

-----------------------------------------------------------------------------
Agent ==
    \/ \E seen \in Statuses \cup {Absent} : Discover(seen)
    \/ AgentNotices \/ HandleCommand \/ AgentRestarts
    \/ \E c \in Conns : Dial(c)

Server ==
    \/ \E g \in Goroutines : Record(g)
    \/ \E c \in Conns :
          \/ AcceptHello(c) \/ AcceptFails(c) \/ Register(c)
          \/ ReadReport(c) \/ ReadFails(c) \/ Unregister(c)
    \/ SendCommand \/ Publish
    \/ \E cutoff \in Ids : Prune(cutoff)
    \/ ServerRestarts

Dashboard == TakeSnapshot \/ RegisterDash \/ Receive \/ DashDrops

Next ==
    \/ Agent \/ Server \/ Dashboard
    \/ \E c \in Conns : Break(c)

Spec == Init /\ [][Next]_vars

-----------------------------------------------------------------------------
(***************************************************************************)
(* Properties.                                                             *)
(***************************************************************************)

\* Every variable has its type; ring, list and buffers keep their bounds.
TypeOK ==
    /\ plan \in Plans /\ boots \in 0 .. MaxBoots
    /\ known \in Statuses \cup {Absent}
    /\ cur \in Conns \cup {NoConn} /\ agents \in Conns \cup {NoConn}
    /\ Len(log) <= MaxEvents
    /\ \A i \in DOMAIN log : log[i].kind \in Kinds
    /\ conn \in [Conns -> {"free", "dialed", "hello", "open", "ended"}]
    /\ broken \subseteq Conns
    /\ \A c \in Conns : /\ up[c] \in Seq(Ids) /\ Len(up[c]) <= WireCap
                        /\ down[c] \in Seq(Ids) /\ Len(down[c]) <= WireCap
    /\ rec \in [Goroutines -> [at : 0 .. Len(Steps), id : 0 .. MaxEvents]]
    /\ \A S \in {stored, files, pruned, unsaved, missed, sent, acted} : S \subseteq Ids
    /\ ring \in Seq(Ids) /\ Len(ring) <= RingCap
    /\ dash \in {"off", "snapped", "live"} /\ Len(inbox) <= Max({1, InboxCap})
    /\ shown \in Seq(Ids) /\ Len(shown) <= MaxShown
    /\ cut \in BOOLEAN

\* The dashboard shows no event twice, although an event recorded while it
\* connects is both in its snapshot and broadcast to it.
ShownOnce == IsInjective(shown)

\* What is in the ring or on the screen is in the database and so survives a
\* restart of the server at any point, except what was pruned or refused.
ShownIsStored == Range(ring) \cup Range(shown) \subseteq stored \cup pruned \cup unsaved

\* A connected dashboard that has read its messages shows the whole ring,
\* except events whose recording is not over and events broadcast between its
\* snapshot and its registration (ws.go:47).
ShownIsComplete ==
    dash = "live" /\ inbox = <<>> => Range(ring) \ (missed \cup Recording) \subseteq Range(shown)

SessionEvents(S) == {id \in S : log[id].kind \in SessionKinds}

Ordered(s) ==
    \A i, j \in DOMAIN s :
        i < j /\ {s[i], s[j]} \subseteq SessionEvents(Ids \cap DOMAIN log)
              /\ log[s[i]].via = log[s[j]].via => s[i] < s[j]

\* The ring holds the events reported on one connection oldest first and the
\* dashboard shows them newest first, also when the ring was seeded from the
\* database at startup ("feed oldest-last per org", server.go:82).
TimelineOrder == Ordered(ring) /\ Ordered(Reverse(shown))

Quiet == /\ \A g \in Goroutines : rec[g] = Idle
         /\ \A c \in Conns : up[c] = <<>>

\* When nothing is on its way, the session's events in the database, by time,
\* form one chain that starts without a session and ends with the agent's
\* current copy, however connections were replaced and their messages were
\* interleaved, unless a report was lost or the agent restarted.
ChainIsWhole ==
    LET S == SessionEvents(stored \cup pruned)
        before(i) == {j \in S : j < i}
    IN  Quiet /\ ~cut =>
            /\ \A i \in S :
                  log[i].from = IF before(i) = {} THEN Absent ELSE log[Max(before(i))].to
            /\ known = IF S = {} THEN Absent ELSE log[Max(S)].to

\* The audit trail: a command the agent acted on has its event, and a published
\* file too, unless the server stopped or the database refused it in between;
\* an event in the database has its cause: a command that was put on a
\* connection, a file that can be downloaded.
AuditTrail ==
    /\ acted \cup files \subseteq stored \cup pruned \cup unsaved \cup Recording
    /\ \A id \in stored : /\ log[id].kind = "command" => id \in sent
                          /\ log[id].kind = "file" => id \in files
=============================================================================
