----------------------------- MODULE LiveIndex -----------------------------
(***************************************************************************)
(* The live index of one org from end to end: the agents that report       *)
(* (internal/agent: runtime.go, wsclient.go), the handlers that apply the  *)
(* reports to the in-memory state and broadcast them (internal/server:     *)
(* ws.go, agent_handler.go, handlers.go; internal/state: manager.go), and  *)
(* the dashboards that replay snapshot and diffs (live.ts, ws.ts).         *)
(*                                                                         *)
(* Every handler mutates the index under the state lock and broadcasts     *)
(* afterwards, holding nothing in between: out[g] is what goroutine g has  *)
(* changed and not yet broadcast. What the hub does to a broadcast is      *)
(* module Hub; here it reaches every registered dashboard in one step.     *)
(*                                                                         *)
(* A connection slot is used again when nothing refers to it any more (the *)
(* program makes a new uuid); the slots bound the connections that exist   *)
(* at one time.                                                            *)
(***************************************************************************)
EXTENDS Naturals, Sequences, FiniteSets

CONSTANTS
    Machines,
    Sessions,
    MachineOf,    \* MachineOf[s]: the machine a session runs on
    Conns,        \* connection slots of agents
    AgentOf,      \* AgentOf[c]: the machine whose agent uses slot c
    NoConn, NoSession, NoMachine,
    Browsers,     \* open dashboards
    HubG, HttpG,  \* the hub goroutine and a request handler
    Plans,        \* what may happen in one behaviour: subsets of Events
    PipeCap,      \* bound: agent messages in flight on a connection
    QueueCap      \* sendBuffer: diffs waiting for a dashboard

\* Connections break and overlap, the agent, the server or a dashboard's socket
\* restarts, an operator deletes a machine, a dashboard is open, the REST API
\* seeds it.
Events == {"network", "overlap", "agent", "server", "dashboard", "delete", "browser", "rest"}

ASSUME LiveIndexAssumption ==
    /\ MachineOf \in [Sessions -> Machines]
    /\ AgentOf \in [Conns -> Machines]
    /\ NoConn \notin Conns /\ NoSession \notin Sessions /\ NoMachine \notin Machines
    /\ HubG \notin Conns /\ HttpG \notin Conns /\ HubG # HttpG
    /\ Plans \subseteq SUBSET Events
    /\ PipeCap \in Nat \ {0} /\ QueueCap \in Nat \ {0}

On(m) == {s \in Sessions : MachineOf[s] = m}
Slots(m) == {c \in Conns : AgentOf[c] = m}
Goroutines == Conns \cup {HubG, HttpG}

\* What the index, and a dashboard's copy of it, hold: per machine whether it
\* is unknown, offline or online, and the sessions that are listed.
MachineStates == {"none", "off", "on"}
Indexes == [mach : [Machines -> MachineStates], sess : SUBSET Sessions]
EmptyIndex == [mach |-> [m \in Machines |-> "none"], sess |-> {}]

\* agent -> server
AgentMsg(t, s) == [t |-> t, s |-> s]
AgentMsgs == [t : {"hello", "heartbeat"}, s : {NoSession}]
             \cup [t : {"upsert", "removed"}, s : Sessions]

\* server -> dashboard: machine.upsert (with agent.status), machine.removed,
\* session.upsert, session.removed
Diff(t, m, s) == [t |-> t, m |-> m, s |-> s]
Diffs == [t : {"machine_on", "machine_off", "machine_removed"}, m : Machines, s : {NoSession}]
         \cup {Diff(t, MachineOf[s], s) : t \in {"upsert", "removed"}, s \in Sessions}

VARIABLES
    plan,      \* what may happen in this behaviour
    world,     \* agent sessions that run on each machine
    known,     \* Runtime.sessions of each agent
    link,      \* wsClient.conn of each agent
    dialing,   \* agents between setConn and their agent.hello
    pipe,      \* messages in flight to the server
    broken,    \* the connection is dead (an unused slot is)
    keyed,     \* machines whose agent key is accepted
    index,     \* state.Manager, the partition of this org
    stage,     \* goroutine of an agent connection (handleWS, then readPump)
    hub,       \* hub goroutine: the machine of the client it unregisters, and where it is
    http,      \* handleDeleteMachine: the machine, and where it is
    out,       \* changed and not yet broadcast
    dash,      \* "off", "snapped" (snapshot taken), "on" (registered)
    queue,     \* diffs on their way to a dashboard
    snap,      \* the snapshot frame: <<index>>, or <<>> once applied
    view,      \* what the dashboard shows
    page,      \* REST answers of a page load, and whether they are applied
    gap,       \* history: a diff was broadcast between snapshot and register
    raced      \* history: a diff was out of date before it was broadcast, or a
               \* REST answer before it was applied

agentVars == <<world, known, link, dialing>>
netVars   == <<pipe, broken>>
srvVars   == <<keyed, index, stage, hub, http, out>>
dashVars  == <<dash, queue, snap, view, page>>
histVars  == <<gap, raced>>
vars == <<plan, world, known, link, dialing, pipe, broken, keyed, index, stage, hub, http, out,
          dash, queue, snap, view, page, gap, raced>>

IdleHub  == [at |-> "idle", m |-> NoMachine]
IdleHttp == [at |-> "idle", m |-> NoMachine]
NoPage   == [at |-> "unread", rows |-> EmptyIndex]

Init ==
    /\ plan \in Plans
    /\ world = [m \in Machines |-> {}]
    /\ known = [m \in Machines |-> {}]
    /\ link = [m \in Machines |-> NoConn]
    /\ dialing = {}
    /\ pipe = [c \in Conns |-> <<>>]
    /\ broken = [c \in Conns |-> TRUE]
    /\ keyed = Machines
    /\ index = EmptyIndex
    /\ stage = [c \in Conns |-> "none"]
    /\ hub = IdleHub
    /\ http = IdleHttp
    /\ out = [g \in Goroutines |-> {}]
    /\ dash = [b \in Browsers |-> "off"]
    /\ queue = [b \in Browsers |-> <<>>]
    /\ snap = [b \in Browsers |-> <<>>]
    /\ view = [b \in Browsers |-> EmptyIndex]
    /\ page = [b \in Browsers |-> NoPage]
    /\ gap = [b \in Browsers |-> FALSE]
    /\ raced = [b \in Browsers |-> FALSE]

-----------------------------------------------------------------------------
(***************************************************************************)
(* The machine and its agent.                                              *)
(***************************************************************************)

\* Sessions start and end on the machine.
WorldChanges(m, s) ==
    /\ world' = [world EXCEPT ![m] = IF s \in @ THEN @ \ {s} ELSE @ \cup {s}]
    /\ UNCHANGED <<plan, known, link, dialing, netVars, srvVars, dashVars, histVars>>

Connected(m) == link[m] # NoConn /\ ~broken[link[m]]

\* wsClient.send: without a connection, or on a dead one, the message is lost
\* and the caller ignores the error.
Send(m, msg) ==
    /\ IF Connected(m)
       THEN /\ Len(pipe[link[m]]) < PipeCap
            /\ pipe' = [pipe EXCEPT ![link[m]] = Append(@, msg)]
       ELSE UNCHANGED pipe
    /\ UNCHANGED broken

\* One session of a discover poll: a running one is recorded and reported
\* every time, one that vanished is forgotten and reported once.
Discover(m, s) ==
    /\ \/ s \in world[m] /\ known' = [known EXCEPT ![m] = @ \cup {s}]
          /\ Send(m, AgentMsg("upsert", s))
       \/ s \in known[m] \ world[m] /\ known' = [known EXCEPT ![m] = @ \ {s}]
          /\ Send(m, AgentMsg("removed", s))
    /\ UNCHANGED <<plan, world, link, dialing, srvVars, dashVars, histVars>>

Heartbeat(m) ==
    /\ Send(m, AgentMsg("heartbeat", NoSession))
    /\ UNCHANGED <<plan, agentVars, srvVars, dashVars, histVars>>

\* connect: dial and setConn. From here on every loop of the agent may send,
\* also before the hello has gone out.
Dial(m, c) ==
    /\ link[m] = NoConn
    /\ c \in Slots(m)
    /\ stage[c] = "none"
    /\ \A n \in Machines : link[n] # c
    /\ "overlap" \in plan \/ \A d \in Slots(m) : stage[d] = "none"
    /\ link' = [link EXCEPT ![m] = c]
    /\ pipe' = [pipe EXCEPT ![c] = <<>>]
    /\ broken' = [broken EXCEPT ![c] = FALSE]
    /\ stage' = [stage EXCEPT ![c] = "accepting"]
    /\ dialing' = dialing \cup {m}
    /\ UNCHANGED <<plan, world, known, keyed, index, hub, http, out, dashVars, histVars>>

\* connect sends agent.hello.
SayHello(m) ==
    /\ m \in dialing
    /\ Send(m, AgentMsg("hello", NoSession))
    /\ dialing' = dialing \ {m}
    /\ UNCHANGED <<plan, world, known, link, srvVars, dashVars, histVars>>

\* The network or a peer ends a connection; some of what was in flight is lost.
Break(c) ==
    /\ "network" \in plan
    /\ ~broken[c]
    /\ stage[c] # "none"
    /\ broken' = [broken EXCEPT ![c] = TRUE]
    /\ \E k \in 0 .. Len(pipe[c]) : pipe' = [pipe EXCEPT ![c] = SubSeq(@, 1, k)]
    /\ UNCHANGED <<plan, agentVars, srvVars, dashVars, histVars>>

\* The agent's read loop fails and connect returns.
AgentNotices(m) ==
    /\ link[m] # NoConn
    /\ broken[link[m]]
    /\ link' = [link EXCEPT ![m] = NoConn]
    /\ dialing' = dialing \ {m}
    /\ UNCHANGED <<plan, world, known, netVars, srvVars, dashVars, histVars>>

\* The agent process restarts: it knows no session and has no connection.
AgentRestarts(m) ==
    /\ "agent" \in plan
    /\ known' = [known EXCEPT ![m] = {}]
    /\ link' = [link EXCEPT ![m] = NoConn]
    /\ dialing' = dialing \ {m}
    /\ broken' = [c \in Conns |-> broken[c] \/ c = link[m]]
    /\ UNCHANGED <<plan, world, pipe, srvVars, dashVars, histVars>>

-----------------------------------------------------------------------------
(***************************************************************************)
(* The goroutine of an agent connection.                                   *)
(***************************************************************************)

\* Mutant: the store ignores session.removed.
ApplyDiff_NoRemove(v, d) ==
    CASE d.t = "machine_on"      -> [v EXCEPT !.mach[d.m] = "on"]
      [] d.t = "machine_off"     -> [v EXCEPT !.mach[d.m] = "off"]
      [] d.t = "machine_removed" -> [mach |-> [v.mach EXCEPT ![d.m] = "none"],
                                     sess |-> v.sess \ On(d.m)]
      [] d.t = "upsert"          -> [v EXCEPT !.sess = @ \cup {d.s}]
      [] d.t = "removed"         -> v

\* applyMessage on the dashboard's copy.
ApplyDiff(v, d) ==
    CASE d.t = "machine_on"      -> [v EXCEPT !.mach[d.m] = "on"]
      [] d.t = "machine_off"     -> [v EXCEPT !.mach[d.m] = "off"]
      [] d.t = "machine_removed" -> [mach |-> [v.mach EXCEPT ![d.m] = "none"],
                                     sess |-> v.sess \ On(d.m)]
      [] d.t = "upsert"          -> [v EXCEPT !.sess = @ \cup {d.s}]
      [] d.t = "removed"         -> [v EXCEPT !.sess = @ \ {d.s}]

\* A pending broadcast no longer describes the index: another goroutine has
\* changed what it reports.
Stale(idx, o) == \E g \in Goroutines : \E d \in o[g] : ApplyDiff(idx, d) # idx

\* Goroutine g changes the index under the state lock; it will broadcast ds.
Mutate(g, idx, ds) ==
    /\ index' = idx
    /\ out' = [out EXCEPT ![g] = ds]
    /\ raced' = [b \in Browsers |-> raced[b] \/ (dash[b] # "off" /\ Stale(idx, out'))]
    /\ UNCHANGED gap

SetMachine(m, st) == [index EXCEPT !.mach[m] = st]

\* handleWS: the first message must be a hello with an accepted key;
\* onAgentHello upserts the machine as online.
AcceptHello(c) ==
    LET m == AgentOf[c]
        ok == Head(pipe[c]).t = "hello" /\ m \in keyed
    IN  /\ stage[c] = "accepting"
        /\ pipe[c] # <<>>
        /\ \/ /\ ok
              /\ Mutate(c, SetMachine(m, "on"), {Diff("machine_on", m, NoSession)})
              /\ stage' = [stage EXCEPT ![c] = "greeting"]
              /\ pipe' = [pipe EXCEPT ![c] = Tail(@)]
              /\ UNCHANGED broken
           \/ /\ ~ok
              /\ stage' = [stage EXCEPT ![c] = "none"]
              /\ pipe' = [pipe EXCEPT ![c] = <<>>]
              /\ broken' = [broken EXCEPT ![c] = TRUE]
              /\ UNCHANGED <<index, out, histVars>>
        /\ UNCHANGED <<plan, agentVars, keyed, hub, http, dashVars>>

\* The connection dies before a first message: handleWS returns.
AcceptFails(c) ==
    /\ stage[c] = "accepting"
    /\ pipe[c] = <<>>
    /\ broken[c]
    /\ stage' = [stage EXCEPT ![c] = "none"]
    /\ UNCHANGED <<plan, agentVars, netVars, keyed, index, hub, http, out, dashVars, histVars>>

\* hub.Register: waits for the hub goroutine, then the read pump starts.
Register(c) ==
    /\ stage[c] = "greeting"
    /\ out[c] = {}
    /\ hub = IdleHub
    /\ stage' = [stage EXCEPT ![c] = "serving"]
    /\ UNCHANGED <<plan, agentVars, netVars, keyed, index, hub, http, out, dashVars, histVars>>

\* Mutant: a heartbeat updates metrics only.
Applied_NoOnline(m, msg) ==
    CASE msg.t = "upsert"  -> [index EXCEPT !.sess = @ \cup {msg.s}]
      [] msg.t = "removed" -> [index EXCEPT !.sess = @ \ {msg.s}]
      [] OTHER -> index

\* What onAgentMessage does to the index, and what it will broadcast.
Applied(m, msg) ==
    CASE msg.t = "upsert"  -> [index EXCEPT !.sess = @ \cup {msg.s}]
      [] msg.t = "removed" -> [index EXCEPT !.sess = @ \ {msg.s}]
      [] msg.t = "heartbeat" /\ index.mach[m] # "none" -> SetMachine(m, "on")
      [] OTHER -> index

Announced(m, msg) ==
    CASE msg.t \in {"upsert", "removed"} -> {Diff(msg.t, m, msg.s)}
      [] msg.t = "heartbeat" /\ index.mach[m] # "none" ->
            {Diff("machine_on", m, NoSession)}
      [] OTHER -> {}

\* readPump reads one message and runs onAgentMessage up to its broadcast.
ReadMessage(c) ==
    LET m == AgentOf[c]
        msg == Head(pipe[c])
    IN  /\ stage[c] = "serving"
        /\ out[c] = {}
        /\ pipe[c] # <<>>
        /\ Mutate(c, Applied(m, msg), Announced(m, msg))
        /\ pipe' = [pipe EXCEPT ![c] = Tail(@)]
        /\ UNCHANGED <<plan, agentVars, broken, keyed, stage, hub, http, dashVars>>

\* ReadMessage fails: readPump will hand the client back to the hub.
ReadFails(c) ==
    /\ stage[c] = "serving"
    /\ out[c] = {}
    /\ pipe[c] = <<>>
    /\ broken[c]
    /\ stage' = [stage EXCEPT ![c] = "leaving"]
    /\ UNCHANGED <<plan, agentVars, netVars, keyed, index, hub, http, out, dashVars, histVars>>

-----------------------------------------------------------------------------
(***************************************************************************)
(* The hub goroutine: onUnregister, whatever connections the machine has   *)
(* meanwhile.                                                              *)
(***************************************************************************)
HandBack(c) ==
    /\ stage[c] = "leaving"
    /\ hub = IdleHub
    /\ stage' = [stage EXCEPT ![c] = "none"]
    /\ hub' = [at |-> "offline", m |-> AgentOf[c]]
    /\ UNCHANGED <<plan, agentVars, netVars, keyed, index, http, out, dashVars, histVars>>

\* SetMachineOnline(false), if the machine is known.
HubMarksOffline ==
    LET m == hub.m
        seen == index.mach[m] # "none"
    IN  /\ hub.at = "offline"
        /\ Mutate(HubG, IF seen THEN SetMachine(m, "off") ELSE index,
                  IF seen THEN {Diff("machine_off", m, NoSession)} ELSE {})
        /\ hub' = [hub EXCEPT !.at = "clear"]
        /\ UNCHANGED <<plan, agentVars, netVars, keyed, stage, http, dashVars>>

ListedOn(m) == index.sess \cap On(m)
Removals(m) == {Diff("removed", m, s) : s \in ListedOn(m)}

\* Mutant: the sessions of the machine stay listed.
HubClears_Keep ==
    /\ hub.at = "clear"
    /\ out[HubG] = {}
    /\ hub' = [hub EXCEPT !.at = "return"]
    /\ UNCHANGED <<plan, agentVars, netVars, keyed, index, stage, http, out, dashVars, histVars>>

\* RemoveMachineSessions.
HubClears ==
    LET m == hub.m
    IN  /\ hub.at = "clear"
        /\ out[HubG] = {}
        /\ Mutate(HubG, [index EXCEPT !.sess = @ \ On(m)], Removals(m))
        /\ hub' = [hub EXCEPT !.at = "return"]
        /\ UNCHANGED <<plan, agentVars, netVars, keyed, stage, http, dashVars>>

HubReturns ==
    /\ hub.at = "return"
    /\ out[HubG] = {}
    /\ hub' = IdleHub
    /\ UNCHANGED <<plan, agentVars, netVars, keyed, index, stage, http, out, dashVars, histVars>>

-----------------------------------------------------------------------------
(***************************************************************************)
(* handleDeleteMachine, when the store has deleted the rows (an error of   *)
(* the store ends the request without a change).                           *)
(***************************************************************************)
DeleteStarts(m, force) ==
    /\ http = IdleHttp
    /\ "delete" \in plan
    /\ force \/ index.mach[m] # "on"
    /\ http' = [at |-> "sessions", m |-> m]
    /\ UNCHANGED <<plan, agentVars, netVars, keyed, index, stage, hub, out, dashVars, histVars>>

DeleteSessions ==
    /\ http.at = "sessions"
    /\ Mutate(HttpG, [index EXCEPT !.sess = @ \ On(http.m)], Removals(http.m))
    /\ http' = [http EXCEPT !.at = "machine"]
    /\ UNCHANGED <<plan, agentVars, netVars, keyed, stage, hub, dashVars>>

\* RemoveMachine, whose broadcast makes dashboards drop the machine's sessions
\* too, also one its agent has just reported.
DeleteMachine ==
    /\ http.at = "machine"
    /\ out[HttpG] = {}
    /\ Mutate(HttpG, SetMachine(http.m, "none"), {Diff("machine_removed", http.m, NoSession)})
    /\ http' = [http EXCEPT !.at = "revoke"]
    /\ UNCHANGED <<plan, agentVars, netVars, keyed, stage, hub, dashVars>>

\* RevokeAgentKeysForMachine and reloadAgentKeys. The connection stays.
DeleteRevokes ==
    /\ http.at = "revoke"
    /\ out[HttpG] = {}
    /\ keyed' = keyed \ {http.m}
    /\ http' = IdleHttp
    /\ UNCHANGED <<plan, agentVars, netVars, index, stage, hub, out, dashVars, histVars>>

\* handleEnroll: the machine gets a key again.
Enroll(m) ==
    /\ m \notin keyed
    /\ keyed' = keyed \cup {m}
    /\ UNCHANGED <<plan, agentVars, netVars, index, stage, hub, http, out, dashVars, histVars>>

\* The server process restarts: the index is empty, every connection is gone;
\* keys are in the store.
ServerRestarts ==
    /\ "server" \in plan
    /\ index' = EmptyIndex
    /\ stage' = [c \in Conns |-> "none"]
    /\ hub' = IdleHub
    /\ http' = IdleHttp
    /\ out' = [g \in Goroutines |-> {}]
    /\ pipe' = [c \in Conns |-> <<>>]
    /\ broken' = [c \in Conns |-> TRUE]
    /\ dash' = [b \in Browsers |-> "off"]
    /\ queue' = [b \in Browsers |-> <<>>]
    /\ snap' = [b \in Browsers |-> <<>>]
    /\ gap' = [b \in Browsers |-> FALSE]
    /\ raced' = [b \in Browsers |-> FALSE]
    /\ UNCHANGED <<plan, agentVars, keyed, view, page>>

-----------------------------------------------------------------------------
(***************************************************************************)
(* Dashboards.                                                             *)
(***************************************************************************)

\* Mutant: a dashboard with a full buffer keeps its connection.
Emit_NoLimit(g) ==
    \E d \in out[g] :
        /\ out' = [out EXCEPT ![g] = @ \ {d}]
        /\ queue' = [b \in Browsers |-> IF dash[b] = "on" THEN Append(queue[b], d) ELSE queue[b]]
        /\ gap' = [b \in Browsers |-> gap[b] \/ dash[b] = "snapped"]
        /\ UNCHANGED <<plan, agentVars, netVars, keyed, index, stage, hub, http, dash, snap,
                       view, page, raced>>

\* EmitOrg: one pending diff of g goes to every registered dashboard; one
\* whose buffer is full loses its connection (Client.enqueue).
Emit(g) ==
    \E d \in out[g] :
        LET full == {b \in Browsers : dash[b] = "on" /\ Len(queue[b]) >= QueueCap}
        IN  /\ out' = [out EXCEPT ![g] = @ \ {d}]
            /\ queue' = [b \in Browsers |->
                             IF b \in full THEN <<>>
                             ELSE IF dash[b] = "on" THEN Append(queue[b], d)
                             ELSE queue[b]]
            /\ dash' = [b \in Browsers |-> IF b \in full THEN "off" ELSE dash[b]]
            /\ snap' = [b \in Browsers |-> IF b \in full THEN <<>> ELSE snap[b]]
            /\ gap' = [b \in Browsers |-> b \notin full /\ (gap[b] \/ dash[b] = "snapped")]
            /\ raced' = [b \in Browsers |-> b \notin full /\ raced[b]]
            /\ UNCHANGED <<plan, agentVars, netVars, keyed, index, stage, hub, http, view, page>>

\* handleWS for a dashboard: the snapshot is taken and put in the send buffer.
TakeSnapshot(b) ==
    /\ "browser" \in plan
    /\ dash[b] = "off"
    /\ dash' = [dash EXCEPT ![b] = "snapped"]
    /\ snap' = [snap EXCEPT ![b] = <<index>>]
    /\ raced' = [raced EXCEPT ![b] = Stale(index, out)]
    /\ UNCHANGED <<plan, agentVars, netVars, srvVars, queue, view, page, gap>>

\* hub.Register, when the hub goroutine is free.
RegisterDash(b) ==
    /\ dash[b] = "snapped"
    /\ hub = IdleHub
    /\ dash' = [dash EXCEPT ![b] = "on"]
    /\ UNCHANGED <<plan, agentVars, netVars, srvVars, queue, snap, view, page, histVars>>

\* The next frame: the snapshot replaces the copy, a diff updates it.
Receive(b) ==
    /\ dash[b] = "on"
    /\ \/ /\ snap[b] # <<>>
          /\ view' = [view EXCEPT ![b] = Head(snap[b])]
          /\ snap' = [snap EXCEPT ![b] = <<>>]
          /\ UNCHANGED queue
       \/ /\ snap[b] = <<>> /\ queue[b] # <<>>
          /\ view' = [view EXCEPT ![b] = ApplyDiff(@, Head(queue[b]))]
          /\ queue' = [queue EXCEPT ![b] = Tail(@)]
          /\ UNCHANGED snap
    /\ UNCHANGED <<plan, agentVars, netVars, srvVars, dash, page, histVars>>

\* handleListMachines and handleListSessions, asked for when the page loads;
\* one step: Promise.all waits for both.
ReadFleet(b) ==
    /\ "rest" \in plan
    /\ page[b].at = "unread"
    /\ page' = [page EXCEPT ![b] = [at |-> "read", rows |-> index]]
    /\ UNCHANGED <<plan, agentVars, netVars, srvVars, dash, queue, snap, view, histVars>>

\* hydrateFleet: the rows replace those of the same id, none is removed.
HydrateFleet(b) ==
    LET rows == page[b].rows
        Kept(m) == rows.mach[m] = "none"
    IN  /\ page[b].at = "read"
        /\ page' = [page EXCEPT ![b] = [NoPage EXCEPT !.at = "applied"]]
        /\ view' = [view EXCEPT ![b] =
                        [mach |-> [m \in Machines |->
                                       IF Kept(m) THEN @.mach[m] ELSE rows.mach[m]],
                         sess |-> @.sess \cup rows.sess]]
        /\ raced' = [raced EXCEPT ![b] = @ \/ rows # index]
        /\ UNCHANGED <<plan, agentVars, netVars, srvVars, dash, queue, snap, gap>>

\* The dashboard's socket closes; ReconnectingWS keeps what is shown and will
\* connect again.
DashDrops(b) ==
    /\ "dashboard" \in plan
    /\ dash[b] # "off"
    /\ dash' = [dash EXCEPT ![b] = "off"]
    /\ queue' = [queue EXCEPT ![b] = <<>>]
    /\ snap' = [snap EXCEPT ![b] = <<>>]
    /\ gap' = [gap EXCEPT ![b] = FALSE]
    /\ raced' = [raced EXCEPT ![b] = FALSE]
    /\ UNCHANGED <<plan, agentVars, netVars, srvVars, view, page>>

-----------------------------------------------------------------------------
AgentStep(m) ==
    \/ \E s \in On(m) : Discover(m, s)
    \/ Heartbeat(m)
    \/ \E c \in Conns : Dial(m, c)
    \/ SayHello(m)
    \/ AgentNotices(m)

ConnStep(c) ==
    \/ AcceptHello(c) \/ AcceptFails(c) \/ Register(c)
    \/ ReadMessage(c) \/ ReadFails(c) \/ HandBack(c)

HubStep == HubMarksOffline \/ HubClears \/ HubReturns
HttpStep == DeleteSessions \/ DeleteMachine \/ DeleteRevokes
DashStep(b) == TakeSnapshot(b) \/ RegisterDash(b) \/ Receive(b)
PageStep(b) == ReadFleet(b) \/ HydrateFleet(b)

\* What the environment may do and need not.
Environment ==
    \/ \E s \in Sessions : WorldChanges(MachineOf[s], s)
    \/ \E c \in Conns : Break(c)
    \/ \E m \in Machines : AgentRestarts(m) \/ Enroll(m)
    \/ \E m \in Machines, force \in BOOLEAN : DeleteStarts(m, force)
    \/ \E b \in Browsers : DashDrops(b)
    \/ ServerRestarts

Next ==
    \/ \E m \in Machines : AgentStep(m)
    \/ \E c \in Conns : ConnStep(c)
    \/ HubStep
    \/ HttpStep
    \/ \E g \in Goroutines : Emit(g)
    \/ \E b \in Browsers : DashStep(b) \/ PageStep(b)
    \/ Environment

Spec == Init /\ [][Next]_vars

(***************************************************************************)
(* Fairness. Goroutines that can run do; agents keep dialling, polling and *)
(* sending heartbeats (tickers), strongly fair because a send waits while  *)
(* the connection is busy and is tried again every period; browsers        *)
(* reconnect and read. The environment owes nothing.                       *)
(***************************************************************************)
Fairness ==
    /\ \A m \in Machines :
          /\ WF_vars(\E c \in Conns : Dial(m, c))
          /\ WF_vars(AgentNotices(m))
          /\ SF_vars(SayHello(m))
          /\ SF_vars(Heartbeat(m))
    /\ \A s \in Sessions : SF_vars(Discover(MachineOf[s], s))
    /\ \A c \in Conns : SF_vars(ConnStep(c))
    /\ WF_vars(HubStep)
    /\ WF_vars(HttpStep)
    /\ \A g \in Goroutines : WF_vars(Emit(g))
    /\ \A b \in Browsers : SF_vars(DashStep(b))

FairSpec == Spec /\ Fairness

-----------------------------------------------------------------------------
(***************************************************************************)
(* Properties.                                                             *)
(***************************************************************************)
Stages == {"none", "accepting", "greeting", "serving", "leaving"}

\* Every variable has its type; pipes and queues keep their bounds.
TypeOK ==
    /\ plan \in Plans
    /\ \A m \in Machines : world[m] \subseteq On(m) /\ known[m] \subseteq On(m)
    /\ link \in [Machines -> Conns \cup {NoConn}]
    /\ dialing \subseteq Machines
    /\ pipe \in [Conns -> Seq(AgentMsgs)]
    /\ \A c \in Conns : Len(pipe[c]) <= PipeCap
    /\ broken \in [Conns -> BOOLEAN]
    /\ keyed \subseteq Machines
    /\ index \in Indexes
    /\ stage \in [Conns -> Stages]
    /\ hub \in [at : {"idle", "offline", "clear", "return"}, m : Machines \cup {NoMachine}]
    /\ http \in [at : {"idle", "sessions", "machine", "revoke"}, m : Machines \cup {NoMachine}]
    /\ out \in [Goroutines -> SUBSET Diffs]
    /\ dash \in [Browsers -> {"off", "snapped", "on"}]
    /\ \A b \in Browsers : queue[b] \in Seq(Diffs) /\ Len(queue[b]) <= QueueCap
    /\ \A b \in Browsers : snap[b] = <<>> \/ snap[b] \in {<<i>> : i \in Indexes}
    /\ view \in [Browsers -> Indexes]
    /\ page \in [Browsers -> [at : {"unread", "read", "applied"}, rows : Indexes]]

\* The server has, or is still unregistering, a connection of the machine.
Attached(m) ==
    \/ \E c \in Slots(m) : stage[c] \in {"greeting", "serving", "leaving"}
    \/ hub.at \in {"offline", "clear"} /\ hub.m = m

\* "On agent disconnect the server marks the machine offline and emits
\* session.removed for its live sessions" (docs/PROTOCOL.md:101): a machine
\* without a connection is never listed as online and has no session listed,
\* however its connections overlapped, died half-way or were deleted.
NoOrphans ==
    \A m \in Machines : ~Attached(m) => index.mach[m] # "on" /\ ListedOn(m) = {}

\* Nothing is in progress between the index and a dashboard.
Settled(b) ==
    /\ dash[b] = "on" /\ snap[b] = <<>> /\ queue[b] = <<>>
    /\ \A g \in Goroutines : out[g] = {}

\* Once a dashboard has caught up it shows the index, unless a diff fell
\* between its snapshot and its registration, another goroutine changed the
\* same entry before a diff was broadcast, or a REST answer was out of date
\* when it was applied ("Live diffs then keep it current", AppLayout.tsx:65):
\* those are the only ways to diverge.
ViewExact ==
    \A b \in Browsers : Settled(b) /\ ~gap[b] /\ ~raced[b] => view[b] = index

\* "Rebuilt from agents on reconnect" (docs/ARCHITECTURE.md:49): when the
\* agent of a machine stays connected and its sessions stay as they are, the
\* index ends up listing the machine as online with exactly those sessions,
\* whatever restarts, lost messages and late disconnects came before.
IndexConverges ==
    \A m \in Machines : \A W \in SUBSET On(m) :
        <>[](Connected(m) /\ world[m] = W)
            => <>[](index.mach[m] = "on" /\ ListedOn(m) = W)
=============================================================================
