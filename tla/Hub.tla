-------------------------------- MODULE Hub --------------------------------
(***************************************************************************)
(* The WebSocket hub of the server: internal/hub/hub.go and client.go, and *)
(* the part of handleWS (internal/server/ws.go) that creates a client and  *)
(* hands it to the hub.                                                    *)
(*                                                                         *)
(* Goroutines modelled: the hub goroutine (Hub.Run), the HTTP goroutine of *)
(* every WebSocket request (handleWS), the readPump and the writePump of   *)
(* every client, and the handler goroutines that publish through the hub   *)
(* (Procs). The hub goroutine itself publishes from OnUnregister: it is    *)
(* the member HubProc of Procs.                                            *)
(*                                                                         *)
(* A section under h.mu.Lock is one action that no reader may overlap. A   *)
(* section under h.mu.RLock is a call in progress: two of them may         *)
(* interleave, client by client.                                           *)
(***************************************************************************)
EXTENDS Naturals, Sequences

CONSTANTS
    Conns,        \* every connection ever made; Client.ID is a fresh uuid
    NoConn,       \* the nil *Client
    Orgs,         \* tenants
    Machines,     \* machine ids of agents
    NoMachine,    \* the empty machine id (every dashboard has it)
    Role,         \* Role[c]: "agent" or "dashboard"
    OrgOf,        \* OrgOf[c]: Client.OrgID
    MachineOf,    \* MachineOf[c]: Client.MachineID
    Procs,        \* goroutines that call into the hub
    HubProc,      \* the hub goroutine, when it runs OnUnregister
    HTTPProcs,    \* request handlers, whose panics the router recovers
    NoProc,       \* sender of the snapshot frame
    SendBuffer,   \* capacity of Client.send (256 in client.go)
    MaxSent       \* bound: broadcasts of a goroutine, per role

Roles == {"agent", "dashboard"}

ASSUME ConnsAssumption ==
    /\ NoConn \notin Conns
    /\ NoMachine \notin Machines
    /\ Role \in [Conns -> Roles]
    /\ OrgOf \in [Conns -> Orgs]
    /\ MachineOf \in [Conns -> Machines \cup {NoMachine}]

ASSUME ProcsAssumption ==
    /\ NoProc \notin Procs
    /\ HubProc \in Procs
    /\ HTTPProcs \subseteq Procs \ {HubProc}

ASSUME BoundsAssumption == SendBuffer \in Nat \ {0} /\ MaxSent \in [Roles -> Nat]

\* What a fan-out addresses: the clients of one role in one org.
Topics == Orgs \X Roles
TopicOf(c) == <<OrgOf[c], Role[c]>>

(***************************************************************************)
(* A frame in a send channel. The n-th message a goroutine p fans out to a *)
(* topic t is [from |-> p, to |-> t, n |-> n]; a message addressed to one  *)
(* machine (SendToAgent) has no topic and no number.                       *)
(***************************************************************************)
NoTopic  == <<NoConn, "none">>
Frames   == [from : Procs \cup {NoProc}, to : Topics \cup {NoTopic}, n : Nat]
Snapshot == [from |-> NoProc, to |-> NoTopic, n |-> 0]
Message(p, t, n) == [from |-> p, to |-> t, n |-> n]

VARIABLES
    clients,      \* Hub.clients
    agentsByID,   \* Hub.agentsByID
    hub,          \* where the hub goroutine is, and the client it handles
    stage,        \* where handleWS is for a connection
    sock,         \* the WebSocket: "none", "open", "closed"
    chan,         \* Client.send
    chanClosed,   \* close(c.send) has happened
    readPump,     \* "none", "reading", "leaving", "closing", "done"
    writePump,    \* "none", "running", "done"
    call,         \* the hub call a goroutine is in
    panicked,     \* goroutines that sent on a closed channel
    sent,         \* history: fan-outs of a goroutine to a topic
    seen,         \* history: last n of a goroutine written to the socket
    greeted,      \* history: the snapshot was written to the socket
    newest        \* history: last client registered for a machine

regVars  == <<clients, agentsByID, hub, newest>>
connVars == <<stage, sock, chan, chanClosed, readPump, writePump>>
histVars == <<seen, greeted>>
procVars == <<call, sent, panicked>>
vars     == <<clients, agentsByID, hub, newest, stage, sock, chan, chanClosed,
              readPump, writePump, seen, greeted, call, sent, panicked>>

Select == [at |-> "select", conn |-> NoConn]
Idle   == [op |-> "idle", topic |-> NoTopic, pend |-> {}]

\* A panic outside a request handler ends the server process.
Crashed == panicked \ HTTPProcs # {}

\* Some goroutine holds h.mu for reading.
Reading == \E p \in Procs : call[p].op = "fanout"

Init ==
    /\ clients = {}
    /\ agentsByID = [m \in Machines |-> NoConn]
    /\ hub = Select
    /\ stage = [c \in Conns |-> "none"]
    /\ sock = [c \in Conns |-> "none"]
    /\ chan = [c \in Conns |-> <<>>]
    /\ chanClosed = [c \in Conns |-> FALSE]
    /\ readPump = [c \in Conns |-> "none"]
    /\ writePump = [c \in Conns |-> "none"]
    /\ call = [p \in Procs |-> Idle]
    /\ panicked = {}
    /\ sent = [p \in Procs |-> [t \in Topics |-> 0]]
    /\ seen = [c \in Conns |-> [p \in Procs |-> 0]]
    /\ greeted = [c \in Conns |-> FALSE]
    /\ newest = [m \in Machines |-> NoConn]

-----------------------------------------------------------------------------
(***************************************************************************)
(* Connecting.                                                             *)
(***************************************************************************)

\* Mutant: the snapshot is left for after the registration.
NewClient_NoSnapshot(c) ==
    /\ stage[c] = "none"
    /\ stage' = [stage EXCEPT ![c] = "created"]
    /\ sock' = [sock EXCEPT ![c] = "open"]
    /\ UNCHANGED <<regVars, chan, chanClosed, readPump, writePump, histVars, procVars>>

\* handleWS: upgrade, NewClient; a dashboard's snapshot goes into the empty
\* send buffer before the client is handed to the hub.
NewClient(c) ==
    /\ stage[c] = "none"
    /\ stage' = [stage EXCEPT ![c] = "created"]
    /\ sock' = [sock EXCEPT ![c] = "open"]
    /\ chan' = [chan EXCEPT ![c] = IF Role[c] = "dashboard" THEN <<Snapshot>> ELSE <<>>]
    /\ UNCHANGED <<regVars, chanClosed, readPump, writePump, histVars, procVars>>

\* h.register <- c meets the receive in Run; Register goes on to start the
\* pumps while the hub goroutine has yet to take the lock.
HandToHub(c) ==
    /\ stage[c] = "created"
    /\ hub = Select
    /\ hub' = [at |-> "register", conn |-> c]
    /\ stage' = [stage EXCEPT ![c] = "handed"]
    /\ UNCHANGED <<clients, agentsByID, newest, sock, chan, chanClosed, readPump,
                   writePump, histVars, procVars>>

\* The two go statements that end Register.
StartPumps(c) ==
    /\ stage[c] = "handed"
    /\ stage' = [stage EXCEPT ![c] = "done"]
    /\ readPump' = [readPump EXCEPT ![c] = "reading"]
    /\ writePump' = [writePump EXCEPT ![c] = "running"]
    /\ UNCHANGED <<regVars, sock, chan, chanClosed, histVars, procVars>>

\* The register case of Run, under h.mu.Lock.
HubRegister ==
    LET c == hub.conn
        m == MachineOf[c]
        routed == Role[c] = "agent" /\ m # NoMachine
    IN  /\ hub.at = "register"
        /\ ~Reading
        /\ clients' = clients \cup {c}
        /\ agentsByID' = IF routed THEN [agentsByID EXCEPT ![m] = c] ELSE agentsByID
        /\ newest' = IF routed THEN [newest EXCEPT ![m] = c] ELSE newest
        /\ seen' = [seen EXCEPT ![c] = [p \in Procs |-> sent[p][TopicOf(c)]]]
        /\ hub' = Select
        /\ UNCHANGED <<connVars, greeted, procVars>>

-----------------------------------------------------------------------------
(***************************************************************************)
(* Leaving.                                                                *)
(***************************************************************************)

\* The peer goes away or the network fails: the socket is dead.
PeerDrops(c) ==
    /\ sock[c] = "open"
    /\ sock' = [sock EXCEPT ![c] = "closed"]
    /\ UNCHANGED <<regVars, stage, chan, chanClosed, readPump, writePump,
                   histVars, procVars>>

\* conn.ReadMessage returns an error: the socket is closed, or it is open and
\* the pong is late or a frame too large. The deferred function runs.
ReadFails(c) ==
    /\ readPump[c] = "reading"
    /\ readPump' = [readPump EXCEPT ![c] = "leaving"]
    /\ UNCHANGED <<regVars, stage, sock, chan, chanClosed, writePump,
                   histVars, procVars>>

\* c.hub.unregister <- c meets the receive in Run.
HandBack(c) ==
    /\ readPump[c] = "leaving"
    /\ hub = Select
    /\ hub' = [at |-> "unregister", conn |-> c]
    /\ readPump' = [readPump EXCEPT ![c] = "closing"]
    /\ UNCHANGED <<clients, agentsByID, newest, stage, sock, chan, chanClosed,
                   writePump, histVars, procVars>>

\* c.close(), the second statement of readPump's deferred function.
ReadPumpCloses(c) ==
    /\ readPump[c] = "closing"
    /\ readPump' = [readPump EXCEPT ![c] = "done"]
    /\ sock' = [sock EXCEPT ![c] = "closed"]
    /\ UNCHANGED <<regVars, stage, chan, chanClosed, writePump, histVars, procVars>>

\* What the unregister case of Run does to a client, given which machines
\* lose their route and whether the section excludes readers.
Unregister(lost, exclusive) ==
    LET c == hub.conn
    IN  /\ hub.at = "unregister"
        /\ exclusive => ~Reading
        /\ clients' = clients \ {c}
        /\ agentsByID' = [m \in Machines |-> IF c \in clients /\ m \in lost
                                             THEN NoConn ELSE agentsByID[m]]
        /\ chanClosed' = [chanClosed EXCEPT ![c] = @ \/ c \in clients]
        /\ hub' = [hub EXCEPT !.at = "callback"]
        /\ UNCHANGED <<newest, stage, sock, chan, readPump, writePump,
                       histVars, procVars>>

\* Mutant: the entry of the machine goes whoever owns it.
HubUnregister_AnyOwner ==
    Unregister({m \in Machines : Role[hub.conn] = "agent" /\ m = MachineOf[hub.conn]}, TRUE)

\* Mutant: the channel is closed without the write lock.
HubUnregister_NoLock ==
    Unregister({m \in Machines : Role[hub.conn] = "agent" /\ agentsByID[m] = hub.conn}, FALSE)

\* The unregister case of Run, under h.mu.Lock: the route of the machine is
\* deleted only when it still points at this client.
HubUnregister ==
    Unregister({m \in Machines : Role[hub.conn] = "agent" /\ m = MachineOf[hub.conn]
                                 /\ agentsByID[m] = hub.conn}, TRUE)

\* OnUnregister has returned (its broadcasts are calls of HubProc).
HubCallbackReturns ==
    /\ hub.at = "callback"
    /\ call[HubProc] = Idle
    /\ hub' = Select
    /\ UNCHANGED <<clients, agentsByID, newest, connVars, histVars, procVars>>

-----------------------------------------------------------------------------
(***************************************************************************)
(* Sending.                                                                *)
(***************************************************************************)

\* The hub goroutine runs handlers only inside OnUnregister, for the org of
\* the agent that left.
MayCall(p, o, r) ==
    p = HubProc => /\ hub.at = "callback"
                   /\ Role[hub.conn] = "agent"
                   /\ r = "dashboard"
                   /\ o = OrgOf[hub.conn]

\* What is left of a call when the clients in rest are still to be served.
Rest(p, rest) == IF rest = {} THEN Idle ELSE [call[p] EXCEPT !.pend = rest]

\* The read lock is taken and the clients in to are to be served.
FanOutTo(p, o, r, to) ==
    /\ call[p] = Idle
    /\ MayCall(p, o, r)
    /\ sent[p][<<o, r>>] < MaxSent[r]
    /\ sent' = [sent EXCEPT ![p][<<o, r>>] = @ + 1]
    /\ call' = [call EXCEPT ![p] =
                    IF to = {} THEN Idle
                    ELSE [op |-> "fanout", topic |-> <<o, r>>, pend |-> to]]
    /\ UNCHANGED <<regVars, connVars, histVars, panicked>>

\* Mutant: the range skips clients that are already slow.
FanOut_SkipBusy(p, o, r) ==
    FanOutTo(p, o, r, {c \in clients : Role[c] = r /\ OrgOf[c] = o
                                       /\ Len(chan[c]) < SendBuffer})

\* Mutant: the range forgets to compare the org.
FanOut_AnyOrg(p, o, r) == FanOutTo(p, o, r, {c \in clients : Role[c] = r})

\* BroadcastOrg and SendToOrgAgents: h.mu.RLock, then a range over h.clients.
FanOut(p, o, r) == FanOutTo(p, o, r, {c \in clients : Role[c] = r /\ OrgOf[c] = o})

\* SendToAgent looks the machine up and RELEASES the lock before it sends.
\* (With no route it returns false and changes nothing.)
SendToAgent(p, m) ==
    /\ call[p] = Idle
    /\ p # HubProc
    /\ agentsByID[m] # NoConn
    /\ call' = [call EXCEPT ![p] = [op |-> "direct", topic |-> NoTopic,
                                    pend |-> {agentsByID[m]}]]
    /\ UNCHANGED <<regVars, connVars, histVars, sent, panicked>>

\* The frame a call in progress carries.
FrameOf(p) ==
    IF call[p].op = "fanout" THEN Message(p, call[p].topic, sent[p][call[p].topic])
                             ELSE Message(p, NoTopic, 0)

\* Mutant: a full buffer loses the frame and keeps the connection.
Enqueue_DropSilently(c, f) ==
    /\ chan' = IF Len(chan[c]) < SendBuffer THEN [chan EXCEPT ![c] = Append(@, f)] ELSE chan
    /\ UNCHANGED sock

\* Mutant: the buffer has no bound.
Enqueue_Unbounded(c, f) ==
    /\ chan' = [chan EXCEPT ![c] = Append(@, f)]
    /\ UNCHANGED sock

\* Client.enqueue: a full buffer drops the connection with the frame.
Enqueue(c, f) ==
    IF Len(chan[c]) < SendBuffer
    THEN chan' = [chan EXCEPT ![c] = Append(@, f)] /\ UNCHANGED sock
    ELSE sock' = [sock EXCEPT ![c] = "closed"] /\ UNCHANGED chan

\* One enqueue of a call. A send on a closed channel panics: the goroutine
\* unwinds (releasing a read lock it holds), a request handler is recovered.
Deliver(p, c) ==
    /\ c \in call[p].pend
    /\ \/ /\ chanClosed[c]
          /\ panicked' = panicked \cup {p}
          /\ call' = [call EXCEPT ![p] = Idle]
          /\ UNCHANGED <<chan, sock>>
       \/ /\ ~chanClosed[c]
          /\ Enqueue(c, FrameOf(p))
          /\ call' = [call EXCEPT ![p] = Rest(p, call[p].pend \ {c})]
          /\ UNCHANGED panicked
    /\ UNCHANGED <<regVars, stage, chanClosed, readPump, writePump, histVars, sent>>

-----------------------------------------------------------------------------
(***************************************************************************)
(* The write pump.                                                         *)
(***************************************************************************)

\* A frame is taken from the channel and written.
WriteFrame(c) ==
    LET f == Head(chan[c])
    IN  /\ writePump[c] = "running"
        /\ chan[c] # <<>>
        /\ sock[c] = "open"
        /\ chan' = [chan EXCEPT ![c] = Tail(@)]
        /\ greeted' = [greeted EXCEPT ![c] = @ \/ f = Snapshot]
        /\ seen' = IF f.n = 0 THEN seen ELSE [seen EXCEPT ![c][f.from] = f.n]
        /\ UNCHANGED <<regVars, stage, sock, chanClosed, readPump, writePump, procVars>>

\* Mutant: a failed write ends the pump and leaves the socket open.
WriteFails_KeepSocket(c) ==
    /\ writePump[c] = "running"
    /\ writePump' = [writePump EXCEPT ![c] = "done"]
    /\ UNCHANGED <<regVars, stage, sock, chan, chanClosed, readPump, histVars, procVars>>

\* A write (of a frame or of a ping) fails: always on a closed socket, on an
\* open one when the deadline passes. The pump ends and closes the socket. A
\* frame it had taken is lost with it; leaving it in the channel nobody reads
\* any more is the same.
WriteFails(c) ==
    /\ writePump[c] = "running"
    /\ writePump' = [writePump EXCEPT ![c] = "done"]
    /\ sock' = [sock EXCEPT ![c] = "closed"]
    /\ UNCHANGED <<regVars, stage, chan, chanClosed, readPump, histVars, procVars>>

\* The channel is closed and drained: a close frame, and the pump ends.
WriteClose(c) ==
    /\ writePump[c] = "running"
    /\ chan[c] = <<>>
    /\ chanClosed[c]
    /\ writePump' = [writePump EXCEPT ![c] = "done"]
    /\ sock' = [sock EXCEPT ![c] = "closed"]
    /\ UNCHANGED <<regVars, stage, chan, chanClosed, readPump, histVars, procVars>>

-----------------------------------------------------------------------------
ConnStep(c) ==
    \/ NewClient(c) \/ HandToHub(c) \/ StartPumps(c)
    \/ PeerDrops(c) \/ ReadFails(c) \/ HandBack(c) \/ ReadPumpCloses(c)
    \/ WriteFrame(c) \/ WriteFails(c) \/ WriteClose(c)

HubStep == HubRegister \/ HubUnregister \/ HubCallbackReturns

ProcStep(p) ==
    \/ \E o \in Orgs, r \in Roles : FanOut(p, o, r)
    \/ \E m \in Machines : SendToAgent(p, m)
    \/ \E c \in Conns : Deliver(p, c)

\* After a crash of the process nothing runs.
Next ==
    /\ ~Crashed
    /\ \/ \E c \in Conns : ConnStep(c)
       \/ HubStep
       \/ \E p \in Procs : ProcStep(p)

Spec == Init /\ [][Next]_vars

(***************************************************************************)
(* Fairness: the Go scheduler runs every goroutine that can run. Handlers  *)
(* need not start calls and peers need not misbehave; a read on a closed   *)
(* socket returns its error and a write on one fails (the next ping at the *)
(* latest).                                                                *)
(***************************************************************************)
Fairness ==
    /\ WF_vars(~Crashed /\ HubStep)
    /\ \A c \in Conns :
          /\ WF_vars(~Crashed /\ HandToHub(c))
          /\ WF_vars(~Crashed /\ StartPumps(c))
          /\ WF_vars(~Crashed /\ sock[c] = "closed" /\ ReadFails(c))
          /\ WF_vars(~Crashed /\ HandBack(c))
          /\ WF_vars(~Crashed /\ ReadPumpCloses(c))
          /\ WF_vars(~Crashed /\ WriteFrame(c))
          /\ WF_vars(~Crashed /\ sock[c] = "closed" /\ WriteFails(c))
          /\ WF_vars(~Crashed /\ WriteClose(c))
    /\ \A p \in Procs : WF_vars(~Crashed /\ \E c \in Conns : Deliver(p, c))

FairSpec == Spec /\ Fairness

-----------------------------------------------------------------------------
(***************************************************************************)
(* Properties.                                                             *)
(***************************************************************************)

Calls ==
    {Idle} \cup [op : {"fanout"}, topic : Topics, pend : SUBSET Conns]
           \cup [op : {"direct"}, topic : {NoTopic}, pend : SUBSET Conns]

\* Every variable has its type, and no send channel ever holds more frames
\* than the capacity client.go gives it (sendBuffer).
TypeOK ==
    /\ clients \subseteq Conns
    /\ agentsByID \in [Machines -> Conns \cup {NoConn}]
    /\ newest \in [Machines -> Conns \cup {NoConn}]
    /\ \/ hub = Select
       \/ hub \in [at : {"register", "unregister", "callback"}, conn : Conns]
    /\ stage \in [Conns -> {"none", "created", "handed", "done"}]
    /\ sock \in [Conns -> {"none", "open", "closed"}]
    /\ chan \in [Conns -> Seq(Frames)]
    /\ \A c \in Conns : Len(chan[c]) <= SendBuffer
    /\ chanClosed \in [Conns -> BOOLEAN]
    /\ readPump \in [Conns -> {"none", "reading", "leaving", "closing", "done"}]
    /\ writePump \in [Conns -> {"none", "running", "done"}]
    /\ call \in [Procs -> Calls]
    /\ panicked \subseteq Procs
    /\ sent \in [Procs -> [Topics -> Nat]]
    /\ seen \in [Conns -> [Procs -> Nat]]
    /\ greeted \in [Conns -> BOOLEAN]

\* agentsByID routes a machine to the last agent that registered for it, for
\* exactly as long as that agent is a client: the late unregister of an older
\* connection of the machine never unroutes the newer one (hub.go:74).
RouteIsNewest ==
    \A m \in Machines :
        agentsByID[m] = IF newest[m] \in clients THEN newest[m] ELSE NoConn

\* The clients a fan-out still has to serve have open channels: holding the
\* read lock over the loop (hub.go:89, hub.go:115) is what keeps Run from
\* closing a channel under it, whatever connections do meanwhile.
FanOutIsSafe ==
    \A p \in Procs : call[p].op = "fanout" =>
        /\ call[p].pend \subseteq clients
        /\ \A c \in call[p].pend : ~chanClosed[c]

\* What a connected client can miss. On an open socket the frames waiting in
\* the channel are of the client's own org and role and continue, goroutine by
\* goroutine and without a gap, what was written before: a full buffer never
\* loses a frame on a connection that goes on (client.go:41-49).
NoGap ==
    \A c \in Conns : sock[c] = "open" =>
        \A i \in DOMAIN chan[c] :
            LET f == chan[c][i]
            IN  f.n > 0 => /\ f.to = TopicOf(c)
                           /\ \/ f.n = seen[c][f.from] + 1
                              \/ \E j \in 1 .. i - 1 :
                                    chan[c][j] = Message(f.from, f.to, f.n - 1)

\* The last of p's messages to the topic of c that has reached c's channel.
LastEnqueued(c, p) ==
    IF call[p].op = "fanout" /\ c \in call[p].pend
    THEN sent[p][TopicOf(c)] - 1 ELSE sent[p][TopicOf(c)]

\* ...and a registered client with an open socket has everything that was
\* sent to its topic since it registered, written or waiting: the fan-out
\* range over h.clients (hub.go:91-95) skips nobody who is there.
NothingMissing ==
    \A c \in clients, p \in Procs : sock[c] = "open" =>
        \/ seen[c][p] = LastEnqueued(c, p)
        \/ \E i \in DOMAIN chan[c] :
              chan[c][i] = Message(p, TopicOf(c), LastEnqueued(c, p))

\* "Enqueue the org snapshot BEFORE registering so it is the first frame"
\* (ws.go:46): nothing is written to a dashboard before its snapshot.
SnapshotFirst ==
    \A c \in Conns : (Role[c] = "dashboard" /\ stage[c] # "none") =>
        IF greeted[c] THEN \A i \in DOMAIN chan[c] : chan[c][i] # Snapshot
        ELSE chan[c] # <<>> /\ Head(chan[c]) = Snapshot

\* SendToAgent "Returns false if no such agent is connected" (hub.go:98-99):
\* it does not panic.
NoPanic == panicked = {}

\* The refinement mapping: a connection is subscribed from its registration
\* until its socket closes.
FeedState == [c \in Conns |->
    CASE c \notin clients /\ ~chanClosed[c] -> "none"
      [] (c \in clients \/ chanClosed[c]) /\ sock[c] = "open" -> "live"
      [] OTHER -> "ended"]

Feed == INSTANCE OrgFeed WITH state <- FeedState

\* The hub implements a lossless feed per org (OrgFeed): whatever the locks,
\* buffers and pumps do, each client reads a contiguous piece of what every
\* goroutine sent to its topic, and then nothing.
ImplementsFeed == Feed!Spec

\* A connection that is dead, or that nobody writes to any more, is forgotten
\* and both its pumps end: no stale client, no leaked goroutine.
DeadIsReaped ==
    \A c \in Conns :
        (stage[c] = "done" /\ (sock[c] = "closed" \/ writePump[c] = "done"))
            ~> \/ Crashed
               \/ c \notin clients /\ readPump[c] = "done" /\ writePump[c] = "done"
=============================================================================
