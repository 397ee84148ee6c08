------------------------------ MODULE Terminal ------------------------------
(***************************************************************************)
(* The interactive terminal from end to end, for one org and its machine:  *)
(* the panel of a dashboard (InteractiveTerminal.tsx), the server's relay  *)
(* and router (internal/server/terminal.go), and the agent's PTY table     *)
(* (internal/agent: terminal.go, runtime.go). A pty id is chosen by the    *)
(* dashboard; one of kind "pty" starts a process, one of kind "tmux"       *)
(* mirrors an existing pane until it is closed. An id may be used again,   *)
(* and by two dashboards at once: it is part of the page's address         *)
(* (TerminalPage.tsx), or made from the session's id (TerminalTab.tsx).    *)
(*                                                                         *)
(* Input, resize and output take the paths of close and opened and change  *)
(* nothing that is kept here; they are left out. What a broken connection  *)
(* of a dashboard still delivers is read before what the next one sends.   *)
(***************************************************************************)
EXTENDS Naturals, Sequences, FiniteSets

CONSTANTS
    Browsers, Ptys,
    NoPty, NoStream,
    Streams,    \* bound: streams of the agent at one time
    Cap,        \* bound: messages in flight on a connection
    MaxFaults   \* bound: failures, and messages a dashboard cannot send

ASSUME TerminalAssumption ==
    /\ NoPty \notin Ptys /\ NoStream \notin Streams
    /\ Cap \in Nat \ {0}
    /\ MaxFaults \in Nat

VARIABLES
    kind,       \* kind[p]: "pty" or "tmux"
    panel,      \* panel[b][p]: status of the panel; "closed": not mounted
    up,         \* dashboard -> server
    pump,       \* read pump of a dashboard, inside onDashboardMessage
    router,     \* terminalRouter.org: bound pty ids
    listed,     \* the live index knows the machine
    agentUp,    \* the agent is connected
    down,       \* server -> agent
    table,      \* termManager.sessions
    stream,     \* the streaming goroutines
    upA,        \* agent -> server
    apump,      \* read pump of the agent, inside handleAgentTerminalOutput
    out,        \* server -> dashboard
    overlap,    \* history: ids whose uses have overlapped
    faults,     \* history: failures so far
    cut         \* history: the agent lost its connection and kept its PTYs

dashVars  == <<kind, panel, up, out>>
srvVars   == <<pump, router, listed, apump, overlap>>
agentVars == <<table, stream>>
netVars   == <<agentUp, down, upA, faults, cut>>
vars == <<kind, panel, up, pump, router, listed, agentUp, down, table, stream,
          upA, apump, out, overlap, faults, cut>>

Msg(t, p) == [t |-> t, p |-> p]
About(p, q) == \E i \in DOMAIN q : q[i].p = p
IdlePump  == [at |-> "idle", p |-> NoPty]
NoProcess == [st |-> "none", p |-> NoPty]

Init ==
    /\ kind \in [Ptys -> {"pty", "tmux"}]
    /\ panel = [b \in Browsers |-> [p \in Ptys |-> "closed"]]
    /\ up = [b \in Browsers |-> <<>>]
    /\ pump = [b \in Browsers |-> IdlePump]
    /\ router = {}
    /\ listed = TRUE
    /\ agentUp = TRUE
    /\ down = <<>>
    /\ table = [p \in Ptys |-> NoStream]
    /\ stream = [s \in Streams |-> NoProcess]
    /\ upA = <<>>
    /\ apump = IdlePump
    /\ out = [b \in Browsers |-> <<>>]
    /\ overlap = {}
    /\ faults = 0
    /\ cut = FALSE

-----------------------------------------------------------------------------
(***************************************************************************)
(* The dashboard.                                                          *)
(***************************************************************************)

Fault == faults < MaxFaults /\ faults' = faults + 1

\* ReconnectingWS.send: a message is lost while the socket is not open.
DashSends(b, m) ==
    \/ /\ Len(up[b]) < Cap
       /\ up' = [up EXCEPT ![b] = Append(@, m)]
       /\ UNCHANGED faults
    \/ /\ Fault
       /\ UNCHANGED up

\* The panel subscribes, then asks for the pty (terminal.open or .attach).
Mount(b, p) ==
    /\ panel[b][p] = "closed"
    /\ panel' = [panel EXCEPT ![b][p] = "connecting"]
    /\ DashSends(b, Msg("open", p))
    /\ UNCHANGED <<kind, out, srvVars, agentVars, agentUp, down, upA, cut>>

\* The effect's clean-up: it unsubscribes and sends terminal.close.
Unmount(b, p) ==
    /\ panel[b][p] # "closed"
    /\ panel' = [panel EXCEPT ![b][p] = "closed"]
    /\ DashSends(b, Msg("close", p))
    /\ UNCHANGED <<kind, out, srvVars, agentVars, agentUp, down, upA, cut>>

StatusOf(t) == CASE t = "opened" -> "live" [] t = "failed" -> "error" [] t = "exit" -> "exited"

\* applyMessage: a panel that is not subscribed is not told.
DashReads(b) ==
    LET m == Head(out[b])
    IN  /\ out[b] # <<>>
        /\ out' = [out EXCEPT ![b] = Tail(@)]
        /\ panel' = [panel EXCEPT ![b][m.p] = IF @ = "closed" THEN @ ELSE StatusOf(m.t)]
        /\ UNCHANGED <<kind, up, srvVars, agentVars, netVars>>

-----------------------------------------------------------------------------
(***************************************************************************)
(* onDashboardMessage, in the read pump of the dashboard.                  *)
(***************************************************************************)

\* History: another dashboard has to do with p, or an earlier use is not over.
Shared(b, p) ==
    \E c \in Browsers \ {b} : panel[c][p] # "closed" \/ pump[c].p = p \/ About(p, up[c])

Overlaps(b, p) ==
    \/ Shared(b, p)
    \/ p \in router
    \/ /\ kind[p] = "pty"
       /\ \/ \E s \in Streams : stream[s].p = p
          \/ apump.p = p \/ About(p, down) \/ About(p, upA)

\* orgOwnsMachine for an open (only a refused terminal.open is answered, not
\* an attach), terminalRouter.orgOf for a close.
PumpReads(b) ==
    LET m == Head(up[b])
        goto == CASE m.t = "open" /\ listed -> "bind"
                  [] m.t = "close" /\ m.p \in router -> "close"
                  [] OTHER -> "idle"
        answered == m.t = "open" /\ ~listed /\ kind[m.p] = "pty"
    IN  /\ pump[b] = IdlePump
        /\ up[b] # <<>>
        /\ up' = [up EXCEPT ![b] = Tail(@)]
        /\ pump' = [pump EXCEPT ![b] = IF goto = "idle" THEN IdlePump
                                       ELSE [at |-> goto, p |-> m.p]]
        /\ answered => Len(out[b]) < Cap
        /\ out' = IF answered THEN [out EXCEPT ![b] = Append(@, Msg("failed", m.p))] ELSE out
        /\ overlap' = IF goto = "close" /\ Shared(b, m.p) THEN overlap \cup {m.p} ELSE overlap
        /\ UNCHANGED <<kind, panel, router, listed, apump, agentVars, netVars>>

\* SendToAgent and SendToOrgAgents: without a connection the message is lost.
ToAgent(m) ==
    IF agentUp THEN Len(down) < Cap /\ down' = Append(down, m) ELSE UNCHANGED down

Binds(b) ==
    /\ router' = router \cup {pump[b].p}
    /\ overlap' = IF Overlaps(b, pump[b].p) THEN overlap \cup {pump[b].p} ELSE overlap

\* Mutant: the message is forwarded first and the binding made afterwards.
Bind_Late(b) ==
    \/ /\ pump[b].at = "bind"
       /\ ToAgent(Msg("open", pump[b].p))
       /\ pump' = [pump EXCEPT ![b].at = "forward"]
       /\ UNCHANGED <<router, overlap, listed, apump, dashVars, agentVars, agentUp, upA, faults, cut>>
    \/ /\ pump[b].at = "forward"
       /\ Binds(b)
       /\ pump' = [pump EXCEPT ![b] = IdlePump]
       /\ UNCHANGED <<listed, apump, dashVars, agentVars, netVars>>

\* bind, then forwardToAgent: two steps.
Bind(b) ==
    \/ /\ pump[b].at = "bind"
       /\ Binds(b)
       /\ pump' = [pump EXCEPT ![b].at = "forward"]
       /\ UNCHANGED <<listed, apump, dashVars, agentVars, netVars>>
    \/ /\ pump[b].at = "forward"
       /\ ToAgent(Msg("open", pump[b].p))
       /\ pump' = [pump EXCEPT ![b] = IdlePump]
       /\ UNCHANGED <<router, overlap, listed, apump, dashVars, agentVars, agentUp, upA, faults, cut>>

\* forwardToOrgAgents, then release: two steps.
Release(b) ==
    \/ /\ pump[b].at = "close"
       /\ ToAgent(Msg("close", pump[b].p))
       /\ pump' = [pump EXCEPT ![b].at = "release"]
       /\ UNCHANGED <<router, overlap, listed, apump, dashVars, agentVars, agentUp, upA, faults, cut>>
    \/ /\ pump[b].at = "release"
       /\ router' = router \ {pump[b].p}
       /\ pump' = [pump EXCEPT ![b] = IdlePump]
       /\ UNCHANGED <<overlap, listed, apump, dashVars, agentVars, netVars>>

-----------------------------------------------------------------------------
(***************************************************************************)
(* The agent: handleServerMessage runs in its read loop, one message after *)
(* the other; a stream has a goroutine of its own.                         *)
(***************************************************************************)

\* wsClient.send: without a connection the message is lost.
FromAgent(m) ==
    IF agentUp THEN Len(upA) < Cap /\ upA' = Append(upA, m) ELSE UNCHANGED upA

\* termManager.Open and AttachTmux enter the stream in the table, whatever is
\* there, and report it; with no process to start, or no pane, nothing is kept.
AgentOpens ==
    LET p == Head(down).p
    IN  /\ down # <<>> /\ Head(down).t = "open"
        /\ down' = Tail(down)
        /\ \/ FromAgent(Msg("failed", p)) /\ UNCHANGED agentVars
           \/ \E s \in Streams :
                 /\ stream[s] = NoProcess
                 /\ stream' = [stream EXCEPT ![s] = [st |-> "running", p |-> p]]
                 /\ table' = [table EXCEPT ![p] = s]
                 /\ FromAgent(Msg("opened", p))
        /\ UNCHANGED <<dashVars, srvVars, agentUp, faults, cut>>

\* Mutant: the entry goes and what it names goes on.
AgentCloses_NoCancel ==
    /\ down # <<>> /\ Head(down).t = "close"
    /\ down' = Tail(down)
    /\ table' = [table EXCEPT ![Head(down).p] = NoStream]
    /\ UNCHANGED <<stream, dashVars, srvVars, agentUp, upA, faults, cut>>

\* termManager.Close: the entry goes, the process is killed or the capture
\* cancelled. An unknown id is ignored.
AgentCloses ==
    LET p == Head(down).p
    IN  /\ down # <<>> /\ Head(down).t = "close"
        /\ down' = Tail(down)
        /\ table' = [table EXCEPT ![p] = NoStream]
        /\ stream' = IF table[p] = NoStream THEN stream
                     ELSE [stream EXCEPT ![table[p]].st =
                             IF @ = "running" THEN "killed" ELSE @]
        /\ UNCHANGED <<dashVars, srvVars, agentUp, upA, faults, cut>>

\* A process ends by itself or is killed, and ptmx.Read fails; a capture ends
\* only when it is cancelled.
StreamEnds(s) ==
    /\ \/ stream[s].st = "running" /\ kind[stream[s].p] = "pty"
       \/ stream[s].st = "killed"
    /\ stream' = [stream EXCEPT ![s] = IF kind[@.p] = "pty" THEN [@ EXCEPT !.st = "removing"]
                                       ELSE NoProcess]
    /\ UNCHANGED <<table, dashVars, srvVars, netVars>>

\* Mutant: the goroutine leaves the entry in the table.
StreamRemoves_Keep(s) ==
    /\ stream[s].st = "removing"
    /\ stream' = [stream EXCEPT ![s].st = "exiting"]
    /\ UNCHANGED <<table, dashVars, srvVars, netVars>>

\* m.remove(ptyID): whatever stream the entry is by now.
StreamRemoves(s) ==
    /\ stream[s].st = "removing"
    /\ stream' = [stream EXCEPT ![s].st = "exiting"]
    /\ table' = [table EXCEPT ![stream[s].p] = NoStream]
    /\ UNCHANGED <<dashVars, srvVars, netVars>>

\* m.onExit, and the goroutine ends.
StreamExits(s) ==
    /\ stream[s].st = "exiting"
    /\ FromAgent(Msg("exit", stream[s].p))
    /\ stream' = [stream EXCEPT ![s] = NoProcess]
    /\ UNCHANGED <<table, dashVars, srvVars, agentUp, down, faults, cut>>

-----------------------------------------------------------------------------
\* handleAgentTerminalOutput: to every dashboard of the bound org; an exit
\* releases the binding afterwards. An unbound id is dropped.
Relay ==
    LET m == Head(upA)
    IN  /\ apump = IdlePump
        /\ upA # <<>>
        /\ m.p \in router => \A b \in Browsers : Len(out[b]) < Cap
        /\ upA' = Tail(upA)
        /\ out' = IF m.p \in router THEN [b \in Browsers |-> Append(out[b], m)] ELSE out
        /\ apump' = IF m.p \in router /\ m.t = "exit"
                    THEN [at |-> "release", p |-> m.p] ELSE IdlePump
        /\ UNCHANGED <<kind, panel, up, pump, router, listed, overlap, agentVars,
                       agentUp, down, faults, cut>>

RelayReleases ==
    /\ apump.at = "release"
    /\ router' = router \ {apump.p}
    /\ apump' = IdlePump
    /\ UNCHANGED <<pump, listed, overlap, dashVars, agentVars, netVars>>

-----------------------------------------------------------------------------
(***************************************************************************)
(* Failures.                                                               *)
(***************************************************************************)

\* The connection of a dashboard breaks and its panels stay as they are, or
\* its page is reloaded or closed, and no terminal.close is sent.
DashDrops(b) ==
    /\ Fault
    /\ panel' \in {panel, [panel EXCEPT ![b] = [p \in Ptys |-> "closed"]]}
    /\ up' = [up EXCEPT ![b] = <<>>]
    /\ out' = [out EXCEPT ![b] = <<>>]
    /\ UNCHANGED <<kind, srvVars, agentVars, agentUp, down, upA, cut>>

AgentDrops ==
    /\ agentUp
    /\ Fault
    /\ agentUp' = FALSE
    /\ down' = <<>> /\ upA' = <<>>
    /\ cut' = TRUE
    /\ UNCHANGED <<dashVars, srvVars, agentVars>>

AgentReconnects ==
    /\ ~agentUp
    /\ agentUp' = TRUE
    /\ listed' = TRUE
    /\ UNCHANGED <<dashVars, pump, router, apump, overlap, agentVars, down, upA, faults, cut>>

\* Runtime.Run ends with CloseAll.
AgentRestarts ==
    /\ Fault
    /\ agentUp' = FALSE
    /\ down' = <<>> /\ upA' = <<>>
    /\ table' = [p \in Ptys |-> NoStream]
    /\ stream' = [s \in Streams |-> NoProcess]
    /\ UNCHANGED <<dashVars, srvVars, cut>>

\* The router is in memory only; the PTYs of the agent go on.
ServerRestarts ==
    /\ Fault
    /\ up' = [b \in Browsers |-> <<>>]
    /\ out' = [b \in Browsers |-> <<>>]
    /\ pump' = [b \in Browsers |-> IdlePump]
    /\ apump' = IdlePump
    /\ router' = {}
    /\ listed' = FALSE
    /\ agentUp' = FALSE
    /\ down' = <<>> /\ upA' = <<>>
    /\ cut' = TRUE
    /\ UNCHANGED <<kind, panel, overlap, agentVars>>

-----------------------------------------------------------------------------
ServerStep ==
    \/ \E b \in Browsers : PumpReads(b) \/ Bind(b) \/ Release(b)
    \/ Relay \/ RelayReleases

AgentStep ==
    \/ AgentOpens \/ AgentCloses
    \/ \E s \in Streams : StreamEnds(s) \/ StreamRemoves(s) \/ StreamExits(s)

Failure ==
    \/ \E b \in Browsers : DashDrops(b)
    \/ AgentDrops \/ AgentReconnects \/ AgentRestarts \/ ServerRestarts

Next ==
    \/ \E b \in Browsers, p \in Ptys : Mount(b, p) \/ Unmount(b, p)
    \/ \E b \in Browsers : DashReads(b)
    \/ ServerStep
    \/ AgentStep
    \/ Failure

Spec == Init /\ [][Next]_vars

-----------------------------------------------------------------------------
\* Every variable has its type, and an entry of the table is a stream of that
\* id whose goroutine has not ended, also after failures and overlapping uses:
\* no keystroke (termManager.Input) goes to a finished one.
TypeOK ==
    /\ panel \in [Browsers -> [Ptys -> {"closed", "connecting", "live", "exited", "error"}]]
    /\ router \subseteq Ptys /\ overlap \subseteq Ptys
    /\ \A b \in Browsers : Len(up[b]) <= Cap /\ Len(out[b]) <= Cap
    /\ Len(down) <= Cap /\ Len(upA) <= Cap
    /\ pump \in [Browsers -> [at : {"idle", "bind", "forward", "close", "release"},
                              p : Ptys \cup {NoPty}]]
    /\ apump \in [at : {"idle", "release"}, p : Ptys \cup {NoPty}]
    /\ stream \in [Streams -> [st : {"none", "running", "killed", "removing", "exiting"},
                               p : Ptys \cup {NoPty}]]
    /\ \A p \in Ptys : table[p] # NoStream =>
          stream[table[p]].p = p /\ stream[table[p]].st \in {"running", "removing"}
    /\ faults \in 0 .. MaxFaults /\ {listed, agentUp, cut} \subseteq BOOLEAN

RunningFor(p) == {s \in Streams : stream[s].p = p /\ stream[s].st = "running"}

\* Nothing is under way between the panels, the router and the PTY table.
Settled ==
    /\ \A b \in Browsers : up[b] = <<>> /\ out[b] = <<>> /\ pump[b] = IdlePump
    /\ apump = IdlePump
    /\ down = <<>> /\ upA = <<>>
    /\ \A s \in Streams : stream[s].st \in {"none", "running"}

\* When nothing is under way and nothing has failed, the three parties agree
\* on every id whose uses did not overlap: a panel that asked has its answer; a
\* live one is bound and driven by the one stream the agent runs and lists for
\* it; an id that every dashboard has closed, or seen ending, has left no
\* process, no capture and no binding behind. It rests on bind before forward
\* (terminal.go:86-87), on the releases after close and exit (:116, :153) and
\* on the order of the messages of one connection.
SettledAgrees ==
    Settled /\ faults = 0 =>
        \A p \in Ptys \ overlap :
            LET shown == {panel[b][p] : b \in Browsers}
            IN  /\ "connecting" \notin shown
                /\ "live" \in shown => /\ p \in router
                                       /\ table[p] # NoStream
                                       /\ RunningFor(p) = {table[p]}
                /\ "live" \notin shown => table[p] = NoStream /\ RunningFor(p) = {}
                /\ shown \subseteq {"closed", "exited"} => p \notin router

\* "termManager owns all live PTYs" (internal/agent/terminal.go:64): whatever
\* runs is in the table, where Close and CloseAll find it, also when panels
\* vanish and closes are lost on the way to the server. It takes that the uses
\* of the id did not overlap and that the agent was not cut off from a server
\* that then forgot the id: in both cases an open hides the stream it replaces.
OwnsLivePtys ==
    \A s \in Streams :
        stream[s].st = "running" /\ stream[s].p \notin overlap /\ ~cut =>
            table[stream[s].p] = s
=============================================================================
