---------------------------- MODULE TerminalProof ----------------------------
(***************************************************************************)
(* Proofs about the interactive terminal, for every number of dashboards,  *)
(* pty ids, streams and failures and every number of messages in flight.   *)
(***************************************************************************)
EXTENDS Terminal, TLAPS, WellFoundedInduction

USE TerminalAssumption

-----------------------------------------------------------------------------
(***************************************************************************)
(* Types. The type invariant is not inductive: it says nothing of the      *)
(* messages in flight, and a stream leaves the table before it ends.       *)
(***************************************************************************)

Requests == [t : {"open", "close"}, p : Ptys]
Reports  == [t : {"opened", "failed", "exit"}, p : Ptys]
Stages   == {"none", "running", "killed", "removing", "exiting"}

DashTypes ==
    /\ kind \in [Ptys -> {"pty", "tmux"}]
    /\ panel \in [Browsers -> [Ptys -> {"closed", "connecting", "live", "exited", "error"}]]
    /\ up \in [Browsers -> Seq(Requests)] /\ out \in [Browsers -> Seq(Reports)]
    /\ \A b \in Browsers : Len(up[b]) <= Cap /\ Len(out[b]) <= Cap

\* A pump that is busy is about a pty.
ServerTypes ==
    /\ router \subseteq Ptys /\ overlap \subseteq Ptys
    /\ pump \in [Browsers -> [at : {"idle", "bind", "forward", "close", "release"},
                              p : Ptys \cup {NoPty}]]
    /\ \A b \in Browsers : pump[b].at # "idle" => pump[b].p \in Ptys
    /\ apump \in [at : {"idle", "release"}, p : Ptys \cup {NoPty}]
    /\ apump.at # "idle" => apump.p \in Ptys
    /\ listed \in BOOLEAN

\* So is a stream that exists.
AgentTypes ==
    /\ table \in [Ptys -> Streams \cup {NoStream}]
    /\ stream \in [Streams -> [st : Stages, p : Ptys \cup {NoPty}]]
    /\ \A s \in Streams : \/ stream[s] = NoProcess
                          \/ stream[s].st # "none" /\ stream[s].p \in Ptys
    /\ \A p \in Ptys : table[p] # NoStream =>
          stream[table[p]].p = p /\ stream[table[p]].st \in {"running", "removing"}

NetTypes ==
    /\ down \in Seq(Requests) /\ Len(down) <= Cap
    /\ upA \in Seq(Reports) /\ Len(upA) <= Cap
    /\ faults \in 0 .. MaxFaults /\ agentUp \in BOOLEAN /\ cut \in BOOLEAN

Types == DashTypes /\ ServerTypes /\ AgentTypes /\ NetTypes

\* The invariant has the types.
LEMMA TypesSuffice == Types => TypeOK
<1> SUFFICES ASSUME Types PROVE TypeOK
  OBVIOUS
<1>1. {listed, agentUp, cut} \subseteq BOOLEAN
  BY DEF Types, ServerTypes, NetTypes
<1> QED
  BY <1>1 DEF Types, DashTypes, ServerTypes, AgentTypes, NetTypes, TypeOK, Stages

\* A message is put at the end of a queue.
LEMMA AppendType ==
    ASSUME NEW S, NEW q \in Seq(S), NEW e \in S, NEW n \in Nat, Len(q) < n
    PROVE  /\ Append(q, e) \in Seq(S) /\ Len(Append(q, e)) <= n
           /\ Len(Append(q, e)) = Len(q) + 1 /\ Len(q) \in Nat
           /\ DOMAIN q = 1 .. Len(q) /\ DOMAIN Append(q, e) = 1 .. (Len(q) + 1)
           /\ Append(q, e)[Len(q) + 1] = e
           /\ \A i \in 1 .. Len(q) : Append(q, e)[i] = q[i]
  OBVIOUS

\* The first message of a queue is taken.
LEMMA TailType ==
    ASSUME NEW S, NEW q \in Seq(S), q # <<>>, NEW n \in Nat, Len(q) <= n
    PROVE  /\ Tail(q) \in Seq(S) /\ Len(Tail(q)) <= n /\ Len(q) \in Nat \ {0}
           /\ Len(Tail(q)) = Len(q) - 1
           /\ DOMAIN q = 1 .. Len(q) /\ DOMAIN Tail(q) = 1 .. (Len(q) - 1)
           /\ Head(q) = q[1] /\ Head(q) \in S
           /\ \A i \in 1 .. (Len(q) - 1) : Tail(q)[i] = q[i + 1]
  OBVIOUS

\* The types hold in the beginning.
LEMMA TypesInit == Init => Types
<1> SUFFICES ASSUME Init PROVE Types
  OBVIOUS
<1>1. DashTypes
  BY DEF Init, DashTypes
<1>2. ServerTypes
  BY DEF Init, ServerTypes, IdlePump
<1>3. AgentTypes
  BY DEF Init, AgentTypes, NoProcess, Stages
<1>4. NetTypes
  <2>1. down \in Seq(Requests) /\ upA \in Seq(Reports) /\ Len(down) <= Cap /\ Len(upA) <= Cap
    BY DEF Init
  <2>2. faults \in 0 .. MaxFaults
    BY DEF Init
  <2>3. agentUp \in BOOLEAN /\ cut \in BOOLEAN
    BY DEF Init
  <2> QED
    BY <2>1, <2>2, <2>3 DEF NetTypes
<1> QED
  BY <1>1, <1>2, <1>3, <1>4 DEF Types

\* A dashboard's request joins its queue.
LEMMA SendsType ==
    ASSUME Types, NEW b \in Browsers, NEW m \in Requests, DashSends(b, m)
    PROVE  /\ up' \in [Browsers -> Seq(Requests)]
           /\ \A c \in Browsers : Len(up'[c]) <= Cap
           /\ faults' \in 0 .. MaxFaults
<1>1. up \in [Browsers -> Seq(Requests)] /\ \A c \in Browsers : Len(up[c]) <= Cap
  BY DEF Types, DashTypes
<1>2. faults' \in 0 .. MaxFaults
  BY DEF Types, NetTypes, DashSends, Fault
<1>3. CASE Len(up[b]) < Cap /\ up' = [up EXCEPT ![b] = Append(@, m)]
  <2>1. Append(up[b], m) \in Seq(Requests) /\ Len(Append(up[b], m)) <= Cap
    BY <1>1, <1>3, AppendType
  <2> QED
    BY <1>1, <1>2, <1>3, <2>1
<1>4. CASE UNCHANGED up
  BY <1>1, <1>2, <1>4
<1> QED
  BY <1>3, <1>4 DEF DashSends

\* The server sends to the agent, or finds no agent.
LEMMA ToAgentType ==
    ASSUME Types, NEW m \in Requests, ToAgent(m)
    PROVE  down' \in Seq(Requests) /\ Len(down') <= Cap
<1>1. CASE agentUp
  BY <1>1, AppendType DEF ToAgent, Types, NetTypes
<1>2. CASE ~agentUp
  BY <1>2 DEF ToAgent, Types, NetTypes
<1> QED
  BY <1>1, <1>2

\* The agent's report joins its queue, or is lost.
LEMMA FromAgentType ==
    ASSUME Types, NEW m \in Reports, FromAgent(m)
    PROVE  upA' \in Seq(Reports) /\ Len(upA') <= Cap
<1>1. CASE agentUp
  BY <1>1, AppendType DEF FromAgent, Types, NetTypes
<1>2. CASE ~agentUp
  BY <1>2 DEF FromAgent, Types, NetTypes
<1> QED
  BY <1>1, <1>2

\* What does not touch the dashboards keeps their types.
LEMMA DashFrame == Types /\ UNCHANGED dashVars => DashTypes'
  BY DEF Types, DashTypes, dashVars

\* What does not touch the server keeps its types.
LEMMA ServerFrame == Types /\ UNCHANGED srvVars => ServerTypes'
  BY DEF Types, ServerTypes, srvVars

\* What does not touch the agent keeps its types.
LEMMA AgentFrame == Types /\ UNCHANGED agentVars => AgentTypes'
  BY DEF Types, AgentTypes, agentVars

\* What does not touch the queues keeps their types.
LEMMA NetFrame == Types /\ UNCHANGED netVars => NetTypes'
  BY DEF Types, NetTypes, netVars

\* The dashboard and its failures.
LEMMA TypesDash ==
    ASSUME Types, NEW b \in Browsers,
           \/ \E p \in Ptys : Mount(b, p) \/ Unmount(b, p)
           \/ DashReads(b) \/ DashDrops(b)
    PROVE  Types'
<1>1. ASSUME NEW p \in Ptys, Mount(b, p) \/ Unmount(b, p) PROVE Types'
  <2>1. PICK m \in Requests, v \in {"connecting", "closed"} :
           panel' = [panel EXCEPT ![b][p] = v] /\ DashSends(b, m)
    BY <1>1 DEF Mount, Unmount, Msg, Requests
  <2>2. UNCHANGED <<kind, out, srvVars, agentVars, agentUp, down, upA, cut>>
    BY <1>1 DEF Mount, Unmount
  <2>3. panel' \in [Browsers -> [Ptys -> {"closed", "connecting", "live", "exited", "error"}]]
    BY <2>1 DEF Types, DashTypes
  <2>4. DashTypes'
    BY <2>1, <2>2, <2>3, SendsType DEF Types, DashTypes
  <2>5. NetTypes'
    BY <2>1, <2>2, SendsType DEF Types, NetTypes
  <2> QED
    BY <2>2, <2>4, <2>5, ServerFrame, AgentFrame DEF Types
<1>2. ASSUME DashReads(b) PROVE Types'
  <2>0. out[b] \in Seq(Reports) /\ out[b] # <<>> /\ Len(out[b]) <= Cap
    BY <1>2 DEF Types, DashTypes, DashReads
  <2>1. PICK m \in Reports : m = Head(out[b])
    BY <2>0, TailType
  <2>2. Tail(out[b]) \in Seq(Reports) /\ Len(Tail(out[b])) <= Cap
    BY <2>0, TailType
  <2>3. /\ out' = [out EXCEPT ![b] = Tail(out[b])]
        /\ panel' = [panel EXCEPT ![b][m.p] = IF @ = "closed" THEN @ ELSE StatusOf(m.t)]
        /\ UNCHANGED <<kind, up, srvVars, agentVars, netVars>>
    BY <1>2, <2>1 DEF DashReads
  <2>4. StatusOf(m.t) \in {"live", "error", "exited"} /\ m.p \in Ptys
    BY DEF StatusOf, Reports
  <2>5. panel' \in [Browsers -> [Ptys -> {"closed", "connecting", "live", "exited", "error"}]]
    BY <2>3, <2>4 DEF Types, DashTypes
  <2>6. out' \in [Browsers -> Seq(Reports)] /\ \A c \in Browsers : Len(out'[c]) <= Cap
    BY <2>2, <2>3 DEF Types, DashTypes
  <2>7. DashTypes'
    BY <2>3, <2>5, <2>6 DEF Types, DashTypes
  <2> QED
    BY <2>3, <2>7, ServerFrame, AgentFrame, NetFrame DEF Types
<1>3. ASSUME DashDrops(b) PROVE Types'
  <2>1. UNCHANGED <<kind, srvVars, agentVars, agentUp, down, upA, cut>>
    BY <1>3 DEF DashDrops
  <2>2. panel' \in [Browsers -> [Ptys -> {"closed", "connecting", "live", "exited", "error"}]]
    <3>1. panel \in [Browsers -> [Ptys -> {"closed", "connecting", "live", "exited", "error"}]]
      BY DEF Types, DashTypes
    <3>2. CASE panel' = [panel EXCEPT ![b] = [p \in Ptys |-> "closed"]]
      <4>1. [p \in Ptys |-> "closed"] \in [Ptys -> {"closed", "connecting", "live", "exited", "error"}]
        OBVIOUS
      <4> QED
        BY <3>1, <3>2, <4>1
    <3> QED
      BY <1>3, <3>1, <3>2 DEF DashDrops
  <2>3. /\ up' \in [Browsers -> Seq(Requests)] /\ out' \in [Browsers -> Seq(Reports)]
        /\ \A c \in Browsers : Len(up'[c]) <= Cap /\ Len(out'[c]) <= Cap
    BY <1>3 DEF DashDrops, Types, DashTypes
  <2>4. NetTypes'
    BY <1>3, <2>1 DEF DashDrops, Fault, Types, NetTypes
  <2>5. DashTypes'
    BY <2>1, <2>2, <2>3 DEF Types, DashTypes
  <2> QED
    BY <2>1, <2>4, <2>5, ServerFrame, AgentFrame DEF Types
<1> QED
  BY <1>1, <1>2, <1>3

\* The server's pumps.
LEMMA TypesServer ==
    ASSUME Types, ServerStep
    PROVE  Types'
<1>p. /\ pump \in [Browsers -> [at : {"idle", "bind", "forward", "close", "release"},
                               p : Ptys \cup {NoPty}]]
      /\ \A b \in Browsers : pump[b].at # "idle" => pump[b].p \in Ptys
  BY DEF Types, ServerTypes
<1>1. ASSUME NEW b \in Browsers, PumpReads(b) PROVE Types'
  <2>0. up[b] \in Seq(Requests) /\ up[b] # <<>> /\ Len(up[b]) <= Cap
    BY <1>1 DEF Types, DashTypes, PumpReads
  <2>1. PICK m \in Requests : m = Head(up[b])
    BY <2>0, TailType
  <2>2. m.p \in Ptys
    BY DEF Requests
  <2>3. /\ up' \in [Browsers -> Seq(Requests)] /\ \A c \in Browsers : Len(up'[c]) <= Cap
    <3>1. Tail(up[b]) \in Seq(Requests) /\ Len(Tail(up[b])) <= Cap
      BY <2>0, TailType
    <3>2. up' = [up EXCEPT ![b] = Tail(up[b])]
      BY <1>1 DEF PumpReads
    <3> QED
      BY <3>1, <3>2 DEF Types, DashTypes
  <2>4. /\ out' \in [Browsers -> Seq(Reports)] /\ \A c \in Browsers : Len(out'[c]) <= Cap
    <3>1. Msg("failed", m.p) \in Reports
      BY <2>2 DEF Msg, Reports
    <3>2. \/ UNCHANGED out
          \/ Len(out[b]) < Cap /\ out' = [out EXCEPT ![b] = Append(out[b], Msg("failed", m.p))]
      BY <1>1, <2>1 DEF PumpReads
    <3>3. CASE Len(out[b]) < Cap /\ out' = [out EXCEPT ![b] = Append(out[b], Msg("failed", m.p))]
      <4>1. Append(out[b], Msg("failed", m.p)) \in Seq(Reports) /\ Len(Append(out[b], Msg("failed", m.p))) <= Cap
        BY <3>1, <3>3, AppendType DEF Types, DashTypes
      <4> QED
        BY <3>3, <4>1 DEF Types, DashTypes
    <3> QED
      BY <3>2, <3>3 DEF Types, DashTypes
  <2>5. PICK g \in {"idle", "bind", "close"} :
           pump' = [pump EXCEPT ![b] = IF g = "idle" THEN IdlePump ELSE [at |-> g, p |-> m.p]]
    BY <1>1, <2>1 DEF PumpReads
  <2>6. /\ pump' \in [Browsers -> [at : {"idle", "bind", "forward", "close", "release"},
                                  p : Ptys \cup {NoPty}]]
        /\ \A c \in Browsers : pump'[c].at # "idle" => pump'[c].p \in Ptys
    BY <1>p, <2>2, <2>5 DEF IdlePump
  <2>7. overlap' \subseteq Ptys
    BY <1>1, <2>1, <2>2 DEF PumpReads, Types, ServerTypes
  <2>8. UNCHANGED <<kind, panel, router, listed, apump, agentVars, netVars>>
    BY <1>1 DEF PumpReads
  <2>9. DashTypes' /\ ServerTypes'
    BY <2>3, <2>4, <2>6, <2>7, <2>8 DEF Types, DashTypes, ServerTypes
  <2> QED
    BY <2>8, <2>9, AgentFrame, NetFrame DEF Types
<1>2. ASSUME NEW b \in Browsers, Bind(b) \/ Release(b) PROVE Types'
  <2>1. pump[b].at # "idle" /\ pump[b].p \in Ptys
    BY <1>2, <1>p DEF Bind, Release
  <2>2. \/ pump' = [pump EXCEPT ![b].at = "forward"] \/ pump' = [pump EXCEPT ![b].at = "release"]
        \/ pump' = [pump EXCEPT ![b] = IdlePump]
    BY <1>2 DEF Bind, Release
  <2>3. /\ pump' \in [Browsers -> [at : {"idle", "bind", "forward", "close", "release"},
                                  p : Ptys \cup {NoPty}]]
        /\ \A c \in Browsers : pump'[c].at # "idle" => pump'[c].p \in Ptys
    BY <1>p, <2>1, <2>2 DEF IdlePump
  <2>4. router' \subseteq Ptys /\ overlap' \subseteq Ptys
    BY <1>2, <2>1 DEF Bind, Release, Binds, Types, ServerTypes
  <2>5. UNCHANGED <<listed, apump, dashVars, agentVars, agentUp, upA, faults, cut>>
    BY <1>2 DEF Bind, Release, netVars
  <2>6. down' \in Seq(Requests) /\ Len(down') <= Cap
    <3>1. Msg("open", pump[b].p) \in Requests /\ Msg("close", pump[b].p) \in Requests
      BY <2>1 DEF Msg, Requests
    <3>2. UNCHANGED down \/ ToAgent(Msg("open", pump[b].p)) \/ ToAgent(Msg("close", pump[b].p))
      BY <1>2 DEF Bind, Release, netVars
    <3> QED
      BY <3>1, <3>2, ToAgentType DEF Types, NetTypes
  <2>7. ServerTypes' /\ NetTypes'
    BY <2>3, <2>4, <2>5, <2>6 DEF Types, ServerTypes, NetTypes
  <2> QED
    BY <2>5, <2>7, DashFrame, AgentFrame DEF Types
<1>3. ASSUME Relay PROVE Types'
  <2>0. upA \in Seq(Reports) /\ upA # <<>> /\ Len(upA) <= Cap
    BY <1>3 DEF Types, NetTypes, Relay
  <2>1. PICK m \in Reports : m = Head(upA)
    BY <2>0, TailType
  <2>2. m.p \in Ptys
    BY DEF Reports
  <2>3. upA' \in Seq(Reports) /\ Len(upA') <= Cap
    BY <1>3, <2>0, TailType DEF Relay
  <2>4. out' \in [Browsers -> Seq(Reports)] /\ \A c \in Browsers : Len(out'[c]) <= Cap
    <3>1. CASE m.p \in router
      <4>1. \A c \in Browsers : Append(out[c], m) \in Seq(Reports) /\ Len(Append(out[c], m)) <= Cap
        BY <1>3, <2>1, <3>1, AppendType DEF Relay, Types, DashTypes
      <4>2. out' = [c \in Browsers |-> Append(out[c], m)]
        BY <1>3, <2>1, <3>1 DEF Relay
      <4> QED
        BY <4>1, <4>2
    <3>2. CASE m.p \notin router
      BY <1>3, <2>1, <3>2 DEF Relay, Types, DashTypes
    <3> QED
      BY <3>1, <3>2
  <2>5. apump' \in {IdlePump, [at |-> "release", p |-> m.p]}
    BY <1>3, <2>1 DEF Relay
  <2>6. /\ apump' \in [at : {"idle", "release"}, p : Ptys \cup {NoPty}]
        /\ apump'.at # "idle" => apump'.p \in Ptys
    BY <2>2, <2>5 DEF IdlePump
  <2>7. UNCHANGED <<kind, panel, up, pump, router, listed, overlap, agentVars, agentUp, down, faults, cut>>
    BY <1>3 DEF Relay
  <2>8. DashTypes'
    BY <2>4, <2>7 DEF Types, DashTypes
  <2>9. ServerTypes' /\ NetTypes'
    BY <2>3, <2>6, <2>7 DEF Types, ServerTypes, NetTypes
  <2> QED
    BY <2>7, <2>8, <2>9, AgentFrame DEF Types
<1>4. ASSUME RelayReleases PROVE Types'
  <2>1. UNCHANGED <<pump, listed, overlap, dashVars, agentVars, netVars>>
    BY <1>4 DEF RelayReleases
  <2>2. ServerTypes'
    BY <1>4, <2>1 DEF RelayReleases, Types, ServerTypes, IdlePump
  <2> QED
    BY <2>1, <2>2, DashFrame, AgentFrame, NetFrame DEF Types
<1> QED
  BY <1>1, <1>2, <1>3, <1>4 DEF ServerStep

\* A stream is entered in the table, or leaves it, or changes its stage.
LEMMA TypesAgent ==
    ASSUME Types, AgentStep
    PROVE  Types'
<1>t. /\ table \in [Ptys -> Streams \cup {NoStream}]
      /\ stream \in [Streams -> [st : Stages, p : Ptys \cup {NoPty}]]
      /\ \A s \in Streams : \/ stream[s] = NoProcess
                            \/ stream[s].st # "none" /\ stream[s].p \in Ptys
      /\ \A p \in Ptys : table[p] # NoStream =>
            stream[table[p]].p = p /\ stream[table[p]].st \in {"running", "removing"}
      /\ \A s \in Streams : stream[s].st # "none" => stream[s].p \in Ptys
  BY DEF Types, AgentTypes, NoProcess
<1>n. NoProcess.st = "none" /\ NoProcess \in [st : Stages, p : Ptys \cup {NoPty}]
  BY DEF NoProcess, Stages
<1>d. ASSUME down # <<>>
      PROVE  /\ Head(down) \in Requests /\ Head(down).p \in Ptys
             /\ Tail(down) \in Seq(Requests) /\ Len(Tail(down)) <= Cap
  <2>1. /\ Head(down) \in Requests /\ Tail(down) \in Seq(Requests) /\ Len(Tail(down)) <= Cap
    BY <1>d, TailType DEF Types, NetTypes
  <2> QED
    BY <2>1 DEF Requests
<1>1. ASSUME AgentOpens PROVE Types'
  <2>1. PICK p \in Ptys : p = Head(down).p
    BY <1>1, <1>d DEF AgentOpens
  <2>2. Msg("failed", p) \in Reports /\ Msg("opened", p) \in Reports
    BY DEF Msg, Reports
  <2>3. /\ UNCHANGED <<dashVars, srvVars, agentUp, faults, cut>> /\ down' = Tail(down) /\ down # <<>>
        /\ \/ FromAgent(Msg("failed", p)) /\ UNCHANGED agentVars
           \/ \E s \in Streams :
                 /\ stream[s] = NoProcess
                 /\ stream' = [stream EXCEPT ![s] = [st |-> "running", p |-> p]]
                 /\ table' = [table EXCEPT ![p] = s]
                 /\ FromAgent(Msg("opened", p))
    BY <1>1, <2>1 DEF AgentOpens
  <2>4. upA' \in Seq(Reports) /\ Len(upA') <= Cap
    BY <2>2, <2>3, FromAgentType
  <2>5. NetTypes'
    BY <1>d, <2>3, <2>4 DEF Types, NetTypes
  <2>6. ASSUME NEW s \in Streams, stream[s] = NoProcess,
               stream' = [stream EXCEPT ![s] = [st |-> "running", p |-> p]],
               table' = [table EXCEPT ![p] = s]
        PROVE  AgentTypes'
    <3>1. /\ table' \in [Ptys -> Streams \cup {NoStream}]
          /\ stream' \in [Streams -> [st : Stages, p : Ptys \cup {NoPty}]]
      BY <1>t, <2>6 DEF Stages
    <3>2. /\ stream'[s].st = "running" /\ stream'[s].p = p /\ table'[p] = s
          /\ \A u \in Streams \ {s} : stream'[u] = stream[u]
          /\ \A q \in Ptys \ {p} : table'[q] = table[q]
      BY <1>t, <2>6
    <3>3. \A q \in Ptys : table[q] # s
      BY <1>n, <1>t, <2>6
    <3>4. ASSUME NEW q \in Ptys, table'[q] # NoStream
          PROVE  stream'[table'[q]].p = q /\ stream'[table'[q]].st \in {"running", "removing"}
      <4>1. CASE q = p
        BY <3>2, <4>1
      <4>2. CASE q # p
        BY <1>t, <3>2, <3>3, <3>4, <4>2
      <4> QED
        BY <4>1, <4>2
    <3>5. ASSUME NEW u \in Streams
         PROVE  stream'[u] = NoProcess \/ (stream'[u].st # "none" /\ stream'[u].p \in Ptys)
      <4>1. CASE u = s
        BY <1>t, <3>2, <4>1
      <4>2. CASE u # s
        <5>1. stream'[u] = stream[u]
          BY <1>t, <3>2, <4>2
        <5> QED
          BY <1>t, <5>1
      <4> QED
        BY <4>1, <4>2
    <3> QED
      BY <3>1, <3>4, <3>5 DEF AgentTypes
  <2>7. AgentTypes'
    BY <2>3, <2>6, AgentFrame
  <2> QED
    BY <2>3, <2>5, <2>7, DashFrame, ServerFrame DEF Types
<1>2. ASSUME AgentCloses PROVE Types'
  <2>1. PICK p \in Ptys : p = Head(down).p
    BY <1>2, <1>d DEF AgentCloses
  <2>2. /\ UNCHANGED <<dashVars, srvVars, agentUp, upA, faults, cut>> /\ down' = Tail(down) /\ down # <<>>
        /\ table' = [table EXCEPT ![p] = NoStream]
        /\ stream' = IF table[p] = NoStream THEN stream
                     ELSE [stream EXCEPT ![table[p]].st = IF @ = "running" THEN "killed" ELSE @]
    BY <1>2, <2>1 DEF AgentCloses
  <2>3. NetTypes'
    BY <1>d, <2>2 DEF Types, NetTypes
  <2>4. table'[p] = NoStream /\ \A q \in Ptys \ {p} : table'[q] = table[q]
    BY <1>t, <2>2
  <2>5. table' \in [Ptys -> Streams \cup {NoStream}]
    BY <1>t, <2>2
  <2>7. CASE table[p] # NoStream
    <3>1. PICK s \in Streams : s = table[p]
      BY <1>t, <2>7
    <3>2. PICK v \in Stages \ {"none"} : stream' = [stream EXCEPT ![s].st = v]
      <4>1. stream[s].st \in {"running", "removing"}
        BY <1>t, <2>7, <3>1
      <4>2. stream' = [stream EXCEPT ![s].st = IF stream[s].st = "running" THEN "killed" ELSE stream[s].st]
        BY <2>2, <2>7, <3>1
      <4> QED
        BY <4>1, <4>2 DEF Stages
    <3>3. /\ stream'[s].st = v /\ stream'[s].p = p
          /\ \A u \in Streams \ {s} : stream'[u] = stream[u]
          /\ stream' \in [Streams -> [st : Stages, p : Ptys \cup {NoPty}]]
      BY <1>t, <2>7, <3>1, <3>2
    <3>4. \A q \in Ptys \ {p} : table[q] # s \/ table[q] = NoStream
      BY <1>t, <2>7, <3>1
    <3>5. ASSUME NEW q \in Ptys, table'[q] # NoStream
          PROVE  stream'[table'[q]].p = q /\ stream'[table'[q]].st \in {"running", "removing"}
      <4>1. q # p /\ table'[q] = table[q] /\ table[q] \in Streams \ {s}
        BY <1>t, <2>4, <3>4, <3>5
      <4> QED
        BY <1>t, <3>3, <3>5, <4>1
    <3>6. ASSUME NEW u \in Streams
         PROVE  stream'[u] = NoProcess \/ (stream'[u].st # "none" /\ stream'[u].p \in Ptys)
      <4>1. CASE u = s
        BY <1>t, <3>3, <4>1
      <4>2. CASE u # s
        <5>1. stream'[u] = stream[u]
          BY <1>t, <3>3, <4>2
        <5> QED
          BY <1>t, <5>1
      <4> QED
        BY <4>1, <4>2
    <3>7. AgentTypes'
      BY <2>5, <3>3, <3>5, <3>6 DEF AgentTypes
    <3> QED
      BY <2>2, <2>3, <3>7, DashFrame, ServerFrame DEF Types
  <2>8. CASE table[p] = NoStream
    <3>1. AgentTypes'
      BY <1>t, <2>2, <2>4, <2>5, <2>8 DEF AgentTypes
    <3> QED
      BY <2>2, <2>3, <3>1, DashFrame, ServerFrame DEF Types
  <2> QED
    BY <2>7, <2>8
<1>3. ASSUME NEW s \in Streams, StreamEnds(s) PROVE Types'
  <2>1. UNCHANGED <<table, dashVars, srvVars, netVars>>
    BY <1>3 DEF StreamEnds
  <2>2. stream[s].st \in {"running", "killed"} /\ stream[s].p \in Ptys
    BY <1>3, <1>t DEF StreamEnds
  <2>3. /\ stream' = [stream EXCEPT ![s] = stream'[s]]
        /\ \/ stream'[s] = [stream[s] EXCEPT !.st = "removing"]
           \/ stream'[s] = NoProcess /\ stream[s].st = "killed"
    <3>1. kind[stream[s].p] \in {"pty", "tmux"}
      BY <2>2 DEF Types, DashTypes
    <3> QED
      BY <1>3, <1>t, <3>1 DEF StreamEnds
  <2>4. /\ stream'[s] \in [st : Stages, p : Ptys \cup {NoPty}]
        /\ stream'[s] = NoProcess \/ (stream'[s].st # "none" /\ stream'[s].p \in Ptys)
    <3>1. stream[s] \in [st : Stages, p : Ptys \cup {NoPty}]
      BY <1>t
    <3> QED
      <4>1. CASE stream'[s] = NoProcess
        BY <1>n, <4>1
      <4>2. CASE stream'[s] = [stream[s] EXCEPT !.st = "removing"]
        <5>1. stream'[s].st = "removing" /\ stream'[s].p = stream[s].p
          BY <3>1, <4>2
        <5>2. stream'[s] \in [st : Stages, p : Ptys \cup {NoPty}]
          BY <3>1, <4>2 DEF Stages
        <5> QED
          BY <2>2, <5>1, <5>2
      <4> QED
        BY <2>3, <4>1, <4>2
  <2>5. /\ stream' \in [Streams -> [st : Stages, p : Ptys \cup {NoPty}]]
        /\ \A u \in Streams \ {s} : stream'[u] = stream[u]
    BY <1>t, <2>3, <2>4
  <2>6. ASSUME NEW q \in Ptys, table[q] # NoStream
        PROVE  stream'[table[q]].p = q /\ stream'[table[q]].st \in {"running", "removing"}
    <3>1. table[q] \in Streams /\ stream[table[q]].p = q /\ stream[table[q]].st \in {"running", "removing"}
      BY <1>t, <2>6
    <3>2. CASE table[q] # s
      BY <2>5, <3>1, <3>2
    <3>3. CASE table[q] = s
      <4>1. stream'[s] = [stream[s] EXCEPT !.st = "removing"]
        BY <2>3, <3>1, <3>3
      <4>2. stream[s] \in [st : Stages, p : Ptys \cup {NoPty}]
        BY <1>t
      <4>3. stream'[s].st = "removing" /\ stream'[s].p = stream[s].p
        BY <4>1, <4>2
      <4> QED
        BY <3>1, <3>3, <4>3
    <3> QED
      BY <3>2, <3>3
  <2>7. AgentTypes'
    BY SMTT(30), <1>t, <2>1, <2>4, <2>5, <2>6 DEF AgentTypes
  <2> QED
    BY <2>1, <2>7, DashFrame, ServerFrame, NetFrame DEF Types
<1>4. ASSUME NEW s \in Streams, StreamRemoves(s) PROVE Types'
  <2>1. PICK p \in Ptys : p = stream[s].p
    BY <1>4, <1>t DEF StreamRemoves
  <2>2. /\ UNCHANGED <<dashVars, srvVars, netVars>>
        /\ stream' = [stream EXCEPT ![s].st = "exiting"] /\ table' = [table EXCEPT ![p] = NoStream]
    BY <1>4, <2>1 DEF StreamRemoves
  <2>3. /\ stream' \in [Streams -> [st : Stages, p : Ptys \cup {NoPty}]]
        /\ stream'[s].st = "exiting" /\ stream'[s].p = p
        /\ \A u \in Streams \ {s} : stream'[u] = stream[u]
    BY <1>t, <2>1, <2>2 DEF Stages
  <2>4. /\ table' \in [Ptys -> Streams \cup {NoStream}] /\ table'[p] = NoStream
        /\ \A q \in Ptys \ {p} : table'[q] = table[q]
    BY <1>t, <2>2
  <2>5. ASSUME NEW q \in Ptys, table'[q] # NoStream
        PROVE  stream'[table'[q]].p = q /\ stream'[table'[q]].st \in {"running", "removing"}
    <3>1. q # p /\ table'[q] = table[q] /\ stream[table[q]].p = q
      BY <1>t, <2>4, <2>5
    <3>2. table[q] \in Streams \ {s}
      BY <1>t, <2>1, <2>5, <3>1
    <3> QED
      BY <1>t, <2>3, <2>5, <3>1, <3>2
  <2>6. ASSUME NEW u \in Streams
       PROVE  stream'[u] = NoProcess \/ (stream'[u].st # "none" /\ stream'[u].p \in Ptys)
    <3>1. CASE u = s
      BY <1>t, <2>3, <3>1
    <3>2. CASE u # s
      <4>1. stream'[u] = stream[u]
        BY <1>t, <2>3, <3>2
      <4> QED
        BY <1>t, <4>1
    <3> QED
      BY <3>1, <3>2
  <2>7. AgentTypes'
    BY <2>3, <2>4, <2>5, <2>6 DEF AgentTypes
  <2> QED
    BY <2>2, <2>7, DashFrame, ServerFrame, NetFrame DEF Types
<1>5. ASSUME NEW s \in Streams, StreamExits(s) PROVE Types'
  <2>1. PICK p \in Ptys : p = stream[s].p
    BY <1>5, <1>t DEF StreamExits
  <2>2. /\ UNCHANGED <<table, dashVars, srvVars, agentUp, down, faults, cut>>
        /\ stream' = [stream EXCEPT ![s] = NoProcess] /\ FromAgent(Msg("exit", p))
        /\ stream[s].st = "exiting"
    BY <1>5, <2>1 DEF StreamExits
  <2>3. Msg("exit", p) \in Reports
    BY DEF Msg, Reports
  <2>4. NetTypes'
    BY <2>2, <2>3, FromAgentType DEF Types, NetTypes
  <2>5. /\ stream' \in [Streams -> [st : Stages, p : Ptys \cup {NoPty}]]
        /\ stream'[s] = NoProcess
        /\ \A u \in Streams \ {s} : stream'[u] = stream[u]
    BY <1>n, <1>t, <2>2
  <2>6. ASSUME NEW q \in Ptys, table[q] # NoStream
        PROVE  stream'[table[q]].p = q /\ stream'[table[q]].st \in {"running", "removing"}
    <3>1. table[q] \in Streams \ {s}
      BY <1>t, <2>2, <2>6
    <3> QED
      BY <1>t, <2>5, <2>6, <3>1
  <2>7. ASSUME NEW u \in Streams
       PROVE  stream'[u] = NoProcess \/ (stream'[u].st # "none" /\ stream'[u].p \in Ptys)
    <3>1. CASE u = s
      BY <1>t, <2>5, <3>1
    <3>2. CASE u # s
      <4>1. stream'[u] = stream[u]
        BY <1>t, <2>5, <3>2
      <4> QED
        BY <1>t, <4>1
    <3> QED
      BY <3>1, <3>2
  <2>8. AgentTypes'
    BY <1>t, <2>2, <2>5, <2>6, <2>7 DEF AgentTypes
  <2> QED
    BY <2>2, <2>4, <2>8, DashFrame, ServerFrame DEF Types
<1> QED
  BY <1>1, <1>2, <1>3, <1>4, <1>5 DEF AgentStep

\* The agent and the server fail.
LEMMA TypesFailure ==
    ASSUME Types, AgentDrops \/ AgentReconnects \/ AgentRestarts \/ ServerRestarts
    PROVE  Types'
<1>e. <<>> \in Seq(Requests) /\ <<>> \in Seq(Reports) /\ Len(<<>>) <= Cap
  OBVIOUS
<1>f. faults' \in 0 .. MaxFaults
  BY DEF AgentDrops, AgentReconnects, AgentRestarts, ServerRestarts, Fault, Types, NetTypes
<1>1. ASSUME AgentDrops PROVE Types'
  <2>1. NetTypes'
    BY <1>1, <1>e, <1>f DEF AgentDrops, NetTypes
  <2> QED
    BY <1>1, <2>1, DashFrame, ServerFrame, AgentFrame DEF AgentDrops, Types
<1>2. ASSUME AgentReconnects PROVE Types'
  <2>1. NetTypes'
    BY <1>2 DEF AgentReconnects, Types, NetTypes
  <2>2. ServerTypes'
    BY <1>2 DEF AgentReconnects, Types, ServerTypes
  <2> QED
    BY <1>2, <2>1, <2>2, DashFrame, AgentFrame DEF AgentReconnects, Types
<1>3. ASSUME AgentRestarts PROVE Types'
  <2>1. NetTypes'
    BY <1>3, <1>e, <1>f DEF AgentRestarts, Types, NetTypes
  <2>2. AgentTypes'
    BY <1>3 DEF AgentRestarts, AgentTypes, NoProcess, Stages
  <2> QED
    BY <1>3, <2>1, <2>2, DashFrame, ServerFrame DEF AgentRestarts, Types
<1>4. ASSUME ServerRestarts PROVE Types'
  <2>1. NetTypes'
    BY <1>4, <1>e, <1>f DEF ServerRestarts, NetTypes
  <2>2. ServerTypes'
    BY <1>4 DEF ServerRestarts, Types, ServerTypes, IdlePump
  <2>3. DashTypes'
    BY <1>4, <1>e DEF ServerRestarts, Types, DashTypes
  <2> QED
    BY <1>4, <2>1, <2>2, <2>3, AgentFrame DEF ServerRestarts, Types
<1> QED
  BY <1>1, <1>2, <1>3, <1>4

\* Every step keeps the types.
LEMMA TypesStep == Types /\ [Next]_vars => Types'
<1> SUFFICES ASSUME Types, [Next]_vars PROVE Types'
  OBVIOUS
<1>1. CASE UNCHANGED vars
  BY <1>1, DashFrame, ServerFrame, AgentFrame, NetFrame
     DEF vars, dashVars, srvVars, agentVars, netVars, Types
<1> QED
  BY <1>1, TypesDash, TypesServer, TypesAgent, TypesFailure DEF Next, Failure

\* Every variable keeps its type, and an entry of the agent's table is a stream
\* of that id whose goroutine has not ended (internal/agent/terminal.go), after
\* any failures and any overlapping uses.
THEOREM TerminalTypes == Spec => []TypeOK
<1> QED
  BY TypesInit, TypesStep, TypesSuffice, PTL DEF Spec

-----------------------------------------------------------------------------
(***************************************************************************)
(* Who owns the running streams. A stream is lost from the table when an   *)
(* open finds another one there, so every open on its way must find the id *)
(* free. For a mirrored pane it does when the open is the first message    *)
(* about the id and nothing runs, or when the message about the id before  *)
(* it is a close; for a process, whose stream outlives its close and then  *)
(* removes the entry, only when nothing of the id is left.                 *)
(***************************************************************************)

\* Nothing of p is left that runs, or that will touch the entry of p.
Idle(p) == \A s \in Streams : stream[s].p = p => kind[p] = "tmux" /\ stream[s].st # "running"

\* The messages to the agent before the i-th one leave p free.
FreeAt(p, i) ==
    \/ (\A k \in 1 .. i - 1 : down[k].p # p) /\ Idle(p)
    \/ kind[p] = "tmux" /\ \E j \in 1 .. i - 1 :
          /\ down[j].p = p /\ down[j].t = "close"
          /\ \A k \in j + 1 .. i - 1 : down[k].p # p

\* While one dashboard has p forwarded, closed or released, no other does.
Exclusive(p) ==
    \A b, c \in Browsers : b # c /\ pump[b].p = p /\ pump[b].at \in {"forward", "close", "release"}
        => pump[c].p # p \/ pump[c].at = "bind"

\* An open on its way to the agent finds p free.
OpensFree(p) == \A i \in DOMAIN down : down[i].p = p /\ down[i].t = "open" => FreeAt(p, i)

\* So will the next one, where it may be sent: a mirrored pane is bound until
\* its close is on the way; a process is checked for when it is bound.
NextFree(p) ==
    /\ \A b \in Browsers : pump[b].p = p /\ pump[b].at = "forward" =>
          FreeAt(p, Len(down) + 1) /\ (kind[p] = "tmux" => p \in router)
    /\ kind[p] = "tmux" =>
          /\ \A b \in Browsers : pump[b].p = p /\ pump[b].at = "release" => FreeAt(p, Len(down) + 1)
          /\ p \notin router => FreeAt(p, Len(down) + 1)

\* What runs is in the table; a process has one stream.
Owned(p) ==
    /\ \A s \in Streams : stream[s].p = p /\ stream[s].st = "running" => table[p] = s
    /\ kind[p] = "pty" => \A s, t \in Streams : stream[s].p = p /\ stream[t].p = p => s = t

OwnedInv(p) == Exclusive(p) /\ OpensFree(p) /\ NextFree(p) /\ Owned(p)

\* Only a process exits by itself; while the agent restarts nothing is left of it.
ExitInv ==
    /\ \A s \in Streams : stream[s].st \in {"removing", "exiting"} => kind[stream[s].p] = "pty"
    /\ \A i \in DOMAIN upA : upA[i].t = "exit" => kind[upA[i].p] = "pty"
    /\ apump.at = "release" => kind[apump.p] = "pty"
    /\ ~cut /\ ~agentUp => down = <<>> /\ \A s \in Streams : stream[s] = NoProcess

OwnInv == ExitInv /\ (~cut => \A p \in Ptys \ overlap : OwnedInv(p))

IInv == Types /\ OwnInv

\* In the beginning nothing runs.
LEMMA OwnInit == Init => OwnInv
  BY DEF Init, OwnInv, ExitInv, OwnedInv, Exclusive, OpensFree, NextFree, Owned, FreeAt, Idle,
         IdlePump, NoProcess

\* What leaves the messages before the i-th one alone, and no stream behind.
LEMMA FreeKept ==
    ASSUME NEW p \in Ptys, NEW i \in Nat, FreeAt(p, i), UNCHANGED kind,
           \A k \in 1 .. i - 1 : down'[k] = down[k], Idle(p) => Idle(p)'
    PROVE  FreeAt(p, i)'
  BY DEF FreeAt

\* A message about another id is added.
LEMMA FreeNext ==
    ASSUME NEW p \in Ptys, NEW n \in Nat, FreeAt(p, n + 1), UNCHANGED kind,
           \A k \in 1 .. n : down'[k] = down[k], down'[n + 1].p # p, Idle(p) => Idle(p)'
    PROVE  FreeAt(p, n + 2)'
<1>1. (n + 1) - 1 = n /\ (n + 2) - 1 = n + 1
  OBVIOUS
<1>2. CASE (\A k \in 1 .. n : down[k].p # p) /\ Idle(p)
  <2>1. \A k \in 1 .. n + 1 : down'[k].p # p
    BY <1>2
  <2> QED
    BY <1>1, <1>2, <2>1 DEF FreeAt
<1>3. CASE kind[p] = "tmux" /\ \E j \in 1 .. n : /\ down[j].p = p /\ down[j].t = "close"
                                                 /\ \A k \in j + 1 .. n : down[k].p # p
  <2>1. PICK j \in 1 .. n : /\ down[j].p = p /\ down[j].t = "close"
                            /\ \A k \in j + 1 .. n : down[k].p # p
    BY <1>3
  <2>2. \A k \in j + 1 .. n + 1 : down'[k].p # p
    BY <2>1
  <2>3. j \in 1 .. n + 1 /\ down'[j].p = p /\ down'[j].t = "close"
    BY <2>1
  <2> QED
    BY <1>1, <1>3, <2>2, <2>3 DEF FreeAt
<1> QED
  BY <1>1, <1>2, <1>3 DEF FreeAt

\* The first message is taken: an open, or a close after which p is idle.
LEMMA FreeShift ==
    ASSUME NEW p \in Ptys, NEW i \in Nat \ {0}, FreeAt(p, i + 1), UNCHANGED kind,
           \A k \in 1 .. i - 1 : down'[k] = down[k + 1],
           Idle(p) /\ down[1].p # p => Idle(p)',
           kind[p] = "tmux" /\ down[1].p = p /\ down[1].t = "close" => Idle(p)'
    PROVE  FreeAt(p, i)'
<1>1. (i + 1) - 1 = i
  OBVIOUS
<1>2. CASE (\A k \in 1 .. i : down[k].p # p) /\ Idle(p)
  <2>1. \A k \in 1 .. i - 1 : down'[k].p # p
    BY <1>2
  <2>2. down[1].p # p
    BY <1>2
  <2> QED
    BY <1>2, <2>1, <2>2 DEF FreeAt
<1>3. CASE kind[p] = "tmux" /\ \E j \in 1 .. i : /\ down[j].p = p /\ down[j].t = "close"
                                                 /\ \A k \in j + 1 .. i : down[k].p # p
  <2>1. PICK j \in 1 .. i : /\ down[j].p = p /\ down[j].t = "close"
                            /\ \A k \in j + 1 .. i : down[k].p # p
    BY <1>3
  <2>2. CASE j = 1
    <3>1. \A k \in 1 .. i - 1 : down'[k].p # p
      <4>1. ASSUME NEW k \in 1 .. i - 1 PROVE down'[k].p # p
        <5>1. k + 1 \in j + 1 .. i
          BY <2>2
        <5> QED
          BY <2>1, <5>1
      <4> QED
        BY <4>1
    <3>2. Idle(p)'
      BY <1>3, <2>1, <2>2
    <3> QED
      BY <3>1, <3>2 DEF FreeAt
  <2>3. CASE j # 1
    <3>1. PICK l \in 1 .. i - 1 : l = j - 1
      BY <2>3
    <3>2. down'[l] = down[j]
      BY <3>1
    <3>3. ASSUME NEW k \in l + 1 .. i - 1 PROVE down'[k].p # p
      <4>1. k \in 1 .. i - 1 /\ k + 1 \in j + 1 .. i
        BY <3>1
      <4> QED
        BY <2>1, <4>1
    <3> QED
      BY <1>3, <2>1, <3>1, <3>2, <3>3 DEF FreeAt
  <2> QED
    BY <2>2, <2>3
<1> QED
  BY <1>1, <1>2, <1>3 DEF FreeAt

\* The steps that leave the way to the agent and its streams alone.
LEMMA OwnFrame ==
    ASSUME IInv, UNCHANGED <<kind, pump, router, down, table, stream, overlap, agentUp, cut>>,
           UNCHANGED <<upA, apump>>
    PROVE  OwnInv'
  BY DEF IInv, OwnInv, ExitInv, OwnedInv, Exclusive, OpensFree, NextFree, Owned, FreeAt, Idle

\* What is known of exits holds as long as streams and reports stay.
LEMMA ExitFrame ==
    ASSUME IInv, UNCHANGED <<kind, stream, upA, apump, agentUp, cut>>,
           agentUp \/ UNCHANGED down
    PROVE  ExitInv'
  BY DEF IInv, OwnInv, ExitInv

\* The streams and the way to the agent stay as they are.
LEMMA FreeFrame ==
    ASSUME UNCHANGED <<kind, down, stream>>, NEW p, NEW i
    PROVE  FreeAt(p, i)' = FreeAt(p, i)
  BY DEF FreeAt, Idle

\* A read pump of a dashboard takes a message.
LEMMA OwnReads ==
    ASSUME IInv, NEW b \in Browsers, PumpReads(b)
    PROVE  OwnInv'
<1>1. /\ UNCHANGED <<kind, panel, router, listed, apump, table, stream, agentUp, down, upA, faults, cut>>
      /\ pump[b] = IdlePump
  BY DEF PumpReads, agentVars, netVars
<1>t. /\ up[b] \in Seq(Requests) /\ up[b] # <<>> /\ Len(up[b]) <= Cap
      /\ pump \in [Browsers -> [at : {"idle", "bind", "forward", "close", "release"},
                                p : Ptys \cup {NoPty}]]
  BY DEF PumpReads, IInv, Types, DashTypes, ServerTypes
<1>2. PICK m \in Requests : m = Head(up[b])
  BY <1>t, TailType
<1>3. PICK g \in {"idle", "bind", "close"} :
         /\ pump' = [pump EXCEPT ![b] = IF g = "idle" THEN IdlePump ELSE [at |-> g, p |-> m.p]]
         /\ overlap' = IF g = "close" /\ Shared(b, m.p) THEN overlap \cup {m.p} ELSE overlap
  BY <1>2 DEF PumpReads
<1>4. /\ pump'[b].at = g /\ (g # "idle" => pump'[b].p = m.p)
      /\ \A c \in Browsers \ {b} : pump'[c] = pump[c]
  BY <1>3, <1>t DEF IdlePump
<1>5. ASSUME NEW p \in Ptys, p \notin overlap', OwnedInv(p) PROVE OwnedInv(p)'
  <2>1. ASSUME pump'[b].p = p, pump'[b].at \notin {"bind", "idle"}, NEW c \in Browsers \ {b}
        PROVE  pump[c].p # p
    BY <1>3, <1>4, <1>5, <2>1 DEF Shared
  <2>2. Exclusive(p)'
    <3>1. ASSUME NEW c \in Browsers, NEW d \in Browsers, c # d, pump'[c].p = p,
                 pump'[c].at \in {"forward", "close", "release"}
          PROVE  pump'[d].p # p \/ pump'[d].at = "bind"
      <4>1. CASE c = b
        BY <1>4, <2>1, <3>1, <4>1
      <4>2. CASE c # b /\ d # b
        BY <1>4, <1>5, <3>1, <4>2 DEF OwnedInv, Exclusive
      <4>3. CASE c # b /\ d = b
        <5>1. pump[c].p = p
          BY <1>4, <3>1, <4>3
        <5>2. pump'[b].at = "idle" => pump'[b].p = NoPty
          BY <1>3, <1>t DEF IdlePump
        <5> QED
          BY <2>1, <4>3, <5>1, <5>2
      <4> QED
        BY <4>1, <4>2, <4>3
    <3> QED
      BY <3>1 DEF Exclusive
  <2>3. OpensFree(p)'
    BY <1>1, <1>5, FreeFrame DEF OwnedInv, OpensFree
  <2>4. NextFree(p)'
    <3>1. \A c \in Browsers : pump'[c].at \in {"forward", "release"} => pump'[c] = pump[c]
      BY <1>4
    <3> QED
      BY <1>1, <1>5, <3>1, FreeFrame DEF OwnedInv, NextFree
  <2>5. Owned(p)'
    BY <1>1, <1>5 DEF OwnedInv, Owned
  <2> QED
    BY <2>2, <2>3, <2>4, <2>5 DEF OwnedInv
<1>6. ExitInv'
  BY <1>1, ExitFrame
<1>7. overlap \subseteq overlap'
  BY <1>3
<1> QED
  BY <1>1, <1>5, <1>6, <1>7 DEF IInv, OwnInv

\* The way of a message to the agent: what it does to the ids it is not about.
LEMMA OwnToAgent ==
    ASSUME IInv, NEW m \in Requests, ToAgent(m), UNCHANGED <<kind, stream>>
    PROVE  /\ Len(down) \in Nat /\ Len(down') \in Nat
           /\ \A p \in Ptys :
                OpensFree(p) /\ (m.p = p /\ m.t = "open" => FreeAt(p, Len(down) + 1))
                   => OpensFree(p)'
           /\ \A p \in Ptys : FreeAt(p, Len(down) + 1) /\ m.p # p => FreeAt(p, Len(down) + 1)'
           /\ agentUp /\ m.t = "close" /\ kind[m.p] = "tmux" => FreeAt(m.p, Len(down) + 1)'
           /\ ~agentUp => UNCHANGED down
<1>t. down \in Seq(Requests) /\ Len(down) <= Cap
  BY DEF IInv, Types, NetTypes
<1>i. \A p \in Ptys : Idle(p) => Idle(p)'
  BY DEF Idle
<1>1. CASE ~agentUp
  <2>1. UNCHANGED down
    BY <1>1 DEF ToAgent
  <2>2. Len(down) \in Nat
    BY <1>t
  <2>3. \A p \in Ptys : OpensFree(p) => OpensFree(p)'
    BY <2>1, FreeFrame DEF OpensFree
  <2>4. \A p \in Ptys : FreeAt(p, Len(down) + 1) => FreeAt(p, Len(down) + 1)'
    BY <2>1 DEF FreeAt, Idle
  <2> QED
    BY <1>1, <2>1, <2>2, <2>3, <2>4
<1>2. CASE agentUp
  <2>1. Len(down) < Cap /\ down' = Append(down, m)
    BY <1>2 DEF ToAgent
  <2>2. /\ Len(down) \in Nat /\ Len(down') = Len(down) + 1
        /\ DOMAIN down = 1 .. Len(down) /\ DOMAIN down' = 1 .. (Len(down) + 1)
        /\ down'[Len(down) + 1] = m /\ \A k \in 1 .. Len(down) : down'[k] = down[k]
    BY <1>t, <2>1, AppendType
  <2>3. ASSUME NEW p \in Ptys, OpensFree(p), m.p = p /\ m.t = "open" => FreeAt(p, Len(down) + 1)
        PROVE  OpensFree(p)'
    <3>1. ASSUME NEW i \in DOMAIN down', down'[i].p = p, down'[i].t = "open" PROVE FreeAt(p, i)'
      <4>1. FreeAt(p, i)
        <5>1. CASE i = Len(down) + 1
          BY <2>2, <2>3, <3>1, <5>1
        <5>2. CASE i \in DOMAIN down
          BY <2>2, <2>3, <3>1, <5>2 DEF OpensFree
        <5> QED
          BY <2>2, <5>1, <5>2
      <4>2. i \in Nat /\ \A k \in 1 .. i - 1 : down'[k] = down[k]
        BY <2>2
      <4> QED
        BY <1>i, <4>1, <4>2, FreeKept
    <3> QED
      BY <3>1 DEF OpensFree
  <2>n. PICK n \in Nat : n = Len(down)
    BY <2>2
  <2>m. Len(down') + 1 = n + 2
    BY <2>2, <2>n
  <2>4. ASSUME NEW p \in Ptys, FreeAt(p, Len(down) + 1), m.p # p PROVE FreeAt(p, Len(down) + 1)'
    <3>1. FreeAt(p, n + 1) /\ down'[n + 1].p # p /\ \A k \in 1 .. n : down'[k] = down[k]
      BY <2>2, <2>4, <2>n
    <3>2. FreeAt(p, n + 2)'
      BY <1>i, <3>1, FreeNext
    <3> QED
      BY <2>m, <3>2 DEF FreeAt
  <2>5. ASSUME m.t = "close", kind[m.p] = "tmux" PROVE FreeAt(m.p, Len(down) + 1)'
    <3>1. (Len(down') + 1) - 1 = n + 1
      BY <2>m
    <3>2. /\ n + 1 \in 1 .. n + 1 /\ down'[n + 1].p = m.p /\ down'[n + 1].t = "close"
          /\ \A k \in (n + 1) + 1 .. n + 1 : down'[k].p # m.p
      BY <2>2, <2>5, <2>n
    <3>3. kind'[m.p] = "tmux"
      BY <2>5
    <3> QED
      BY <3>1, <3>2, <3>3 DEF FreeAt
  <2> QED
    BY <1>2, <2>2, <2>3, <2>4, <2>5
<1> QED
  BY <1>1, <1>2 DEF IInv, Types, NetTypes

\* bind: the id is free, or its uses overlap.
LEMMA OwnBinds ==
    ASSUME IInv, NEW b \in Browsers, pump[b].at = "bind", Binds(b),
           pump' = [pump EXCEPT ![b].at = "forward"],
           UNCHANGED <<listed, apump, dashVars, agentVars, netVars>>
    PROVE  OwnInv'
<1>1. UNCHANGED <<kind, apump, table, stream, agentUp, down, upA, cut>>
  BY DEF dashVars, agentVars, netVars
<1>t. /\ pump \in [Browsers -> [at : {"idle", "bind", "forward", "close", "release"},
                                p : Ptys \cup {NoPty}]]
      /\ pump[b].p \in Ptys /\ down \in Seq(Requests)
  BY DEF IInv, Types, ServerTypes, NetTypes
<1>2. PICK q \in Ptys : q = pump[b].p
  BY <1>t
<1>3. /\ router' = router \cup {q}
      /\ overlap' = IF Overlaps(b, q) THEN overlap \cup {q} ELSE overlap
  BY <1>2 DEF Binds
<1>4. /\ pump'[b].at = "forward" /\ pump'[b].p = q /\ \A c \in Browsers \ {b} : pump'[c] = pump[c]
  BY <1>2, <1>t
<1>5. ASSUME NEW p \in Ptys, p \notin overlap', OwnedInv(p) PROVE OwnedInv(p)'
  <2>1. OpensFree(p)'
    BY <1>1, <1>5, FreeFrame DEF OwnedInv, OpensFree
  <2>2. Owned(p)'
    BY <1>1, <1>5 DEF OwnedInv, Owned
  <2>f. FreeAt(p, Len(down) + 1)' = FreeAt(p, Len(down) + 1)
    BY <1>1 DEF FreeAt, Idle
  <2>3. CASE p # q
    <3>1. /\ \A c \in Browsers : pump'[c].p = p => pump'[c] = pump[c]
          /\ \A c \in Browsers : pump'[c].p = p <=> pump[c].p = p
          /\ p \in router' <=> p \in router
      BY <1>2, <1>3, <1>4, <2>3
    <3>2. Exclusive(p)'
      <4>1. ASSUME NEW c \in Browsers, NEW d \in Browsers, c # d, pump'[c].p = p,
                   pump'[c].at \in {"forward", "close", "release"}
            PROVE  pump'[d].p # p \/ pump'[d].at = "bind"
        <5>1. pump[c].p = p /\ pump[c].at \in {"forward", "close", "release"}
          BY <3>1, <4>1
        <5>2. pump[d].p # p \/ pump[d].at = "bind"
          BY <1>5, <4>1, <5>1 DEF OwnedInv, Exclusive
        <5> QED
          BY <3>1, <5>2
      <4> QED
        BY <4>1 DEF Exclusive
    <3>3. NextFree(p)'
      BY <1>1, <1>5, <2>f, <3>1 DEF OwnedInv, NextFree
    <3> QED
      BY <2>1, <2>2, <3>2, <3>3 DEF OwnedInv
  <2>4. CASE p = q
    <3>1. ~Overlaps(b, p)
      BY <1>3, <1>5, <2>4
    <3>2. \A c \in Browsers \ {b} : pump'[c].p # p
      BY <1>4, <3>1 DEF Overlaps, Shared
    <3>3. Exclusive(p)'
      BY <3>2 DEF Exclusive
    <3>4. FreeAt(p, Len(down) + 1)
      <4>1. p \notin router
        BY <3>1 DEF Overlaps
      <4>2. CASE kind[p] = "tmux"
        BY <1>5, <4>1, <4>2 DEF OwnedInv, NextFree
      <4>3. CASE kind[p] = "pty"
        <5>1. (\A s \in Streams : stream[s].p # p) /\ ~About(p, down)
          BY <3>1, <4>3 DEF Overlaps
        <5>2. \A k \in 1 .. (Len(down) + 1) - 1 : k \in DOMAIN down
          BY <1>t
        <5> QED
          BY <5>1, <5>2 DEF FreeAt, Idle, About
      <4> QED
        BY <4>2, <4>3 DEF IInv, Types, DashTypes
    <3>5. NextFree(p)'
      <4>1. p \in router'
        BY <1>3, <2>4
      <4> QED
        BY <1>4, <2>f, <3>2, <3>4, <4>1 DEF NextFree
    <3> QED
      BY <2>1, <2>2, <3>3, <3>5 DEF OwnedInv
  <2> QED
    BY <2>3, <2>4
<1>6. ExitInv'
  BY <1>1, ExitFrame
<1>7. overlap \subseteq overlap'
  BY <1>3
<1> QED
  BY <1>1, <1>5, <1>6, <1>7 DEF IInv, OwnInv

\* forwardToAgent after bind: the open finds the id free.
LEMMA OwnForwards ==
    ASSUME IInv, NEW b \in Browsers, pump[b].at = "forward", ToAgent(Msg("open", pump[b].p)),
           pump' = [pump EXCEPT ![b] = IdlePump],
           UNCHANGED <<router, overlap, listed, apump, dashVars, agentVars, agentUp, upA, faults, cut>>
    PROVE  OwnInv'
<1>1. UNCHANGED <<kind, router, overlap, apump, table, stream, agentUp, upA, cut>>
  BY DEF dashVars, agentVars
<1>t. /\ pump \in [Browsers -> [at : {"idle", "bind", "forward", "close", "release"},
                                p : Ptys \cup {NoPty}]]
      /\ pump[b].p \in Ptys
  BY DEF IInv, Types, ServerTypes
<1>2. PICK q \in Ptys : q = pump[b].p
  BY <1>t
<1>3. PICK m \in Requests : m = Msg("open", q) /\ m.p = q /\ m.t = "open"
  <2>1. /\ Msg("open", q) \in Requests
        /\ Msg("open", q).p = q /\ Msg("open", q).t = "open"
    BY DEF Msg, Requests
  <2> QED
    BY <2>1
<1>a. ToAgent(m)
  BY <1>2, <1>3
<1>4. pump'[b] = IdlePump /\ \A c \in Browsers \ {b} : pump'[c] = pump[c]
  BY <1>t
<1>5. ASSUME NEW p \in Ptys, p \notin overlap, OwnedInv(p) PROVE OwnedInv(p)'
  <2>0. pump'[b].p # p
    BY <1>4 DEF IdlePump
  <2>1. Exclusive(p)'
    BY <1>4, <1>5, <2>0 DEF OwnedInv, Exclusive
  <2>2. OpensFree(p)'
    <3>1. p = q => FreeAt(p, Len(down) + 1)
      BY <1>2, <1>5 DEF OwnedInv, NextFree
    <3>2. OpensFree(p)
      BY <1>5 DEF OwnedInv
    <3> QED
      BY <1>1, <1>3, <1>a, <3>1, <3>2, OwnToAgent
  <2>3. Owned(p)'
    BY <1>1, <1>5 DEF OwnedInv, Owned
  <2>4. NextFree(p)'
    <3>1. CASE p # q
      <4>1. FreeAt(p, Len(down) + 1) => FreeAt(p, Len(down) + 1)'
        BY <1>1, <1>3, <1>a, <3>1, OwnToAgent
      <4> QED
        BY <1>1, <1>4, <1>5, <2>0, <4>1 DEF OwnedInv, NextFree
    <3>2. CASE p = q
      <4>1. \A c \in Browsers \ {b} : pump[c].p # p \/ pump[c].at = "bind"
        BY <1>2, <1>5, <3>2 DEF OwnedInv, Exclusive
      <4>2. kind[p] = "tmux" => p \in router
        BY <1>2, <1>5, <3>2 DEF OwnedInv, NextFree
      <4> QED
        BY <1>1, <1>4, <2>0, <4>1, <4>2 DEF NextFree
    <3> QED
      BY <3>1, <3>2
  <2> QED
    BY <2>1, <2>2, <2>3, <2>4 DEF OwnedInv
<1>6. ExitInv'
  <2>1. agentUp \/ UNCHANGED down
    BY <1>1, <1>a, OwnToAgent
  <2> QED
    BY <1>1, <2>1, ExitFrame
<1> QED
  BY <1>1, <1>5, <1>6 DEF IInv, OwnInv

\* forwardToOrgAgents: the close leaves the pane free.
LEMMA OwnCloses ==
    ASSUME IInv, NEW b \in Browsers, pump[b].at = "close", ToAgent(Msg("close", pump[b].p)),
           pump' = [pump EXCEPT ![b].at = "release"],
           UNCHANGED <<router, overlap, listed, apump, dashVars, agentVars, agentUp, upA, faults, cut>>
    PROVE  OwnInv'
<1>1. UNCHANGED <<kind, router, overlap, apump, table, stream, agentUp, upA, cut>>
  BY DEF dashVars, agentVars
<1>t. /\ pump \in [Browsers -> [at : {"idle", "bind", "forward", "close", "release"},
                                p : Ptys \cup {NoPty}]]
      /\ pump[b].p \in Ptys
  BY DEF IInv, Types, ServerTypes
<1>2. PICK q \in Ptys : q = pump[b].p
  BY <1>t
<1>3. PICK m \in Requests : m = Msg("close", q) /\ m.p = q /\ m.t = "close"
  <2>1. /\ Msg("close", q) \in Requests
        /\ Msg("close", q).p = q /\ Msg("close", q).t = "close"
    BY DEF Msg, Requests
  <2> QED
    BY <2>1
<1>a. ToAgent(m)
  BY <1>2, <1>3
<1>4. /\ pump'[b].at = "release" /\ pump'[b].p = q /\ \A c \in Browsers \ {b} : pump'[c] = pump[c]
  BY <1>2, <1>t
<1>5. ASSUME NEW p \in Ptys, p \notin overlap, OwnedInv(p), ~cut PROVE OwnedInv(p)'
  <2>1. Exclusive(p)'
    <3>1. ASSUME NEW c \in Browsers, NEW d \in Browsers, c # d, pump'[c].p = p,
                 pump'[c].at \in {"forward", "close", "release"}
          PROVE  pump'[d].p # p \/ pump'[d].at = "bind"
      <4>1. pump[c].p = p /\ pump[c].at \in {"forward", "close", "release"}
        BY <1>2, <1>4, <3>1
      <4>2. pump[d].p # p \/ pump[d].at = "bind"
        BY <1>5, <3>1, <4>1 DEF OwnedInv, Exclusive
      <4> QED
        BY <1>2, <1>4, <4>2
    <3> QED
      BY <3>1 DEF Exclusive
  <2>2. OpensFree(p)'
    <3>1. OpensFree(p)
      BY <1>5 DEF OwnedInv
    <3> QED
      BY <1>1, <1>3, <1>a, <3>1, OwnToAgent
  <2>3. Owned(p)'
    BY <1>1, <1>5 DEF OwnedInv, Owned
  <2>4. NextFree(p)'
    <3>1. CASE p # q
      <4>1. FreeAt(p, Len(down) + 1) => FreeAt(p, Len(down) + 1)'
        BY <1>1, <1>3, <1>a, <3>1, OwnToAgent
      <4>2. \A c \in Browsers : pump'[c].p = p => pump'[c] = pump[c]
        BY <1>4, <3>1
      <4> QED
        BY <1>1, <1>5, <4>1, <4>2 DEF OwnedInv, NextFree
    <3>2. CASE p = q
      <4>1. \A c \in Browsers \ {b} : pump[c].p # p \/ pump[c].at = "bind"
        BY <1>2, <1>5, <3>2 DEF OwnedInv, Exclusive
      <4>2. kind[p] = "tmux" => FreeAt(p, Len(down) + 1)'
        <5>1. CASE agentUp
          BY <1>1, <1>3, <1>a, <3>2, <5>1, OwnToAgent
        <5>2. CASE ~agentUp
          <6>1. down' = down /\ down = <<>> /\ \A s \in Streams : stream[s] = NoProcess
            BY <1>1, <1>5, <1>a, <5>2, OwnToAgent DEF IInv, OwnInv, ExitInv
          <6>2. Len(down') = 0
            BY <6>1
          <6>3. Idle(p)'
            BY <1>1, <6>1 DEF Idle, NoProcess
          <6>4. \A k \in 1 .. (Len(down') + 1) - 1 : FALSE
            BY <6>2
          <6> QED
            BY <6>3, <6>4 DEF FreeAt
        <5> QED
          BY <5>1, <5>2
      <4>3. \A c \in Browsers : pump'[c].p = p => pump'[c].at # "forward"
        BY <1>4, <4>1
      <4> QED
        BY <1>1, <4>2, <4>3 DEF NextFree
    <3> QED
      BY <3>1, <3>2
  <2> QED
    BY <2>1, <2>2, <2>3, <2>4 DEF OwnedInv
<1>6. ExitInv'
  <2>1. agentUp \/ UNCHANGED down
    BY <1>1, <1>a, OwnToAgent
  <2> QED
    BY <1>1, <2>1, ExitFrame
<1> QED
  BY <1>1, <1>5, <1>6 DEF IInv, OwnInv

\* release, after a close or after an exit.
LEMMA OwnReleases ==
    ASSUME IInv, NEW q \in Ptys, router' = router \ {q},
           UNCHANGED <<kind, overlap, table, stream, agentUp, down, upA, cut>>,
           \/ apump.at = "release" /\ apump.p = q /\ UNCHANGED pump /\ apump' = IdlePump
           \/ \E b \in Browsers : /\ pump[b].at = "release" /\ pump[b].p = q
                                  /\ pump' = [pump EXCEPT ![b] = IdlePump] /\ UNCHANGED apump
    PROVE  OwnInv'
<1>t. pump \in [Browsers -> [at : {"idle", "bind", "forward", "close", "release"},
                             p : Ptys \cup {NoPty}]]
  BY DEF IInv, Types, ServerTypes
<1>1. \A c \in Browsers : pump'[c] = IdlePump \/ pump'[c] = pump[c]
  BY <1>t
<1>2. \A c \in Browsers, p \in Ptys : pump'[c].p = p => pump'[c] = pump[c]
  BY <1>1 DEF IdlePump
<1>3. ASSUME NEW p \in Ptys, OwnedInv(p) PROVE OwnedInv(p)'
  <2>1. Exclusive(p)'
    <3>1. ASSUME NEW c \in Browsers, NEW d \in Browsers, c # d, pump'[c].p = p,
                 pump'[c].at \in {"forward", "close", "release"}
          PROVE  pump'[d].p # p \/ pump'[d].at = "bind"
      <4>1. pump[c].p = p /\ pump[c].at \in {"forward", "close", "release"}
        BY <1>2, <3>1
      <4>2. pump[d].p # p \/ pump[d].at = "bind"
        BY <1>3, <3>1, <4>1 DEF OwnedInv, Exclusive
      <4> QED
        BY <1>2, <4>2
    <3> QED
      BY <3>1 DEF Exclusive
  <2>2. OpensFree(p)'
    BY <1>3, FreeFrame DEF OwnedInv, OpensFree
  <2>3. Owned(p)'
    BY <1>3 DEF OwnedInv, Owned
  <2>4. NextFree(p)'
    <3>f. FreeAt(p, Len(down) + 1)' = FreeAt(p, Len(down) + 1)
      BY DEF FreeAt, Idle
    <3>1. CASE p # q \/ kind[p] # "tmux"
      BY <1>2, <1>3, <3>1, <3>f DEF OwnedInv, NextFree
    <3>2. CASE p = q /\ kind[p] = "tmux"
      <4>1. PICK b \in Browsers : pump[b].at = "release" /\ pump[b].p = q
                                  /\ pump' = [pump EXCEPT ![b] = IdlePump]
        BY <3>2 DEF IInv, OwnInv, ExitInv
      <4>2. FreeAt(p, Len(down) + 1)
        BY <1>3, <3>2, <4>1 DEF OwnedInv, NextFree
      <4>3. \A c \in Browsers \ {b} : pump[c].p = p => pump[c].at = "bind"
        BY <1>3, <3>2, <4>1 DEF OwnedInv, Exclusive
      <4>4. \A c \in Browsers : pump'[c].p = p => pump'[c].at # "forward"
        BY <1>2, <3>2, <4>1, <4>3
      <4> QED
        BY <3>f, <4>2, <4>4 DEF NextFree
    <3> QED
      BY <3>1, <3>2
  <2> QED
    BY <2>1, <2>2, <2>3, <2>4 DEF OwnedInv
<1>4. ExitInv'
  BY DEF IInv, OwnInv, ExitInv, IdlePump
<1> QED
  BY <1>3, <1>4 DEF IInv, OwnInv

\* A stream ends: what is about p becomes less, and what runs keeps its entry.
LEMMA OwnShrinks ==
    ASSUME NEW p \in Ptys, OwnedInv(p), UNCHANGED <<kind, pump, router, down>>,
           \A s \in Streams : stream'[s].p = p =>
              stream[s].p = p /\ (stream'[s].st = "running" => stream[s].st = "running"),
           \A s \in Streams : stream'[s].p = p /\ stream'[s].st = "running" => table'[p] = table[p]
    PROVE  OwnedInv(p)'
<1>1. Idle(p) => Idle(p)'
  BY DEF Idle
<1>2. Exclusive(p)'
  BY DEF OwnedInv, Exclusive
<1>3. Owned(p)'
  BY DEF OwnedInv, Owned
<1>4. \A i : FreeAt(p, i) => FreeAt(p, i)'
  BY <1>1 DEF FreeAt
<1>5. OpensFree(p)'
  BY <1>4 DEF OwnedInv, OpensFree
<1>6. FreeAt(p, Len(down) + 1) => FreeAt(p, Len(down) + 1)'
  BY <1>1 DEF FreeAt
<1>7. NextFree(p)'
  BY <1>6 DEF OwnedInv, NextFree
<1> QED
  BY <1>2, <1>3, <1>5, <1>7 DEF OwnedInv

\* The agent takes a message.
LEMMA OwnTakes ==
    ASSUME IInv, NEW p \in Ptys, OwnedInv(p), UNCHANGED <<kind, pump, router>>,
           down # <<>>, down' = Tail(down),
           Idle(p) /\ Head(down).p # p => Idle(p)',
           kind[p] = "tmux" /\ Head(down).p = p /\ Head(down).t = "close" => Idle(p)',
           Owned(p)'
    PROVE  OwnedInv(p)'
<1>t. down \in Seq(Requests) /\ Len(down) <= Cap
  BY DEF IInv, Types, NetTypes
<1>1. PICK n \in Nat \ {0} : n = Len(down)
  BY <1>t, TailType
<1>2. /\ DOMAIN down = 1 .. n /\ DOMAIN down' = 1 .. (n - 1) /\ Len(down') = n - 1
      /\ Head(down) = down[1] /\ \A k \in 1 .. (n - 1) : down'[k] = down[k + 1]
  BY <1>t, <1>1, TailType
<1>3. ASSUME NEW i \in 1 .. n, FreeAt(p, i + 1) PROVE FreeAt(p, i)'
  <2>1. i \in Nat \ {0} /\ \A k \in 1 .. i - 1 : down'[k] = down[k + 1]
    BY <1>2
  <2> QED
    BY <1>2, <1>3, <2>1, FreeShift
<1>4. Exclusive(p)'
  BY DEF OwnedInv, Exclusive
<1>5. OpensFree(p)'
  <2>1. ASSUME NEW i \in DOMAIN down', down'[i].p = p, down'[i].t = "open" PROVE FreeAt(p, i)'
    <3>1. i \in 1 .. n /\ i + 1 \in DOMAIN down /\ down'[i] = down[i + 1]
      BY <1>2
    <3>2. FreeAt(p, i + 1)
      BY <2>1, <3>1 DEF OwnedInv, OpensFree
    <3> QED
      BY <1>3, <3>1, <3>2
  <2> QED
    BY <2>1 DEF OpensFree
<1>6. FreeAt(p, Len(down) + 1) => FreeAt(p, Len(down) + 1)'
  <2>1. SUFFICES ASSUME FreeAt(p, n + 1) PROVE FreeAt(p, Len(down) + 1)'
    BY <1>1
  <2>2. n \in 1 .. n
    OBVIOUS
  <2>3. FreeAt(p, n)'
    BY <1>3, <2>1, <2>2
  <2>4. Len(down') + 1 = n
    BY <1>2
  <2> QED
    BY <2>3, <2>4 DEF FreeAt
<1>7. NextFree(p)'
  BY <1>6 DEF OwnedInv, NextFree
<1> QED
  BY <1>4, <1>5, <1>7 DEF OwnedInv

\* Only a process reports an exit.
LEMMA ReportsExit ==
    ASSUME IInv, NEW m \in Reports, FromAgent(m), UNCHANGED kind, m.t = "exit" => kind[m.p] = "pty"
    PROVE  \A i \in DOMAIN upA' : upA'[i].t = "exit" => kind[upA'[i].p] = "pty"
<1>t. upA \in Seq(Reports) /\ \A i \in DOMAIN upA : upA[i].t = "exit" => kind[upA[i].p] = "pty"
  BY DEF IInv, Types, NetTypes, OwnInv, ExitInv
<1>1. CASE agentUp
  <2>1. Len(upA) < Cap /\ upA' = Append(upA, m)
    BY <1>1 DEF FromAgent
  <2>2. /\ Len(upA) \in Nat /\ DOMAIN upA = 1 .. Len(upA) /\ DOMAIN upA' = 1 .. (Len(upA) + 1)
        /\ upA'[Len(upA) + 1] = m /\ \A k \in 1 .. Len(upA) : upA'[k] = upA[k]
    BY <1>t, <2>1, AppendType
  <2>3. ASSUME NEW i \in DOMAIN upA', upA'[i].t = "exit" PROVE kind[upA'[i].p] = "pty"
    <3>1. CASE i = Len(upA) + 1
      BY <2>2, <2>3, <3>1
    <3>2. CASE i \in DOMAIN upA
      BY <1>t, <2>2, <2>3, <3>2
    <3> QED
      BY <2>2, <3>1, <3>2
  <2> QED
    BY <2>3
<1>2. CASE ~agentUp
  BY <1>t, <1>2 DEF FromAgent
<1> QED
  BY <1>1, <1>2

\* termManager.Open, AttachTmux: no stream is hidden by the one that is entered.
LEMMA OwnOpens ==
    ASSUME IInv, AgentOpens
    PROVE  OwnInv'
<1>d. down \in Seq(Requests) /\ down # <<>> /\ Len(down) <= Cap
  BY DEF AgentOpens, IInv, Types, NetTypes
<1>h. /\ Head(down) \in Requests /\ Head(down) = down[1] /\ 1 \in DOMAIN down
      /\ Head(down).p \in Ptys /\ Head(down).t = "open"
  <2>1. Head(down) \in Requests /\ Head(down) = down[1] /\ 1 \in DOMAIN down
    BY <1>d, TailType
  <2> QED
    BY <2>1 DEF AgentOpens, Requests
<1>1. PICK q \in Ptys : q = Head(down).p
  BY <1>h
<1>2. /\ UNCHANGED <<kind, pump, router, overlap, apump, agentUp, cut>> /\ down' = Tail(down)
      /\ \/ FromAgent(Msg("failed", q)) /\ UNCHANGED <<table, stream>>
         \/ \E s \in Streams :
               /\ stream[s] = NoProcess
               /\ stream' = [stream EXCEPT ![s] = [st |-> "running", p |-> q]]
               /\ table' = [table EXCEPT ![q] = s]
               /\ FromAgent(Msg("opened", q))
  BY <1>1 DEF AgentOpens, dashVars, srvVars, agentVars
<1>t. /\ table \in [Ptys -> Streams \cup {NoStream}]
      /\ stream \in [Streams -> [st : Stages, p : Ptys \cup {NoPty}]]
  BY DEF IInv, Types, AgentTypes
<1>3. \/ UNCHANGED <<table, stream>>
      \/ \E s \in Streams : /\ stream[s].p = NoPty /\ stream[s].st = "none"
                            /\ stream'[s].st = "running" /\ stream'[s].p = q
                            /\ \A u \in Streams \ {s} : stream'[u] = stream[u]
                            /\ table'[q] = s /\ \A p \in Ptys \ {q} : table'[p] = table[p]
  BY <1>2, <1>t DEF NoProcess
<1>4. \A i \in DOMAIN upA' : upA'[i].t = "exit" => kind[upA'[i].p] = "pty"
  <2>1. ASSUME NEW m, m \in {Msg("failed", q), Msg("opened", q)} PROVE m \in Reports /\ m.t # "exit"
    BY <2>1 DEF Msg, Reports
  <2>2. PICK m \in Reports : FromAgent(m) /\ m.t # "exit"
    BY <1>2, <2>1
  <2> QED
    BY <1>2, <2>2, ReportsExit
<1>5. ExitInv'
  <2>1. cut \/ agentUp
    BY <1>d DEF IInv, OwnInv, ExitInv
  <2>2. \A s \in Streams : stream'[s].st \in {"removing", "exiting"} => kind'[stream'[s].p] = "pty"
    <3>1. ASSUME NEW s \in Streams, stream'[s].st \in {"removing", "exiting"}
          PROVE  kind'[stream'[s].p] = "pty"
      <4>1. stream'[s] = stream[s]
        BY <1>3, <3>1
      <4> QED
        BY <1>2, <3>1, <4>1 DEF IInv, OwnInv, ExitInv
    <3> QED
      BY <3>1
  <2>3. apump'.at = "release" => kind'[apump'.p] = "pty"
    BY <1>2 DEF IInv, OwnInv, ExitInv
  <2> QED
    BY <1>2, <1>4, <2>1, <2>2, <2>3 DEF ExitInv
<1>6. ASSUME NEW p \in Ptys, OwnedInv(p) PROVE OwnedInv(p)'
  <2>1. Idle(p) /\ q # p => Idle(p)'
    BY <1>2, <1>3 DEF Idle
  <2>2. CASE q # p
    <3>1. Owned(p)'
      <4>1. \A s \in Streams : stream'[s].p = p => stream'[s] = stream[s]
        BY <1>3, <2>2
      <4>2. table'[p] = table[p]
        BY <1>3, <2>2
      <4> QED
        BY <1>2, <1>6, <4>1, <4>2 DEF OwnedInv, Owned
    <3> QED
      BY <1>1, <1>2, <1>6, <1>d, <2>1, <2>2, <3>1, OwnTakes
  <2>3. CASE q = p
    <3>1. Idle(p)
      <4>1. FreeAt(p, 1)
        BY <1>1, <1>6, <1>h, <2>3 DEF OwnedInv, OpensFree
      <4>2. \A k \in 1 .. 1 - 1 : FALSE
        OBVIOUS
      <4> QED
        BY <4>1, <4>2 DEF FreeAt
    <3>2. Owned(p)'
      <4>1. CASE UNCHANGED <<table, stream>>
        BY <1>2, <1>6, <4>1 DEF OwnedInv, Owned
      <4>2. ASSUME NEW s \in Streams, stream'[s].st = "running", stream'[s].p = q,
                   \A u \in Streams \ {s} : stream'[u] = stream[u], table'[q] = s
            PROVE  Owned(p)'
        <5>1. \A u \in Streams \ {s} : stream'[u].p = p => kind[p] = "tmux" /\ stream'[u].st # "running"
          BY <3>1, <4>2 DEF Idle
        <5> QED
          BY <1>2, <2>3, <4>2, <5>1 DEF Owned
      <4> QED
        BY <1>3, <4>1, <4>2
    <3> QED
      BY <1>1, <1>2, <1>6, <1>d, <1>h, <2>3, <3>2, OwnTakes
  <2> QED
    BY <2>2, <2>3
<1> QED
  BY <1>2, <1>5, <1>6 DEF IInv, OwnInv

\* termManager.Close: what runs is the stream in the table, and that one is killed.
LEMMA OwnKills ==
    ASSUME IInv, AgentCloses
    PROVE  OwnInv'
<1>d. down \in Seq(Requests) /\ down # <<>> /\ Len(down) <= Cap
  BY DEF AgentCloses, IInv, Types, NetTypes
<1>h. Head(down).p \in Ptys /\ Head(down).t = "close"
  <2>1. Head(down) \in Requests
    BY <1>d, TailType
  <2> QED
    BY <2>1 DEF AgentCloses, Requests
<1>1. PICK q \in Ptys : q = Head(down).p
  BY <1>h
<1>2. /\ UNCHANGED <<kind, pump, router, overlap, apump, agentUp, upA, cut>> /\ down' = Tail(down)
      /\ table' = [table EXCEPT ![q] = NoStream]
      /\ stream' = IF table[q] = NoStream THEN stream
                   ELSE [stream EXCEPT ![table[q]].st = IF @ = "running" THEN "killed" ELSE @]
  BY <1>1 DEF AgentCloses, dashVars, srvVars
<1>t. /\ table \in [Ptys -> Streams \cup {NoStream}]
      /\ stream \in [Streams -> [st : Stages, p : Ptys \cup {NoPty}]]
      /\ \A p \in Ptys : table[p] # NoStream => stream[table[p]].p = p
  BY DEF IInv, Types, AgentTypes
<1>3. /\ \A s \in Streams : s # table[q] => stream'[s] = stream[s]
      /\ \A s \in Streams : stream'[s].p = stream[s].p
      /\ \A s \in Streams : s = table[q] =>
            stream'[s].st = IF stream[s].st = "running" THEN "killed" ELSE stream[s].st
  BY <1>2, <1>t
<1>4. \A s \in Streams : /\ stream'[s].st = "running" => stream[s].st = "running" /\ s # table[q]
                         /\ stream'[s].st \in {"removing", "exiting"} => stream'[s].st = stream[s].st
  BY <1>3
<1>5. \A p \in Ptys \ {q} : table'[p] = table[p]
  BY <1>2, <1>t
<1>6. ExitInv'
  <2>1. cut \/ agentUp
    BY <1>d DEF IInv, OwnInv, ExitInv
  <2>2. \A s \in Streams : stream'[s].st \in {"removing", "exiting"} => kind'[stream'[s].p] = "pty"
    BY <1>2, <1>3, <1>4 DEF IInv, OwnInv, ExitInv
  <2>3. /\ apump'.at = "release" => kind'[apump'.p] = "pty"
        /\ \A i \in DOMAIN upA' : upA'[i].t = "exit" => kind'[upA'[i].p] = "pty"
    BY <1>2 DEF IInv, OwnInv, ExitInv
  <2> QED
    BY <1>2, <2>1, <2>2, <2>3 DEF ExitInv
<1>7. ASSUME NEW p \in Ptys, OwnedInv(p) PROVE OwnedInv(p)'
  <2>o. \A s \in Streams : stream[s].p = p /\ stream[s].st = "running" => table[p] = s
    BY <1>7 DEF OwnedInv, Owned
  <2>1. Idle(p) => Idle(p)'
    BY <1>2, <1>3, <1>4 DEF Idle
  <2>2. \A s \in Streams : stream'[s].p = p /\ stream'[s].st = "running" => p # q /\ table[p] = s
    BY <1>3, <1>4, <2>o
  <2>3. kind[p] = "tmux" /\ q = p => Idle(p)'
    BY <1>2, <2>2 DEF Idle
  <2>4. Owned(p)'
    <3>1. \A s \in Streams : stream'[s].p = p /\ stream'[s].st = "running" => table'[p] = s
      BY <1>5, <2>2
    <3>2. kind'[p] = "pty" => \A s, u \in Streams : stream'[s].p = p /\ stream'[u].p = p => s = u
      BY <1>2, <1>3, <1>7 DEF OwnedInv, Owned
    <3> QED
      BY <3>1, <3>2 DEF Owned
  <2> QED
    BY <1>1, <1>2, <1>7, <1>d, <2>1, <2>3, <2>4, OwnTakes
<1> QED
  BY <1>2, <1>6, <1>7 DEF IInv, OwnInv

\* The goroutine of a stream: what it is about stays the same or goes.
LEMMA OwnStreams ==
    ASSUME IInv, NEW s \in Streams, StreamEnds(s) \/ StreamRemoves(s) \/ StreamExits(s)
    PROVE  OwnInv'
<1>t. /\ table \in [Ptys -> Streams \cup {NoStream}]
      /\ stream \in [Streams -> [st : Stages, p : Ptys \cup {NoPty}]]
      /\ \A u \in Streams : stream[u].st # "none" => stream[u].p \in Ptys
      /\ kind \in [Ptys -> {"pty", "tmux"}]
  BY DEF IInv, Types, AgentTypes, DashTypes, NoProcess
<1>1. PICK q \in Ptys : q = stream[s].p
  BY <1>t DEF StreamEnds, StreamRemoves, StreamExits
<1>2. /\ UNCHANGED <<kind, pump, router, overlap, apump, agentUp, down, cut>>
      /\ stream[s].st \in {"running", "killed", "removing", "exiting"}
      /\ \/ UNCHANGED table
         \/ stream[s].st = "removing" /\ table' = [table EXCEPT ![q] = NoStream]
  BY <1>1 DEF StreamEnds, StreamRemoves, StreamExits, dashVars, srvVars, netVars
<1>3. /\ \A u \in Streams \ {s} : stream'[u] = stream[u]
      /\ stream'[s] = NoProcess
            \/ (stream'[s].p = q /\ stream'[s].st \in {"removing", "exiting"} /\ kind[q] = "pty")
  <2>1. CASE StreamEnds(s)
    <3>1. stream' = [stream EXCEPT ![s] = IF kind[q] = "pty" THEN [stream[s] EXCEPT !.st = "removing"]
                                          ELSE NoProcess]
      BY <1>1, <2>1 DEF StreamEnds
    <3>2. [stream[s] EXCEPT !.st = "removing"].p = q /\ [stream[s] EXCEPT !.st = "removing"].st = "removing"
      BY <1>1, <1>t
    <3> QED
      BY <1>t, <3>1, <3>2
  <2>2. CASE StreamRemoves(s)
    <3>1. kind[q] = "pty"
      BY <1>1, <2>2 DEF StreamRemoves, IInv, OwnInv, ExitInv
    <3>2. stream' = [stream EXCEPT ![s].st = "exiting"]
      BY <2>2 DEF StreamRemoves
    <3> QED
      BY <1>1, <1>t, <3>1, <3>2
  <2>3. CASE StreamExits(s)
    BY <1>t, <2>3 DEF StreamExits
  <2> QED
    BY <2>1, <2>2, <2>3
<1>4. \A i \in DOMAIN upA' : upA'[i].t = "exit" => kind[upA'[i].p] = "pty"
  <2>1. CASE StreamExits(s)
    <3>1. kind[q] = "pty" /\ FromAgent(Msg("exit", q))
      BY <1>1, <2>1 DEF StreamExits, IInv, OwnInv, ExitInv
    <3>2. Msg("exit", q) \in Reports /\ Msg("exit", q).p = q
      BY DEF Msg, Reports
    <3> QED
      BY <1>2, <3>1, <3>2, ReportsExit
  <2>2. CASE UNCHANGED upA
    BY <2>2 DEF IInv, OwnInv, ExitInv
  <2> QED
    BY <2>1, <2>2 DEF StreamEnds, StreamRemoves, netVars
<1>5. ExitInv'
  <2>1. cut \/ agentUp
    BY <1>2 DEF IInv, OwnInv, ExitInv, NoProcess
  <2>2. ASSUME NEW u \in Streams, stream'[u].st \in {"removing", "exiting"}
        PROVE  kind'[stream'[u].p] = "pty"
    <3>1. CASE u = s
      BY <1>2, <1>3, <2>2, <3>1 DEF NoProcess
    <3>2. CASE u # s
      BY <1>2, <1>3, <2>2, <3>2 DEF IInv, OwnInv, ExitInv
    <3> QED
      BY <3>1, <3>2
  <2>3. apump'.at = "release" => kind'[apump'.p] = "pty"
    BY <1>2 DEF IInv, OwnInv, ExitInv
  <2> QED
    BY <1>2, <1>4, <2>1, <2>2, <2>3 DEF ExitInv
<1>6. ASSUME NEW p \in Ptys, OwnedInv(p) PROVE OwnedInv(p)'
  <2>1. \A u \in Streams : stream'[u].p = p =>
           stream[u].p = p /\ (stream'[u].st = "running" => stream[u].st = "running")
    BY <1>1, <1>3 DEF NoProcess
  <2>2. ASSUME NEW u \in Streams, stream'[u].p = p, stream'[u].st = "running"
        PROVE  table'[p] = table[p]
    <3>1. u # s /\ stream[u].p = p
      BY <1>3, <2>1, <2>2 DEF NoProcess
    <3>2. CASE p # q
      BY <1>2, <1>t, <3>2
    <3>3. CASE p = q /\ stream[s].st = "removing"
      <4>1. kind[p] = "pty"
        BY <1>1, <3>3 DEF IInv, OwnInv, ExitInv
      <4> QED
        BY <1>1, <1>6, <3>1, <3>3, <4>1 DEF OwnedInv, Owned
    <3> QED
      BY <1>2, <3>2, <3>3
  <2> QED
    BY <1>2, <1>6, <2>1, <2>2, OwnShrinks
<1> QED
  BY <1>2, <1>5, <1>6 DEF IInv, OwnInv

\* handleAgentTerminalOutput takes a message; only an exit, of a process,
\* releases the binding.
LEMMA OwnRelays ==
    ASSUME IInv, Relay
    PROVE  OwnInv'
<1>t. /\ upA \in Seq(Reports) /\ upA # <<>> /\ Len(upA) <= Cap
      /\ \A i \in DOMAIN upA : upA[i].t = "exit" => kind[upA[i].p] = "pty"
  BY DEF Relay, IInv, Types, NetTypes, OwnInv, ExitInv
<1>1. /\ UNCHANGED <<kind, pump, router, down, table, stream, overlap, agentUp, cut>>
      /\ upA' = Tail(upA)
      /\ apump' = IF Head(upA).p \in router /\ Head(upA).t = "exit"
                  THEN [at |-> "release", p |-> Head(upA).p] ELSE IdlePump
  BY DEF Relay, agentVars
<1>2. /\ Len(upA) \in Nat \ {0} /\ DOMAIN upA = 1 .. Len(upA) /\ DOMAIN upA' = 1 .. (Len(upA) - 1)
      /\ Head(upA) = upA[1] /\ \A i \in 1 .. (Len(upA) - 1) : upA'[i] = upA[i + 1]
  BY <1>t, <1>1, TailType
<1>3. ASSUME NEW i \in DOMAIN upA', upA'[i].t = "exit" PROVE kind[upA'[i].p] = "pty"
  <2>1. i + 1 \in DOMAIN upA /\ upA'[i] = upA[i + 1]
    BY <1>2
  <2> QED
    BY <1>t, <1>3, <2>1
<1>4. Head(upA).t = "exit" => kind[Head(upA).p] = "pty"
  <2>1. 1 \in DOMAIN upA
    BY <1>2
  <2> QED
    BY <1>t, <1>2, <2>1
<1>5. apump'.at = "release" => kind[apump'.p] = "pty"
  BY <1>1, <1>4 DEF IdlePump
<1>6. ExitInv'
  <2>1. \A u \in Streams : stream[u].st \in {"removing", "exiting"} => kind[stream[u].p] = "pty"
    BY DEF IInv, OwnInv, ExitInv
  <2>2. ~cut /\ ~agentUp => down = <<>> /\ \A u \in Streams : stream[u] = NoProcess
    BY DEF IInv, OwnInv, ExitInv
  <2> QED
    BY <1>1, <1>3, <1>5, <2>1, <2>2 DEF ExitInv
<1>7. ASSUME NEW p \in Ptys, OwnedInv(p) PROVE OwnedInv(p)'
  BY <1>1, <1>7, OwnShrinks
<1> QED
  BY <1>1, <1>6, <1>7 DEF IInv, OwnInv

\* A panel, or a connection of a dashboard: the agent is not concerned.
LEMMA OwnDash ==
    ASSUME IInv, NEW b \in Browsers,
           \/ \E p \in Ptys : Mount(b, p) \/ Unmount(b, p)
           \/ DashReads(b) \/ DashDrops(b)
    PROVE  OwnInv'
<1>1. UNCHANGED <<kind, pump, router, down, table, stream, overlap, agentUp, cut, upA, apump>>
  BY DEF Mount, Unmount, DashReads, DashDrops, srvVars, agentVars, netVars
<1> QED
  BY <1>1, OwnFrame

\* The agent and the server fail: the agent forgets everything, or is cut off.
LEMMA OwnFailure ==
    ASSUME IInv, AgentDrops \/ AgentReconnects \/ AgentRestarts \/ ServerRestarts
    PROVE  OwnInv'
<1>1. ASSUME AgentDrops PROVE OwnInv'
  <2>1. cut' = TRUE /\ upA' = <<>> /\ UNCHANGED <<kind, stream, apump>>
    BY <1>1 DEF AgentDrops, dashVars, srvVars, agentVars
  <2>2. \A u \in Streams : stream[u].st \in {"removing", "exiting"} => kind[stream[u].p] = "pty"
    BY DEF IInv, OwnInv, ExitInv
  <2>3. apump.at = "release" => kind[apump.p] = "pty"
    BY DEF IInv, OwnInv, ExitInv
  <2> QED
    BY <2>1, <2>2, <2>3 DEF OwnInv, ExitInv
<1>2. ASSUME AgentReconnects PROVE OwnInv'
  <2>1. UNCHANGED <<kind, pump, router, down, table, stream, overlap, cut, upA, apump>> /\ agentUp'
    BY <1>2 DEF AgentReconnects, dashVars, agentVars
  <2>2. ExitInv'
    BY <2>1 DEF IInv, OwnInv, ExitInv
  <2>3. ASSUME NEW p \in Ptys, OwnedInv(p) PROVE OwnedInv(p)'
    BY <2>1, <2>3, OwnShrinks
  <2> QED
    BY <2>1, <2>2, <2>3 DEF IInv, OwnInv
<1>3. ASSUME AgentRestarts PROVE OwnInv'
  <2>1. /\ UNCHANGED <<kind, pump, router, overlap, cut, apump>> /\ down' = <<>> /\ upA' = <<>>
        /\ table' = [p \in Ptys |-> NoStream] /\ stream' = [u \in Streams |-> NoProcess]
    BY <1>3 DEF AgentRestarts, dashVars, srvVars
  <2>2. \A u \in Streams : stream'[u] = NoProcess /\ stream'[u].st = "none" /\ stream'[u].p = NoPty
    BY <2>1 DEF NoProcess
  <2>3. apump'.at = "release" => kind'[apump'.p] = "pty"
    BY <2>1 DEF IInv, OwnInv, ExitInv
  <2>4. ExitInv'
    BY <2>1, <2>2, <2>3 DEF ExitInv
  <2>5. ASSUME NEW p \in Ptys, OwnedInv(p) PROVE OwnedInv(p)'
    <3>1. Idle(p)' /\ Owned(p)'
      BY <2>2 DEF Idle, Owned
    <3>2. Exclusive(p)'
      BY <2>1, <2>5 DEF OwnedInv, Exclusive
    <3>3. OpensFree(p)'
      BY <2>1 DEF OpensFree
    <3>4. FreeAt(p, Len(down) + 1)'
      <4>1. \A k \in 1 .. (Len(down') + 1) - 1 : FALSE
        BY <2>1
      <4> QED
        BY <3>1, <4>1 DEF FreeAt
    <3>5. NextFree(p)'
      BY <2>1, <2>5, <3>4 DEF OwnedInv, NextFree
    <3> QED
      BY <3>1, <3>2, <3>3, <3>5 DEF OwnedInv
  <2> QED
    BY <2>1, <2>4, <2>5 DEF IInv, OwnInv
<1>4. ASSUME ServerRestarts PROVE OwnInv'
  <2>1. cut' = TRUE /\ upA' = <<>> /\ apump' = IdlePump /\ UNCHANGED <<kind, stream>>
    BY <1>4 DEF ServerRestarts, agentVars
  <2>2. \A u \in Streams : stream[u].st \in {"removing", "exiting"} => kind[stream[u].p] = "pty"
    BY DEF IInv, OwnInv, ExitInv
  <2> QED
    BY <2>1, <2>2 DEF OwnInv, ExitInv, IdlePump
<1> QED
  BY <1>1, <1>2, <1>3, <1>4

\* The server's steps keep what runs in the table.
LEMMA OwnServer ==
    ASSUME IInv, ServerStep
    PROVE  OwnInv'
<1>1. ASSUME NEW b \in Browsers, PumpReads(b) PROVE OwnInv'
  BY <1>1, OwnReads
<1>2. ASSUME NEW b \in Browsers, Bind(b) PROVE OwnInv'
  BY <1>2, OwnBinds, OwnForwards DEF Bind
<1>3. ASSUME NEW b \in Browsers, Release(b) PROVE OwnInv'
  <2>1. CASE pump[b].at = "close"
    BY <1>3, <2>1, OwnCloses DEF Release
  <2>2. CASE pump[b].at = "release"
    <3>1. PICK q \in Ptys : q = pump[b].p
      BY <2>2 DEF IInv, Types, ServerTypes
    <3>2. /\ router' = router \ {q} /\ pump' = [pump EXCEPT ![b] = IdlePump]
          /\ UNCHANGED <<kind, overlap, apump, table, stream, agentUp, down, upA, cut>>
      BY <1>3, <2>2, <3>1 DEF Release, dashVars, agentVars, netVars
    <3> QED
      BY <2>2, <3>1, <3>2, OwnReleases
  <2> QED
    BY <1>3, <2>1, <2>2 DEF Release
<1>4. ASSUME RelayReleases PROVE OwnInv'
  <2>1. PICK q \in Ptys : q = apump.p
    BY <1>4 DEF RelayReleases, IInv, Types, ServerTypes
  <2>2. /\ router' = router \ {q} /\ apump' = IdlePump /\ apump.at = "release"
        /\ UNCHANGED <<kind, overlap, pump, table, stream, agentUp, down, upA, cut>>
    BY <1>4, <2>1 DEF RelayReleases, dashVars, agentVars, netVars
  <2> QED
    BY <2>1, <2>2, OwnReleases
<1> QED
  BY <1>1, <1>2, <1>3, <1>4, OwnRelays DEF ServerStep

\* Every step keeps what runs in the table.
LEMMA OwnStep == IInv /\ [Next]_vars => IInv'
<1> SUFFICES ASSUME IInv, [Next]_vars PROVE IInv'
  OBVIOUS
<1>1. Types'
  BY TypesStep DEF IInv
<1>2. CASE UNCHANGED vars
  <2>1. UNCHANGED <<kind, pump, router, down, table, stream, overlap, agentUp, cut, upA, apump>>
    BY <1>2 DEF vars
  <2> QED
    BY <1>1, <2>1, OwnFrame DEF IInv
<1>3. CASE AgentStep
  <2>1. OwnInv'
    BY <1>3, OwnOpens, OwnKills, OwnStreams DEF AgentStep
  <2> QED
    BY <1>1, <2>1 DEF IInv
<1>4. CASE ServerStep
  BY <1>1, <1>4, OwnServer DEF IInv
<1>5. CASE Failure
  <2>1. OwnInv'
    BY <1>5, OwnDash, OwnFailure DEF Failure
  <2> QED
    BY <1>1, <2>1 DEF IInv
<1>6. CASE \/ \E b \in Browsers, p \in Ptys : Mount(b, p) \/ Unmount(b, p)
           \/ \E b \in Browsers : DashReads(b)
  <2>1. OwnInv'
    BY <1>6, OwnDash
  <2> QED
    BY <1>1, <2>1 DEF IInv
<1> QED
  BY <1>2, <1>3, <1>4, <1>5, <1>6 DEF Next

\* What runs is in the table, and every open on its way will find its id free
\* (internal/agent/terminal.go:64).
THEOREM Inductive == Spec => []IInv
<1>1. Init => IInv
  BY TypesInit, OwnInit DEF IInv
<1> QED
  BY <1>1, OwnStep, PTL DEF Spec

\* "termManager owns all live PTYs" (internal/agent/terminal.go:64): whatever
\* runs is in the table, where Close and CloseAll find it, for an id whose uses
\* did not overlap and an agent that was not cut off from its server.
THEOREM OwnsCorrect == Spec => []OwnsLivePtys
<1>1. IInv => OwnsLivePtys
  <2> SUFFICES ASSUME IInv, NEW s \in Streams, stream[s].st = "running",
                      stream[s].p \notin overlap, ~cut
               PROVE  table[stream[s].p] = s
    BY DEF OwnsLivePtys
  <2>1. PICK p \in Ptys : p = stream[s].p
    BY DEF IInv, Types, AgentTypes, NoProcess
  <2>2. Owned(p)
    BY <2>1 DEF IInv, OwnInv, OwnedInv
  <2> QED
    BY <2>1, <2>2 DEF Owned
<1> QED
  BY <1>1, Inductive, PTL

HIDE TerminalAssumption

-----------------------------------------------------------------------------
(***************************************************************************)
(* Agreement. What the parties know of an id is in flight between them: a  *)
(* queue is told by whether it has a message about the id, which ones, and *)
(* the first and the last of them.                                         *)
(***************************************************************************)

\* The kinds of message.
Words == {"open", "close", "opened", "failed", "exit"}

\* The queue q has a message t about p; the first about p is one; the last is.
Has(p, q, t) == \E i \in DOMAIN q : q[i].p = p /\ q[i].t = t
FirstIs(p, q, t) ==
    \E i \in DOMAIN q : q[i].p = p /\ q[i].t = t /\ \A j \in DOMAIN q : j < i => q[j].p # p
LastIs(p, q, t) ==
    \E i \in DOMAIN q : q[i].p = p /\ q[i].t = t /\ \A j \in DOMAIN q : j > i => q[j].p # p

\* The messages about p alternate.
Alternates(p, q) ==
    \A i, j \in DOMAIN q :
        /\ i < j /\ q[i].p = p /\ q[j].p = p
        /\ \A k \in DOMAIN q : i < k /\ k < j => q[k].p # p
        => q[i].t # q[j].t

\* Nothing about p follows its exit.
ExitLast(p, q) ==
    \A i, j \in DOMAIN q : i < j /\ q[i].p = p /\ q[i].t = "exit" => q[j].p # p

\* Nothing told of p tells q from r.
SameWords(p, q, r) ==
    /\ About(p, q) <=> About(p, r)
    /\ \A t \in Words : /\ Has(p, q, t) <=> Has(p, r, t)
                        /\ FirstIs(p, q, t) <=> FirstIs(p, r, t)
                        /\ LastIs(p, q, t) <=> LastIs(p, r, t)
    /\ Alternates(p, q) <=> Alternates(p, r)
    /\ ExitLast(p, q) <=> ExitLast(p, r)

\* A queue tells what it tells.
LEMMA SameSelf == ASSUME NEW p, NEW q PROVE SameWords(p, q, q)
  BY DEF SameWords

\* A message about another id changes nothing that is told of p.
LEMMA AppendOther ==
    ASSUME NEW S, NEW q \in Seq(S), NEW m \in S, NEW p, NEW r, r = Append(q, m), m.p # p
    PROVE  SameWords(p, q, r)
<1>1. PICK n \in Nat : n = Len(q)
  OBVIOUS
<1>2. /\ DOMAIN q = 1 .. n /\ DOMAIN r = 1 .. n + 1
      /\ r[n + 1] = m /\ \A i \in 1 .. n : r[i] = q[i]
  BY <1>1
<1>3. \A i \in 1 .. n + 1 : r[i].p = p => i \in 1 .. n /\ r[i] = q[i]
  BY <1>2
<1>4. \A i \in 1 .. n : i \in 1 .. n + 1
  BY <1>1
<1> HIDE <1>1
<1>5. About(p, q) <=> About(p, r)
  BY <1>2, <1>3, <1>4 DEF About
<1>6. ASSUME NEW t \in Words PROVE Has(p, q, t) <=> Has(p, r, t)
  BY <1>2, <1>3, <1>4 DEF Has
<1>7. ASSUME NEW t \in Words PROVE FirstIs(p, q, t) <=> FirstIs(p, r, t)
  <2>1. ASSUME FirstIs(p, q, t) PROVE FirstIs(p, r, t)
    <3>1. PICK i \in 1 .. n : q[i].p = p /\ q[i].t = t /\ \A j \in 1 .. n : j < i => q[j].p # p
      BY <1>2, <2>1 DEF FirstIs
    <3>2. \A j \in 1 .. n + 1 : j < i => r[j].p # p
      BY <1>2, <1>3, <3>1
    <3> QED
      BY <1>2, <1>4, <3>1, <3>2 DEF FirstIs
  <2>2. ASSUME FirstIs(p, r, t) PROVE FirstIs(p, q, t)
    <3>1. PICK i \in 1 .. n + 1 : r[i].p = p /\ r[i].t = t /\ \A j \in 1 .. n + 1 : j < i => r[j].p # p
      BY <1>2, <2>2 DEF FirstIs
    <3>2. \A j \in 1 .. n : j < i => q[j].p # p
      BY <1>2, <1>4, <3>1
    <3> QED
      BY <1>2, <1>3, <3>1, <3>2 DEF FirstIs
  <2> QED
    BY <2>1, <2>2
<1>8. ASSUME NEW t \in Words PROVE LastIs(p, q, t) <=> LastIs(p, r, t)
  <2>1. ASSUME LastIs(p, q, t) PROVE LastIs(p, r, t)
    <3>1. PICK i \in 1 .. n : q[i].p = p /\ q[i].t = t /\ \A j \in 1 .. n : j > i => q[j].p # p
      BY <1>2, <2>1 DEF LastIs
    <3>2. \A j \in 1 .. n + 1 : j > i => r[j].p # p
      BY <1>2, <1>3, <3>1
    <3> QED
      BY <1>2, <1>4, <3>1, <3>2 DEF LastIs
  <2>2. ASSUME LastIs(p, r, t) PROVE LastIs(p, q, t)
    <3>1. PICK i \in 1 .. n + 1 : r[i].p = p /\ r[i].t = t /\ \A j \in 1 .. n + 1 : j > i => r[j].p # p
      BY <1>2, <2>2 DEF LastIs
    <3>2. \A j \in 1 .. n : j > i => q[j].p # p
      BY <1>2, <1>4, <3>1
    <3> QED
      BY <1>2, <1>3, <3>1, <3>2 DEF LastIs
  <2> QED
    BY <2>1, <2>2
<1>9. Alternates(p, q) <=> Alternates(p, r)
  <2>1. ASSUME Alternates(p, q), NEW i \in 1 .. n + 1, NEW j \in 1 .. n + 1,
               i < j, r[i].p = p, r[j].p = p, \A k \in 1 .. n + 1 : i < k /\ k < j => r[k].p # p
        PROVE  r[i].t # r[j].t
    <3>1. i \in 1 .. n /\ j \in 1 .. n /\ r[i] = q[i] /\ r[j] = q[j]
      BY <1>3, <2>1
    <3>2. \A k \in 1 .. n : i < k /\ k < j => q[k].p # p
      BY <1>2, <1>4, <2>1
    <3> QED
      BY <1>2, <2>1, <3>1, <3>2 DEF Alternates
  <2>2. ASSUME Alternates(p, r), NEW i \in 1 .. n, NEW j \in 1 .. n,
               i < j, q[i].p = p, q[j].p = p, \A k \in 1 .. n : i < k /\ k < j => q[k].p # p
        PROVE  q[i].t # q[j].t
    <3>1. i \in 1 .. n + 1 /\ j \in 1 .. n + 1 /\ r[i] = q[i] /\ r[j] = q[j]
      BY <1>2, <1>4
    <3>2. \A k \in 1 .. n + 1 : i < k /\ k < j => r[k].p # p
      BY <1>2, <1>3, <2>2
    <3> QED
      BY <1>2, <2>2, <3>1, <3>2 DEF Alternates
  <2>3. Alternates(p, q) => Alternates(p, r)
    BY <1>2, <2>1 DEF Alternates
  <2>4. Alternates(p, r) => Alternates(p, q)
    BY <1>2, <2>2 DEF Alternates
  <2> QED
    BY <2>3, <2>4
<1>10. ExitLast(p, q) <=> ExitLast(p, r)
  <2>1. ASSUME ExitLast(p, q), NEW i \in 1 .. n + 1, NEW j \in 1 .. n + 1,
               i < j, r[i].p = p, r[i].t = "exit", r[j].p = p
        PROVE  FALSE
    BY <1>2, <1>3, <2>1 DEF ExitLast
  <2>2. ASSUME ExitLast(p, r), NEW i \in 1 .. n, NEW j \in 1 .. n,
               i < j, q[i].p = p, q[i].t = "exit", q[j].p = p
        PROVE  FALSE
    BY <1>2, <1>4, <2>2 DEF ExitLast
  <2>3. ExitLast(p, q) => ExitLast(p, r)
    BY <1>2, <2>1 DEF ExitLast
  <2>4. ExitLast(p, r) => ExitLast(p, q)
    BY <1>2, <2>2 DEF ExitLast
  <2> QED
    BY <2>3, <2>4
<1> QED
  BY <1>5, <1>6, <1>7, <1>8, <1>9, <1>10 DEF SameWords

\* The queue q becomes r by a last word about p, u.
Gets(p, q, r, u) ==
    /\ About(p, r)
    /\ \A t \in Words : /\ Has(p, r, t) <=> Has(p, q, t) \/ u = t
                        /\ FirstIs(p, r, t) <=> FirstIs(p, q, t) \/ (~About(p, q) /\ u = t)
                        /\ LastIs(p, r, t) <=> u = t
    /\ Alternates(p, q) /\ ~LastIs(p, q, u) => Alternates(p, r)
    /\ ~Has(p, q, "exit") => ExitLast(p, r)

\* A message about p is its last word.
LEMMA AppendAbout ==
    ASSUME NEW S, NEW q \in Seq(S), NEW m \in S, NEW p, NEW r, r = Append(q, m), m.p = p
    PROVE  Gets(p, q, r, m.t)
<1>1. PICK n \in Nat : n = Len(q)
  OBVIOUS
<1>2. /\ DOMAIN q = 1 .. n /\ DOMAIN r = 1 .. n + 1
      /\ r[n + 1] = m /\ \A i \in 1 .. n : r[i] = q[i]
  BY <1>1
<1>3. /\ \A i \in 1 .. n + 1 : i = n + 1 \/ i \in 1 .. n
      /\ \A i \in 1 .. n : i \in 1 .. n + 1 /\ i < n + 1
      /\ n + 1 \in 1 .. n + 1
  BY <1>1
<1> HIDE <1>1
<1>4. About(p, r)
  BY <1>2, <1>3 DEF About
<1>5. ASSUME NEW t \in Words PROVE Has(p, r, t) <=> Has(p, q, t) \/ m.t = t
  BY <1>2, <1>3 DEF Has
<1>6. ASSUME NEW t \in Words
      PROVE  FirstIs(p, r, t) <=> FirstIs(p, q, t) \/ (~About(p, q) /\ m.t = t)
  <2>1. ASSUME FirstIs(p, q, t) PROVE FirstIs(p, r, t)
    <3>1. PICK i \in 1 .. n : q[i].p = p /\ q[i].t = t /\ \A j \in 1 .. n : j < i => q[j].p # p
      BY <1>2, <2>1 DEF FirstIs
    <3>2. \A j \in 1 .. n + 1 : j < i => r[j].p # p
      BY <1>2, <1>3, <3>1
    <3> QED
      BY <1>2, <1>3, <3>1, <3>2 DEF FirstIs
  <2>2. ASSUME ~About(p, q), m.t = t PROVE FirstIs(p, r, t)
    <3>1. \A j \in 1 .. n + 1 : j < n + 1 => r[j].p # p
      BY <1>2, <1>3, <2>2 DEF About
    <3> QED
      BY <1>2, <1>3, <2>2, <3>1 DEF FirstIs
  <2>3. ASSUME FirstIs(p, r, t) PROVE FirstIs(p, q, t) \/ (~About(p, q) /\ m.t = t)
    <3>1. PICK i \in 1 .. n + 1 : r[i].p = p /\ r[i].t = t /\ \A j \in 1 .. n + 1 : j < i => r[j].p # p
      BY <1>2, <2>3 DEF FirstIs
    <3>2. CASE i = n + 1
      BY <1>2, <1>3, <3>1, <3>2 DEF About
    <3>3. CASE i \in 1 .. n
      <4>1. \A j \in 1 .. n : j < i => q[j].p # p
        BY <1>2, <1>3, <3>1
      <4> QED
        BY <1>2, <3>1, <3>3, <4>1 DEF FirstIs
    <3> QED
      BY <1>3, <3>2, <3>3
  <2> QED
    BY <2>1, <2>2, <2>3
<1>7. ASSUME NEW t \in Words PROVE LastIs(p, r, t) <=> m.t = t
  <2>1. \A j \in 1 .. n + 1 : ~(j > n + 1)
    OBVIOUS
  <2>2. m.t = t => LastIs(p, r, t)
    BY <1>2, <1>3, <2>1 DEF LastIs
  <2>3. LastIs(p, r, t) => m.t = t
    BY <1>2, <1>3 DEF LastIs
  <2> QED
    BY <2>2, <2>3
<1>8. ASSUME Alternates(p, q), ~LastIs(p, q, m.t) PROVE Alternates(p, r)
  <2>1. ASSUME NEW i \in 1 .. n + 1, NEW j \in 1 .. n + 1,
               i < j, r[i].p = p, r[j].p = p, \A k \in 1 .. n + 1 : i < k /\ k < j => r[k].p # p
        PROVE  r[i].t # r[j].t
    <3>1. i \in 1 .. n /\ r[i] = q[i]
      BY <1>2, <2>1
    <3>2. CASE j \in 1 .. n
      <4>1. \A k \in 1 .. n : i < k /\ k < j => q[k].p # p
        BY <1>2, <1>3, <2>1
      <4> QED
        BY <1>2, <1>8, <2>1, <3>1, <3>2, <4>1 DEF Alternates
    <3>3. CASE j = n + 1
      <4>1. \A k \in 1 .. n : k > i => q[k].p # p
        BY <1>2, <1>3, <2>1, <3>3
      <4> QED
        BY <1>2, <1>8, <2>1, <3>1, <3>3, <4>1 DEF LastIs
    <3> QED
      BY <1>3, <3>2, <3>3
  <2> QED
    BY <1>2, <2>1 DEF Alternates
<1>9. ASSUME ~Has(p, q, "exit") PROVE ExitLast(p, r)
  <2>1. ASSUME NEW i \in 1 .. n + 1, NEW j \in 1 .. n + 1, i < j, r[i].p = p, r[i].t = "exit"
        PROVE  FALSE
    <3>1. i \in 1 .. n /\ r[i] = q[i]
      BY <1>2, <2>1
    <3> QED
      BY <1>2, <1>9, <2>1, <3>1 DEF Has
  <2> QED
    BY <1>2, <2>1 DEF ExitLast
<1> QED
  BY <1>4, <1>5, <1>6, <1>7, <1>8, <1>9 DEF Gets

\* The indices of a queue and of its tail.
LEMMA TailIndex ==
    ASSUME NEW S, NEW q \in Seq(S), q # <<>>, NEW r, r = Tail(q)
    PROVE  \E n \in Nat :
              /\ DOMAIN q = 1 .. n + 1 /\ DOMAIN r = 1 .. n /\ Head(q) = q[1]
              /\ \A i \in 1 .. n : i + 1 \in 1 .. n + 1 /\ r[i] = q[i + 1]
              /\ \A i \in 1 .. n + 1 : i = 1 \/ (i - 1 \in 1 .. n /\ q[i] = r[i - 1])
              /\ 1 \in 1 .. n + 1
<1>1. /\ Len(q) \in Nat \ {0} /\ Len(r) = Len(q) - 1 /\ DOMAIN q = 1 .. Len(q)
      /\ DOMAIN r = 1 .. (Len(q) - 1) /\ Head(q) = q[1]
      /\ \A i \in 1 .. (Len(q) - 1) : r[i] = q[i + 1]
  BY TailType
<1>2. PICK n \in Nat : Len(q) = n + 1
  <2>1. Len(q) - 1 \in Nat /\ Len(q) = (Len(q) - 1) + 1
    BY <1>1
  <2> QED
    BY <2>1
<1>3. Len(q) - 1 = n
  BY <1>1, <1>2
<1>4. \A i \in 1 .. n + 1 : i = 1 \/ (i - 1 \in 1 .. n /\ (i - 1) + 1 = i)
  OBVIOUS
<1>5. \A i \in 1 .. n : i + 1 \in 1 .. n + 1
  OBVIOUS
<1> QED
  BY <1>1, <1>2, <1>3, <1>4, <1>5

\* Reading a message about another id changes nothing that is told of p.
LEMMA TailOther ==
    ASSUME NEW S, NEW q \in Seq(S), q # <<>>, NEW p, NEW r, r = Tail(q), Head(q).p # p
    PROVE  SameWords(p, q, r)
<1>1. PICK n \in Nat :
         /\ DOMAIN q = 1 .. n + 1 /\ DOMAIN r = 1 .. n /\ Head(q) = q[1]
         /\ \A i \in 1 .. n : i + 1 \in 1 .. n + 1 /\ r[i] = q[i + 1]
         /\ \A i \in 1 .. n + 1 : i = 1 \/ (i - 1 \in 1 .. n /\ q[i] = r[i - 1])
         /\ 1 \in 1 .. n + 1
  BY TailIndex
<1>2. q[1].p # p
  BY <1>1
<1>d. DOMAIN q = 1 .. n + 1 /\ DOMAIN r = 1 .. n
  BY <1>1
<1>5. About(p, q) <=> About(p, r)
  <2>1. About(p, q) => About(p, r)
    <3>1. SUFFICES ASSUME NEW i \in 1 .. n + 1, q[i].p = p PROVE About(p, r)
      BY <1>1 DEF About
    <3>2. i - 1 \in 1 .. n /\ q[i] = r[i - 1]
      BY <1>1, <1>2, <3>1
    <3> QED
      BY <1>1, <3>1, <3>2 DEF About
  <2>2. About(p, r) => About(p, q)
    BY <1>1 DEF About
  <2> QED
    BY <2>1, <2>2
<1>6. ASSUME NEW t \in Words PROVE Has(p, q, t) <=> Has(p, r, t)
  <2>1. Has(p, q, t) => Has(p, r, t)
    <3>1. SUFFICES ASSUME NEW i \in 1 .. n + 1, q[i].p = p, q[i].t = t PROVE Has(p, r, t)
      BY <1>1 DEF Has
    <3>2. i - 1 \in 1 .. n /\ q[i] = r[i - 1]
      BY <1>1, <1>2, <3>1
    <3> QED
      BY <1>1, <3>1, <3>2 DEF Has
  <2>2. Has(p, r, t) => Has(p, q, t)
    BY <1>1 DEF Has
  <2> QED
    BY <2>1, <2>2
<1>7. ASSUME NEW t \in Words PROVE FirstIs(p, q, t) <=> FirstIs(p, r, t)
  <2>1. ASSUME FirstIs(p, q, t) PROVE FirstIs(p, r, t)
    <3>1. PICK i \in 1 .. n + 1 : q[i].p = p /\ q[i].t = t /\ \A j \in 1 .. n + 1 : j < i => q[j].p # p
      BY <1>1, <2>1 DEF FirstIs
    <3>2. i - 1 \in 1 .. n /\ r[i - 1] = q[i]
      BY <1>1, <1>2, <3>1
    <3>3. \A j \in 1 .. n : j < i - 1 => r[j].p # p
      <4>1. ASSUME NEW j \in 1 .. n, j < i - 1 PROVE r[j].p # p
        <5>1. j + 1 \in 1 .. n + 1 /\ j + 1 < i /\ r[j] = q[j + 1]
          BY <1>1, <4>1
        <5> QED
          BY <3>1, <5>1
      <4> QED
        BY <4>1
    <3> QED
      BY <1>1, <3>1, <3>2, <3>3 DEF FirstIs
  <2>2. ASSUME FirstIs(p, r, t) PROVE FirstIs(p, q, t)
    <3>1. PICK i \in 1 .. n : r[i].p = p /\ r[i].t = t /\ \A j \in 1 .. n : j < i => r[j].p # p
      BY <1>1, <2>2 DEF FirstIs
    <3>2. i + 1 \in 1 .. n + 1 /\ q[i + 1] = r[i]
      BY <1>1
    <3>3. \A j \in 1 .. n + 1 : j < i + 1 => q[j].p # p
      <4>1. ASSUME NEW j \in 1 .. n + 1, j < i + 1, q[j].p = p PROVE FALSE
        <5>1. j - 1 \in 1 .. n /\ j - 1 < i /\ q[j] = r[j - 1]
          BY <1>1, <1>2, <4>1
        <5> QED
          BY <3>1, <4>1, <5>1
      <4> QED
        BY <4>1
    <3> QED
      BY <1>1, <3>1, <3>2, <3>3 DEF FirstIs
  <2> QED
    BY <2>1, <2>2
<1>8. ASSUME NEW t \in Words PROVE LastIs(p, q, t) <=> LastIs(p, r, t)
  <2>1. ASSUME LastIs(p, q, t) PROVE LastIs(p, r, t)
    <3>1. PICK i \in 1 .. n + 1 : q[i].p = p /\ q[i].t = t /\ \A j \in 1 .. n + 1 : j > i => q[j].p # p
      BY <1>1, <2>1 DEF LastIs
    <3>2. i - 1 \in 1 .. n /\ r[i - 1] = q[i]
      BY <1>1, <1>2, <3>1
    <3>3. \A j \in 1 .. n : j > i - 1 => r[j].p # p
      <4>1. ASSUME NEW j \in 1 .. n, j > i - 1 PROVE r[j].p # p
        <5>1. j + 1 \in 1 .. n + 1 /\ j + 1 > i /\ r[j] = q[j + 1]
          BY <1>1, <4>1
        <5> QED
          BY <3>1, <5>1
      <4> QED
        BY <4>1
    <3> QED
      BY <1>1, <3>1, <3>2, <3>3 DEF LastIs
  <2>2. ASSUME LastIs(p, r, t) PROVE LastIs(p, q, t)
    <3>1. PICK i \in 1 .. n : r[i].p = p /\ r[i].t = t /\ \A j \in 1 .. n : j > i => r[j].p # p
      BY <1>1, <2>2 DEF LastIs
    <3>2. i + 1 \in 1 .. n + 1 /\ q[i + 1] = r[i]
      BY <1>1
    <3>3. \A j \in 1 .. n + 1 : j > i + 1 => q[j].p # p
      <4>1. ASSUME NEW j \in 1 .. n + 1, j > i + 1, q[j].p = p PROVE FALSE
        <5>1. j - 1 \in 1 .. n /\ j - 1 > i /\ q[j] = r[j - 1]
          BY <1>1, <1>2, <4>1
        <5> QED
          BY <3>1, <4>1, <5>1
      <4> QED
        BY <4>1
    <3> QED
      BY <1>1, <3>1, <3>2, <3>3 DEF LastIs
  <2> QED
    BY <2>1, <2>2
<1>9. Alternates(p, q) <=> Alternates(p, r)
  <2>1. ASSUME Alternates(p, q), NEW i \in DOMAIN r, NEW j \in DOMAIN r,
               i < j, r[i].p = p, r[j].p = p, \A k \in DOMAIN r : i < k /\ k < j => r[k].p # p
        PROVE  r[i].t # r[j].t
    <3>1. /\ i + 1 \in 1 .. n + 1 /\ j + 1 \in 1 .. n + 1 /\ i + 1 < j + 1
          /\ r[i] = q[i + 1] /\ r[j] = q[j + 1]
      BY <1>1, <2>1
    <3>2. ASSUME NEW k \in 1 .. n + 1, i + 1 < k, k < j + 1 PROVE q[k].p # p
      <4>1. PICK x \in 1 .. n : x = k - 1 /\ q[k] = r[x]
        <5>1. k - 1 \in 1 .. n /\ q[k] = r[k - 1]
          BY <1>1, <3>2
        <5> QED
          BY <5>1
      <4>2. x \in DOMAIN r /\ i < x /\ x < j
        BY <1>d, <3>2, <4>1
      <4> QED
        BY <2>1, <4>1, <4>2
    <3> QED
      BY <1>1, <2>1, <3>1, <3>2 DEF Alternates
  <2>2. ASSUME Alternates(p, r), NEW i \in 1 .. n + 1, NEW j \in 1 .. n + 1,
               i < j, q[i].p = p, q[j].p = p, \A k \in 1 .. n + 1 : i < k /\ k < j => q[k].p # p
        PROVE  q[i].t # q[j].t
    <3>1. PICK x \in 1 .. n, y \in 1 .. n : x = i - 1 /\ y = j - 1 /\ q[i] = r[x] /\ q[j] = r[y]
      <4>1. i - 1 \in 1 .. n /\ j - 1 \in 1 .. n /\ q[i] = r[i - 1] /\ q[j] = r[j - 1]
        BY <1>1, <1>2, <2>2
      <4> QED
        BY <4>1
    <3>2. ASSUME NEW k \in DOMAIN r, x < k, k < y PROVE r[k].p # p
      <4>1. k + 1 \in 1 .. n + 1 /\ i < k + 1 /\ k + 1 < j /\ r[k] = q[k + 1]
        BY <1>1, <3>1, <3>2
      <4> QED
        BY <2>2, <4>1
    <3>3. x < y /\ x \in DOMAIN r /\ y \in DOMAIN r
      BY <1>d, <2>2, <3>1
    <3>4. r[x].p = p /\ r[y].p = p
      BY <2>2, <3>1
    <3>5. r[x].t # r[y].t
      BY <2>2, <3>2, <3>3, <3>4 DEF Alternates
    <3> QED
      BY <3>1, <3>5
  <2>3. Alternates(p, q) => Alternates(p, r)
    BY <2>1 DEF Alternates
  <2>4. ASSUME Alternates(p, r) PROVE Alternates(p, q)
    <3>1. ASSUME NEW i \in DOMAIN q, NEW j \in DOMAIN q,
                 i < j, q[i].p = p, q[j].p = p,
                 \A k \in DOMAIN q : i < k /\ k < j => q[k].p # p
          PROVE  q[i].t # q[j].t
      <4>1. DOMAIN q = 1 .. n + 1
        BY <1>d
      <4>2. i \in 1 .. n + 1 /\ j \in 1 .. n + 1
        BY <3>1, <4>1
      <4>3. \A k \in 1 .. n + 1 : i < k /\ k < j => q[k].p # p
        BY <3>1, <4>1
      <4> QED
        BY <2>2, <2>4, <3>1, <4>2, <4>3
    <3> QED
      BY <3>1 DEF Alternates
  <2> QED
    BY <2>3, <2>4
<1>10. ExitLast(p, q) <=> ExitLast(p, r)
  <2>1. ASSUME ExitLast(p, q), NEW i \in 1 .. n, NEW j \in 1 .. n,
               i < j, r[i].p = p, r[i].t = "exit", r[j].p = p
        PROVE  FALSE
    <3>1. i + 1 \in 1 .. n + 1 /\ j + 1 \in 1 .. n + 1 /\ i + 1 < j + 1 /\ r[i] = q[i + 1] /\ r[j] = q[j + 1]
      BY <1>1, <2>1
    <3> QED
      BY <1>1, <2>1, <3>1 DEF ExitLast
  <2>2. ASSUME ExitLast(p, r), NEW i \in 1 .. n + 1, NEW j \in 1 .. n + 1,
               i < j, q[i].p = p, q[i].t = "exit", q[j].p = p
        PROVE  FALSE
    <3>1. PICK x \in 1 .. n, y \in 1 .. n : x = i - 1 /\ y = j - 1 /\ q[i] = r[x] /\ q[j] = r[y]
      <4>1. i - 1 \in 1 .. n /\ j - 1 \in 1 .. n /\ q[i] = r[i - 1] /\ q[j] = r[j - 1]
        BY <1>1, <1>2, <2>2
      <4> QED
        BY <4>1
    <3>2. x < y
      BY <2>2, <3>1
    <3> QED
      BY <1>d, <2>2, <3>1, <3>2 DEF ExitLast
  <2>3. ExitLast(p, q) => ExitLast(p, r)
    BY <1>1, <2>1 DEF ExitLast
  <2>4. ExitLast(p, r) => ExitLast(p, q)
    BY <1>1, <2>2 DEF ExitLast
  <2> QED
    BY <2>3, <2>4
<1> QED
  BY <1>5, <1>6, <1>7, <1>8, <1>9, <1>10 DEF SameWords

\* The queue q becomes r without its first word, u, which is about p.
Loses(p, q, r, u) ==
    /\ About(p, q)
    /\ \A t \in Words : /\ FirstIs(p, q, t) <=> u = t
                        /\ Has(p, q, t) <=> Has(p, r, t) \/ u = t
                        /\ LastIs(p, r, t) => LastIs(p, q, t)
                        /\ LastIs(p, q, t) => LastIs(p, r, t) \/ (~About(p, r) /\ u = t)
                        /\ ~About(p, r) /\ u = t => LastIs(p, q, t)
    /\ Alternates(p, q) => Alternates(p, r) /\ ~FirstIs(p, r, u)
    /\ ExitLast(p, q) => ExitLast(p, r) /\ (u = "exit" => ~About(p, r))

\* Reading a message about p takes its first word.
LEMMA TailAbout ==
    ASSUME NEW S, NEW q \in Seq(S), q # <<>>, NEW p, NEW r, r = Tail(q),
           NEW m, m = Head(q), m.p = p
    PROVE  Loses(p, q, r, m.t)
<1>1. PICK n \in Nat :
         /\ DOMAIN q = 1 .. n + 1 /\ DOMAIN r = 1 .. n /\ Head(q) = q[1]
         /\ \A i \in 1 .. n : i + 1 \in 1 .. n + 1 /\ r[i] = q[i + 1]
         /\ \A i \in 1 .. n + 1 : i = 1 \/ (i - 1 \in 1 .. n /\ q[i] = r[i - 1])
         /\ 1 \in 1 .. n + 1
  BY SMTT(30), TailIndex
<1>2. m = q[1]
  BY <1>1
<1>d. DOMAIN q = 1 .. n + 1 /\ DOMAIN r = 1 .. n
  BY <1>1
<1>3. About(p, q)
  BY <1>1, <1>2 DEF About
<1>4. ASSUME NEW t \in Words PROVE FirstIs(p, q, t) <=> m.t = t
  <2>1. \A j \in 1 .. n + 1 : ~(j < 1)
    OBVIOUS
  <2>2. m.t = t => FirstIs(p, q, t)
    BY <1>1, <1>2, <2>1 DEF FirstIs
  <2>3. ASSUME FirstIs(p, q, t) PROVE m.t = t
    <3>1. PICK i \in 1 .. n + 1 : q[i].p = p /\ q[i].t = t /\ \A j \in 1 .. n + 1 : j < i => q[j].p # p
      BY <1>1, <2>3 DEF FirstIs
    <3>2. i = 1
      BY <1>1, <1>2, <3>1
    <3> QED
      BY <1>2, <3>1, <3>2
  <2> QED
    BY <2>2, <2>3
<1>5. ASSUME NEW t \in Words PROVE Has(p, q, t) <=> Has(p, r, t) \/ m.t = t
  <2>1. ASSUME Has(p, q, t) PROVE Has(p, r, t) \/ m.t = t
    <3>1. PICK i \in 1 .. n + 1 : q[i].p = p /\ q[i].t = t
      BY <1>1, <2>1 DEF Has
    <3>2. CASE i = 1
      BY <1>2, <3>1, <3>2
    <3>3. CASE i # 1
      <4>1. i - 1 \in 1 .. n /\ q[i] = r[i - 1]
        BY <1>1, <3>3
      <4> QED
        BY <1>d, <3>1, <4>1 DEF Has
    <3> QED
      BY <3>2, <3>3
  <2>2. Has(p, r, t) \/ m.t = t => Has(p, q, t)
    BY <1>1, <1>2 DEF Has
  <2> QED
    BY <2>1, <2>2
<1>6. ASSUME NEW t \in Words, LastIs(p, r, t) PROVE LastIs(p, q, t)
  <2>1. PICK i \in 1 .. n : r[i].p = p /\ r[i].t = t /\ \A j \in 1 .. n : j > i => r[j].p # p
    BY <1>1, <1>6 DEF LastIs
  <2>2. i + 1 \in 1 .. n + 1 /\ q[i + 1] = r[i]
    BY <1>1
  <2>3. ASSUME NEW j \in 1 .. n + 1, j > i + 1 PROVE q[j].p # p
    <3>1. j - 1 \in 1 .. n /\ j - 1 > i /\ q[j] = r[j - 1]
      BY <1>1, <2>3
    <3> QED
      BY <2>1, <3>1
  <2> QED
    BY <1>1, <2>1, <2>2, <2>3 DEF LastIs
<1>7. ASSUME NEW t \in Words, LastIs(p, q, t)
      PROVE  LastIs(p, r, t) \/ (~About(p, r) /\ m.t = t)
  <2>1. PICK i \in 1 .. n + 1 : q[i].p = p /\ q[i].t = t /\ \A j \in 1 .. n + 1 : j > i => q[j].p # p
    BY <1>1, <1>7 DEF LastIs
  <2>2. ASSUME NEW j \in 1 .. n, j > i - 1 PROVE r[j].p # p
    <3>1. j + 1 \in 1 .. n + 1 /\ j + 1 > i /\ r[j] = q[j + 1]
      BY <1>1, <2>2
    <3> QED
      BY <2>1, <3>1
  <2>3. CASE i = 1
    <3>1. \A j \in 1 .. n : j > i - 1
      BY <2>3
    <3> QED
      BY <1>1, <1>2, <2>1, <2>2, <2>3, <3>1 DEF About
  <2>4. CASE i # 1
    <3>1. i - 1 \in 1 .. n /\ q[i] = r[i - 1]
      BY <1>1, <2>4
    <3> QED
      BY <1>1, <2>1, <2>2, <3>1 DEF LastIs
  <2> QED
    BY <2>3, <2>4
<1>8. ASSUME NEW t \in Words, ~About(p, r), m.t = t PROVE LastIs(p, q, t)
  <2>1. ASSUME NEW j \in 1 .. n + 1, j > 1 PROVE q[j].p # p
    <3>1. j - 1 \in 1 .. n /\ q[j] = r[j - 1]
      BY <1>1, <2>1
    <3> QED
      BY <1>d, <1>8, <3>1 DEF About
  <2> QED
    BY <1>1, <1>2, <1>8, <2>1 DEF LastIs
<1>9. ASSUME Alternates(p, q) PROVE Alternates(p, r) /\ ~FirstIs(p, r, m.t)
  <2>1. ASSUME NEW i \in DOMAIN r, NEW j \in DOMAIN r,
               i < j, r[i].p = p, r[j].p = p, \A k \in DOMAIN r : i < k /\ k < j => r[k].p # p
        PROVE  r[i].t # r[j].t
    <3>1. /\ i + 1 \in 1 .. n + 1 /\ j + 1 \in 1 .. n + 1 /\ i + 1 < j + 1
          /\ r[i] = q[i + 1] /\ r[j] = q[j + 1]
      BY <1>1, <2>1
    <3>2. ASSUME NEW k \in 1 .. n + 1, i + 1 < k, k < j + 1 PROVE q[k].p # p
      <4>1. k - 1 \in 1 .. n /\ i < k - 1 /\ k - 1 < j /\ q[k] = r[k - 1]
        BY <1>1, <3>2
      <4> QED
        BY SMTT(30), <2>1, <4>1
    <3> QED
      BY <1>1, <1>9, <2>1, <3>1, <3>2 DEF Alternates
  <2>2. ASSUME FirstIs(p, r, m.t) PROVE FALSE
    <3>1. PICK j \in 1 .. n : r[j].p = p /\ r[j].t = m.t /\ \A k \in 1 .. n : k < j => r[k].p # p
      BY <1>1, <2>2 DEF FirstIs
    <3>2. j + 1 \in 1 .. n + 1 /\ 1 < j + 1 /\ q[j + 1] = r[j]
      BY <1>1
    <3>3. ASSUME NEW k \in 1 .. n + 1, 1 < k, k < j + 1 PROVE q[k].p # p
      <4>1. k - 1 \in 1 .. n /\ k - 1 < j /\ q[k] = r[k - 1]
        BY <1>1, <3>3
      <4> QED
        BY <3>1, <4>1
    <3> QED
      BY <1>1, <1>2, <1>9, <3>1, <3>2, <3>3 DEF Alternates
  <2>3. Alternates(p, r)
    BY <2>1 DEF Alternates
  <2> QED
    BY <2>2, <2>3
<1>10. ASSUME ExitLast(p, q) PROVE ExitLast(p, r) /\ (m.t = "exit" => ~About(p, r))
  <2>1. ASSUME NEW i \in 1 .. n, NEW j \in 1 .. n, i < j, r[i].p = p, r[i].t = "exit", r[j].p = p
        PROVE  FALSE
    <3>1. i + 1 \in 1 .. n + 1 /\ j + 1 \in 1 .. n + 1 /\ i + 1 < j + 1 /\ r[i] = q[i + 1] /\ r[j] = q[j + 1]
      BY <1>1, <2>1
    <3> QED
      BY <1>1, <1>10, <2>1, <3>1 DEF ExitLast
  <2>2. ASSUME m.t = "exit", NEW j \in 1 .. n, r[j].p = p PROVE FALSE
    <3>1. j + 1 \in 1 .. n + 1 /\ 1 < j + 1 /\ r[j] = q[j + 1]
      BY <1>1
    <3> QED
      BY <1>1, <1>2, <1>10, <2>2, <3>1 DEF ExitLast
  <2> QED
    BY <1>1, <2>1, <2>2 DEF ExitLast, About
<1> QED
  BY <1>3, <1>4, <1>5, <1>6, <1>7, <1>8, <1>9, <1>10 DEF Loses

\* A queue with a message about p has a first one,
LEMMA FirstExists ==
    ASSUME NEW S, NEW q \in Seq(S), NEW p, About(p, q)
    PROVE  \E i \in DOMAIN q : q[i].p = p /\ FirstIs(p, q, q[i].t)
<1>1. DOMAIN q \subseteq Nat
  OBVIOUS
<1> DEFINE T == {i \in DOMAIN q : q[i].p = p}
<1>2. T \in SUBSET Nat /\ T # {}
  BY <1>1 DEF About
<1>3. PICK i \in T : \A j \in T : ~(<<j, i>> \in OpToRel(<, Nat))
  BY <1>2, NatLessThanWellFounded, WFMin
<1>4. \A j \in DOMAIN q : j < i => q[j].p # p
  BY <1>1, <1>3 DEF OpToRel
<1> QED
  BY <1>3, <1>4 DEF FirstIs

\* and a last one.
LEMMA LastExists ==
    ASSUME NEW S, NEW q \in Seq(S), NEW p, About(p, q)
    PROVE  \E i \in DOMAIN q : q[i].p = p /\ LastIs(p, q, q[i].t)
<1>1. PICK n \in Nat : n = Len(q) /\ DOMAIN q = 1 .. n
  OBVIOUS
<1> DEFINE T == {d \in Nat : n - d \in DOMAIN q /\ q[n - d].p = p}
<1>2. T \in SUBSET Nat /\ T # {}
  <2>1. PICK i \in 1 .. n : q[i].p = p
    BY <1>1 DEF About
  <2>2. n - i \in Nat /\ n - (n - i) = i
    OBVIOUS
  <2>3. n - i \in T
    BY <1>1, <2>1, <2>2
  <2> QED
    BY <2>3
<1>3. PICK d \in T : \A e \in T : ~(<<e, d>> \in OpToRel(<, Nat))
  BY <1>2, NatLessThanWellFounded, WFMin
<1>4. PICK i \in 1 .. n : i = n - d /\ q[i].p = p
  BY <1>1, <1>3
<1>5. ASSUME NEW j \in 1 .. n, j > i, q[j].p = p PROVE FALSE
  <2>1. n - j \in Nat /\ n - (n - j) = j
    OBVIOUS
  <2>2. n - j \in T
    BY <1>1, <1>5, <2>1
  <2>3. d \in Nat
    BY <1>3
  <2>4. n - j < d
    BY <1>4, <1>5, <2>3
  <2> QED
    BY <1>3, <2>1, <2>2, <2>3, <2>4 DEF OpToRel
<1>6. \A j \in DOMAIN q : j > i => q[j].p # p
  BY <1>1, <1>5
<1> QED
  BY <1>1, <1>4, <1>6 DEF LastIs

\* There is one first word and one last word.
LEMMA WordFacts ==
    ASSUME NEW S, NEW q \in Seq(S), NEW p
    PROVE  /\ \A t \in Words : /\ FirstIs(p, q, t) => About(p, q)
                               /\ LastIs(p, q, t) => Has(p, q, t)
                               /\ Has(p, q, t) => About(p, q)
           /\ \A t, u \in Words : /\ FirstIs(p, q, t) /\ FirstIs(p, q, u) => t = u
                                  /\ LastIs(p, q, t) /\ LastIs(p, q, u) => t = u
<1>1. DOMAIN q \subseteq Nat
  OBVIOUS
<1>2. \A t \in Words : /\ FirstIs(p, q, t) => About(p, q)
                       /\ LastIs(p, q, t) => Has(p, q, t)
                       /\ Has(p, q, t) => About(p, q)
  BY DEF FirstIs, LastIs, Has, About
<1>3. \A i, j \in DOMAIN q : i = j \/ i < j \/ i > j
  BY <1>1
<1>4. ASSUME NEW t \in Words, NEW u \in Words, FirstIs(p, q, t), FirstIs(p, q, u) PROVE t = u
  <2>1. PICK i \in DOMAIN q : q[i].p = p /\ q[i].t = t /\ \A j \in DOMAIN q : j < i => q[j].p # p
    BY <1>4 DEF FirstIs
  <2>2. PICK k \in DOMAIN q : q[k].p = p /\ q[k].t = u /\ \A j \in DOMAIN q : j < k => q[j].p # p
    BY <1>4 DEF FirstIs
  <2>3. i = k
    BY <1>1, <2>1, <2>2
  <2> QED
    BY <2>1, <2>2, <2>3
<1>5. ASSUME NEW t \in Words, NEW u \in Words, LastIs(p, q, t), LastIs(p, q, u) PROVE t = u
  <2>1. PICK i \in DOMAIN q : q[i].p = p /\ q[i].t = t /\ \A j \in DOMAIN q : j > i => q[j].p # p
    BY <1>5 DEF LastIs
  <2>2. PICK k \in DOMAIN q : q[k].p = p /\ q[k].t = u /\ \A j \in DOMAIN q : j > k => q[j].p # p
    BY <1>5 DEF LastIs
  <2>3. i = k
    BY <1>1, <2>1, <2>2
  <2> QED
    BY <2>1, <2>2, <2>3
<1> QED
  BY <1>2, <1>4, <1>5

\* A dashboard asks to open or to close.
LEMMA RequestWords ==
    ASSUME NEW q \in Seq(Requests), NEW p, About(p, q)
    PROVE  /\ FirstIs(p, q, "open") \/ FirstIs(p, q, "close")
           /\ LastIs(p, q, "open") \/ LastIs(p, q, "close")
<1>1. ASSUME NEW i \in DOMAIN q PROVE q[i].t = "open" \/ q[i].t = "close"
  <2>1. q[i] \in Requests
    OBVIOUS
  <2> QED
    BY <2>1 DEF Requests
<1> QED
  BY <1>1, FirstExists, LastExists

-----------------------------------------------------------------------------
\* The next request of b about p, on its way or not yet made.
NextIs(b, p, t) ==
    \/ FirstIs(p, up[b], t)
    \/ ~About(p, up[b]) /\ (t = "open" <=> panel[b][p] = "closed")

At(b, p, a) == pump[b].p = p /\ pump[b].at = a

\* The panel is what the requests of b make of it.
PanelInv(p) ==
    \A b \in Browsers :
        /\ Alternates(p, up[b])
        /\ About(p, up[b]) => (LastIs(p, up[b], "open") <=> panel[b][p] # "closed")
        /\ At(b, p, "bind") \/ At(b, p, "forward") => NextIs(b, p, "close")
        /\ At(b, p, "close") \/ At(b, p, "release") => NextIs(b, p, "open")

\* b has asked the agent for p, and its close has not been read.
Asked(b, p) == pump[b].p # p /\ NextIs(b, p, "close")
Using(b, p) == Asked(b, p) \/ At(b, p, "forward") \/ At(b, p, "close") \/ At(b, p, "release")

\* A binding has its one user; an open on its way to the agent has its binding.
UserInv(p) ==
    /\ \A b, c \in Browsers : Using(b, p) /\ Using(c, p) => b = c
    /\ p \in router => \E b \in Browsers : Using(b, p)
    /\ \A b \in Browsers :
          At(b, p, "forward") \/ (Asked(b, p) /\ Has(p, down, "open")) => p \in router

\* The last message to the agent is the last one the user of p has sent.
SentInv(p) ==
    /\ (\A b \in Browsers : ~Using(b, p)) => ~LastIs(p, down, "open")
    /\ \A b \in Browsers :
          /\ At(b, p, "forward") \/ At(b, p, "release") => ~LastIs(p, down, "open")
          /\ Asked(b, p) \/ At(b, p, "close") => ~LastIs(p, down, "close")

\* A process that has exited leaves one message and then one release.
Over(p) == apump.p = p \/ Has(p, upA, "exit")
OverInv(p) ==
    /\ kind[p] = "pty" /\ Over(p) =>
          /\ Idle(p) /\ ~Has(p, down, "open")
          /\ \A b \in Browsers : ~At(b, p, "forward")
    /\ apump.p = p => ~About(p, upA)
    /\ ExitLast(p, upA)

\* The last report about p that the panel of b has read, or will read, is t.
Told(b, p, t) ==
    \/ LastIs(p, upA, t)
    \/ ~About(p, upA) /\ LastIs(p, out[b], t)
    \/ /\ ~About(p, upA) /\ ~About(p, out[b])
       /\ ~About(p, up[b]) => panel[b][p] = StatusOf(t)

\* What the agent has made of the open, and what the user of p is told.
Live(b, p)   == RunningFor(p) # {} /\ p \in router /\ Told(b, p, "opened")
Failed(b, p) == /\ RunningFor(p) = {} /\ p \in router /\ Told(b, p, "failed")
                /\ kind[p] = "pty" => Idle(p) /\ ~Over(p)
Ending(p)    == /\ kind[p] = "pty" /\ p \in router
                /\ \E s \in Streams : stream[s].p = p /\ stream[s].st \in {"removing", "exiting"}
Exited(b, p) == /\ kind[p] = "pty" /\ Idle(p) /\ Told(b, p, "exit")
                /\ p \in router <=> Over(p)
                /\ p \notin router => ~About(p, upA)

AnswerInv(p) ==
    \A b \in Browsers :
        Asked(b, p) /\ ~Has(p, down, "open") =>
            Live(b, p) \/ Failed(b, p) \/ Ending(p) \/ Exited(b, p)

\* A process whose use is over has been killed.
LeftInv(p) ==
    /\ kind[p] = "pty" /\ ~About(p, down)
    /\ \A b \in Browsers : Using(b, p) => At(b, p, "release")
    => RunningFor(p) = {}

UseInv(p) ==
    PanelInv(p) /\ UserInv(p) /\ SentInv(p) /\ OverInv(p) /\ AnswerInv(p) /\ LeftInv(p)

\* What the parties know of each other until something fails. A busy pump and a
\* message on the way are stages of one use of an id.
AgreeInv ==
    /\ \A b \in Browsers : pump[b].at = "idle" => pump[b] = IdlePump
    /\ apump.at = "idle" => apump = IdlePump
    /\ faults = 0 => /\ agentUp /\ listed /\ ~cut
                     /\ \A p \in Ptys \ overlap : UseInv(p)

-----------------------------------------------------------------------------
\* What the invariants say of an id that never had two users.
LEMMA AgreeFacts ==
    ASSUME IInv, AgreeInv, faults = 0, NEW p \in Ptys, p \notin overlap
    PROVE  /\ UseInv(p) /\ OwnedInv(p) /\ ExitInv
           /\ agentUp /\ listed /\ ~cut
           /\ down \in Seq(Requests) /\ upA \in Seq(Reports)
           /\ \A b \in Browsers : up[b] \in Seq(Requests) /\ out[b] \in Seq(Reports)
  BY DEF IInv, OwnInv, AgreeInv, Types, DashTypes, NetTypes

\* The next request is one or the other.
LEMMA NextOne ==
    ASSUME IInv, NEW b \in Browsers, NEW p \in Ptys
    PROVE  NextIs(b, p, "open") <=> ~NextIs(b, p, "close")
<1>1. up[b] \in Seq(Requests)
  BY DEF IInv, Types, DashTypes
<1>2. "open" \in Words /\ "close" \in Words
  BY DEF Words
<1>3. /\ About(p, up[b]) => FirstIs(p, up[b], "open") \/ FirstIs(p, up[b], "close")
      /\ FirstIs(p, up[b], "open") \/ FirstIs(p, up[b], "close") => About(p, up[b])
      /\ ~(FirstIs(p, up[b], "open") /\ FirstIs(p, up[b], "close"))
  BY <1>1, <1>2, RequestWords, WordFacts
<1> QED
  BY <1>3 DEF NextIs

\* The queues, the panels, the pumps and the streams are as they were for p.
SameDash(p) ==
    \A b \in Browsers :
        /\ SameWords(p, up[b], up'[b])
        /\ panel'[b][p] = panel[b][p]
        /\ pump'[b].p = p <=> pump[b].p = p
        /\ pump[b].p = p => pump'[b].at = pump[b].at
SameAgent(p) ==
    /\ SameWords(p, down, down') /\ SameWords(p, upA, upA')
    /\ \A b \in Browsers : SameWords(p, out[b], out'[b])
    /\ p \in router' <=> p \in router
    /\ apump'.p = p <=> apump.p = p
    /\ \A s \in Streams : /\ stream'[s].p = p <=> stream[s].p = p
                          /\ stream[s].p = p => stream'[s].st = stream[s].st

SameUse(p) ==
    \A b \in Browsers :
        /\ Asked(b, p)' <=> Asked(b, p)
        /\ Using(b, p)' <=> Using(b, p)
        /\ At(b, p, "forward")' <=> At(b, p, "forward")
        /\ At(b, p, "close")' <=> At(b, p, "close")
        /\ At(b, p, "release")' <=> At(b, p, "release")

\* A use is as it was when the dashboards have done nothing about p,
LEMMA UseFrame ==
    ASSUME NEW p \in Ptys, SameDash(p)
    PROVE  /\ SameUse(p)
           /\ PanelInv(p) => PanelInv(p)'
<1>w. "open" \in Words /\ "close" \in Words
  BY DEF Words
<1>1. ASSUME NEW b \in Browsers
      PROVE  /\ About(p, up'[b]) <=> About(p, up[b])
             /\ FirstIs(p, up'[b], "open") <=> FirstIs(p, up[b], "open")
             /\ FirstIs(p, up'[b], "close") <=> FirstIs(p, up[b], "close")
             /\ LastIs(p, up'[b], "open") <=> LastIs(p, up[b], "open")
             /\ Alternates(p, up'[b]) <=> Alternates(p, up[b])
             /\ panel'[b][p] = panel[b][p]
  BY <1>w DEF SameDash, SameWords
<1>2. ASSUME NEW b \in Browsers
      PROVE  /\ NextIs(b, p, "open")' <=> NextIs(b, p, "open")
             /\ NextIs(b, p, "close")' <=> NextIs(b, p, "close")
  BY <1>1 DEF NextIs
<1>3. ASSUME NEW b \in Browsers, NEW a
      PROVE  At(b, p, a)' <=> At(b, p, a)
  BY DEF At, SameDash
<1>4. ASSUME NEW b \in Browsers
      PROVE  (pump[b].p # p)' <=> pump[b].p # p
  BY DEF SameDash
<1>5. SameUse(p)
  BY <1>2, <1>3, <1>4 DEF SameUse, Asked, Using
<1>6. PanelInv(p) => PanelInv(p)'
  BY <1>1, <1>2, <1>3 DEF PanelInv
<1> QED
  BY <1>5, <1>6

\* and everything known of it when the agent has not either.
LEMMA AgreeFrame ==
    ASSUME NEW p \in Ptys, UseInv(p), UNCHANGED kind, SameDash(p), SameAgent(p)
    PROVE  UseInv(p)'
<1>w. Words = {"open", "close", "opened", "failed", "exit"}
  BY DEF Words
<1>1. SameUse(p) /\ PanelInv(p)'
  BY UseFrame DEF UseInv
<1>2. /\ About(p, down') <=> About(p, down)
      /\ Has(p, down', "open") <=> Has(p, down, "open")
      /\ LastIs(p, down', "open") <=> LastIs(p, down, "open")
      /\ LastIs(p, down', "close") <=> LastIs(p, down, "close")
  BY <1>w DEF SameAgent, SameWords
<1>3. /\ About(p, upA') <=> About(p, upA)
      /\ Has(p, upA', "exit") <=> Has(p, upA, "exit")
      /\ ExitLast(p, upA') <=> ExitLast(p, upA)
      /\ \A t \in Words : LastIs(p, upA', t) <=> LastIs(p, upA, t)
  BY <1>w DEF SameAgent, SameWords
<1>4. \A b \in Browsers : /\ About(p, out'[b]) <=> About(p, out[b])
                          /\ About(p, up'[b]) <=> About(p, up[b])
                          /\ panel'[b][p] = panel[b][p]
                          /\ \A t \in Words : LastIs(p, out'[b], t) <=> LastIs(p, out[b], t)
  BY DEF SameAgent, SameDash, SameWords
<1>5. /\ p \in router' <=> p \in router
      /\ apump'.p = p <=> apump.p = p
  BY DEF SameAgent
<1>6. /\ Idle(p)' <=> Idle(p)
      /\ (\E s \in Streams : stream'[s].p = p /\ stream'[s].st \in {"removing", "exiting"})
            <=> \E s \in Streams : stream[s].p = p /\ stream[s].st \in {"removing", "exiting"}
  BY DEF SameAgent, Idle
<1>e. (RunningFor(p) = {})' <=> RunningFor(p) = {}
  BY DEF SameAgent, RunningFor
<1>7. UserInv(p)'
  BY <1>1, <1>2, <1>5 DEF UseInv, UserInv, SameUse
<1>8. SentInv(p)'
  BY <1>1, <1>2 DEF UseInv, SentInv, SameUse
<1>9. Over(p)' <=> Over(p)
  BY <1>3, <1>5 DEF Over
<1>10. OverInv(p)'
  BY <1>1, <1>2, <1>3, <1>5, <1>6, <1>9 DEF UseInv, OverInv, SameUse
<1>11. ASSUME NEW b \in Browsers, NEW t \in Words PROVE Told(b, p, t)' <=> Told(b, p, t)
  BY <1>3, <1>4 DEF Told
<1>12. AnswerInv(p)'
  <2>1. ASSUME NEW b \in Browsers
        PROVE  /\ Live(b, p)' <=> Live(b, p)
               /\ Failed(b, p)' <=> Failed(b, p)
               /\ Ending(p)' <=> Ending(p)
               /\ Exited(b, p)' <=> Exited(b, p)
    <3>1. /\ Told(b, p, "opened")' <=> Told(b, p, "opened")
          /\ Told(b, p, "failed")' <=> Told(b, p, "failed")
          /\ Told(b, p, "exit")' <=> Told(b, p, "exit")
      BY <1>w, <1>11
    <3>2. Live(b, p)' <=> Live(b, p)
      BY <1>5, <1>e, <3>1 DEF Live
    <3>3. Failed(b, p)' <=> Failed(b, p)
      BY <1>5, <1>6, <1>e, <1>9, <3>1 DEF Failed
    <3>4. Ending(p)' <=> Ending(p)
      BY <1>5, <1>6 DEF Ending
    <3>5. Exited(b, p)' <=> Exited(b, p)
      BY <1>3, <1>5, <1>6, <1>9, <3>1 DEF Exited
    <3> QED
      BY <3>2, <3>3, <3>4, <3>5
  <2> QED
    BY <1>1, <1>2, <2>1 DEF UseInv, AnswerInv, SameUse
<1>13. LeftInv(p)'
  <2>1. (\A b \in Browsers : Using(b, p)' => At(b, p, "release")')
          <=> \A b \in Browsers : Using(b, p) => At(b, p, "release")
    BY <1>1 DEF SameUse
  <2> QED
    BY <1>2, <1>e, <2>1 DEF UseInv, LeftInv
<1> QED
  BY <1>1, <1>7, <1>8, <1>10, <1>12, <1>13 DEF UseInv

\* The parts that a step about something else keeps.
LEMMA UserKept ==
    ASSUME NEW p \in Ptys, UserInv(p), SameUse(p), p \in router' <=> p \in router,
           Has(p, down', "open") => Has(p, down, "open")
    PROVE  UserInv(p)'
  BY DEF UserInv, SameUse

\* The users stay, and what was not the last message to the agent does not become it.
LEMMA SentKept ==
    ASSUME NEW p \in Ptys, SentInv(p), SameUse(p),
           LastIs(p, down', "open") => LastIs(p, down, "open"),
           LastIs(p, down', "close") => LastIs(p, down, "close")
    PROVE  SentInv(p)'
  BY DEF SentInv, SameUse

\* The users stay, nothing starts to run and no message to the agent is read.
LEMMA LeftKept ==
    ASSUME NEW p \in Ptys, LeftInv(p), SameUse(p), UNCHANGED kind,
           About(p, down) => About(p, down'), RunningFor(p)' \subseteq RunningFor(p)
    PROVE  LeftInv(p)'
<1>1. (\A b \in Browsers : Using(b, p)' => At(b, p, "release")')
        <=> \A b \in Browsers : Using(b, p) => At(b, p, "release")
  BY DEF SameUse
<1>2. RunningFor(p) = {} => (RunningFor(p) = {})'
  BY DEF RunningFor
<1> QED
  BY <1>1, <1>2 DEF LeftInv

\* The agent's side, and the binding, stay as they are.
AgentSame(p) ==
    /\ UNCHANGED <<kind, down, upA, router, stream>>
    /\ apump'.p = p <=> apump.p = p

\* What is under way at the agent is as it was.
LEMMA AgentKept ==
    ASSUME NEW p \in Ptys, AgentSame(p), UseInv(p), SameUse(p)
    PROVE  /\ UserInv(p)' /\ SentInv(p)' /\ OverInv(p)' /\ LeftInv(p)'
           /\ Over(p)' <=> Over(p)
<1>1. UserInv(p)' /\ SentInv(p)'
  BY UserKept, SentKept DEF UseInv, AgentSame
<1>2. LeftInv(p)'
  <2>1. RunningFor(p)' \subseteq RunningFor(p)
    BY DEF AgentSame, RunningFor
  <2> QED
    BY <2>1, LeftKept DEF UseInv, AgentSame
<1>3. Over(p)' <=> Over(p)
  BY DEF AgentSame, Over
<1>4. Idle(p)' <=> Idle(p)
  BY DEF AgentSame, Idle
<1>5. OverInv(p)'
  BY <1>3, <1>4 DEF UseInv, OverInv, AgentSame, SameUse
<1> QED
  BY <1>1, <1>2, <1>3, <1>5

\* What a panel has been told stays true when it asks, closes or reads.
LEMMA AnswerKept ==
    ASSUME NEW p \in Ptys, AgentSame(p), UseInv(p), SameUse(p), Over(p)' <=> Over(p),
           \A b \in Browsers, t \in {"opened", "failed", "exit"} :
              Asked(b, p) /\ Told(b, p, t) => Told(b, p, t)'
    PROVE  AnswerInv(p)'
<1>1. SUFFICES ASSUME NEW b \in Browsers, Asked(b, p)', ~Has(p, down', "open")
               PROVE  (Live(b, p) \/ Failed(b, p) \/ Ending(p) \/ Exited(b, p))'
  BY DEF AnswerInv
<1>2. Asked(b, p) /\ ~Has(p, down, "open")
  BY <1>1 DEF SameUse, AgentSame
<1>3. Live(b, p) \/ Failed(b, p) \/ Ending(p) \/ Exited(b, p)
  BY <1>2 DEF UseInv, AnswerInv
<1>4. /\ Told(b, p, "opened") => Told(b, p, "opened")'
      /\ Told(b, p, "failed") => Told(b, p, "failed")'
      /\ Told(b, p, "exit") => Told(b, p, "exit")'
  BY <1>2
<1>5. (RunningFor(p) = {})' <=> RunningFor(p) = {}
  BY DEF AgentSame, RunningFor
<1>6. Idle(p)' <=> Idle(p)
  BY DEF AgentSame, Idle
<1>7. UNCHANGED <<kind, router>>
  BY DEF AgentSame
<1>8. Live(b, p) => Live(b, p)'
  BY <1>4, <1>5, <1>7 DEF Live
<1>9. Failed(b, p) => Failed(b, p)'
  BY <1>4, <1>5, <1>6, <1>7 DEF Failed
<1>10. Ending(p) => Ending(p)'
  BY <1>7 DEF Ending, AgentSame
<1>11. Exited(b, p) => Exited(b, p)'
  BY <1>4, <1>6, <1>7 DEF Exited, AgentSame
<1> QED
  BY <1>3, <1>8, <1>9, <1>10, <1>11

-----------------------------------------------------------------------------
\* A panel is mounted or unmounted, and the request is sent: what the next
\* request is stays the same.
LEMMA AgreeSends ==
    ASSUME IInv, AgreeInv, faults = 0, faults' = 0, NEW b \in Browsers, NEW q \in Ptys,
           Mount(b, q) \/ Unmount(b, q), NEW p \in Ptys, p \notin overlap'
    PROVE  UseInv(p)'
<1>1. UNCHANGED <<kind, out, pump, router, listed, apump, overlap, table, stream, agentUp, down, upA, cut>>
  BY DEF Mount, Unmount, srvVars, agentVars
<1>2. PICK m \in Requests :
        /\ m.p = q /\ DashSends(b, m)
        /\ m.t \in {"open", "close"}
        /\ (m.t = "open" <=> panel[b][q] = "closed")
        /\ panel' = [panel EXCEPT ![b][q] = IF m.t = "open" THEN "connecting" ELSE "closed"]
  <2>1. CASE Mount(b, q)
    <3>1. Msg("open", q) \in Requests /\ Msg("open", q).t = "open" /\ Msg("open", q).p = q
      BY DEF Msg, Requests
    <3> QED
      BY <2>1, <3>1 DEF Mount
  <2>2. CASE Unmount(b, q)
    <3>1. Msg("close", q) \in Requests /\ Msg("close", q).t = "close" /\ Msg("close", q).p = q
      BY DEF Msg, Requests
    <3> QED
      BY <2>2, <3>1 DEF Unmount
  <2> QED
    BY <2>1, <2>2
<1>3. up' = [up EXCEPT ![b] = Append(up[b], m)]
  BY <1>2 DEF DashSends, Fault
<1>4. /\ UseInv(p)
      /\ \A c \in Browsers : up[c] \in Seq(Requests)
  BY <1>1, AgreeFacts
<1>5. /\ up'[b] = Append(up[b], m) /\ \A c \in Browsers \ {b} : up'[c] = up[c]
      /\ panel'[b][q] # "closed" <=> m.t = "open"
      /\ \A c \in Browsers : c # b \/ p # q => panel'[c][p] = panel[c][p]
  BY <1>2, <1>3 DEF IInv, Types, DashTypes
<1>6. CASE p # q
  <2>1. SameDash(p)
    <3>1. SameWords(p, up[b], up'[b])
      BY <1>2, <1>4, <1>5, <1>6, AppendOther
    <3>2. \A c \in Browsers : SameWords(p, up[c], up'[c])
      BY <1>5, <3>1, SameSelf
    <3> QED
      BY <1>1, <1>5, <1>6, <3>2 DEF SameDash
  <2>2. SameAgent(p)
    BY <1>1, SameSelf DEF SameAgent
  <2> QED
    BY <1>1, <1>4, <2>1, <2>2, AgreeFrame
<1>7. CASE p = q
  <2>w. /\ "open" \in Words /\ "close" \in Words /\ m.t \in Words
    BY <1>2 DEF Words
  <2>1. /\ About(p, up'[b])
        /\ FirstIs(p, up'[b], "open") <=> FirstIs(p, up[b], "open") \/ (~About(p, up[b]) /\ m.t = "open")
        /\ FirstIs(p, up'[b], "close") <=> FirstIs(p, up[b], "close") \/ (~About(p, up[b]) /\ m.t = "close")
        /\ LastIs(p, up'[b], "open") <=> m.t = "open"
        /\ Alternates(p, up[b]) /\ ~LastIs(p, up[b], m.t) => Alternates(p, up'[b])
    <3>1. m \in Requests /\ m.p = p /\ up[b] \in Seq(Requests) /\ up'[b] = Append(up[b], m)
      BY <1>2, <1>4, <1>5, <1>7
    <3>2. Gets(p, up[b], up'[b], m.t)
      BY <3>1, AppendAbout
    <3> QED
      BY <2>w, <3>2 DEF Gets
  <2>2. /\ NextIs(b, p, "open")' <=> NextIs(b, p, "open")
        /\ NextIs(b, p, "close")' <=> NextIs(b, p, "close")
    BY <1>2, <1>7, <2>1 DEF NextIs
  <2>3. ASSUME NEW c \in Browsers
        PROVE  /\ NextIs(c, p, "open")' <=> NextIs(c, p, "open")
               /\ NextIs(c, p, "close")' <=> NextIs(c, p, "close")
    <3>1. CASE c # b
      BY <1>5, <3>1 DEF NextIs
    <3> QED
      BY <2>2, <3>1
  <2>4. \A c \in Browsers : \A a : At(c, p, a)' <=> At(c, p, a)
    BY <1>1 DEF At
  <2>5. SameUse(p)
    BY <1>1, <2>3, <2>4 DEF SameUse, Asked, Using
  <2>6. PanelInv(p)'
    <3>1. /\ Alternates(p, up[b])
          /\ About(p, up[b]) => (LastIs(p, up[b], "open") <=> panel[b][p] # "closed")
      BY <1>4 DEF UseInv, PanelInv
    <3>2. ~LastIs(p, up[b], m.t)
      <4>1. LastIs(p, up[b], "open") \/ LastIs(p, up[b], "close") => About(p, up[b])
        BY <1>4, <2>w, WordFacts
      <4>2. ~(LastIs(p, up[b], "open") /\ LastIs(p, up[b], "close"))
        BY <1>4, <2>w, WordFacts
      <4>3. m.t = "open" \/ m.t = "close"
        BY <1>2
      <4>4. CASE m.t = "open"
        BY <1>2, <1>7, <3>1, <4>1, <4>4
      <4>5. CASE m.t = "close"
        BY <1>2, <1>7, <3>1, <4>1, <4>2, <4>5
      <4> QED
        BY <4>3, <4>4, <4>5
    <3>3. /\ Alternates(p, up'[b])
          /\ About(p, up'[b]) => (LastIs(p, up'[b], "open") <=> panel'[b][p] # "closed")
      BY <1>5, <1>7, <2>1, <3>1, <3>2
    <3>4. ASSUME NEW c \in Browsers
          PROVE  /\ Alternates(p, up'[c])
                 /\ About(p, up'[c]) => (LastIs(p, up'[c], "open") <=> panel'[c][p] # "closed")
      <4>1. CASE c # b
        BY <1>4, <1>5, <4>1 DEF UseInv, PanelInv
      <4> QED
        BY <3>3, <4>1
    <3> QED
      BY <1>4, <2>3, <2>4, <3>4 DEF UseInv, PanelInv
  <2>7. AgentSame(p)
    BY <1>1 DEF AgentSame
  <2>8. ASSUME NEW c \in Browsers, NEW t \in {"opened", "failed", "exit"}, Told(c, p, t)
        PROVE  Told(c, p, t)'
    <3>1. CASE c # b
      BY <1>1, <1>5, <2>8, <3>1 DEF Told
    <3>2. CASE c = b
      BY <1>1, <2>1, <2>8, <3>2 DEF Told
    <3> QED
      BY <3>1, <3>2
  <2> QED
    BY <1>4, <2>5, <2>6, <2>7, <2>8, AgentKept, AnswerKept DEF UseInv
<1> QED
  BY <1>6, <1>7

\* A panel reads what it is told: open or closed it stays.
LEMMA AgreeDashReads ==
    ASSUME IInv, AgreeInv, faults = 0, NEW b \in Browsers, DashReads(b),
           NEW p \in Ptys, p \notin overlap'
    PROVE  UseInv(p)'
<1>1. UNCHANGED <<kind, up, pump, router, listed, apump, overlap, table, stream, agentUp, down, upA, cut>>
  BY DEF DashReads, srvVars, agentVars, netVars
<1>4. /\ UseInv(p)
      /\ \A c \in Browsers : up[c] \in Seq(Requests) /\ out[c] \in Seq(Reports)
  BY <1>1, AgreeFacts
<1>n. out[b] # <<>>
  BY DEF DashReads
<1>2. PICK m \in Reports : m = Head(out[b])
  <2>1. Head(out[b]) \in Reports
    BY <1>4, <1>n
  <2> QED
    BY <2>1
<1>3. /\ out' = [out EXCEPT ![b] = Tail(out[b])]
      /\ panel' = [panel EXCEPT ![b][m.p] = IF @ = "closed" THEN @ ELSE StatusOf(m.t)]
  BY <1>2 DEF DashReads
<1>s. StatusOf(m.t) # "closed" /\ m.p \in Ptys
  BY DEF StatusOf, Reports
<1>5. /\ out'[b] = Tail(out[b]) /\ \A c \in Browsers \ {b} : out'[c] = out[c]
      /\ panel'[b][m.p] = IF panel[b][m.p] = "closed" THEN "closed" ELSE StatusOf(m.t)
      /\ \A c \in Browsers : c # b \/ p # m.p => panel'[c][p] = panel[c][p]
  BY <1>3, <1>s DEF IInv, Types, DashTypes
<1>6. CASE p # m.p
  <2>1. SameDash(p)
    BY <1>1, <1>5, <1>6, SameSelf DEF SameDash
  <2>2. \A c \in Browsers : SameWords(p, out[c], out'[c])
    <3>1. SameWords(p, out[b], out'[b])
      BY <1>2, <1>4, <1>5, <1>6, <1>n, TailOther
    <3> QED
      BY <1>5, <3>1, SameSelf
  <2>3. SameAgent(p)
    BY <1>1, <2>2, SameSelf DEF SameAgent
  <2> QED
    BY <1>1, <1>4, <2>1, <2>3, AgreeFrame
<1>7. CASE p = m.p
  <2>1. \A c \in Browsers : panel'[c][p] = "closed" <=> panel[c][p] = "closed"
    <3>1. panel'[b][p] = "closed" <=> panel[b][p] = "closed"
      BY <1>5, <1>7, <1>s
    <3> QED
      BY <1>5, <3>1
  <2>3. ASSUME NEW c \in Browsers
        PROVE  /\ NextIs(c, p, "open")' <=> NextIs(c, p, "open")
               /\ NextIs(c, p, "close")' <=> NextIs(c, p, "close")
    BY <1>1, <2>1 DEF NextIs
  <2>4. \A c \in Browsers : \A a : At(c, p, a)' <=> At(c, p, a)
    BY <1>1 DEF At
  <2>5. SameUse(p)
    BY <1>1, <2>3, <2>4 DEF SameUse, Asked, Using
  <2>6. PanelInv(p)'
    BY <1>1, <1>4, <2>1, <2>3, <2>4 DEF UseInv, PanelInv
  <2>7. AgentSame(p)
    BY <1>1 DEF AgentSame
  <2>8. ASSUME NEW c \in Browsers, NEW t \in {"opened", "failed", "exit"}, Told(c, p, t), Asked(c, p)
        PROVE  Told(c, p, t)'
    <3>1. CASE c # b
      BY <1>1, <1>5, <2>8, <3>1 DEF Told
    <3>2. CASE c = b
      <4>w. t \in Words
        BY DEF Words
      <4>1. /\ About(p, out[b])
            /\ LastIs(p, out[b], t) => LastIs(p, out'[b], t) \/ (~About(p, out'[b]) /\ m.t = t)
        <5>1. /\ m.p = p /\ m = Head(out[b]) /\ out[b] \in Seq(Reports) /\ out[b] # <<>>
              /\ out'[b] = Tail(out[b])
          BY <1>2, <1>4, <1>5, <1>7, <1>n
        <5>2. Loses(p, out[b], out'[b], m.t)
          BY <5>1, TailAbout
        <5> QED
          BY <4>w, <5>2 DEF Loses
      <4>2. ~About(p, up[b]) => panel[b][p] # "closed"
        <5>1. NextIs(b, p, "close") /\ "close" \in Words
          BY <2>8, <3>2 DEF Asked, Words
        <5>2. FirstIs(p, up[b], "close") => About(p, up[b])
          BY <1>4, <5>1, WordFacts
        <5> QED
          BY <5>1, <5>2 DEF NextIs
      <4>3. CASE LastIs(p, upA, t)
        BY <1>1, <4>3 DEF Told
      <4>4. CASE ~About(p, upA) /\ LastIs(p, out[b], t)
        <5>1. LastIs(p, out'[b], t) => Told(b, p, t)'
          BY <1>1, <4>4 DEF Told
        <5>2. ASSUME ~About(p, out'[b]), m.t = t PROVE Told(b, p, t)'
          <6>1. ~About(p, up'[b]) => panel'[b][p] = StatusOf(t)
            BY <1>1, <1>5, <1>7, <4>2, <5>2
          <6> QED
            BY <1>1, <4>4, <5>2, <6>1 DEF Told
        <5> QED
          BY <3>2, <4>1, <4>4, <5>1, <5>2
      <4> QED
        BY <2>8, <3>2, <4>1, <4>3, <4>4 DEF Told
    <3> QED
      BY <3>1, <3>2
  <2> QED
    BY <1>4, <2>5, <2>6, <2>7, <2>8, AgentKept, AnswerKept DEF UseInv
<1> QED
  BY <1>6, <1>7

USE TerminalAssumption

\* A read pump takes a request: an open is bound next, the close of a bound id
\* is forwarded next, and the close of an id that is not bound is ignored.
LEMMA AgreeReads ==
    ASSUME IInv, AgreeInv, faults = 0, NEW b \in Browsers, PumpReads(b),
           NEW p \in Ptys, p \notin overlap'
    PROVE  UseInv(p)'
<1>1. /\ UNCHANGED <<kind, panel, router, listed, apump, table, stream, agentUp, down, upA, faults, cut>>
      /\ pump[b] = IdlePump /\ up[b] # <<>> /\ overlap \subseteq overlap'
      /\ up' = [up EXCEPT ![b] = Tail(up[b])]
  BY DEF PumpReads, agentVars, netVars
<1>4. /\ UseInv(p) /\ listed
      /\ \A c \in Browsers : up[c] \in Seq(Requests)
  BY <1>1, AgreeFacts
<1>2. PICK m \in Requests : m = Head(up[b])
  <2>1. Head(up[b]) \in Requests
    BY <1>1, <1>4
  <2> QED
    BY <2>1
<1>r. m.p \in Ptys /\ (m.t = "open" \/ m.t = "close")
  BY DEF Requests
<1>3. /\ UNCHANGED out
      /\ pump' = [pump EXCEPT ![b] = IF m.t = "open" THEN [at |-> "bind", p |-> m.p]
                                     ELSE IF m.p \in router THEN [at |-> "close", p |-> m.p]
                                     ELSE IdlePump]
  BY <1>2, <1>4, <1>r DEF PumpReads
<1>5. /\ up'[b] = Tail(up[b]) /\ \A c \in Browsers \ {b} : up'[c] = up[c] /\ pump'[c] = pump[c]
      /\ pump'[b] = IF m.t = "open" THEN [at |-> "bind", p |-> m.p]
                    ELSE IF m.p \in router THEN [at |-> "close", p |-> m.p] ELSE IdlePump
  BY <1>1, <1>3 DEF IInv, Types, DashTypes, ServerTypes
<1>i. pump[b].p # p /\ IdlePump.p # p /\ IdlePump.at = "idle"
  BY <1>1 DEF IdlePump
<1>6. CASE p # m.p
  <2>1. pump'[b].p # p
    BY <1>5, <1>6, <1>i
  <2>2. \A c \in Browsers : SameWords(p, up[c], up'[c])
    <3>1. SameWords(p, up[b], up'[b])
      BY <1>1, <1>2, <1>4, <1>5, <1>6, TailOther
    <3> QED
      BY <1>5, <3>1, SameSelf
  <2>3. SameDash(p)
    BY <1>1, <1>5, <1>i, <2>1, <2>2 DEF SameDash
  <2>4. SameAgent(p)
    BY <1>1, <1>3, SameSelf DEF SameAgent
  <2> QED
    BY <1>1, <1>4, <2>3, <2>4, AgreeFrame
<1>7. CASE p = m.p
  <2>w. "open" \in Words /\ "close" \in Words
    BY DEF Words
  <2>1. Loses(p, up[b], up'[b], m.t)
    BY <1>1, <1>2, <1>4, <1>5, <1>7, TailAbout
  <2>p. /\ Alternates(p, up[b])
        /\ LastIs(p, up[b], "open") <=> panel[b][p] # "closed"
    BY <1>4, <2>1 DEF UseInv, PanelInv, Loses
  <2>l. /\ FirstIs(p, up[b], "open") <=> m.t = "open"
        /\ FirstIs(p, up[b], "close") <=> m.t = "close"
        /\ About(p, up[b])
        /\ LastIs(p, up'[b], "open") => LastIs(p, up[b], "open")
        /\ About(p, up'[b]) /\ LastIs(p, up[b], "open") => LastIs(p, up'[b], "open")
        /\ ~About(p, up'[b]) /\ m.t = "open" => LastIs(p, up[b], "open")
        /\ ~About(p, up'[b]) /\ m.t = "close" => LastIs(p, up[b], "close")
        /\ Alternates(p, up'[b]) /\ ~FirstIs(p, up'[b], m.t)
    BY <2>1, <2>p, <2>w DEF Loses
  <2>u. /\ ~(LastIs(p, up[b], "open") /\ LastIs(p, up[b], "close"))
        /\ About(p, up'[b]) => FirstIs(p, up'[b], "open") \/ FirstIs(p, up'[b], "close")
    <3>1. up'[b] \in Seq(Requests)
      BY <1>1, <1>4, <1>5
    <3> QED
      BY <1>4, <2>w, <3>1, WordFacts, RequestWords
  <2>2. /\ NextIs(b, p, "open") <=> m.t = "open"
        /\ NextIs(b, p, "close") <=> m.t = "close"
    BY <2>l DEF NextIs
  <2>3. /\ m.t = "open" => NextIs(b, p, "close")'
        /\ m.t = "close" => NextIs(b, p, "open")'
    <3>1. CASE About(p, up'[b])
      BY <2>l, <2>u, <3>1 DEF NextIs
    <3>2. CASE ~About(p, up'[b])
      BY <1>1, <2>l, <2>p, <2>u, <3>2 DEF NextIs
    <3> QED
      BY <3>1, <3>2
  <2>4. ASSUME NEW c \in Browsers, c # b
        PROVE  /\ NextIs(c, p, "open")' <=> NextIs(c, p, "open")
               /\ NextIs(c, p, "close")' <=> NextIs(c, p, "close")
               /\ \A a : At(c, p, a)' <=> At(c, p, a)
               /\ Asked(c, p)' <=> Asked(c, p)
               /\ Using(c, p)' <=> Using(c, p)
    <3>1. /\ NextIs(c, p, "open")' <=> NextIs(c, p, "open")
          /\ NextIs(c, p, "close")' <=> NextIs(c, p, "close")
      BY <1>1, <1>5, <2>4 DEF NextIs
    <3>2. \A a : At(c, p, a)' <=> At(c, p, a)
      BY <1>5, <2>4 DEF At
    <3>3. Asked(c, p)' <=> Asked(c, p)
      BY <1>5, <2>4, <3>1 DEF Asked
    <3> QED
      BY <3>1, <3>2, <3>3 DEF Using
  <2>5. \A a : ~At(b, p, a)
    BY <1>i DEF At
  <2>6. PanelInv(p)'
    <3>1. ASSUME NEW c \in Browsers
          PROVE  /\ Alternates(p, up'[c])
                 /\ About(p, up'[c]) => (LastIs(p, up'[c], "open") <=> panel'[c][p] # "closed")
      <4>1. CASE c = b
        BY <1>1, <2>l, <2>p, <4>1
      <4>2. CASE c # b
        BY <1>1, <1>4, <1>5, <4>2 DEF UseInv, PanelInv
      <4> QED
        BY <4>1, <4>2
    <3>2. /\ (At(b, p, "bind") \/ At(b, p, "forward"))' => m.t = "open"
          /\ (At(b, p, "close") \/ At(b, p, "release"))' => m.t = "close"
      BY <1>5, <1>i, <1>r, <1>7 DEF At
    <3>3. ASSUME NEW c \in Browsers
          PROVE  /\ (At(c, p, "bind") \/ At(c, p, "forward"))' => NextIs(c, p, "close")'
                 /\ (At(c, p, "close") \/ At(c, p, "release"))' => NextIs(c, p, "open")'
      <4>1. CASE c = b
        BY <2>3, <3>2, <4>1
      <4>2. CASE c # b
        BY <1>4, <2>4, <4>2 DEF UseInv, PanelInv
      <4> QED
        BY <4>1, <4>2
    <3> QED
      BY <3>1, <3>3 DEF PanelInv
  <2>7. AgentSame(p)
    BY <1>1 DEF AgentSame
  <2>8. CASE m.t = "open"
    <3>1. pump'[b].p = p /\ pump'[b].at = "bind"
      BY <1>5, <1>7, <2>8
    <3>2. ~Asked(b, p) /\ ~Asked(b, p)' /\ ~Using(b, p) /\ ~Using(b, p)'
      BY <2>2, <2>5, <2>8, <3>1 DEF Asked, Using, At
    <3>3. /\ ~At(b, p, "forward")' /\ ~At(b, p, "close")' /\ ~At(b, p, "release")'
      BY <3>1 DEF At
    <3>4. SameUse(p)
      BY <2>4, <2>5, <3>2, <3>3 DEF SameUse
    <3>5. ASSUME NEW c \in Browsers, NEW t \in {"opened", "failed", "exit"}, Asked(c, p), Told(c, p, t)
          PROVE  Told(c, p, t)'
      <4>1. c # b
        BY <3>2, <3>5
      <4> QED
        BY <1>1, <1>3, <1>5, <3>5, <4>1 DEF Told
    <3> QED
      BY <1>4, <2>6, <2>7, <3>4, <3>5, AgentKept, AnswerKept DEF UseInv
  <2>9. CASE m.t = "close"
    <3>1. Asked(b, p) /\ Using(b, p) /\ NextIs(b, p, "open")'
      BY <1>i, <2>2, <2>3, <2>9 DEF Asked, Using
    <3>2. ~NextIs(b, p, "close")'
      <4>1. CASE About(p, up'[b])
        BY <2>9, <2>l, <4>1 DEF NextIs
      <4>2. CASE ~About(p, up'[b])
        <5>1. panel'[b][p] = "closed"
          BY <1>1, <2>9, <2>l, <2>p, <2>u, <4>2
        <5>2. ~FirstIs(p, up'[b], "close")
          BY <2>9, <2>l
        <5> QED
          BY <4>2, <5>1, <5>2 DEF NextIs
      <4> QED
        BY <4>1, <4>2
    <3>3. ~Asked(b, p)'
      BY <3>2 DEF Asked
    <3>4. ASSUME NEW c \in Browsers, c # b PROVE ~Asked(c, p) /\ ~Using(c, p) /\ ~Asked(c, p)' /\ ~Using(c, p)'
      <4>1. ~Using(c, p)
        BY <1>4, <3>1, <3>4 DEF UseInv, UserInv
      <4> QED
        BY <2>4, <3>4, <4>1 DEF Using
    <3>5. \A c \in Browsers : ~Asked(c, p)'
      BY <3>3, <3>4
    <3>6. AnswerInv(p)'
      BY <3>5 DEF AnswerInv
    <3>7. /\ Over(p)' <=> Over(p)
          /\ Idle(p)' <=> Idle(p)
      BY <1>1 DEF Over, Idle
    <3>8. ~At(b, p, "forward")' /\ ~At(b, p, "release")'
      BY <1>5, <1>i, <2>9 DEF At
    <3>9. OverInv(p)'
      <4>1. \A c \in Browsers : At(c, p, "forward")' => At(c, p, "forward")
        BY <2>4, <3>8
      <4> QED
        BY <1>1, <1>4, <3>7, <4>1 DEF UseInv, OverInv
    <3>10. CASE p \in router
      <4>1. At(b, p, "close")' /\ Using(b, p)'
        BY <1>5, <1>7, <2>9, <3>10 DEF At, Using
      <4>2. UserInv(p)'
        <5>1. \A c, d \in Browsers : Using(c, p)' /\ Using(d, p)' => c = d
          BY <3>4
        <5>2. \A c \in Browsers : At(c, p, "forward")' => FALSE
          BY <3>4, <3>8 DEF Using
        <5> QED
          BY <3>5, <4>1, <5>1, <5>2 DEF UserInv
      <4>3. SentInv(p)'
        <5>1. ~LastIs(p, down', "close")
          BY <1>1, <1>4, <3>1 DEF UseInv, SentInv
        <5>2. \A c \in Browsers : ~At(c, p, "forward")' /\ ~At(c, p, "release")'
          BY <3>4, <3>8 DEF Using
        <5> QED
          BY <4>1, <5>1, <5>2 DEF SentInv
      <4>4. LeftInv(p)'
        BY <3>8, <4>1 DEF LeftInv
      <4> QED
        BY <2>6, <3>6, <3>9, <4>2, <4>3, <4>4 DEF UseInv
    <3>11. CASE p \notin router
      <4>1. pump'[b].p # p
        BY <1>5, <1>7, <1>i, <2>9, <3>11
      <4>2. ~Using(b, p)'
        BY <3>3, <4>1 DEF Using, At
      <4>3. \A c \in Browsers : ~Using(c, p)'
        BY <3>4, <4>2
      <4>4. \A c \in Browsers : ~At(c, p, "forward")' /\ ~At(c, p, "close")' /\ ~At(c, p, "release")'
        BY <4>3 DEF Using
      <4>5. ~Has(p, down, "open")
        BY <1>4, <3>1, <3>11 DEF UseInv, UserInv
      <4>6. ~LastIs(p, down, "open")
        <5>1. down \in Seq(Requests)
          BY DEF IInv, Types, NetTypes
        <5> QED
          BY <2>w, <4>5, <5>1, WordFacts
      <4>7. UserInv(p)'
        BY <1>1, <3>5, <3>11, <4>3, <4>4 DEF UserInv
      <4>8. SentInv(p)'
        BY <1>1, <3>5, <4>3, <4>4, <4>6 DEF SentInv
      <4>9. LeftInv(p)'
        <5>1. Live(b, p) \/ Failed(b, p) \/ Ending(p) \/ Exited(b, p)
          BY <1>4, <3>1, <4>5 DEF UseInv, AnswerInv
        <5>2. kind[p] = "pty" /\ Idle(p)
          BY <3>11, <5>1 DEF Live, Failed, Ending, Exited
        <5>3. (RunningFor(p) = {})'
          BY <1>1, <5>2 DEF Idle, RunningFor
        <5> QED
          BY <5>3 DEF LeftInv
      <4> QED
        BY <2>6, <3>6, <3>9, <4>7, <4>8, <4>9 DEF UseInv
    <3> QED
      BY <3>10, <3>11
  <2> QED
    BY <1>r, <2>8, <2>9
<1> QED
  BY <1>6, <1>7

\* The facts about a pump that is busy with q.
LEMMA AgreeBusy ==
    ASSUME IInv, AgreeInv, faults = 0, NEW b \in Browsers, Bind(b) \/ Release(b)
    PROVE  /\ UNCHANGED <<kind, panel, up, out, listed, apump, table, stream, agentUp, upA, faults, cut>>
           /\ pump[b].p \in Ptys /\ overlap \subseteq overlap'
           /\ \A c \in Browsers \ {b} : pump'[c] = pump[c]
           /\ pump[b].at = "bind" =>
                 pump'[b].p = pump[b].p /\ pump'[b].at = "forward" /\ UNCHANGED down
                 /\ router' = router \cup {pump[b].p} /\ (pump[b].p \notin overlap' => ~Overlaps(b, pump[b].p))
           /\ pump[b].at = "close" =>
                 pump'[b].p = pump[b].p /\ pump'[b].at = "release" /\ UNCHANGED router
           /\ pump[b].at \in {"forward", "release"} => pump'[b] = IdlePump
           /\ pump[b].at = "forward" => UNCHANGED router
           /\ pump[b].at = "release" => UNCHANGED down /\ router' = router \ {pump[b].p}
           /\ pump[b].at \in {"forward", "close"} =>
                 down' = Append(down, Msg(IF pump[b].at = "forward" THEN "open" ELSE "close", pump[b].p))
           /\ pump[b].at \in {"bind", "forward", "close", "release"}
<1>1. UNCHANGED <<kind, panel, up, out, listed, apump, table, stream, agentUp, upA, faults, cut>>
  BY DEF Bind, Release, dashVars, agentVars, netVars
<1>2. pump[b].at \in {"bind", "forward", "close", "release"} /\ pump[b].p \in Ptys
  BY DEF Bind, Release, IInv, Types, ServerTypes
<1>3. agentUp
  BY DEF AgreeInv
<1>t. pump \in [Browsers -> [at : {"idle", "bind", "forward", "close", "release"}, p : Ptys \cup {NoPty}]]
  BY DEF IInv, Types, ServerTypes
<1>4. overlap \subseteq overlap'
  BY DEF Bind, Release, Binds
<1>5. CASE pump[b].at = "bind"
  <2>1. pump' = [pump EXCEPT ![b].at = "forward"] /\ Binds(b) /\ UNCHANGED down
    BY <1>5 DEF Bind, Release, netVars
  <2>2. pump'[b].p = pump[b].p /\ pump'[b].at = "forward" /\ \A c \in Browsers \ {b} : pump'[c] = pump[c]
    BY <1>t, <2>1
  <2>3. pump[b].p \notin overlap' => ~Overlaps(b, pump[b].p)
    BY <2>1 DEF Binds
  <2> QED
    BY <1>1, <1>2, <1>4, <1>5, <2>1, <2>2, <2>3 DEF Binds
<1>6. CASE pump[b].at = "forward"
  <2>1. pump' = [pump EXCEPT ![b] = IdlePump] /\ ToAgent(Msg("open", pump[b].p)) /\ UNCHANGED router
    BY <1>6 DEF Bind, Release
  <2>2. down' = Append(down, Msg("open", pump[b].p))
    BY <1>3, <2>1 DEF ToAgent
  <2>3. pump'[b] = IdlePump /\ \A c \in Browsers \ {b} : pump'[c] = pump[c]
    BY <1>t, <2>1
  <2> QED
    BY <1>1, <1>2, <1>4, <1>6, <2>1, <2>2, <2>3
<1>7. CASE pump[b].at = "close"
  <2>1. pump' = [pump EXCEPT ![b].at = "release"] /\ ToAgent(Msg("close", pump[b].p)) /\ UNCHANGED router
    BY <1>7 DEF Bind, Release
  <2>2. down' = Append(down, Msg("close", pump[b].p))
    BY <1>3, <2>1 DEF ToAgent
  <2>3. pump'[b].p = pump[b].p /\ pump'[b].at = "release" /\ \A c \in Browsers \ {b} : pump'[c] = pump[c]
    BY <1>t, <2>1
  <2> QED
    BY <1>1, <1>2, <1>4, <1>7, <2>1, <2>2, <2>3
<1>8. CASE pump[b].at = "release"
  <2>1. pump' = [pump EXCEPT ![b] = IdlePump] /\ router' = router \ {pump[b].p} /\ UNCHANGED down
    BY <1>8 DEF Bind, Release, netVars
  <2>2. pump'[b] = IdlePump /\ \A c \in Browsers \ {b} : pump'[c] = pump[c]
    BY <1>t, <2>1
  <2> QED
    BY <1>1, <1>2, <1>4, <1>8, <2>1, <2>2
<1> QED
  BY <1>2, <1>5, <1>6, <1>7, <1>8

\* Another id is not concerned.
LEMMA AgreeBusyOther ==
    ASSUME IInv, AgreeInv, faults = 0, NEW b \in Browsers, Bind(b) \/ Release(b),
           NEW p \in Ptys, p \notin overlap', p # pump[b].p
    PROVE  UseInv(p)'
<1>1. /\ UNCHANGED <<kind, panel, up, out, listed, apump, table, stream, agentUp, upA, faults, cut>>
      /\ overlap \subseteq overlap'
      /\ \A c \in Browsers \ {b} : pump'[c] = pump[c]
      /\ pump[b].at \in {"bind", "forward", "close", "release"}
  BY AgreeBusy
<1>2. pump'[b].p = pump[b].p \/ pump'[b] = IdlePump
  BY AgreeBusy
<1>3. pump'[b].p # p
  BY <1>2 DEF IdlePump
<1>4. UseInv(p) /\ down \in Seq(Requests)
  BY <1>1, AgreeFacts
<1>5. SameWords(p, down, down')
  <2>1. \/ UNCHANGED down
        \/ \E w \in {"open", "close"} : down' = Append(down, Msg(w, pump[b].p))
    BY AgreeBusy
  <2>2. ASSUME NEW w \in {"open", "close"}, down' = Append(down, Msg(w, pump[b].p))
        PROVE  SameWords(p, down, down')
    <3>1. PICK m \in Requests : m = Msg(w, pump[b].p) /\ m.p # p
      <4>1. pump[b].p \in Ptys
        BY AgreeBusy
      <4>2. Msg(w, pump[b].p) \in Requests /\ Msg(w, pump[b].p).p = pump[b].p
        BY <4>1 DEF Msg, Requests
      <4> QED
        BY <4>2
    <3> QED
      BY <1>4, <2>2, <3>1, AppendOther
  <2> QED
    BY <2>1, <2>2, SameSelf
<1>6. p \in router' <=> p \in router
  BY <1>1, AgreeBusy
<1>7. SameDash(p)
  BY <1>1, <1>3, SameSelf DEF SameDash
<1>8. SameAgent(p)
  BY <1>1, <1>5, <1>6, SameSelf DEF SameAgent
<1> QED
  BY <1>1, <1>4, <1>7, <1>8, AgreeFrame

\* A step of the pump of b about p: b itself apart, every use is as it was.
LEMMA AgreeBusyUse ==
    ASSUME IInv, AgreeInv, faults = 0, NEW b \in Browsers, Bind(b) \/ Release(b),
           NEW p \in Ptys, p = pump[b].p, p \notin overlap'
    PROVE  /\ UseInv(p) /\ OwnedInv(p) /\ down \in Seq(Requests)
           /\ PanelInv(p)'
           /\ Over(p)' <=> Over(p)
           /\ Idle(p)' <=> Idle(p)
           /\ (RunningFor(p) = {})' <=> RunningFor(p) = {}
           /\ ~Asked(b, p)
           /\ pump[b].at \in {"bind", "forward"} => NextIs(b, p, "close")'
           /\ pump[b].at \in {"close", "release"} => ~NextIs(b, p, "close")'
           /\ \A c \in Browsers \ {b} :
                 /\ Asked(c, p)' <=> Asked(c, p)
                 /\ Using(c, p)' <=> Using(c, p)
                 /\ \A a : At(c, p, a)' <=> At(c, p, a)
<1>1. /\ UNCHANGED <<kind, panel, up, out, listed, apump, table, stream, agentUp, upA, faults, cut>>
      /\ overlap \subseteq overlap'
      /\ \A c \in Browsers \ {b} : pump'[c] = pump[c]
  BY AgreeBusy
<1>2. UseInv(p) /\ OwnedInv(p) /\ down \in Seq(Requests)
  BY <1>1, AgreeFacts
<1>3. ASSUME NEW c \in Browsers
      PROVE  /\ NextIs(c, p, "open")' <=> NextIs(c, p, "open")
             /\ NextIs(c, p, "close")' <=> NextIs(c, p, "close")
  BY <1>1 DEF NextIs
<1>4. ASSUME NEW c \in Browsers, c # b
      PROVE  /\ Asked(c, p)' <=> Asked(c, p)
             /\ Using(c, p)' <=> Using(c, p)
             /\ \A a : At(c, p, a)' <=> At(c, p, a)
  <2>1. \A a : At(c, p, a)' <=> At(c, p, a)
    BY <1>1, <1>4 DEF At
  <2>2. Asked(c, p)' <=> Asked(c, p)
    BY <1>1, <1>3, <1>4 DEF Asked
  <2> QED
    BY <2>1, <2>2 DEF Using
<1>5. /\ pump[b].at \in {"bind", "forward"} => NextIs(b, p, "close")
      /\ pump[b].at \in {"close", "release"} => NextIs(b, p, "open") /\ ~NextIs(b, p, "close")
  BY <1>2, NextOne DEF UseInv, PanelInv, At
<1>6. PanelInv(p)'
  <2>1. /\ (At(b, p, "bind") \/ At(b, p, "forward"))' => pump[b].at = "bind"
        /\ (At(b, p, "close") \/ At(b, p, "release"))' => pump[b].at = "close"
    <3>1. /\ pump[b].at = "bind" => pump'[b].at = "forward"
          /\ pump[b].at = "close" => pump'[b].at = "release"
          /\ pump[b].at \in {"forward", "release"} => pump'[b] = IdlePump
          /\ pump[b].at \in {"bind", "forward", "close", "release"}
      BY AgreeBusy
    <3> QED
      BY <3>1 DEF At, IdlePump
  <2>2. ASSUME NEW c \in Browsers
        PROVE  /\ (At(c, p, "bind") \/ At(c, p, "forward"))' => NextIs(c, p, "close")'
               /\ (At(c, p, "close") \/ At(c, p, "release"))' => NextIs(c, p, "open")'
    <3>1. CASE c = b
      BY <1>3, <1>5, <2>1, <3>1
    <3>2. CASE c # b
      BY <1>2, <1>3, <1>4, <3>2 DEF UseInv, PanelInv
    <3> QED
      BY <3>1, <3>2
  <2> QED
    BY <1>1, <1>2, <2>2 DEF UseInv, PanelInv
<1>7. /\ Over(p)' <=> Over(p)
      /\ Idle(p)' <=> Idle(p)
      /\ (RunningFor(p) = {})' <=> RunningFor(p) = {}
  BY <1>1 DEF Over, Idle, RunningFor
<1> QED
  BY <1>2, <1>3, <1>4, <1>5, <1>6, <1>7 DEF Asked

\* bind: nobody else has to do with p, and nothing of an earlier use is left.
LEMMA AgreeBinds ==
    ASSUME IInv, AgreeInv, faults = 0, NEW b \in Browsers, Bind(b), pump[b].at = "bind",
           NEW p \in Ptys, p = pump[b].p, p \notin overlap'
    PROVE  UseInv(p)'
<1>1. /\ UNCHANGED <<kind, panel, up, out, listed, apump, table, stream, agentUp, upA, faults, cut, down>>
      /\ pump'[b].p = p /\ pump'[b].at = "forward" /\ ~Overlaps(b, p) /\ p \in router'
  BY AgreeBusy
<1>2. /\ UseInv(p) /\ PanelInv(p)' /\ ~Asked(b, p)
      /\ Over(p)' <=> Over(p)
      /\ Idle(p)' <=> Idle(p)
  BY AgreeBusyUse
<1>3. ASSUME NEW c \in Browsers, c # b
      PROVE  /\ Asked(c, p)' <=> Asked(c, p)
             /\ Using(c, p)' <=> Using(c, p)
             /\ \A a : At(c, p, a)' <=> At(c, p, a)
  BY <1>3, AgreeBusyUse
<1>4. ASSUME NEW c \in Browsers, c # b PROVE ~Asked(c, p) /\ ~Using(c, p)
  <2>1. panel[c][p] = "closed" /\ pump[c].p # p /\ ~About(p, up[c])
    BY <1>1, <1>4 DEF Overlaps, Shared
  <2>2. ~FirstIs(p, up[c], "close")
    BY <2>1 DEF FirstIs, About
  <2> QED
    BY <2>1, <2>2 DEF Asked, Using, NextIs, At
<1>5. /\ At(b, p, "forward")' /\ Using(b, p)' /\ ~Asked(b, p)' /\ ~At(b, p, "close")' /\ ~At(b, p, "release")'
  BY <1>1 DEF At, Using, Asked
<1>6. \A c \in Browsers : ~Using(c, p)
  <2>1. ~Using(b, p)
    BY <1>2 DEF Using, At
  <2> QED
    BY <1>4, <2>1
<1>7. \A c \in Browsers : c # b => ~Asked(c, p)' /\ ~Using(c, p)'
  BY <1>3, <1>4
<1>8. \A c \in Browsers : ~Asked(c, p)'
  BY <1>5, <1>7
<1>9. UserInv(p)'
  BY <1>1, <1>5, <1>7, <1>8 DEF UserInv
<1>10. SentInv(p)'
  <2>1. ~LastIs(p, down', "open")
    BY <1>1, <1>2, <1>6 DEF UseInv, SentInv
  <2>2. \A c \in Browsers : ~At(c, p, "close")'
    BY <1>5, <1>7 DEF Using
  <2> QED
    BY <1>8, <2>1, <2>2 DEF SentInv
<1>11. OverInv(p)'
  <2>1. kind[p] = "pty" => ~Over(p)
    BY <1>1, WordFacts DEF Overlaps, Over, Has, About
  <2> QED
    BY <1>1, <1>2, <2>1 DEF UseInv, OverInv
<1>12. AnswerInv(p)' /\ LeftInv(p)'
  BY <1>5, <1>8 DEF AnswerInv, LeftInv
<1> QED
  BY <1>2, <1>9, <1>10, <1>11, <1>12 DEF UseInv

\* forwardToAgent: the open is the last message about p to the agent.
LEMMA AgreeForwards ==
    ASSUME IInv, AgreeInv, faults = 0, NEW b \in Browsers, Bind(b), pump[b].at = "forward",
           NEW p \in Ptys, p = pump[b].p, p \notin overlap'
    PROVE  UseInv(p)'
<1>1. /\ UNCHANGED <<kind, panel, up, out, listed, apump, table, stream, agentUp, upA, faults, cut, router>>
      /\ pump'[b] = IdlePump /\ down' = Append(down, Msg("open", p))
  BY AgreeBusy
<1>2. /\ UseInv(p) /\ PanelInv(p)' /\ down \in Seq(Requests) /\ NextIs(b, p, "close")'
      /\ Over(p)' <=> Over(p)
      /\ Idle(p)' <=> Idle(p)
  BY AgreeBusyUse
<1>3. ASSUME NEW c \in Browsers, c # b
      PROVE  /\ Asked(c, p)' <=> Asked(c, p)
             /\ Using(c, p)' <=> Using(c, p)
             /\ \A a : At(c, p, a)' <=> At(c, p, a)
  BY <1>3, AgreeBusyUse
<1>w. "open" \in Words /\ "close" \in Words /\ Msg("open", p) \in Requests
      /\ Msg("open", p).p = p /\ Msg("open", p).t = "open"
  BY DEF Words, Msg, Requests
<1>4. Gets(p, down, down', "open")
  BY <1>1, <1>2, <1>w, AppendAbout
<1>5. At(b, p, "forward") /\ Using(b, p) /\ p \in router'
  <2>1. At(b, p, "forward")
    BY DEF At
  <2> QED
    BY <1>1, <1>2, <2>1 DEF Using, UseInv, UserInv
<1>6. \A c \in Browsers : c # b => ~Using(c, p) /\ ~Using(c, p)'
  BY <1>2, <1>3, <1>5 DEF UseInv, UserInv
<1>7. Asked(b, p)' /\ Using(b, p)' /\ \A a : ~At(b, p, a)'
  <2>1. pump'[b].p # p
    BY <1>1 DEF IdlePump
  <2> QED
    BY <1>2, <2>1 DEF Asked, Using, At
<1>8. UserInv(p)'
  BY <1>5, <1>6, <1>7 DEF UserInv
<1>9. SentInv(p)'
  <2>1. ~LastIs(p, down', "close")
    BY <1>4, <1>w DEF Gets
  <2>2. \A c \in Browsers : ~At(c, p, "forward")' /\ ~At(c, p, "release")'
    BY <1>6, <1>7 DEF Using
  <2> QED
    BY <1>7, <2>1, <2>2 DEF SentInv
<1>10. OverInv(p)'
  <2>1. kind[p] = "pty" => ~Over(p)
    BY <1>2, <1>5 DEF UseInv, OverInv
  <2> QED
    BY <1>1, <1>2, <2>1 DEF UseInv, OverInv
<1>11. AnswerInv(p)'
  <2>1. Has(p, down', "open")
    BY <1>4, <1>w DEF Gets
  <2> QED
    BY <2>1 DEF AnswerInv
<1>12. LeftInv(p)'
  BY <1>4 DEF LeftInv, Gets
<1> QED
  BY <1>2, <1>8, <1>9, <1>10, <1>11, <1>12 DEF UseInv

\* forwardToOrgAgents: the close is the last message about p to the agent.
LEMMA AgreeCloses ==
    ASSUME IInv, AgreeInv, faults = 0, NEW b \in Browsers, Release(b), pump[b].at = "close",
           NEW p \in Ptys, p = pump[b].p, p \notin overlap'
    PROVE  UseInv(p)'
<1>1. /\ UNCHANGED <<kind, panel, up, out, listed, apump, table, stream, agentUp, upA, faults, cut, router>>
      /\ pump'[b].p = p /\ pump'[b].at = "release" /\ down' = Append(down, Msg("close", p))
  BY AgreeBusy
<1>2. /\ UseInv(p) /\ PanelInv(p)' /\ down \in Seq(Requests)
      /\ Over(p)' <=> Over(p)
      /\ Idle(p)' <=> Idle(p)
  BY AgreeBusyUse
<1>3. ASSUME NEW c \in Browsers, c # b
      PROVE  /\ Asked(c, p)' <=> Asked(c, p)
             /\ Using(c, p)' <=> Using(c, p)
             /\ \A a : At(c, p, a)' <=> At(c, p, a)
  BY <1>3, AgreeBusyUse
<1>w. "open" \in Words /\ "close" \in Words /\ Msg("close", p) \in Requests
      /\ Msg("close", p).p = p /\ Msg("close", p).t = "close"
  BY DEF Words, Msg, Requests
<1>4. Gets(p, down, down', "close")
  BY <1>1, <1>2, <1>w, AppendAbout
<1>5. At(b, p, "close") /\ Using(b, p)
  BY DEF At, Using
<1>6. \A c \in Browsers : c # b => ~Using(c, p) /\ ~Using(c, p)'
  BY <1>2, <1>3, <1>5 DEF UseInv, UserInv
<1>7. ~Asked(b, p)' /\ Using(b, p)' /\ ~At(b, p, "forward")' /\ ~At(b, p, "close")' /\ At(b, p, "release")'
  BY <1>1 DEF Asked, Using, At
<1>8. \A c \in Browsers : ~Asked(c, p)' /\ ~At(c, p, "forward")' /\ ~At(c, p, "close")'
  BY <1>6, <1>7 DEF Using
<1>9. UserInv(p)'
  BY <1>6, <1>7, <1>8 DEF UserInv
<1>10. SentInv(p)'
  <2>1. ~LastIs(p, down', "open")
    BY <1>4, <1>w DEF Gets
  <2> QED
    BY <1>8, <2>1 DEF SentInv
<1>11. OverInv(p)'
  <2>1. Has(p, down', "open") => Has(p, down, "open")
    BY <1>4, <1>w DEF Gets
  <2> QED
    BY <1>1, <1>2, <1>8, <2>1 DEF UseInv, OverInv
<1>12. AnswerInv(p)' /\ LeftInv(p)'
  BY <1>4, <1>8 DEF AnswerInv, LeftInv, Gets
<1> QED
  BY <1>2, <1>9, <1>10, <1>11, <1>12 DEF UseInv

\* release, after the close has been forwarded.
LEMMA AgreeReleases ==
    ASSUME IInv, AgreeInv, faults = 0, NEW b \in Browsers, Release(b), pump[b].at = "release",
           NEW p \in Ptys, p = pump[b].p, p \notin overlap'
    PROVE  UseInv(p)'
<1>1. /\ UNCHANGED <<kind, panel, up, out, listed, apump, table, stream, agentUp, upA, faults, cut, down>>
      /\ pump'[b] = IdlePump /\ p \notin router'
  BY AgreeBusy
<1>2. /\ UseInv(p) /\ PanelInv(p)' /\ ~NextIs(b, p, "close")'
      /\ Over(p)' <=> Over(p)
      /\ Idle(p)' <=> Idle(p)
      /\ (RunningFor(p) = {})' <=> RunningFor(p) = {}
  BY AgreeBusyUse
<1>3. ASSUME NEW c \in Browsers, c # b
      PROVE  /\ Asked(c, p)' <=> Asked(c, p)
             /\ Using(c, p)' <=> Using(c, p)
             /\ \A a : At(c, p, a)' <=> At(c, p, a)
  BY <1>3, AgreeBusyUse
<1>5. At(b, p, "release") /\ Using(b, p)
  BY DEF At, Using
<1>6. \A c \in Browsers : c # b => ~Using(c, p) /\ ~Using(c, p)'
  BY <1>2, <1>3, <1>5 DEF UseInv, UserInv
<1>7. \A c \in Browsers : ~Using(c, p)'
  <2>1. pump'[b].p # p
    BY <1>1 DEF IdlePump
  <2>2. ~Using(b, p)'
    BY <1>2, <2>1 DEF Asked, Using, At
  <2> QED
    BY <1>6, <2>2
<1>8. \A c \in Browsers : ~Asked(c, p)' /\ ~At(c, p, "forward")' /\ ~At(c, p, "close")' /\ ~At(c, p, "release")'
  BY <1>7 DEF Using
<1>9. UserInv(p)'
  BY <1>1, <1>7, <1>8 DEF UserInv
<1>10. SentInv(p)'
  <2>1. ~LastIs(p, down', "open")
    BY <1>1, <1>2, <1>5 DEF UseInv, SentInv
  <2> QED
    BY <1>8, <2>1 DEF SentInv
<1>11. OverInv(p)'
  BY <1>1, <1>2, <1>8 DEF UseInv, OverInv
<1>12. AnswerInv(p)'
  BY <1>8 DEF AnswerInv
<1>13. LeftInv(p)'
  <2>1. \A c \in Browsers : Using(c, p) => At(c, p, "release")
    BY <1>5, <1>6
  <2> QED
    BY <1>1, <1>2, <2>1 DEF UseInv, LeftInv
<1> QED
  BY <1>2, <1>9, <1>10, <1>11, <1>12, <1>13 DEF UseInv

\* The server's pump of a dashboard.
LEMMA AgreePump ==
    ASSUME IInv, AgreeInv, faults = 0, NEW b \in Browsers, Bind(b) \/ Release(b),
           NEW p \in Ptys, p \notin overlap'
    PROVE  UseInv(p)'
<1>1. CASE p # pump[b].p
  BY <1>1, AgreeBusyOther
<1>2. CASE p = pump[b].p
  <2>1. CASE Bind(b)
    BY <1>2, <2>1, AgreeBinds, AgreeForwards DEF Bind
  <2>2. CASE Release(b)
    BY <1>2, <2>2, AgreeCloses, AgreeReleases DEF Release
  <2> QED
    BY <2>1, <2>2
<1> QED
  BY <1>1, <1>2

\* Only a process exits by itself.
LEMMA OverPty ==
    ASSUME IInv, AgreeInv, NEW p \in Ptys, Over(p)
    PROVE  kind[p] = "pty"
<1>1. CASE apump.p = p
  <2>1. apump.at = "release"
    BY <1>1 DEF AgreeInv, IdlePump, IInv, Types, ServerTypes
  <2> QED
    BY <1>1, <2>1 DEF IInv, OwnInv, ExitInv
<1>2. CASE Has(p, upA, "exit")
  BY <1>2 DEF Has, IInv, OwnInv, ExitInv
<1> QED
  BY <1>1, <1>2 DEF Over

\* The dashboards and the server's pumps are not concerned.
LEMMA AgentUse ==
    ASSUME IInv, AgreeInv, faults = 0, UNCHANGED <<dashVars, pump, router, overlap>>,
           NEW p \in Ptys, p \notin overlap'
    PROVE  /\ UseInv(p) /\ OwnedInv(p) /\ ExitInv /\ SameDash(p) /\ SameUse(p) /\ PanelInv(p)'
           /\ down \in Seq(Requests) /\ upA \in Seq(Reports) /\ agentUp
<1>1. UNCHANGED <<kind, panel, up, out, pump, router, overlap>>
  BY DEF dashVars
<1>2. /\ UseInv(p) /\ OwnedInv(p) /\ ExitInv
      /\ down \in Seq(Requests) /\ upA \in Seq(Reports) /\ agentUp
  BY <1>1, AgreeFacts
<1>3. SameDash(p)
  BY <1>1, SameSelf DEF SameDash
<1> QED
  BY <1>2, <1>3, UseFrame DEF UseInv

\* A step of the agent about another id.
LEMMA AgentOther ==
    ASSUME IInv, AgreeInv, faults = 0, UNCHANGED <<dashVars, srvVars>>,
           NEW p \in Ptys, p \notin overlap',
           SameWords(p, down, down'), SameWords(p, upA, upA'),
           \A s \in Streams : /\ stream'[s].p = p <=> stream[s].p = p
                              /\ stream[s].p = p => stream'[s].st = stream[s].st
    PROVE  UseInv(p)'
<1>1. UNCHANGED <<kind, panel, up, out, pump, router, overlap, apump>>
  BY DEF dashVars, srvVars
<1>2. UseInv(p) /\ SameDash(p)
  BY <1>1, AgentUse
<1>3. SameAgent(p)
  BY <1>1, SameSelf DEF SameAgent
<1> QED
  BY <1>1, <1>2, <1>3, AgreeFrame

\* termManager.Open and AttachTmux: the first message is an open, which finds
\* the id free; the report is the last one about it.
LEMMA AgreeOpens ==
    ASSUME IInv, AgreeInv, faults = 0, AgentOpens, NEW p \in Ptys, p \notin overlap'
    PROVE  UseInv(p)'
<1>1. /\ UNCHANGED <<kind, panel, up, out, pump, router, listed, apump, overlap>>
      /\ UNCHANGED <<dashVars, srvVars>>
      /\ down # <<>> /\ down' = Tail(down)
  BY DEF AgentOpens, dashVars, srvVars
<1>2. /\ UseInv(p) /\ OwnedInv(p) /\ SameUse(p) /\ PanelInv(p)'
      /\ down \in Seq(Requests) /\ upA \in Seq(Reports) /\ agentUp
  BY <1>1, AgentUse
<1>t. stream \in [Streams -> [st : Stages, p : Ptys \cup {NoPty}]]
  BY DEF IInv, Types, AgentTypes
<1>3. PICK m \in Requests : m = Head(down) /\ m.t = "open"
  <2>1. Head(down) \in Requests
    BY <1>1, <1>2
  <2> QED
    BY <2>1 DEF AgentOpens
<1>q. m.p \in Ptys
  BY DEF Requests
<1>4. \/ FromAgent(Msg("failed", m.p)) /\ UNCHANGED stream
      \/ \E s \in Streams :
            /\ stream[s] = NoProcess
            /\ stream' = [stream EXCEPT ![s] = [st |-> "running", p |-> m.p]]
            /\ FromAgent(Msg("opened", m.p))
  BY <1>3 DEF AgentOpens, agentVars
<1>5. PICK w \in {"failed", "opened"} :
         /\ upA' = Append(upA, Msg(w, m.p))
         /\ w = "failed" => UNCHANGED stream
         /\ w = "opened" => \E s \in Streams :
               stream[s] = NoProcess /\ stream' = [stream EXCEPT ![s] = [st |-> "running", p |-> m.p]]
  <2>1. \A x : FromAgent(x) => upA' = Append(upA, x)
    BY <1>2 DEF FromAgent
  <2>2. CASE FromAgent(Msg("failed", m.p)) /\ UNCHANGED stream
    BY <2>1, <2>2
  <2>3. CASE \E s \in Streams :
            /\ stream[s] = NoProcess
            /\ stream' = [stream EXCEPT ![s] = [st |-> "running", p |-> m.p]]
            /\ FromAgent(Msg("opened", m.p))
    BY <2>1, <2>3
  <2> QED
    BY <1>4, <2>2, <2>3
<1>6. Msg(w, m.p) \in Reports /\ Msg(w, m.p).p = m.p /\ Msg(w, m.p).t = w
  BY <1>q DEF Msg, Reports
<1>7. CASE p # m.p
  <2>1. SameWords(p, down, down')
    BY <1>1, <1>2, <1>3, <1>7, TailOther
  <2>2. SameWords(p, upA, upA')
    BY <1>2, <1>5, <1>6, <1>7, AppendOther
  <2>3. \A s \in Streams : /\ stream'[s].p = p <=> stream[s].p = p
                           /\ stream[s].p = p => stream'[s].st = stream[s].st
    <3>1. CASE w = "failed"
      BY <1>5, <3>1
    <3>2. CASE w = "opened"
      <4>1. PICK s \in Streams : stream[s] = NoProcess
                                 /\ stream' = [stream EXCEPT ![s] = [st |-> "running", p |-> m.p]]
        BY <1>5, <3>2
      <4>2. stream[s].p # p /\ stream'[s].p # p /\ \A u \in Streams \ {s} : stream'[u] = stream[u]
        BY <1>7, <1>t, <4>1 DEF NoProcess
      <4> QED
        BY <4>2
    <3> QED
      BY <3>1, <3>2
  <2> QED
    BY <1>1, <2>1, <2>2, <2>3, AgentOther
<1>8. CASE p = m.p
  <2>w. Words = {"open", "close", "opened", "failed", "exit"}
    BY DEF Words
  <2>1. Loses(p, down, down', "open")
    BY <1>1, <1>2, <1>3, <1>8, TailAbout
  <2>2. Gets(p, upA, upA', w)
    <3>1. PICK x \in Reports : x.p = p /\ x.t = w /\ upA' = Append(upA, x)
      BY <1>5, <1>6, <1>8
    <3>2. Gets(p, upA, upA', x.t)
      BY <1>2, <3>1, AppendAbout
    <3> QED
      BY <3>1, <3>2
  <2>3. /\ Has(p, down, "open")
        /\ Has(p, down', "open") => Has(p, down, "open")
        /\ LastIs(p, down', "open") => LastIs(p, down, "open")
        /\ LastIs(p, down', "close") => LastIs(p, down, "close")
        /\ ~About(p, down') => LastIs(p, down, "open")
    BY <2>1, <2>w DEF Loses
  <2>4. Idle(p)
    <3>1. 1 \in DOMAIN down /\ down[1] = Head(down)
      BY <1>1, <1>2
    <3>2. FreeAt(p, 1)
      BY <1>2, <1>3, <1>8, <3>1 DEF OwnedInv, OpensFree
    <3>3. \A j \in 1 .. 1 - 1 : FALSE
      OBVIOUS
    <3> QED
      BY <3>2, <3>3 DEF FreeAt
  <2>5. RunningFor(p) = {}
    BY <2>4 DEF Idle, RunningFor
  <2>6. ~Over(p)
    BY <1>2, <2>3, OverPty DEF UseInv, OverInv
  <2>7. ~Over(p)' /\ ~(apump'.p = p)
    BY <1>1, <2>2, <2>6, <2>w DEF Over, Gets
  <2>8. UserInv(p)' /\ SentInv(p)'
    BY <1>1, <1>2, <2>3, UserKept, SentKept DEF UseInv
  <2>9. OverInv(p)'
    <3>1. ExitLast(p, upA')
      BY <2>2, <2>6 DEF Gets, Over
    <3> QED
      BY <2>7, <3>1 DEF OverInv
  <2>10. /\ w = "failed" => (RunningFor(p) = {})' /\ Idle(p)'
         /\ w = "opened" => (RunningFor(p) # {})'
    <3>1. CASE w = "failed"
      BY <1>1, <1>5, <2>4, <2>5, <3>1 DEF RunningFor, Idle
    <3>2. CASE w = "opened"
      <4>1. PICK s \in Streams : stream' = [stream EXCEPT ![s] = [st |-> "running", p |-> m.p]]
        BY <1>5, <3>2
      <4>2. stream'[s].p = p /\ stream'[s].st = "running"
        BY <1>8, <1>t, <4>1
      <4> QED
        BY <3>2, <4>2 DEF RunningFor
    <3> QED
      BY <3>1, <3>2
  <2>11. AnswerInv(p)'
    <3>1. SUFFICES ASSUME NEW b \in Browsers, Asked(b, p)'
                   PROVE  (Live(b, p) \/ Failed(b, p) \/ Ending(p) \/ Exited(b, p))'
      BY DEF AnswerInv
    <3>2. p \in router'
      BY <1>1, <1>2, <2>3, <3>1 DEF UseInv, UserInv, SameUse
    <3>3. Told(b, p, w)'
      BY <2>2, <2>w DEF Told, Gets
    <3>4. CASE w = "failed"
      <4>1. Failed(b, p)'
        BY <2>7, <2>10, <3>2, <3>3, <3>4 DEF Failed
      <4> QED
        BY <4>1
    <3>5. CASE w = "opened"
      <4>1. Live(b, p)'
        BY <2>10, <3>2, <3>3, <3>5 DEF Live
      <4> QED
        BY <4>1
    <3> QED
      BY <3>4, <3>5
  <2>12. LeftInv(p)'
    <3>1. SUFFICES ASSUME ~About(p, down'), \A b \in Browsers : Using(b, p)' => At(b, p, "release")'
                   PROVE  FALSE
      BY DEF LeftInv
    <3>2. LastIs(p, down, "open")
      BY <2>3, <3>1
    <3>3. \A b \in Browsers : Using(b, p) => At(b, p, "release")
      BY <1>2, <3>1 DEF SameUse
    <3> QED
      BY <1>2, <3>2, <3>3 DEF UseInv, SentInv
  <2> QED
    BY <1>2, <2>8, <2>9, <2>11, <2>12 DEF UseInv
<1> QED
  BY <1>7, <1>8

\* termManager.Close: what ran for the id has been killed.
LEMMA AgreeKills ==
    ASSUME IInv, AgreeInv, faults = 0, AgentCloses, NEW p \in Ptys, p \notin overlap'
    PROVE  UseInv(p)'
<1>1. /\ UNCHANGED <<kind, panel, up, out, pump, router, listed, apump, overlap, upA>>
      /\ UNCHANGED <<dashVars, srvVars>>
      /\ down # <<>> /\ down' = Tail(down)
  BY DEF AgentCloses, dashVars, srvVars
<1>2. /\ UseInv(p) /\ OwnedInv(p) /\ SameUse(p) /\ PanelInv(p)'
      /\ down \in Seq(Requests) /\ upA \in Seq(Reports) /\ agentUp
  BY <1>1, AgentUse
<1>t. /\ stream \in [Streams -> [st : Stages, p : Ptys \cup {NoPty}]]
      /\ table \in [Ptys -> Streams \cup {NoStream}]
      /\ \A q \in Ptys : table[q] # NoStream => stream[table[q]].p = q
  BY DEF IInv, Types, AgentTypes
<1>3. PICK m \in Requests : m = Head(down) /\ m.t = "close"
  <2>1. Head(down) \in Requests
    BY <1>1, <1>2
  <2> QED
    BY <2>1 DEF AgentCloses
<1>q. m.p \in Ptys
  BY DEF Requests
<1>4. stream' = IF table[m.p] = NoStream THEN stream
                ELSE [stream EXCEPT ![table[m.p]].st = IF @ = "running" THEN "killed" ELSE @]
  BY <1>3 DEF AgentCloses
<1>5. /\ \A s \in Streams : s # table[m.p] => stream'[s] = stream[s]
      /\ \A s \in Streams : stream'[s].p = stream[s].p
      /\ \A s \in Streams : s = table[m.p] =>
            stream'[s].st = IF stream[s].st = "running" THEN "killed" ELSE stream[s].st
  BY <1>4, <1>t, <1>q
<1>7. CASE p # m.p
  <2>1. SameWords(p, down, down')
    BY <1>1, <1>2, <1>3, <1>7, TailOther
  <2>2. \A s \in Streams : /\ stream'[s].p = p <=> stream[s].p = p
                           /\ stream[s].p = p => stream'[s].st = stream[s].st
    <3>1. \A s \in Streams : stream[s].p = p => s # table[m.p]
      BY <1>7, <1>q, <1>t
    <3> QED
      BY <1>5, <3>1
  <2> QED
    BY <1>1, <2>1, <2>2, SameSelf, AgentOther
<1>8. CASE p = m.p
  <2>w. Words = {"open", "close", "opened", "failed", "exit"}
    BY DEF Words
  <2>1. Loses(p, down, down', "close")
    BY <1>1, <1>2, <1>3, <1>8, TailAbout
  <2>3. /\ About(p, down)
        /\ Has(p, down', "open") <=> Has(p, down, "open")
        /\ LastIs(p, down', "open") => LastIs(p, down, "open")
        /\ LastIs(p, down', "close") => LastIs(p, down, "close")
    BY <2>1, <2>w DEF Loses
  <2>4. (RunningFor(p) = {})'
    <3>1. ASSUME NEW s \in Streams, stream'[s].p = p, stream'[s].st = "running" PROVE FALSE
      <4>1. stream[s].p = p /\ stream[s].st = "running"
        BY <1>5, <3>1
      <4>2. table[p] = s
        BY <1>2, <4>1 DEF OwnedInv, Owned
      <4> QED
        BY <1>5, <1>8, <3>1, <4>1, <4>2
    <3> QED
      BY <3>1 DEF RunningFor
  <2>5. kind[p] = "pty" /\ Idle(p) => Idle(p)'
    BY <1>1, <1>5 DEF Idle
  <2>6. Over(p)' <=> Over(p)
    BY <1>1 DEF Over
  <2>8. UserInv(p)' /\ SentInv(p)'
    BY <1>1, <1>2, <2>3, UserKept, SentKept DEF UseInv
  <2>9. OverInv(p)'
    BY <1>1, <1>2, <2>3, <2>5, <2>6 DEF UseInv, OverInv, SameUse
  <2>11. AnswerInv(p)'
    <3>1. SUFFICES ASSUME NEW b \in Browsers, Asked(b, p), ~Has(p, down, "open") PROVE FALSE
      BY <1>2, <2>3 DEF AnswerInv, SameUse
    <3>2. LastIs(p, down, "open") \/ LastIs(p, down, "close")
      BY <1>2, <2>3, RequestWords
    <3>3. LastIs(p, down, "open") => Has(p, down, "open")
      BY <1>2, <2>w, WordFacts
    <3> QED
      BY <1>2, <3>1, <3>2, <3>3 DEF UseInv, SentInv
  <2>12. LeftInv(p)'
    BY <2>4 DEF LeftInv
  <2> QED
    BY <1>2, <2>8, <2>9, <2>11, <2>12 DEF UseInv
<1> QED
  BY <1>7, <1>8

\* The goroutine of a stream. A process that ends has one message and one
\* release before it, and nothing else of it is left then.
LEMMA AgreeStreams ==
    ASSUME IInv, AgreeInv, faults = 0, NEW s \in Streams,
           StreamEnds(s) \/ StreamRemoves(s) \/ StreamExits(s),
           NEW p \in Ptys, p \notin overlap'
    PROVE  UseInv(p)'
<1>1. /\ UNCHANGED <<kind, panel, up, out, pump, router, listed, apump, overlap, down>>
      /\ UNCHANGED <<dashVars, srvVars>>
  BY DEF StreamEnds, StreamRemoves, StreamExits, dashVars, srvVars, netVars
<1>2. /\ UseInv(p) /\ OwnedInv(p) /\ ExitInv /\ SameUse(p) /\ PanelInv(p)'
      /\ down \in Seq(Requests) /\ upA \in Seq(Reports) /\ agentUp
  BY <1>1, AgentUse
<1>t. /\ stream \in [Streams -> [st : Stages, p : Ptys \cup {NoPty}]]
      /\ \A u \in Streams : stream[u].st # "none" => stream[u].p \in Ptys
  BY DEF IInv, Types, AgentTypes, NoProcess
<1>3. PICK q \in Ptys : q = stream[s].p
  BY <1>t DEF StreamEnds, StreamRemoves, StreamExits
<1>4. /\ StreamEnds(s) =>
            /\ stream[s].st \in {"running", "killed"}
            /\ stream[s].st = "running" => kind[q] = "pty"
            /\ stream' = [stream EXCEPT ![s] = IF kind[q] = "pty" THEN [stream[s] EXCEPT !.st = "removing"]
                                               ELSE NoProcess]
            /\ UNCHANGED upA
      /\ StreamRemoves(s) =>
            /\ stream[s].st = "removing" /\ kind[q] = "pty"
            /\ stream' = [stream EXCEPT ![s].st = "exiting"]
            /\ UNCHANGED upA
      /\ StreamExits(s) =>
            /\ stream[s].st = "exiting" /\ kind[q] = "pty"
            /\ stream' = [stream EXCEPT ![s] = NoProcess]
            /\ upA' = Append(upA, Msg("exit", q))
  BY <1>2, <1>3 DEF StreamEnds, StreamRemoves, StreamExits, netVars, FromAgent, ExitInv
<1>5. /\ \A u \in Streams \ {s} : stream'[u] = stream[u]
      /\ stream'[s].p = q \/ stream'[s] = NoProcess
  BY <1>3, <1>4, <1>t
<1>6. CASE p # q
  <2>1. SameWords(p, upA, upA')
    <3>1. CASE UNCHANGED upA
      BY <3>1, SameSelf
    <3>2. CASE upA' = Append(upA, Msg("exit", q))
      <4>1. Msg("exit", q) \in Reports /\ Msg("exit", q).p = q
        BY DEF Msg, Reports
      <4> QED
        BY <1>2, <1>6, <3>2, <4>1, AppendOther
    <3> QED
      BY <1>4, <3>1, <3>2
  <2>2. stream[s].p # p /\ stream'[s].p # p
    BY <1>3, <1>5, <1>6 DEF NoProcess
  <2> QED
    BY <1>1, <1>5, <2>1, <2>2, SameSelf, AgentOther
<1>7. CASE p = q
  <2>n. stream[s].p = p
    BY <1>3, <1>7
  <2>1. kind[p] = "pty" => \A u \in Streams : stream[u].p = p => u = s
    BY <1>2, <1>3, <1>7 DEF OwnedInv, Owned
  <2>2. kind[p] = "pty" => /\ ~Idle(p) /\ ~Over(p)
                           /\ \A b \in Browsers : ~Failed(b, p) /\ ~Exited(b, p)
    <3>1. kind[p] = "pty" => ~Idle(p)
      BY <2>n DEF Idle
    <3> QED
      BY <1>2, <3>1 DEF UseInv, OverInv, Failed, Exited
  <2>3. UserInv(p)' /\ SentInv(p)'
    BY <1>1, <1>2, UserKept, SentKept DEF UseInv
  \* A process that runs or is killed comes to its end.
  <2>4. CASE kind[p] = "pty" /\ ~StreamExits(s)
    <3>1. stream'[s].p = p /\ stream'[s].st \in {"removing", "exiting"} /\ UNCHANGED upA
      <4>1. CASE StreamEnds(s)
        <5>1. stream' = [stream EXCEPT ![s] = [stream[s] EXCEPT !.st = "removing"]] /\ UNCHANGED upA
          BY <1>4, <1>7, <2>4, <4>1
        <5>2. [stream[s] EXCEPT !.st = "removing"].p = p /\ [stream[s] EXCEPT !.st = "removing"].st = "removing"
          BY <1>t, <2>n
        <5> QED
          BY <1>t, <5>1, <5>2
      <4>2. CASE StreamRemoves(s)
        BY <1>4, <1>t, <2>n, <4>2
      <4> QED
        BY <2>4, <4>1, <4>2
    <3>2. (RunningFor(p) = {})'
      BY <1>5, <2>1, <2>4, <3>1 DEF RunningFor
    <3>3. ~Over(p)'
      BY <1>1, <2>2, <2>4, <3>1 DEF Over
    <3>4. OverInv(p)'
      BY <1>1, <1>2, <3>1, <3>3 DEF UseInv, OverInv
    <3>5. AnswerInv(p)'
      <4>1. SUFFICES ASSUME NEW b \in Browsers, Asked(b, p), ~Has(p, down, "open") PROVE Ending(p)'
        BY <1>1, <1>2 DEF AnswerInv, SameUse
      <4>2. p \in router
        BY <1>2, <2>2, <2>4, <4>1 DEF UseInv, AnswerInv, Live, Ending
      <4> QED
        BY <1>1, <2>4, <3>1, <4>2 DEF Ending
    <3>6. LeftInv(p)'
      BY <3>2 DEF LeftInv
    <3> QED
      BY <1>2, <2>3, <3>4, <3>5, <3>6 DEF UseInv
  \* It is reported.
  <2>5. CASE StreamExits(s)
    <3>1. /\ kind[p] = "pty" /\ stream[s].st = "exiting" /\ stream'[s] = NoProcess
          /\ upA' = Append(upA, Msg("exit", p))
      BY <1>4, <1>7, <1>t, <2>5
    <3>w. "exit" \in Words /\ "open" \in Words
          /\ Msg("exit", p) \in Reports /\ Msg("exit", p).p = p /\ Msg("exit", p).t = "exit"
      BY DEF Words, Msg, Reports
    <3>2. Gets(p, upA, upA', "exit")
      BY <1>2, <3>1, <3>w, AppendAbout
    <3>3. Idle(p)'
      BY <1>5, <2>1, <3>1 DEF Idle, NoProcess
    <3>4. (RunningFor(p) = {})'
      BY <1>5, <2>1, <3>1 DEF RunningFor, NoProcess
    <3>5. ~Has(p, down, "open") /\ \A b \in Browsers : ~At(b, p, "forward")
      <4>1. ASSUME NEW i, FreeAt(p, i) PROVE FALSE
        BY <2>2, <3>1, <4>1 DEF FreeAt
      <4>2. ~Has(p, down, "open")
        BY <1>2, <4>1 DEF Has, OwnedInv, OpensFree
      <4>3. \A b \in Browsers : ~At(b, p, "forward")
        BY <1>2, <4>1 DEF At, OwnedInv, NextFree
      <4> QED
        BY <4>2, <4>3
    <3>6. apump'.p # p /\ ExitLast(p, upA')
      BY <1>1, <2>2, <3>1, <3>2 DEF Over, Gets
    <3>7. OverInv(p)'
      BY <1>1, <1>2, <3>3, <3>5, <3>6 DEF OverInv, SameUse
    <3>8. AnswerInv(p)'
      <4>1. SUFFICES ASSUME NEW b \in Browsers, Asked(b, p), ~Has(p, down, "open") PROVE Exited(b, p)'
        BY <1>1, <1>2 DEF AnswerInv, SameUse
      <4>2. ~Live(b, p)
        BY <2>1, <3>1 DEF Live, RunningFor
      <4>3. p \in router'
        BY <1>1, <1>2, <2>2, <3>1, <4>1, <4>2 DEF UseInv, AnswerInv, Ending
      <4>4. Over(p)' /\ Told(b, p, "exit")'
        BY <3>2, <3>w DEF Over, Told, Gets
      <4> QED
        BY <1>1, <3>1, <3>3, <4>3, <4>4 DEF Exited
    <3>9. LeftInv(p)'
      BY <3>4 DEF LeftInv
    <3> QED
      BY <1>2, <2>3, <3>7, <3>8, <3>9 DEF UseInv
  \* A capture that is cancelled ends without a word.
  <2>6. CASE kind[p] = "tmux"
    <3>1. /\ stream[s].st = "killed" /\ stream'[s] = NoProcess /\ UNCHANGED upA
      BY <1>4, <1>7, <1>t, <2>6
    <3>2. (RunningFor(p) = {})' <=> RunningFor(p) = {}
      BY <1>5, <2>n, <3>1 DEF RunningFor, NoProcess
    <3>3. Over(p)' <=> Over(p)
      BY <1>1, <3>1 DEF Over
    <3>4. OverInv(p)'
      BY <1>1, <1>2, <2>6, <3>1, <3>3 DEF UseInv, OverInv
    <3>5. AnswerInv(p)'
      <4>1. SUFFICES ASSUME NEW b \in Browsers, Asked(b, p), ~Has(p, down, "open")
                     PROVE  (Live(b, p) \/ Failed(b, p))'
        BY <1>1, <1>2 DEF AnswerInv, SameUse
      <4>2. Live(b, p) \/ Failed(b, p)
        BY <1>2, <2>6, <4>1 DEF UseInv, AnswerInv, Ending, Exited
      <4>3. \A t : Told(b, p, t)' <=> Told(b, p, t)
        BY <1>1, <3>1 DEF Told
      <4>4. Live(b, p) => Live(b, p)'
        BY <1>1, <3>2, <4>3 DEF Live
      <4>5. Failed(b, p) => Failed(b, p)'
        BY <1>1, <2>6, <3>2, <4>3 DEF Failed
      <4> QED
        BY <4>2, <4>4, <4>5
    <3>6. LeftInv(p)'
      BY <1>1, <2>6 DEF LeftInv
    <3> QED
      BY <1>2, <2>3, <3>4, <3>5, <3>6 DEF UseInv
  <2>7. kind[p] \in {"pty", "tmux"}
    BY DEF IInv, Types, DashTypes
  <2> QED
    BY <2>4, <2>5, <2>6, <2>7
<1> QED
  BY <1>6, <1>7

\* handleAgentTerminalOutput: what the agent reported is passed on in order.
LEMMA AgreeRelays ==
    ASSUME IInv, AgreeInv, faults = 0, Relay, NEW p \in Ptys, p \notin overlap'
    PROVE  UseInv(p)'
<1>1. /\ UNCHANGED <<kind, panel, up, pump, router, listed, overlap, table, stream, agentUp, down>>
      /\ apump = IdlePump /\ upA # <<>> /\ upA' = Tail(upA)
  BY DEF Relay, agentVars
<1>2. /\ UseInv(p) /\ upA \in Seq(Reports) /\ \A b \in Browsers : out[b] \in Seq(Reports)
  BY <1>1, AgreeFacts
<1>d. SameDash(p)
  BY <1>1, SameSelf DEF SameDash
<1>u. SameUse(p) /\ PanelInv(p)'
  BY <1>2, <1>d, UseFrame DEF UseInv
<1>3. PICK m \in Reports : m = Head(upA)
  <2>1. Head(upA) \in Reports
    BY <1>1, <1>2
  <2> QED
    BY <2>1
<1>4. /\ m.p \in router => \A b \in Browsers : out'[b] = Append(out[b], m)
      /\ m.p \notin router => UNCHANGED out
      /\ apump' = IF m.p \in router /\ m.t = "exit" THEN [at |-> "release", p |-> m.p] ELSE IdlePump
  BY <1>3 DEF Relay
<1>i. apump.p # p /\ IdlePump.p # p
  BY <1>1 DEF IdlePump
<1>6. CASE p # m.p
  <2>1. SameWords(p, upA, upA')
    BY <1>1, <1>2, <1>3, <1>6, TailOther
  <2>2. \A b \in Browsers : SameWords(p, out[b], out'[b])
    <3>1. CASE m.p \in router
      BY <1>2, <1>4, <1>6, <3>1, AppendOther
    <3>2. CASE m.p \notin router
      BY <1>4, <3>2, SameSelf
    <3> QED
      BY <3>1, <3>2
  <2>3. apump'.p # p
    BY <1>4, <1>6, <1>i
  <2>4. SameAgent(p)
    BY <1>1, <1>i, <2>1, <2>2, <2>3, SameSelf DEF SameAgent
  <2> QED
    BY <1>1, <1>2, <1>d, <2>4, AgreeFrame
<1>7. CASE p = m.p
  <2>w. Words = {"open", "close", "opened", "failed", "exit"}
    BY DEF Words
  <2>1. Loses(p, upA, upA', m.t)
    BY <1>1, <1>2, <1>3, <1>7, TailAbout
  <2>2. /\ About(p, upA)
        /\ Has(p, upA, "exit") <=> Has(p, upA', "exit") \/ m.t = "exit"
        /\ \A t \in Words : LastIs(p, upA, t) => LastIs(p, upA', t) \/ (~About(p, upA') /\ m.t = t)
        /\ ExitLast(p, upA')
        /\ m.t = "exit" => ~About(p, upA')
    BY <1>2, <2>1, <2>w DEF Loses, UseInv, OverInv
  <2>3. UserInv(p)' /\ SentInv(p)'
    BY <1>1, <1>2, <1>u, UserKept, SentKept DEF UseInv
  <2>4. LeftInv(p)'
    <3>1. RunningFor(p)' \subseteq RunningFor(p)
      BY <1>1 DEF RunningFor
    <3> QED
      BY <1>1, <1>2, <1>u, <3>1, LeftKept DEF UseInv
  <2>5. Idle(p)' <=> Idle(p)
    BY <1>1 DEF Idle
  <2>6. apump'.p = p <=> p \in router /\ m.t = "exit"
    BY <1>4, <1>7, <1>i
  <2>7. /\ Over(p)' => Over(p)
        /\ p \in router => (Over(p)' <=> Over(p))
    BY <1>i, <2>2, <2>6 DEF Over
  <2>8. OverInv(p)'
    <3>1. \A b \in Browsers : At(b, p, "forward")' => At(b, p, "forward")
      BY <1>u DEF SameUse
    <3>2. apump'.p = p => ~About(p, upA')
      BY <2>2, <2>6
    <3> QED
      BY <1>1, <1>2, <2>2, <2>5, <2>7, <3>1, <3>2 DEF UseInv, OverInv
  <2>9. AnswerInv(p)'
    <3>1. SUFFICES ASSUME NEW b \in Browsers, Asked(b, p), ~Has(p, down, "open")
                   PROVE  (Live(b, p) \/ Failed(b, p) \/ Ending(p) \/ Exited(b, p))'
      BY <1>1, <1>u DEF AnswerInv, SameUse
    <3>2. Live(b, p) \/ Failed(b, p) \/ Ending(p) \/ Exited(b, p)
      BY <1>2, <3>1 DEF UseInv, AnswerInv
    <3>3. p \in router /\ p \in router'
      BY <1>1, <2>2, <3>2 DEF Live, Failed, Ending, Exited
    <3>4. out'[b] = Append(out[b], m)
      BY <1>4, <1>7, <3>3
    <3>5. Gets(p, out[b], out'[b], m.t)
      BY <1>2, <1>7, <3>4, AppendAbout
    <3>6. ASSUME NEW t \in Words, Told(b, p, t) PROVE Told(b, p, t)'
      <4>1. LastIs(p, upA, t)
        BY <2>2, <3>6 DEF Told
      <4>2. CASE LastIs(p, upA', t)
        BY <4>2 DEF Told
      <4>3. CASE ~About(p, upA') /\ m.t = t
        BY <3>5, <4>3 DEF Told, Gets
      <4> QED
        BY <2>2, <4>1, <4>2, <4>3
    <3>7. /\ Told(b, p, "opened") => Told(b, p, "opened")'
          /\ Told(b, p, "failed") => Told(b, p, "failed")'
          /\ Told(b, p, "exit") => Told(b, p, "exit")'
      BY <2>w, <3>6
    <3>8. (RunningFor(p) = {})' <=> RunningFor(p) = {}
      BY <1>1 DEF RunningFor
    <3>9. Live(b, p) => Live(b, p)'
      BY <3>3, <3>7, <3>8 DEF Live
    <3>10. Failed(b, p) => Failed(b, p)'
      BY <1>1, <2>5, <2>7, <3>3, <3>7, <3>8 DEF Failed
    <3>11. Ending(p) => Ending(p)'
      BY <1>1 DEF Ending
    <3>12. Exited(b, p) => Exited(b, p)'
      BY <1>1, <2>5, <2>7, <3>3, <3>7 DEF Exited
    <3> QED
      BY <3>2, <3>9, <3>10, <3>11, <3>12
  <2> QED
    BY <1>u, <2>3, <2>4, <2>8, <2>9 DEF UseInv
<1> QED
  BY <1>6, <1>7

\* The release after an exit: it was the last of the use.
LEMMA AgreeRelayReleases ==
    ASSUME IInv, AgreeInv, faults = 0, RelayReleases, NEW p \in Ptys, p \notin overlap'
    PROVE  UseInv(p)'
<1>1. /\ UNCHANGED <<kind, panel, up, out, pump, listed, overlap, table, stream, agentUp, down, upA>>
      /\ apump' = IdlePump /\ router' = router \ {apump.p}
  BY DEF RelayReleases, dashVars, agentVars, netVars
<1>2. UseInv(p) /\ upA \in Seq(Reports)
  BY <1>1, AgreeFacts
<1>d. SameDash(p)
  BY <1>1, SameSelf DEF SameDash
<1>u. SameUse(p) /\ PanelInv(p)'
  BY <1>2, <1>d, UseFrame DEF UseInv
<1>i. apump'.p # p
  BY <1>1 DEF IdlePump
<1>6. CASE p # apump.p
  <2>1. SameAgent(p)
    BY <1>1, <1>6, <1>i, SameSelf DEF SameAgent
  <2> QED
    BY <1>1, <1>2, <1>d, <2>1, AgreeFrame
<1>7. CASE p = apump.p
  <2>1. Over(p) /\ kind[p] = "pty"
    BY <1>7, OverPty DEF Over
  <2>2. /\ Idle(p) /\ ~Has(p, down, "open") /\ ~About(p, upA)
        /\ \A b \in Browsers : ~At(b, p, "forward")
    BY <1>2, <1>7, <2>1 DEF UseInv, OverInv
  <2>3. ~Over(p)' /\ p \notin router'
    <3>1. "exit" \in Words
      BY DEF Words
    <3>2. ~Has(p, upA, "exit")
      BY <1>2, <2>2, <3>1, WordFacts
    <3> QED
      BY <1>1, <1>7, <1>i, <3>2 DEF Over
  <2>4. Idle(p)' /\ (RunningFor(p) = {})'
    BY <1>1, <2>1, <2>2 DEF Idle, RunningFor
  <2>5. UserInv(p)'
    BY <1>1, <1>2, <1>u, <2>2, <2>3 DEF UseInv, UserInv, SameUse
  <2>6. SentInv(p)'
    BY <1>1, <1>2, <1>u, SentKept DEF UseInv
  <2>7. OverInv(p)'
    BY <1>1, <1>2, <1>i, <2>3 DEF UseInv, OverInv
  <2>8. LeftInv(p)'
    BY <2>4 DEF LeftInv
  <2>9. AnswerInv(p)'
    <3>1. SUFFICES ASSUME NEW b \in Browsers, Asked(b, p), ~Has(p, down, "open") PROVE Exited(b, p)'
      BY <1>1, <1>u DEF AnswerInv, SameUse
    <3>2. ~Live(b, p) /\ ~Failed(b, p) /\ ~Ending(p)
      BY <2>1, <2>2 DEF Live, Failed, Ending, Idle, RunningFor
    <3>3. Told(b, p, "exit")
      BY <1>2, <3>1, <3>2 DEF UseInv, AnswerInv, Exited
    <3>4. Told(b, p, "exit")'
      BY <1>1, <3>3 DEF Told
    <3> QED
      BY <1>1, <2>1, <2>2, <2>3, <2>4, <3>4 DEF Exited
  <2> QED
    BY <1>u, <2>5, <2>6, <2>7, <2>8, <2>9 DEF UseInv
<1> QED
  BY <1>6, <1>7

\* A pump that is idle is about nothing.
IdlePumps ==
    /\ \A b \in Browsers : pump[b].at = "idle" => pump[b] = IdlePump
    /\ apump.at = "idle" => apump = IdlePump

\* A pump that is idle keeps no id.
LEMMA IdleStep ==
    ASSUME IInv, IdlePumps, Next
    PROVE  IdlePumps'
<1>t. pump \in [Browsers -> [at : {"idle", "bind", "forward", "close", "release"}, p : Ptys \cup {NoPty}]]
  BY DEF IInv, Types, ServerTypes
<1>1. CASE UNCHANGED <<pump, apump>>
  BY <1>1 DEF IdlePumps
<1>2. ASSUME NEW b \in Browsers, PumpReads(b) PROVE IdlePumps'
  <2>1. PICK x : x = Head(up[b])
    OBVIOUS
  <2>2. PICK g \in {"idle", "bind", "close"} :
           pump' = [pump EXCEPT ![b] = IF g = "idle" THEN IdlePump ELSE [at |-> g, p |-> x.p]]
    BY <1>2, <2>1 DEF PumpReads
  <2>3. UNCHANGED apump
    BY <1>2 DEF PumpReads
  <2> QED
    BY <1>t, <2>2, <2>3 DEF IdlePumps
<1>3. ASSUME NEW b \in Browsers, Bind(b) \/ Release(b) PROVE IdlePumps'
  <2>1. UNCHANGED apump
    BY <1>3 DEF Bind, Release
  <2>2. \/ pump' = [pump EXCEPT ![b].at = "forward"]
        \/ pump' = [pump EXCEPT ![b].at = "release"]
        \/ pump' = [pump EXCEPT ![b] = IdlePump]
    BY <1>3 DEF Bind, Release
  <2> QED
    BY <1>t, <2>1, <2>2 DEF IdlePumps
<1>4. ASSUME Relay PROVE IdlePumps'
  BY <1>4 DEF Relay, IdlePumps
<1>5. ASSUME RelayReleases PROVE IdlePumps'
  BY <1>5 DEF RelayReleases, IdlePumps
<1>6. ASSUME ServerRestarts PROVE IdlePumps'
  BY <1>6 DEF ServerRestarts, IdlePumps
<1>7. CASE ServerStep
  BY <1>2, <1>3, <1>4, <1>5, <1>7 DEF ServerStep
<1>8. CASE AgentStep
  <2>1. UNCHANGED <<pump, apump>>
    BY <1>8 DEF AgentStep, AgentOpens, AgentCloses, StreamEnds, StreamRemoves, StreamExits, srvVars
  <2> QED
    BY <1>1, <2>1
<1>9. CASE Failure
  <2>1. ServerRestarts \/ UNCHANGED <<pump, apump>>
    BY <1>9 DEF Failure, DashDrops, AgentDrops, AgentReconnects, AgentRestarts, srvVars
  <2> QED
    BY <1>1, <1>6, <2>1
<1>10. CASE \/ \E b \in Browsers, p \in Ptys : Mount(b, p) \/ Unmount(b, p)
            \/ \E b \in Browsers : DashReads(b)
  <2>1. UNCHANGED <<pump, apump>>
    BY <1>10 DEF Mount, Unmount, DashReads, srvVars
  <2> QED
    BY <1>1, <2>1
<1> QED
  BY <1>7, <1>8, <1>9, <1>10 DEF Next

\* Nothing is open at first.
LEMMA AgreeInit == Init => AgreeInv
<1> SUFFICES ASSUME Init PROVE AgreeInv
  OBVIOUS
<1>1. ASSUME NEW q, q = <<>>, NEW p
      PROVE  /\ ~About(p, q) /\ Alternates(p, q) /\ ExitLast(p, q)
             /\ \A t : ~Has(p, q, t) /\ ~FirstIs(p, q, t) /\ ~LastIs(p, q, t)
  <2>1. DOMAIN q = {}
    BY <1>1
  <2> QED
    BY <2>1 DEF About, Alternates, ExitLast, Has, FirstIs, LastIs
<1>2. ASSUME NEW p \in Ptys PROVE UseInv(p)
  <2>1. /\ \A b \in Browsers : up[b] = <<>> /\ out[b] = <<>> /\ pump[b] = IdlePump /\ panel[b][p] = "closed"
        /\ down = <<>> /\ upA = <<>> /\ apump = IdlePump /\ router = {}
        /\ \A s \in Streams : stream[s] = NoProcess
    BY DEF Init
  <2>2. IdlePump.p # p /\ NoProcess.p # p
    BY DEF IdlePump, NoProcess
  <2>3. \A b \in Browsers : /\ Alternates(p, up[b]) /\ ~About(p, up[b])
                            /\ \A t : ~FirstIs(p, up[b], t)
    BY <1>1, <2>1
  <2>4. /\ ~About(p, down) /\ ~About(p, upA) /\ ExitLast(p, upA)
        /\ \A t : ~Has(p, down, t) /\ ~LastIs(p, down, t) /\ ~Has(p, upA, t)
    BY <1>1, <2>1
  <2>5. \A b \in Browsers : ~NextIs(b, p, "close") /\ \A a : ~At(b, p, a)
    BY <2>1, <2>2, <2>3 DEF NextIs, At
  <2>6. \A b \in Browsers : ~Asked(b, p) /\ ~Using(b, p)
    BY <2>5 DEF Asked, Using
  <2>7. RunningFor(p) = {}
    BY <2>1, <2>2 DEF RunningFor
  <2>8. ~Over(p)
    BY <2>1, <2>2, <2>4 DEF Over
  <2>9. PanelInv(p) /\ UserInv(p) /\ SentInv(p)
    BY <2>1, <2>3, <2>4, <2>5, <2>6 DEF PanelInv, UserInv, SentInv
  <2>10. OverInv(p) /\ AnswerInv(p) /\ LeftInv(p)
    BY <2>1, <2>2, <2>4, <2>6, <2>7, <2>8 DEF OverInv, AnswerInv, LeftInv
  <2> QED
    BY <2>9, <2>10 DEF UseInv
<1> QED
  BY <1>2 DEF Init, AgreeInv

\* As long as nothing has failed, every step keeps the agreement.
LEMMA AgreeStep == IInv /\ AgreeInv /\ [Next]_vars => AgreeInv'
<1> SUFFICES ASSUME IInv, AgreeInv, [Next]_vars PROVE AgreeInv'
  OBVIOUS
<1>f. faults \in Nat /\ faults + 1 # 0
  BY DEF IInv, Types, NetTypes
<1>1. CASE UNCHANGED vars
  <2>1. UNCHANGED <<pump, apump, faults, agentUp, listed, cut, overlap, kind>>
    BY <1>1 DEF vars
  <2>2. ASSUME faults = 0, NEW p \in Ptys, p \notin overlap' PROVE UseInv(p)'
    <3>1. UNCHANGED <<dashVars, srvVars>> /\ UNCHANGED <<down, upA, stream>>
      BY <1>1 DEF vars, dashVars, srvVars
    <3> QED
      BY <2>2, <3>1, SameSelf, AgentOther
  <2> QED
    BY <2>1, <2>2 DEF AgreeInv
<1>2. CASE Next
  <2>1. IdlePumps'
    BY <1>2, IdleStep DEF AgreeInv, IdlePumps
  <2>2. SUFFICES ASSUME faults' = 0
                 PROVE  /\ agentUp' /\ listed' /\ ~cut'
                        /\ \A p \in Ptys \ overlap' : UseInv(p)'
    BY <2>1 DEF AgreeInv, IdlePumps
  <2>3. ~Fault
    BY <1>f, <2>2 DEF Fault
  <2>4. \/ \E b \in Browsers, q \in Ptys : Mount(b, q) \/ Unmount(b, q)
        \/ \E b \in Browsers : DashReads(b)
        \/ ServerStep \/ AgentStep \/ AgentReconnects
    BY <1>2, <2>3 DEF Next, Failure, DashDrops, AgentDrops, AgentRestarts, ServerRestarts
  <2>5. faults = 0
    <3>1. UNCHANGED faults \/ faults' = faults + 1
      <4>1. ASSUME NEW b \in Browsers, NEW q \in Ptys, Mount(b, q) \/ Unmount(b, q)
            PROVE  UNCHANGED faults
        BY <2>3, <4>1 DEF Mount, Unmount, DashSends
      <4>2. ASSUME NEW b \in Browsers, DashReads(b) PROVE UNCHANGED faults
        BY <4>2 DEF DashReads, netVars
      <4>3. CASE ServerStep
        BY <4>3 DEF ServerStep, PumpReads, Bind, Release, Relay, RelayReleases, netVars
      <4>4. CASE AgentStep
        BY <4>4 DEF AgentStep, AgentOpens, AgentCloses, StreamEnds, StreamRemoves, StreamExits, netVars
      <4>5. CASE AgentReconnects
        BY <4>5 DEF AgentReconnects
      <4> QED
        BY <2>4, <4>1, <4>2, <4>3, <4>4, <4>5
    <3> QED
      BY <1>f, <2>2, <3>1
  <2>6. agentUp /\ listed /\ ~cut
    BY <2>5 DEF AgreeInv
  <2>7. CASE \E b \in Browsers, q \in Ptys : Mount(b, q) \/ Unmount(b, q)
    <3>1. UNCHANGED <<agentUp, listed, cut>>
      BY <2>7 DEF Mount, Unmount, srvVars
    <3> QED
      BY <2>2, <2>5, <2>6, <2>7, <3>1, AgreeSends
  <2>8. CASE \E b \in Browsers : DashReads(b)
    <3>1. UNCHANGED <<agentUp, listed, cut>>
      BY <2>8 DEF DashReads, srvVars, netVars
    <3> QED
      BY <2>5, <2>6, <2>8, <3>1, AgreeDashReads
  <2>9. CASE ServerStep
    <3>1. UNCHANGED <<agentUp, listed, cut>>
      BY <2>9 DEF ServerStep, PumpReads, Bind, Release, Relay, RelayReleases, netVars
    <3>2. ASSUME NEW p \in Ptys \ overlap' PROVE UseInv(p)'
      BY <2>5, <2>9, AgreeReads, AgreePump, AgreeRelays, AgreeRelayReleases DEF ServerStep
    <3> QED
      BY <2>6, <3>1, <3>2
  <2>10. CASE AgentStep
    <3>1. UNCHANGED <<agentUp, listed, cut>>
      BY <2>10 DEF AgentStep, AgentOpens, AgentCloses, StreamEnds, StreamRemoves, StreamExits, srvVars, netVars
    <3>2. ASSUME NEW p \in Ptys \ overlap' PROVE UseInv(p)'
      BY <2>5, <2>10, AgreeOpens, AgreeKills, AgreeStreams DEF AgentStep
    <3> QED
      BY <2>6, <3>1, <3>2
  <2> QED
    BY <2>4, <2>6, <2>7, <2>8, <2>9, <2>10 DEF AgentReconnects
<1> QED
  BY <1>1, <1>2

\* When nothing is under way the parties agree.
LEMMA AgreeSettled == IInv /\ AgreeInv => SettledAgrees
<1> SUFFICES ASSUME IInv, AgreeInv, Settled, faults = 0, NEW p \in Ptys, p \notin overlap
             PROVE  LET shown == {panel[b][p] : b \in Browsers}
                    IN  /\ "connecting" \notin shown
                        /\ "live" \in shown => /\ p \in router
                                               /\ table[p] # NoStream
                                               /\ RunningFor(p) = {table[p]}
                        /\ "live" \notin shown => table[p] = NoStream /\ RunningFor(p) = {}
                        /\ shown \subseteq {"closed", "exited"} => p \notin router
  BY DEF SettledAgrees
<1>1. UseInv(p) /\ OwnedInv(p)
  BY AgreeFacts
<1>2. /\ \A b \in Browsers : /\ ~About(p, up[b]) /\ ~About(p, out[b])
                             /\ pump[b] = IdlePump /\ \A t : ~FirstIs(p, up[b], t)
      /\ apump = IdlePump /\ ~About(p, down) /\ ~About(p, upA)
      /\ \A t : ~Has(p, down, t) /\ ~Has(p, upA, t) /\ ~LastIs(p, upA, t)
      /\ \A b \in Browsers : \A t : ~LastIs(p, out[b], t)
      /\ down = <<>>
      /\ \A s \in Streams : stream[s].st \in {"none", "running"}
  BY DEF Settled, About, FirstIs, Has, LastIs
<1>3. IdlePump.p # p
  BY DEF IdlePump
<1>4. \A b \in Browsers : /\ Asked(b, p) <=> panel[b][p] # "closed"
                          /\ Using(b, p) <=> panel[b][p] # "closed"
  BY <1>2, <1>3 DEF Asked, Using, At, NextIs
<1>5. ~Over(p) /\ ~Ending(p)
  BY <1>2, <1>3 DEF Over, Ending
<1>6. ASSUME NEW b \in Browsers, panel[b][p] # "closed"
      PROVE  Live(b, p) \/ Failed(b, p) \/ Exited(b, p)
  BY <1>1, <1>2, <1>4, <1>5, <1>6 DEF UseInv, AnswerInv
<1>7. \A b \in Browsers : \A t : Told(b, p, t) => panel[b][p] = StatusOf(t)
  BY <1>2 DEF Told
<1>8. /\ StatusOf("opened") = "live" /\ StatusOf("failed") = "error" /\ StatusOf("exit") = "exited"
  BY DEF StatusOf
<1>9. \A b \in Browsers :
         /\ Live(b, p) => panel[b][p] = "live" /\ RunningFor(p) # {} /\ p \in router
         /\ Failed(b, p) => panel[b][p] = "error" /\ RunningFor(p) = {}
         /\ Exited(b, p) => panel[b][p] = "exited" /\ RunningFor(p) = {} /\ p \notin router
  <2>1. kind[p] = "pty" /\ Idle(p) => RunningFor(p) = {}
    BY DEF Idle, RunningFor
  <2> QED
    BY <1>5, <1>7, <1>8, <2>1 DEF Live, Failed, Exited
<1>10. \A s \in RunningFor(p) : table[p] = s
  BY <1>1 DEF OwnedInv, Owned, RunningFor
<1>11. table[p] # NoStream => table[p] \in RunningFor(p)
  <2>1. /\ table \in [Ptys -> Streams \cup {NoStream}]
        /\ table[p] # NoStream => stream[table[p]].p = p /\ stream[table[p]].st \in {"running", "removing"}
    BY DEF IInv, Types, AgentTypes
  <2> QED
    BY <1>2, <2>1 DEF RunningFor
<1>12. \A s \in RunningFor(p) : s # NoStream
  BY DEF RunningFor
<1>13. ASSUME \A b \in Browsers : panel[b][p] = "closed"
       PROVE  p \notin router /\ RunningFor(p) = {}
  <2>1. \A b \in Browsers : ~Using(b, p)
    BY <1>4, <1>13
  <2>2. p \notin router
    BY <1>1, <2>1 DEF UseInv, UserInv
  <2>3. CASE kind[p] = "pty"
    BY <1>1, <1>2, <2>1, <2>2, <2>3 DEF UseInv, LeftInv
  <2>4. CASE kind[p] = "tmux"
    <3>1. FreeAt(p, Len(down) + 1)
      BY <1>1, <2>2, <2>4 DEF OwnedInv, NextFree
    <3>2. \A j \in 1 .. (Len(down) + 1) - 1 : FALSE
      BY <1>2
    <3>3. Idle(p)
      BY <3>1, <3>2 DEF FreeAt
    <3> QED
      BY <2>2, <2>4, <3>3 DEF Idle, RunningFor
  <2>5. kind[p] \in {"pty", "tmux"}
    BY DEF IInv, Types, DashTypes
  <2> QED
    BY <2>2, <2>3, <2>4, <2>5
<1>14. ASSUME NEW b \in Browsers, panel[b][p] = "live"
       PROVE  p \in router /\ table[p] # NoStream /\ RunningFor(p) = {table[p]}
  <2>1. Live(b, p)
    BY <1>6, <1>9, <1>14
  <2> QED
    BY <1>9, <1>10, <1>12, <2>1
<1>15. ASSUME \A b \in Browsers : panel[b][p] # "live"
       PROVE  RunningFor(p) = {} /\ table[p] = NoStream
  <2>1. RunningFor(p) = {}
    <3>1. CASE \E b \in Browsers : panel[b][p] # "closed"
      BY <1>6, <1>9, <1>15, <3>1
    <3> QED
      BY <1>13, <3>1
  <2> QED
    BY <1>11, <2>1
<1>16. ASSUME \A b \in Browsers : panel[b][p] \in {"closed", "exited"}
       PROVE  p \notin router
  <2>1. CASE \E b \in Browsers : panel[b][p] # "closed"
    BY <1>6, <1>9, <1>16, <2>1
  <2> QED
    BY <1>13, <2>1
<1>17. \A b \in Browsers : panel[b][p] # "connecting"
  BY <1>6, <1>9
<1> QED
  BY <1>14, <1>15, <1>16, <1>17

\* The invariant of the agreement, with the ownership of the ids it rests on.
THEOREM AgreeInductive == Spec => [](IInv /\ AgreeInv)
<1>1. Init => IInv /\ AgreeInv
  BY TypesInit, OwnInit, AgreeInit DEF IInv
<1>2. IInv /\ AgreeInv /\ [Next]_vars => (IInv /\ AgreeInv)'
  BY OwnStep, AgreeStep
<1> QED
  BY <1>1, <1>2, PTL DEF Spec

\* When nothing is under way and nothing has failed, panels, router and PTY
\* table agree on every id whose uses did not overlap: every panel has its
\* answer, a live one is bound and driven by the one listed stream, and what is
\* closed or has exited has left no process, capture or binding behind
\* (internal/server/terminal.go:86-87, :116, :153, internal/agent/terminal.go).
THEOREM AgreeCorrect == Spec => []SettledAgrees
  BY AgreeInductive, AgreeSettled, PTL

=============================================================================
