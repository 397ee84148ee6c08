--------------------------- MODULE LiveIndexProof ---------------------------
(***************************************************************************)
(* Proofs about the live index and the dashboards' copies of it, for every *)
(* number of machines, sessions, connections and dashboards.               *)
(***************************************************************************)
EXTENDS LiveIndex, TLAPS

USE LiveIndexAssumption

-----------------------------------------------------------------------------
(***************************************************************************)
(* Types. They say more than TypeOK: the messages in a connection's pipe   *)
(* are about sessions of the connection's machine.                         *)
(***************************************************************************)
MsgsOf(c) == [t : {"hello", "heartbeat"}, s : {NoSession}]
             \cup [t : {"upsert", "removed"}, s : On(AgentOf[c])]
Tasks(ats) == [at : ats, m : Machines \cup {NoMachine}]
HubAts == {"idle", "offline", "clear", "return"}
HttpAts == {"idle", "sessions", "machine", "revoke"}
Pages == [at : {"unread", "read", "applied"}, rows : Indexes]
Snaps == {<<>>} \cup {<<i>> : i \in Indexes}

AgentTypes ==
    /\ plan \in Plans
    /\ world \in [Machines -> SUBSET Sessions] /\ known \in [Machines -> SUBSET Sessions]
    /\ \A m \in Machines : world[m] \subseteq On(m) /\ known[m] \subseteq On(m)
    /\ link \in [Machines -> Conns \cup {NoConn}]
    /\ \A m \in Machines : link[m] = NoConn \/ AgentOf[link[m]] = m
    /\ dialing \subseteq Machines

NetTypes ==
    /\ pipe \in [Conns -> Seq(AgentMsgs)]
    /\ \A c \in Conns : pipe[c] \in Seq(MsgsOf(c)) /\ Len(pipe[c]) <= PipeCap
    /\ broken \in [Conns -> BOOLEAN]

ServerTypes ==
    /\ keyed \subseteq Machines
    /\ stage \in [Conns -> Stages]
    /\ hub \in Tasks(HubAts) /\ (hub.at # "idle" => hub.m \in Machines)
    /\ http \in Tasks(HttpAts) /\ (http.at # "idle" => http.m \in Machines)

IndexTypes == index \in Indexes /\ out \in [Goroutines -> SUBSET Diffs]

DashTypes ==
    /\ dash \in [Browsers -> {"off", "snapped", "on"}]
    /\ queue \in [Browsers -> Seq(Diffs)]
    /\ \A b \in Browsers : Len(queue[b]) <= QueueCap
    /\ snap \in [Browsers -> Snaps]
    /\ view \in [Browsers -> Indexes]
    /\ page \in [Browsers -> Pages]
    /\ gap \in [Browsers -> BOOLEAN] /\ raced \in [Browsers -> BOOLEAN]

Types == AgentTypes /\ NetTypes /\ ServerTypes /\ IndexTypes /\ DashTypes

-----------------------------------------------------------------------------
(***************************************************************************)
(* The inductive invariant.                                                *)
(***************************************************************************)

\* A goroutine that has not changed the index yet has nothing to broadcast.
OutInv ==
    /\ \A c \in Conns : stage[c] \in {"none", "accepting", "leaving"} => out[c] = {}
    /\ hub.at \in {"idle", "offline"} => out[HubG] = {}
    /\ http.at \in {"idle", "sessions"} => out[HttpG] = {}

\* A connection the server has accepted and not handed back.
Held(m) == \E c \in Slots(m) : stage[c] \in {"greeting", "serving", "leaving"}

\* Once onUnregister has marked its machine offline only another connection
\* makes it online again.
OrphanInv ==
    /\ NoOrphans
    /\ hub.at = "clear" /\ ~Held(hub.m) => index.mach[hub.m] # "on"

\* The entries of an index, the value of one, and what a diff does to it.
Entries == [k : {"mach"}, x : Machines] \cup [k : {"sess"}, x : Sessions]
Value(v, e) ==
    IF e.k = "mach" THEN v.mach[e.x] ELSE IF e.x \in v.sess THEN "on" ELSE "none"
Touches(d, e) ==
    IF e.k = "mach" THEN d.t \in {"machine_on", "machine_off", "machine_removed"} /\ d.m = e.x
    ELSE IF d.t = "machine_removed" THEN MachineOf[e.x] = d.m
    ELSE d.t \in {"upsert", "removed"} /\ d.s = e.x
Written(d) ==
    CASE d.t \in {"machine_on", "upsert"} -> "on"
      [] d.t = "machine_off" -> "off"
      [] d.t \in {"machine_removed", "removed"} -> "none"

\* The copy the queued diffs will be applied to.
Base(b) == IF snap[b] # <<>> THEN Head(snap[b]) ELSE view[b]

\* Once dashboard b has read all that is queued for it, entry e is as in the
\* index.
ComesRight(b, e) ==
    \/ /\ \A i \in DOMAIN queue[b] : ~Touches(queue[b][i], e)
       /\ Value(Base(b), e) = Value(index, e)
    \/ \E i \in DOMAIN queue[b] :
          /\ Touches(queue[b][i], e) /\ Written(queue[b][i]) = Value(index, e)
          /\ \A j \in DOMAIN queue[b] : j > i => ~Touches(queue[b][j], e)

Pending(e) == \E g \in Goroutines : \E d \in out[g] : Touches(d, e)

\* A dashboard that missed nothing: what is about to be broadcast still holds,
\* and an entry that nothing pending touches comes right.
ViewInv ==
    \A b \in Browsers :
        /\ dash[b] = "off" => queue[b] = <<>> /\ snap[b] = <<>>
        /\ dash[b] # "off" /\ ~gap[b] /\ ~raced[b] =>
              /\ ~Stale(index, out)
              /\ \A e \in Entries : Pending(e) \/ ComesRight(b, e)

IInv == Types /\ OutInv /\ OrphanInv /\ ViewInv

-----------------------------------------------------------------------------
(***************************************************************************)
(* The operators on indexes.                                               *)
(***************************************************************************)
LEMMA IndexMach ==
    ASSUME NEW v \in Indexes, NEW m \in Machines, NEW st \in MachineStates
    PROVE  /\ [v EXCEPT !.mach[m] = st] \in Indexes
           /\ [v EXCEPT !.mach[m] = st].sess = v.sess
           /\ [v EXCEPT !.mach[m] = st].mach[m] = st
           /\ \A n \in Machines \ {m} : [v EXCEPT !.mach[m] = st].mach[n] = v.mach[n]
  BY DEF Indexes

LEMMA IndexSess ==
    ASSUME NEW v \in Indexes, NEW S \in SUBSET Sessions
    PROVE  /\ [v EXCEPT !.sess = S] \in Indexes
           /\ [v EXCEPT !.sess = S].sess = S
           /\ [v EXCEPT !.sess = S].mach = v.mach
  BY DEF Indexes

LEMMA DiffFacts ==
    ASSUME NEW d \in Diffs
    PROVE  /\ d.m \in Machines
           /\ d.t \in {"machine_on", "machine_off", "machine_removed", "upsert", "removed"}
           /\ d.t \in {"upsert", "removed"} => d.s \in Sessions /\ d.m = MachineOf[d.s]
  BY DEF Diffs, Diff

\* applyMessage changes exactly the entries a diff touches, to what it writes.
LEMMA ApplyValue ==
    ASSUME NEW v \in Indexes, NEW d \in Diffs
    PROVE  /\ ApplyDiff(v, d) \in Indexes
           /\ \A e \in Entries :
                 Value(ApplyDiff(v, d), e) = IF Touches(d, e) THEN Written(d) ELSE Value(v, e)
<1> USE DiffFacts
<1>1. CASE d.t = "machine_on"
  <2>1. ApplyDiff(v, d) = [v EXCEPT !.mach[d.m] = "on"]
    BY <1>1 DEF ApplyDiff
  <2>2. Written(d) = "on"
    BY <1>1 DEF Written
  <2>3. "on" \in MachineStates
    BY DEF MachineStates
  <2>4. ASSUME NEW e \in Entries
        PROVE  Value(ApplyDiff(v, d), e) = IF Touches(d, e) THEN Written(d) ELSE Value(v, e)
    <3>1. CASE e.k = "mach"
      BY <1>1, <2>1, <2>2, <2>3, <3>1, IndexMach DEF Entries, Value, Touches
    <3>2. CASE e.k = "sess"
      BY <1>1, <2>1, <2>3, <3>2, IndexMach DEF Value, Touches
    <3> QED
      BY <3>1, <3>2 DEF Entries
  <2> QED
    BY <2>1, <2>3, <2>4, IndexMach
<1>2. CASE d.t = "machine_off"
  <2>1. ApplyDiff(v, d) = [v EXCEPT !.mach[d.m] = "off"]
    BY <1>2 DEF ApplyDiff
  <2>2. Written(d) = "off"
    BY <1>2 DEF Written
  <2>3. "off" \in MachineStates
    BY DEF MachineStates
  <2>4. ASSUME NEW e \in Entries
        PROVE  Value(ApplyDiff(v, d), e) = IF Touches(d, e) THEN Written(d) ELSE Value(v, e)
    <3>1. CASE e.k = "mach"
      BY <1>2, <2>1, <2>2, <2>3, <3>1, IndexMach DEF Entries, Value, Touches
    <3>2. CASE e.k = "sess"
      BY <1>2, <2>1, <2>3, <3>2, IndexMach DEF Value, Touches
    <3> QED
      BY <3>1, <3>2 DEF Entries
  <2> QED
    BY <2>1, <2>3, <2>4, IndexMach
<1>3. CASE d.t = "machine_removed"
  <2>1. ApplyDiff(v, d) = [mach |-> [v.mach EXCEPT ![d.m] = "none"], sess |-> v.sess \ On(d.m)]
    BY <1>3 DEF ApplyDiff
  <2>2. Written(d) = "none"
    BY <1>3 DEF Written
  <2>3. ApplyDiff(v, d) \in Indexes
    BY <2>1 DEF Indexes, MachineStates
  <2>4. ASSUME NEW e \in Entries
        PROVE  Value(ApplyDiff(v, d), e) = IF Touches(d, e) THEN Written(d) ELSE Value(v, e)
    <3>1. CASE e.k = "mach"
      BY <1>3, <2>1, <2>2, <3>1 DEF Entries, Value, Touches, Indexes
    <3>2. CASE e.k = "sess"
      BY <1>3, <2>1, <2>2, <3>2 DEF Entries, Value, Touches, On
    <3> QED
      BY <3>1, <3>2 DEF Entries
  <2> QED
    BY <2>3, <2>4
<1>4. CASE d.t = "upsert"
  <2>1. ApplyDiff(v, d) = [v EXCEPT !.sess = v.sess \cup {d.s}]
    BY <1>4 DEF ApplyDiff
  <2>2. Written(d) = "on"
    BY <1>4 DEF Written
  <2>3. v.sess \cup {d.s} \in SUBSET Sessions
    BY <1>4 DEF Indexes
  <2> QED
    BY <1>4, <2>1, <2>2, <2>3, IndexSess DEF Entries, Value, Touches
<1>5. CASE d.t = "removed"
  <2>1. ApplyDiff(v, d) = [v EXCEPT !.sess = v.sess \ {d.s}]
    BY <1>5 DEF ApplyDiff
  <2>2. Written(d) = "none"
    BY <1>5 DEF Written
  <2>3. v.sess \ {d.s} \in SUBSET Sessions
    BY <1>5 DEF Indexes
  <2> QED
    BY <1>5, <2>1, <2>2, <2>3, IndexSess DEF Entries, Value, Touches
<1> QED
  BY <1>1, <1>2, <1>3, <1>4, <1>5

\* Two indexes with the same entries are the same.
LEMMA SameIndex ==
    ASSUME NEW v \in Indexes, NEW w \in Indexes, \A e \in Entries : Value(v, e) = Value(w, e)
    PROVE  v = w
<1>1. ASSUME NEW m \in Machines PROVE v.mach[m] = w.mach[m]
  <2>1. [k |-> "mach", x |-> m] \in Entries
    BY DEF Entries
  <2> QED
    BY <2>1 DEF Value
<1>2. ASSUME NEW s \in Sessions PROVE s \in v.sess <=> s \in w.sess
  <2>1. [k |-> "sess", x |-> s] \in Entries
    BY DEF Entries
  <2>2. Value(v, [k |-> "sess", x |-> s]) = Value(w, [k |-> "sess", x |-> s])
    BY <2>1
  <2> QED
    BY <2>2 DEF Value
<1>3. v.sess = w.sess
  BY <1>2 DEF Indexes
<1>4. v.mach = w.mach
  BY <1>1 DEF Indexes
<1> QED
  BY <1>3, <1>4 DEF Indexes

-----------------------------------------------------------------------------
(***************************************************************************)
(* The steps that change the index. Each broadcasts a diff for every entry *)
(* it changes, and has nothing left to broadcast when it does.             *)
(***************************************************************************)
Covers(idx, ds) ==
    \A e \in Entries : Value(idx, e) = Value(index, e) \/ \E d \in ds : Touches(d, e)

Change(g, idx, ds) ==
    /\ g \in Goroutines /\ out[g] = {}
    /\ idx \in Indexes /\ ds \in SUBSET Diffs
    /\ Covers(idx, ds)
    /\ Mutate(g, idx, ds)

LEMMA CoversMachine ==
    ASSUME index \in Indexes, NEW m \in Machines, NEW st \in MachineStates,
           NEW t \in {"machine_on", "machine_off", "machine_removed"}
    PROVE  /\ SetMachine(m, st) \in Indexes
           /\ {Diff(t, m, NoSession)} \in SUBSET Diffs
           /\ Covers(SetMachine(m, st), {Diff(t, m, NoSession)})
<1>1. Diff(t, m, NoSession) \in Diffs
  BY DEF Diff, Diffs
<1>2. ASSUME NEW e \in Entries
      PROVE  \/ Value(SetMachine(m, st), e) = Value(index, e)
             \/ Touches(Diff(t, m, NoSession), e)
  BY IndexMach DEF SetMachine, Entries, Value, Touches, Diff
<1> QED
  BY <1>1, <1>2, IndexMach DEF SetMachine, Covers

LEMMA CoversSession ==
    ASSUME index \in Indexes, NEW s \in Sessions, NEW t \in {"upsert", "removed"},
           NEW S \in SUBSET Sessions, S \ {s} = index.sess \ {s}
    PROVE  /\ {Diff(t, MachineOf[s], s)} \in SUBSET Diffs
           /\ Covers([index EXCEPT !.sess = S], {Diff(t, MachineOf[s], s)})
<1>1. Diff(t, MachineOf[s], s) \in Diffs
  BY DEF Diffs
<1>2. ASSUME NEW e \in Entries
      PROVE  \/ Value([index EXCEPT !.sess = S], e) = Value(index, e)
             \/ Touches(Diff(t, MachineOf[s], s), e)
  BY IndexSess DEF Entries, Value, Touches, Diff
<1> QED
  BY <1>1, <1>2 DEF Covers

LEMMA CoversRemovals ==
    ASSUME index \in Indexes, NEW m \in Machines
    PROVE  /\ [index EXCEPT !.sess = @ \ On(m)] \in Indexes
           /\ Removals(m) \in SUBSET Diffs
           /\ Covers([index EXCEPT !.sess = @ \ On(m)], Removals(m))
<1>1. index.sess \ On(m) \in SUBSET Sessions
  BY DEF Indexes
<1>2. Removals(m) \in SUBSET Diffs
  BY DEF Removals, ListedOn, On, Diffs
<1>3. ASSUME NEW e \in Entries,
             Value([index EXCEPT !.sess = index.sess \ On(m)], e) # Value(index, e)
      PROVE  \E d \in Removals(m) : Touches(d, e)
  <2>1. e.k = "sess" /\ e.x \in index.sess \cap On(m)
    BY <1>1, <1>3, IndexSess DEF Entries, Value
  <2>2. Diff("removed", m, e.x) \in Removals(m)
    BY <2>1 DEF Removals, ListedOn
  <2>3. Touches(Diff("removed", m, e.x), e)
    BY <2>1 DEF Touches, Diff
  <2> QED
    BY <2>2, <2>3
<1> QED
  BY <1>1, <1>2, <1>3, IndexSess DEF Covers

LEMMA AcceptChange ==
    ASSUME Types, OutInv, NEW c \in Conns, AcceptHello(c), index' # index \/ out' # out \/ stage'[c] # "none"
    PROVE  /\ Change(c, SetMachine(AgentOf[c], "on"), {Diff("machine_on", AgentOf[c], NoSession)})
           /\ stage' = [stage EXCEPT ![c] = "greeting"]
           /\ pipe[c] # <<>> /\ pipe' = [pipe EXCEPT ![c] = Tail(@)] /\ UNCHANGED broken
<1>1. /\ Mutate(c, SetMachine(AgentOf[c], "on"), {Diff("machine_on", AgentOf[c], NoSession)})
      /\ stage' = [stage EXCEPT ![c] = "greeting"]
      /\ pipe[c] # <<>> /\ pipe' = [pipe EXCEPT ![c] = Tail(@)] /\ UNCHANGED broken
      /\ stage[c] = "accepting"
  BY DEF AcceptHello, Types, ServerTypes
<1>2. out[c] = {} /\ AgentOf[c] \in Machines /\ c \in Goroutines /\ "on" \in MachineStates
  BY <1>1 DEF OutInv, Goroutines, MachineStates
<1> QED
  BY <1>1, <1>2, CoversMachine DEF Change, Types, IndexTypes

LEMMA ReadChange ==
    ASSUME Types, NEW c \in Conns, ReadMessage(c)
    PROVE  Change(c, Applied(AgentOf[c], Head(pipe[c])), Announced(AgentOf[c], Head(pipe[c])))
<1> DEFINE m == AgentOf[c]
<1>1. /\ Mutate(c, Applied(m, Head(pipe[c])), Announced(m, Head(pipe[c])))
      /\ pipe[c] # <<>> /\ out[c] = {}
  BY DEF ReadMessage
<1>2. PICK msg \in MsgsOf(c) : msg = Head(pipe[c])
  BY <1>1 DEF Types, NetTypes
<1>3. index \in Indexes /\ m \in Machines /\ c \in Goroutines /\ "on" \in MachineStates
  BY DEF Types, IndexTypes, Goroutines, MachineStates
<1> HIDE DEF m
<1>4. CASE msg.t \in {"upsert", "removed"}
  <2>1. msg.s \in Sessions /\ MachineOf[msg.s] = m
    BY <1>2, <1>4 DEF MsgsOf, On, m
  <2>2. Announced(m, msg) = {Diff(msg.t, MachineOf[msg.s], msg.s)}
    BY <1>4, <2>1 DEF Announced
  <2>3. PICK S \in SUBSET Sessions :
           Applied(m, msg) = [index EXCEPT !.sess = S] /\ S \ {msg.s} = index.sess \ {msg.s}
    <3>1. index.sess \cup {msg.s} \in SUBSET Sessions /\ index.sess \ {msg.s} \in SUBSET Sessions
      BY <1>3, <2>1 DEF Indexes
    <3> QED
      BY <1>4, <3>1 DEF Applied
  <2>4. /\ Applied(m, msg) \in Indexes /\ Announced(m, msg) \in SUBSET Diffs
        /\ Covers(Applied(m, msg), Announced(m, msg))
    <3>1. /\ {Diff(msg.t, MachineOf[msg.s], msg.s)} \in SUBSET Diffs
          /\ Covers([index EXCEPT !.sess = S], {Diff(msg.t, MachineOf[msg.s], msg.s)})
      BY <1>3, <1>4, <2>1, <2>3, CoversSession
    <3>2. [index EXCEPT !.sess = S] \in Indexes
      BY <1>3, IndexSess
    <3> QED
      BY <2>2, <2>3, <3>1, <3>2
  <2> QED
    BY <1>1, <1>2, <1>3, <2>4 DEF Change, m
<1>5. CASE msg.t = "heartbeat" /\ index.mach[m] # "none"
  <2>1. Announced(m, msg) = {Diff("machine_on", m, NoSession)} /\ Applied(m, msg) = SetMachine(m, "on")
    BY <1>5 DEF Announced, Applied
  <2>2. /\ Applied(m, msg) \in Indexes /\ Announced(m, msg) \in SUBSET Diffs
        /\ Covers(Applied(m, msg), Announced(m, msg))
    <3>1. /\ SetMachine(m, "on") \in Indexes /\ {Diff("machine_on", m, NoSession)} \in SUBSET Diffs
          /\ Covers(SetMachine(m, "on"), {Diff("machine_on", m, NoSession)})
      BY <1>3, CoversMachine
    <3> QED
      BY <2>1, <3>1
  <2> QED
    BY <1>1, <1>2, <1>3, <2>2 DEF Change, m
<1>6. CASE msg.t \notin {"upsert", "removed"} /\ ~(msg.t = "heartbeat" /\ index.mach[m] # "none")
  <2>1. Announced(m, msg) = {} /\ Applied(m, msg) = index
    BY <1>6 DEF Announced, Applied
  <2> QED
    BY <1>1, <1>2, <1>3, <2>1 DEF Change, Covers, m
<1> QED
  BY <1>4, <1>5, <1>6

LEMMA OfflineChange ==
    ASSUME Types, OutInv, HubMarksOffline
    PROVE  \E ds : Change(HubG, IF index.mach[hub.m] # "none" THEN SetMachine(hub.m, "off") ELSE index, ds)
<1>1. /\ hub.m \in Machines /\ out[HubG] = {} /\ HubG \in Goroutines /\ "off" \in MachineStates
      /\ index \in Indexes
  BY DEF HubMarksOffline, Types, IndexTypes, ServerTypes, OutInv, Goroutines, MachineStates
<1>2. CASE index.mach[hub.m] # "none"
  BY <1>1, <1>2, CoversMachine DEF HubMarksOffline, Change
<1>3. CASE index.mach[hub.m] = "none"
  <2>1. Mutate(HubG, index, {})
    BY <1>3 DEF HubMarksOffline
  <2>2. Change(HubG, index, {})
    BY <1>1, <2>1 DEF Change, Covers
  <2> QED
    BY <1>3, <2>2
<1> QED
  BY <1>2, <1>3

LEMMA ClearChange ==
    ASSUME Types, HubClears
    PROVE  Change(HubG, [index EXCEPT !.sess = @ \ On(hub.m)], Removals(hub.m))
<1>1. hub.m \in Machines /\ out[HubG] = {} /\ HubG \in Goroutines /\ index \in Indexes
  BY DEF HubClears, Types, IndexTypes, ServerTypes, Goroutines
<1> QED
  BY <1>1, CoversRemovals DEF HubClears, Change

LEMMA SessionsChange ==
    ASSUME Types, OutInv, DeleteSessions
    PROVE  Change(HttpG, [index EXCEPT !.sess = @ \ On(http.m)], Removals(http.m))
<1>1. http.m \in Machines /\ out[HttpG] = {} /\ HttpG \in Goroutines /\ index \in Indexes
  BY DEF DeleteSessions, Types, IndexTypes, ServerTypes, OutInv, Goroutines
<1> QED
  BY <1>1, CoversRemovals DEF DeleteSessions, Change

LEMMA MachineChange ==
    ASSUME Types, DeleteMachine
    PROVE  Change(HttpG, SetMachine(http.m, "none"), {Diff("machine_removed", http.m, NoSession)})
<1>1. /\ http.m \in Machines /\ out[HttpG] = {} /\ HttpG \in Goroutines /\ "none" \in MachineStates
      /\ index \in Indexes
  BY DEF DeleteMachine, Types, IndexTypes, ServerTypes, Goroutines, MachineStates
<1> QED
  BY <1>1, CoversMachine DEF DeleteMachine, Change

-----------------------------------------------------------------------------
(***************************************************************************)
(* Types.                                                                  *)
(***************************************************************************)
LEMMA ChangeTypes ==
    ASSUME Types, NEW g, NEW idx, NEW ds, Change(g, idx, ds), UNCHANGED dashVars
    PROVE  IndexTypes' /\ DashTypes'
<1>1. IndexTypes'
  BY DEF Types, IndexTypes, Change, Mutate
<1>2. raced' \in [Browsers -> BOOLEAN] /\ UNCHANGED gap
  BY DEF Change, Mutate
<1> QED
  BY <1>1, <1>2 DEF Types, DashTypes, dashVars

LEMMA SendTypes ==
    ASSUME Types, NEW m \in Machines, NEW msg, Send(m, msg),
           \/ msg \in [t : {"hello", "heartbeat"}, s : {NoSession}]
           \/ msg \in [t : {"upsert", "removed"}, s : On(m)]
    PROVE  NetTypes'
<1>1. CASE Connected(m)
  <2>1. link[m] \in Conns /\ AgentOf[link[m]] = m
    BY <1>1 DEF Connected, Types, AgentTypes
  <2>2. msg \in MsgsOf(link[m]) /\ msg \in AgentMsgs
    BY <2>1 DEF MsgsOf, AgentMsgs, On
  <2>3. /\ pipe' = [pipe EXCEPT ![link[m]] = Append(pipe[link[m]], msg)]
        /\ Len(pipe[link[m]]) < PipeCap /\ UNCHANGED broken
    BY <1>1 DEF Send
  <2>4. /\ Append(pipe[link[m]], msg) \in Seq(MsgsOf(link[m]))
        /\ Append(pipe[link[m]], msg) \in Seq(AgentMsgs)
        /\ Len(Append(pipe[link[m]], msg)) <= PipeCap
    BY <2>1, <2>2, <2>3 DEF Types, NetTypes
  <2> QED
    BY <2>1, <2>3, <2>4 DEF Types, NetTypes
<1>2. CASE ~Connected(m)
  BY <1>2 DEF Send, Types, NetTypes
<1> QED
  BY <1>1, <1>2

LEMMA PipeTypes ==
    ASSUME Types, NEW c \in Conns, NEW q, q \in Seq(MsgsOf(c)), q \in Seq(AgentMsgs),
           Len(q) <= PipeCap, pipe' = [pipe EXCEPT ![c] = q], broken' \in [Conns -> BOOLEAN]
    PROVE  NetTypes'
  BY DEF Types, NetTypes

LEMMA EmptyOK ==
    /\ EmptyIndex \in Indexes
    /\ \A S : <<>> \in Seq(S)
    /\ Len(<<>>) = 0
  BY DEF EmptyIndex, Indexes, MachineStates

\* What the broadcast of d by goroutine g does.
Full == {b \in Browsers : dash[b] = "on" /\ Len(queue[b]) >= QueueCap}
Emits(g, d) ==
    /\ out' = [out EXCEPT ![g] = out[g] \ {d}]
    /\ queue' = [b \in Browsers |-> IF b \in Full THEN <<>>
                                    ELSE IF dash[b] = "on" THEN Append(queue[b], d)
                                    ELSE queue[b]]
    /\ dash' = [b \in Browsers |-> IF b \in Full THEN "off" ELSE dash[b]]
    /\ snap' = [b \in Browsers |-> IF b \in Full THEN <<>> ELSE snap[b]]
    /\ gap' = [b \in Browsers |-> b \notin Full /\ (gap[b] \/ dash[b] = "snapped")]
    /\ raced' = [b \in Browsers |-> b \notin Full /\ raced[b]]
    /\ UNCHANGED <<plan, agentVars, netVars, keyed, index, stage, hub, http, view, page>>

LEMMA EmitFacts ==
    ASSUME NEW g \in Goroutines, Emit(g)
    PROVE  \E d \in out[g] : Emits(g, d)
  BY DEF Emit, Emits, Full

LEMMA TypesInit == Init => Types
<1> SUFFICES ASSUME Init PROVE Types
  OBVIOUS
<1> USE EmptyOK
<1>1. AgentTypes /\ IndexTypes
  BY DEF Init, AgentTypes, IndexTypes
<1>2. NetTypes
  BY DEF Init, NetTypes
<1>3. ServerTypes
  BY DEF Init, ServerTypes, Tasks, HubAts, HttpAts, IdleHub, IdleHttp, Stages
<1>4. NoPage \in Pages
  BY DEF NoPage, Pages
<1>5. DashTypes
  BY <1>4 DEF Init, DashTypes, Snaps
<1> QED
  BY <1>1, <1>2, <1>3, <1>5 DEF Types

LEMMA TypesStep == Types /\ OutInv /\ [Next]_vars => Types'
<1> SUFFICES ASSUME Types, OutInv, [Next]_vars PROVE Types'
  OBVIOUS
<1> USE DEF agentVars, netVars, srvVars, dashVars, histVars
<1>a. UNCHANGED <<plan, agentVars>> => AgentTypes'
  BY DEF Types, AgentTypes
<1>n. UNCHANGED netVars => NetTypes'
  BY DEF Types, NetTypes
<1>s. UNCHANGED <<keyed, stage, hub, http>> => ServerTypes'
  BY DEF Types, ServerTypes
<1>i. UNCHANGED <<index, out>> => IndexTypes'
  BY DEF Types, IndexTypes
<1>d. UNCHANGED <<dashVars, histVars>> => DashTypes'
  BY DEF Types, DashTypes
<1>g. ASSUME NEW c \in Conns, NEW st \in Stages, stage' = [stage EXCEPT ![c] = st],
             UNCHANGED <<keyed, hub, http>>
      PROVE  ServerTypes'
  BY <1>g DEF Types, ServerTypes
<1>t. ASSUME NEW c \in Conns, pipe[c] # <<>>
      PROVE  /\ Tail(pipe[c]) \in Seq(MsgsOf(c)) /\ Tail(pipe[c]) \in Seq(AgentMsgs)
             /\ Len(Tail(pipe[c])) <= PipeCap
  BY <1>t DEF Types, NetTypes
\* the agent
<1>1. ASSUME NEW s \in Sessions, WorldChanges(MachineOf[s], s) PROVE Types'
  <2>1. AgentTypes'
    BY <1>1 DEF WorldChanges, Types, AgentTypes, On
  <2> QED
    BY <1>1, <1>n, <1>s, <1>i, <1>d, <2>1 DEF WorldChanges, Types
<1>2. ASSUME NEW m \in Machines, NEW s \in On(m), Discover(m, s) PROVE Types'
  <2>1. AgentTypes'
    BY <1>2 DEF Discover, Types, AgentTypes, On
  <2>2. PICK t \in {"upsert", "removed"} : Send(m, AgentMsg(t, s))
    BY <1>2 DEF Discover
  <2>3. AgentMsg(t, s) \in [t : {"upsert", "removed"}, s : On(m)]
    BY DEF AgentMsg
  <2>4. NetTypes'
    BY <2>2, <2>3, SendTypes
  <2> QED
    BY <1>2, <1>s, <1>i, <1>d, <2>1, <2>4 DEF Discover, Types
<1>3. ASSUME NEW m \in Machines, Heartbeat(m) PROVE Types'
  <2>1. AgentMsg("heartbeat", NoSession) \in [t : {"hello", "heartbeat"}, s : {NoSession}]
    BY DEF AgentMsg
  <2>2. NetTypes'
    BY <1>3, <2>1, SendTypes DEF Heartbeat
  <2> QED
    BY <1>3, <1>a, <1>s, <1>i, <1>d, <2>2 DEF Heartbeat, Types
<1>4. ASSUME NEW m \in Machines, NEW c \in Conns, Dial(m, c) PROVE Types'
  <2>1. AgentTypes'
    BY <1>4 DEF Dial, Types, AgentTypes, Slots
  <2>2. NetTypes'
    BY <1>4, EmptyOK, PipeTypes DEF Dial, Types, NetTypes
  <2>3. ServerTypes'
    BY <1>4, <1>g DEF Dial, Stages
  <2> QED
    BY <1>4, <1>i, <1>d, <2>1, <2>2, <2>3 DEF Dial, Types
<1>5. ASSUME NEW m \in Machines, SayHello(m) PROVE Types'
  <2>1. AgentMsg("hello", NoSession) \in [t : {"hello", "heartbeat"}, s : {NoSession}]
    BY DEF AgentMsg
  <2>2. NetTypes'
    BY <1>5, <2>1, SendTypes DEF SayHello
  <2>3. AgentTypes'
    BY <1>5 DEF SayHello, Types, AgentTypes
  <2> QED
    BY <1>5, <1>s, <1>i, <1>d, <2>2, <2>3 DEF SayHello, Types
<1>6. ASSUME NEW c \in Conns, Break(c) PROVE Types'
  <2>1. PICK k \in 0 .. Len(pipe[c]) : pipe' = [pipe EXCEPT ![c] = SubSeq(pipe[c], 1, k)]
    BY <1>6 DEF Break
  <2>2. /\ SubSeq(pipe[c], 1, k) \in Seq(MsgsOf(c)) /\ SubSeq(pipe[c], 1, k) \in Seq(AgentMsgs)
        /\ Len(SubSeq(pipe[c], 1, k)) <= PipeCap
    BY DEF Types, NetTypes
  <2>3. broken' \in [Conns -> BOOLEAN]
    BY <1>6 DEF Break, Types, NetTypes
  <2>4. NetTypes'
    BY <2>1, <2>2, <2>3, PipeTypes
  <2> QED
    BY <1>6, <1>a, <1>s, <1>i, <1>d, <2>4 DEF Break, Types
<1>7. ASSUME NEW m \in Machines, AgentNotices(m) PROVE Types'
  <2>1. AgentTypes'
    BY <1>7 DEF AgentNotices, Types, AgentTypes
  <2> QED
    BY <1>7, <1>n, <1>s, <1>i, <1>d, <2>1 DEF AgentNotices, Types
<1>8. ASSUME NEW m \in Machines, AgentRestarts(m) PROVE Types'
  <2>1. AgentTypes'
    BY <1>8 DEF AgentRestarts, Types, AgentTypes
  <2>2. NetTypes'
    BY <1>8 DEF AgentRestarts, Types, NetTypes
  <2> QED
    BY <1>8, <1>s, <1>i, <1>d, <2>1, <2>2 DEF AgentRestarts, Types
\* the connection's goroutine
<1>9. ASSUME NEW c \in Conns, AcceptHello(c) PROVE Types'
  <2>1. CASE index' # index \/ out' # out \/ stage'[c] # "none"
    <3>1. IndexTypes' /\ DashTypes'
      BY <1>9, <2>1, AcceptChange, ChangeTypes DEF AcceptHello
    <3>2. NetTypes'
      <4>1. /\ pipe[c] # <<>> /\ pipe' = [pipe EXCEPT ![c] = Tail(pipe[c])]
            /\ broken' \in [Conns -> BOOLEAN]
        BY <1>9, <2>1, AcceptChange DEF Types, NetTypes
      <4> QED
        BY <1>t, <4>1, PipeTypes
    <3>3. ServerTypes'
      <4>1. stage' = [stage EXCEPT ![c] = "greeting"]
        BY <1>9, <2>1, AcceptChange
      <4> QED
        BY <1>9, <1>g, <4>1 DEF AcceptHello, Stages
    <3> QED
      BY <1>9, <1>a, <3>1, <3>2, <3>3 DEF AcceptHello, Types
  <2>2. CASE stage'[c] = "none" /\ index' = index /\ out' = out
    <3>1. /\ stage' = [stage EXCEPT ![c] = "none"] /\ pipe' = [pipe EXCEPT ![c] = <<>>]
          /\ broken' = [broken EXCEPT ![c] = TRUE] /\ UNCHANGED histVars
      BY <1>9, <2>2 DEF AcceptHello, Types, ServerTypes
    <3>2. NetTypes'
      BY <3>1, EmptyOK, PipeTypes DEF Types, NetTypes
    <3>3. ServerTypes'
      BY <1>9, <1>g, <3>1 DEF AcceptHello, Stages
    <3> QED
      BY <1>9, <1>a, <1>i, <1>d, <2>2, <3>1, <3>2, <3>3 DEF AcceptHello, Types
  <2> QED
    BY <2>1, <2>2
<1>10. ASSUME NEW c \in Conns, AcceptFails(c) \/ Register(c) \/ ReadFails(c) PROVE Types'
  <2>1. ServerTypes'
    BY <1>10, <1>g DEF AcceptFails, Register, ReadFails, Stages
  <2> QED
    BY <1>10, <1>a, <1>n, <1>i, <1>d, <2>1 DEF AcceptFails, Register, ReadFails, Types
<1>11. ASSUME NEW c \in Conns, ReadMessage(c) PROVE Types'
  <2>1. IndexTypes' /\ DashTypes'
    BY <1>11, ReadChange, ChangeTypes DEF ReadMessage
  <2>2. NetTypes'
    BY <1>11, <1>t, PipeTypes DEF ReadMessage, Types, NetTypes
  <2> QED
    BY <1>11, <1>a, <1>s, <2>1, <2>2 DEF ReadMessage, Types
<1>12. ASSUME NEW c \in Conns, HandBack(c) PROVE Types'
  <2>1. ServerTypes'
    BY <1>12 DEF HandBack, Types, ServerTypes, Stages, Tasks, HubAts
  <2> QED
    BY <1>12, <1>a, <1>n, <1>i, <1>d, <2>1 DEF HandBack, Types
\* the hub goroutine and the request handler
<1>13. ASSUME HubMarksOffline PROVE Types'
  <2>1. IndexTypes' /\ DashTypes'
    BY <1>13, OfflineChange, ChangeTypes DEF HubMarksOffline
  <2>2. ServerTypes'
    BY <1>13 DEF HubMarksOffline, Types, ServerTypes, Tasks, HubAts
  <2> QED
    BY <1>13, <1>a, <1>n, <2>1, <2>2 DEF HubMarksOffline, Types
<1>14. ASSUME HubClears PROVE Types'
  <2>1. IndexTypes' /\ DashTypes'
    BY <1>14, ClearChange, ChangeTypes DEF HubClears
  <2>2. ServerTypes'
    BY <1>14 DEF HubClears, Types, ServerTypes, Tasks, HubAts
  <2> QED
    BY <1>14, <1>a, <1>n, <2>1, <2>2 DEF HubClears, Types
<1>15. ASSUME HubReturns PROVE Types'
  <2>1. ServerTypes'
    BY <1>15 DEF HubReturns, Types, ServerTypes, Tasks, HubAts, IdleHub
  <2> QED
    BY <1>15, <1>a, <1>n, <1>i, <1>d, <2>1 DEF HubReturns, Types
<1>16. ASSUME NEW m \in Machines, NEW force \in BOOLEAN, DeleteStarts(m, force) PROVE Types'
  <2>1. ServerTypes'
    BY <1>16 DEF DeleteStarts, Types, ServerTypes, Tasks, HttpAts
  <2> QED
    BY <1>16, <1>a, <1>n, <1>i, <1>d, <2>1 DEF DeleteStarts, Types
<1>17. ASSUME DeleteSessions PROVE Types'
  <2>1. IndexTypes' /\ DashTypes'
    BY <1>17, SessionsChange, ChangeTypes DEF DeleteSessions
  <2>2. ServerTypes'
    BY <1>17 DEF DeleteSessions, Types, ServerTypes, Tasks, HttpAts
  <2> QED
    BY <1>17, <1>a, <1>n, <2>1, <2>2 DEF DeleteSessions, Types
<1>18. ASSUME DeleteMachine PROVE Types'
  <2>1. IndexTypes' /\ DashTypes'
    BY <1>18, MachineChange, ChangeTypes DEF DeleteMachine
  <2>2. ServerTypes'
    BY <1>18 DEF DeleteMachine, Types, ServerTypes, Tasks, HttpAts
  <2> QED
    BY <1>18, <1>a, <1>n, <2>1, <2>2 DEF DeleteMachine, Types
<1>19. ASSUME DeleteRevokes PROVE Types'
  <2>1. ServerTypes'
    BY <1>19 DEF DeleteRevokes, Types, ServerTypes, Tasks, HttpAts, IdleHttp
  <2> QED
    BY <1>19, <1>a, <1>n, <1>i, <1>d, <2>1 DEF DeleteRevokes, Types
<1>20. ASSUME NEW m \in Machines, Enroll(m) PROVE Types'
  <2>1. ServerTypes'
    BY <1>20 DEF Enroll, Types, ServerTypes
  <2> QED
    BY <1>20, <1>a, <1>n, <1>i, <1>d, <2>1 DEF Enroll, Types
<1>21. ASSUME ServerRestarts PROVE Types'
  <2>1. NetTypes'
    BY <1>21, EmptyOK DEF ServerRestarts, NetTypes
  <2>2. ServerTypes' /\ IndexTypes'
    BY <1>21, EmptyOK
       DEF ServerRestarts, Types, ServerTypes, IndexTypes, Tasks, HubAts, HttpAts, IdleHub, IdleHttp, Stages
  <2>3. DashTypes'
    BY <1>21, EmptyOK DEF ServerRestarts, Types, DashTypes, Snaps
  <2> QED
    BY <1>21, <1>a, <2>1, <2>2, <2>3 DEF ServerRestarts, Types
\* dashboards
<1>22. ASSUME NEW g \in Goroutines, Emit(g) PROVE Types'
  <2>1. PICK d \in out[g] : Emits(g, d)
    BY <1>22, EmitFacts
  <2>2. d \in Diffs
    BY DEF Types, IndexTypes
  <2>3. IndexTypes'
    BY <2>1 DEF Emits, Types, IndexTypes
  <2>4. dash' \in [Browsers -> {"off", "snapped", "on"}] /\ snap' \in [Browsers -> Snaps]
    BY <2>1 DEF Emits, Types, DashTypes, Snaps
  <2>5. gap' \in [Browsers -> BOOLEAN] /\ raced' \in [Browsers -> BOOLEAN]
    BY <2>1 DEF Emits
  <2>6. /\ queue' \in [Browsers -> Seq(Diffs)]
        /\ \A b \in Browsers : Len(queue'[b]) <= QueueCap
    <3>1. ASSUME NEW b \in Browsers
          PROVE  queue'[b] \in Seq(Diffs) /\ Len(queue'[b]) <= QueueCap
      <4>1. queue[b] \in Seq(Diffs) /\ Len(queue[b]) <= QueueCap /\ Len(queue[b]) \in Nat
        BY DEF Types, DashTypes
      <4>2. \/ queue'[b] = <<>>
            \/ queue'[b] = queue[b]
            \/ queue'[b] = Append(queue[b], d) /\ ~(Len(queue[b]) >= QueueCap)
        BY <2>1 DEF Emits, Full
      <4>3. Append(queue[b], d) \in Seq(Diffs) /\ Len(Append(queue[b], d)) = Len(queue[b]) + 1
        BY <2>2, <4>1
      <4>4. queue'[b] \in Seq(Diffs)
        BY <4>1, <4>2, <4>3, EmptyOK
      <4>5. Len(queue'[b]) \in {0, Len(queue[b])}
            \/ (Len(queue'[b]) = Len(queue[b]) + 1 /\ Len(queue[b]) < QueueCap)
        BY <4>1, <4>2, <4>3, EmptyOK
      <4> QED
        BY <4>1, <4>4, <4>5
    <3> QED
      BY <2>1, <3>1 DEF Emits
  <2>7. DashTypes'
    BY <2>1, <2>4, <2>5, <2>6 DEF Emits, Types, DashTypes
  <2> QED
    BY <1>a, <1>n, <1>s, <2>1, <2>3, <2>7 DEF Emits, Types
<1>23. ASSUME NEW b \in Browsers, TakeSnapshot(b) PROVE Types'
  <2>1. <<index>> \in Snaps
    BY DEF Types, IndexTypes, Snaps
  <2>2. snap' \in [Browsers -> Snaps] /\ dash' \in [Browsers -> {"off", "snapped", "on"}]
    BY <1>23, <2>1 DEF TakeSnapshot, Types, DashTypes
  <2>3. raced' \in [Browsers -> BOOLEAN]
    <3>1. Stale(index, out) \in BOOLEAN
      BY DEF Stale
    <3> QED
      BY <1>23, <3>1 DEF TakeSnapshot, Types, DashTypes
  <2>4. DashTypes'
    BY <1>23, <2>2, <2>3 DEF TakeSnapshot, Types, DashTypes
  <2> QED
    BY <1>23, <1>a, <1>n, <1>s, <1>i, <2>4 DEF TakeSnapshot, Types
<1>24. ASSUME NEW b \in Browsers, RegisterDash(b) PROVE Types'
  <2>1. DashTypes'
    BY <1>24 DEF RegisterDash, Types, DashTypes
  <2> QED
    BY <1>24, <1>a, <1>n, <1>s, <1>i, <2>1 DEF RegisterDash, Types
<1>25. ASSUME NEW b \in Browsers, Receive(b) PROVE Types'
  <2>1. CASE snap[b] # <<>> /\ view' = [view EXCEPT ![b] = Head(snap[b])]
             /\ snap' = [snap EXCEPT ![b] = <<>>] /\ UNCHANGED queue
    <3>1. Head(snap[b]) \in Indexes
      BY <2>1 DEF Types, DashTypes, Snaps
    <3>2. view' \in [Browsers -> Indexes] /\ snap' \in [Browsers -> Snaps]
      BY <2>1, <3>1 DEF Types, DashTypes, Snaps
    <3>3. DashTypes'
      BY <1>25, <2>1, <3>2 DEF Receive, Types, DashTypes
    <3> QED
      BY <1>25, <1>a, <1>n, <1>s, <1>i, <3>3 DEF Receive, Types
  <2>2. CASE queue[b] # <<>> /\ view' = [view EXCEPT ![b] = ApplyDiff(view[b], Head(queue[b]))]
             /\ queue' = [queue EXCEPT ![b] = Tail(queue[b])] /\ UNCHANGED snap
    <3>1. /\ Head(queue[b]) \in Diffs /\ Tail(queue[b]) \in Seq(Diffs)
          /\ Len(Tail(queue[b])) <= QueueCap
      BY <2>2 DEF Types, DashTypes
    <3>2. ApplyDiff(view[b], Head(queue[b])) \in Indexes
      BY <3>1, ApplyValue DEF Types, DashTypes
    <3>3. DashTypes'
      BY <1>25, <2>2, <3>1, <3>2 DEF Receive, Types, DashTypes
    <3> QED
      BY <1>25, <1>a, <1>n, <1>s, <1>i, <3>3 DEF Receive, Types
  <2> QED
    BY <1>25, <2>1, <2>2 DEF Receive
<1>26. ASSUME NEW b \in Browsers, ReadFleet(b) PROVE Types'
  <2>1. [at |-> "read", rows |-> index] \in Pages
    BY DEF Pages, Types, IndexTypes
  <2>2. DashTypes'
    BY <1>26, <2>1 DEF ReadFleet, Types, DashTypes
  <2> QED
    BY <1>26, <1>a, <1>n, <1>s, <1>i, <2>2 DEF ReadFleet, Types
<1>27. ASSUME NEW b \in Browsers, HydrateFleet(b) PROVE Types'
  <2>1. [NoPage EXCEPT !.at = "applied"] \in Pages
    BY EmptyOK DEF NoPage, Pages
  <2>2. page' \in [Browsers -> Pages]
    BY <1>27, <2>1 DEF HydrateFleet, Types, DashTypes
  <2>3. page[b].rows \in Indexes /\ view[b] \in Indexes
    BY DEF Types, DashTypes, Pages
  <2>4. [mach |-> [m \in Machines |-> IF page[b].rows.mach[m] = "none"
                                      THEN view[b].mach[m] ELSE page[b].rows.mach[m]],
         sess |-> view[b].sess \cup page[b].rows.sess] \in Indexes
    BY <2>3 DEF Indexes
  <2>5. view' \in [Browsers -> Indexes]
    BY <1>27, <2>4 DEF HydrateFleet, Types, DashTypes
  <2>6. raced' \in [Browsers -> BOOLEAN]
    BY <1>27 DEF HydrateFleet, Types, DashTypes
  <2>7. DashTypes'
    BY <1>27, <2>2, <2>5, <2>6 DEF HydrateFleet, Types, DashTypes
  <2> QED
    BY <1>27, <1>a, <1>n, <1>s, <1>i, <2>7 DEF HydrateFleet, Types
<1>28. ASSUME NEW b \in Browsers, DashDrops(b) PROVE Types'
  <2>1. DashTypes'
    BY <1>28, EmptyOK DEF DashDrops, Types, DashTypes, Snaps
  <2> QED
    BY <1>28, <1>a, <1>n, <1>s, <1>i, <2>1 DEF DashDrops, Types
<1>29. CASE UNCHANGED vars
  BY <1>29, <1>a, <1>n, <1>s, <1>i, <1>d DEF vars, Types
<1> QED
  BY <1>1, <1>2, <1>3, <1>4, <1>5, <1>6, <1>7, <1>8, <1>9, <1>10, <1>11, <1>12, <1>13, <1>14,
     <1>15, <1>16, <1>17, <1>18, <1>19, <1>20, <1>21, <1>22, <1>23, <1>24, <1>25, <1>26, <1>27,
     <1>28, <1>29
  DEF Next, AgentStep, ConnStep, HubStep, HttpStep, DashStep, PageStep, Environment

-----------------------------------------------------------------------------
(***************************************************************************)
(* What is still to be broadcast.                                          *)
(***************************************************************************)
LEMMA OutInit == Init => OutInv
  BY DEF Init, OutInv, Goroutines

\* Goroutine g has changed the index and nothing else about out.
LEMMA ChangeOut ==
    ASSUME Types, NEW g, NEW idx, NEW ds, Change(g, idx, ds)
    PROVE  \A h \in Goroutines \ {g} : out'[h] = out[h]
  BY DEF Types, IndexTypes, Change, Mutate

LEMMA OutStep == Types /\ OutInv /\ [Next]_vars => OutInv'
<1> SUFFICES ASSUME Types, OutInv, [Next]_vars PROVE OutInv'
  OBVIOUS
<1> USE DEF agentVars, netVars, srvVars, dashVars, histVars, Goroutines
<1>1. CASE UNCHANGED <<stage, hub, http, out>>
  BY <1>1 DEF OutInv
<1>2. ASSUME NEW c \in Conns, NEW st \in Stages, stage' = [stage EXCEPT ![c] = st],
             st \in {"none", "accepting", "leaving"} => out'[c] = {},
             \A h \in Goroutines \ {c} : out'[h] = out[h], UNCHANGED <<hub, http>>
      PROVE  OutInv'
  <2>1. \A d \in Conns \ {c} : stage'[d] = stage[d] /\ out'[d] = out[d]
    BY <1>2 DEF Types, ServerTypes
  <2>2. stage'[c] = st
    BY <1>2 DEF Types, ServerTypes
  <2>3. out'[HubG] = out[HubG] /\ out'[HttpG] = out[HttpG]
    BY <1>2
  <2> QED
    BY <1>2, <2>1, <2>2, <2>3 DEF OutInv
<1>3. ASSUME NEW m \in Machines, NEW c \in Conns, Dial(m, c) PROVE OutInv'
  BY <1>2, <1>3 DEF Dial, Stages, OutInv
<1>4. ASSUME NEW c \in Conns, AcceptHello(c) PROVE OutInv'
  <2>1. CASE index' # index \/ out' # out \/ stage'[c] # "none"
    BY <1>2, <1>4, <2>1, AcceptChange, ChangeOut DEF AcceptHello, Stages
  <2>2. CASE stage'[c] = "none" /\ index' = index /\ out' = out
    <3>1. stage' = [stage EXCEPT ![c] = "none"] /\ stage[c] = "accepting"
      BY <1>4, <2>2 DEF AcceptHello, Types, ServerTypes
    <3> QED
      BY <1>2, <1>4, <2>2, <3>1 DEF AcceptHello, Stages, OutInv
  <2> QED
    BY <2>1, <2>2
<1>5. ASSUME NEW c \in Conns, AcceptFails(c) PROVE OutInv'
  BY <1>2, <1>5 DEF AcceptFails, Stages, OutInv
<1>6. ASSUME NEW c \in Conns, Register(c) PROVE OutInv'
  BY <1>2, <1>6 DEF Register, Stages, OutInv
<1>7. ASSUME NEW c \in Conns, ReadMessage(c) PROVE OutInv'
  <2>1. \A h \in Goroutines \ {c} : out'[h] = out[h]
    BY <1>7, ReadChange, ChangeOut
  <2> QED
    BY <1>7, <2>1 DEF ReadMessage, OutInv
<1>8. ASSUME NEW c \in Conns, ReadFails(c) PROVE OutInv'
  BY <1>2, <1>8 DEF ReadFails, Stages, OutInv
<1>9. ASSUME NEW c \in Conns, HandBack(c) PROVE OutInv'
  BY <1>9 DEF HandBack, IdleHub, OutInv, Types, ServerTypes
<1>10. ASSUME HubMarksOffline PROVE OutInv'
  <2>1. \A h \in Goroutines \ {HubG} : out'[h] = out[h]
    BY <1>10, OfflineChange, ChangeOut
  <2>2. hub'.at = "clear"
    BY <1>10 DEF HubMarksOffline, Types, ServerTypes, Tasks
  <2> QED
    BY <1>10, <2>1, <2>2 DEF HubMarksOffline, OutInv
<1>11. ASSUME HubClears PROVE OutInv'
  <2>1. \A h \in Goroutines \ {HubG} : out'[h] = out[h]
    BY <1>11, ClearChange, ChangeOut
  <2>2. hub'.at = "return"
    BY <1>11 DEF HubClears, Types, ServerTypes, Tasks
  <2> QED
    BY <1>11, <2>1, <2>2 DEF HubClears, OutInv
<1>12. ASSUME HubReturns PROVE OutInv'
  BY <1>12 DEF HubReturns, OutInv
<1>13. ASSUME NEW m \in Machines, NEW force \in BOOLEAN, DeleteStarts(m, force) PROVE OutInv'
  BY <1>13 DEF DeleteStarts, IdleHttp, OutInv
<1>14. ASSUME DeleteSessions PROVE OutInv'
  <2>1. \A h \in Goroutines \ {HttpG} : out'[h] = out[h]
    BY <1>14, SessionsChange, ChangeOut
  <2>2. http'.at = "machine"
    BY <1>14 DEF DeleteSessions, Types, ServerTypes, Tasks
  <2> QED
    BY <1>14, <2>1, <2>2 DEF DeleteSessions, OutInv
<1>15. ASSUME DeleteMachine PROVE OutInv'
  <2>1. \A h \in Goroutines \ {HttpG} : out'[h] = out[h]
    BY <1>15, MachineChange, ChangeOut
  <2>2. http'.at = "revoke"
    BY <1>15 DEF DeleteMachine, Types, ServerTypes, Tasks
  <2> QED
    BY <1>15, <2>1, <2>2 DEF DeleteMachine, OutInv
<1>16. ASSUME DeleteRevokes PROVE OutInv'
  BY <1>16 DEF DeleteRevokes, OutInv
<1>17. ASSUME ServerRestarts PROVE OutInv'
  BY <1>17 DEF ServerRestarts, OutInv
<1>18. ASSUME NEW g \in Goroutines, Emit(g) PROVE OutInv'
  <2>1. PICK d \in out[g] : Emits(g, d)
    BY <1>18, EmitFacts
  <2>2. \A h \in Goroutines : out[h] = {} => out'[h] = {}
    BY <2>1 DEF Emits, Types, IndexTypes
  <2> QED
    BY <2>1, <2>2 DEF Emits, OutInv
<1>19. ASSUME NEW m \in Machines, \/ \E s \in On(m) : Discover(m, s)
                                  \/ Heartbeat(m) \/ SayHello(m) \/ AgentNotices(m)
                                  \/ AgentRestarts(m) \/ Enroll(m)
       PROVE  OutInv'
  BY <1>1, <1>19 DEF Discover, Heartbeat, SayHello, AgentNotices, AgentRestarts, Enroll
<1>20. CASE \/ \E s \in Sessions : WorldChanges(MachineOf[s], s)
            \/ \E c \in Conns : Break(c)
            \/ \E b \in Browsers : DashStep(b) \/ PageStep(b) \/ DashDrops(b)
            \/ UNCHANGED vars
  BY <1>1, <1>20 DEF WorldChanges, Break, DashStep, PageStep, DashDrops, TakeSnapshot, RegisterDash,
                     Receive, ReadFleet, HydrateFleet, vars
<1> QED
  BY <1>3, <1>4, <1>5, <1>6, <1>7, <1>8, <1>9, <1>10, <1>11, <1>12, <1>13, <1>14, <1>15, <1>16,
     <1>17, <1>18, <1>19, <1>20
  DEF Next, AgentStep, ConnStep, HubStep, HttpStep, Environment

-----------------------------------------------------------------------------
(***************************************************************************)
(* A machine without a connection.                                         *)
(***************************************************************************)
LEMMA AttachedHeld ==
    ASSUME NEW m \in Machines
    PROVE  Attached(m) <=> Held(m) \/ (hub.at \in {"offline", "clear"} /\ hub.m = m)
  BY DEF Attached, Held

LEMMA OrphanInit == Init => OrphanInv
  BY DEF Init, OrphanInv, NoOrphans, EmptyIndex, ListedOn, IdleHub

\* The hub goroutine is where it was, no connection is handed back, and a
\* machine comes online or gets a session only through a connection.
LEMMA OrphanFrame ==
    ASSUME Types, OrphanInv, UNCHANGED hub,
           \A m \in Machines : Held(m) => Held(m)',
           \A m \in Machines : ~Held(m)' => /\ index'.mach[m] = "on" => index.mach[m] = "on"
                                            /\ ListedOn(m)' \subseteq ListedOn(m)
    PROVE  OrphanInv'
<1>1. ASSUME NEW m \in Machines, ~Attached(m)' PROVE index'.mach[m] # "on" /\ ListedOn(m)' = {}
  <2>1. ~Held(m)' /\ ~(hub.at \in {"offline", "clear"} /\ hub.m = m)
    BY <1>1 DEF Attached, Held
  <2>2. ~Attached(m)
    BY <2>1, AttachedHeld
  <2> QED
    BY <2>1, <2>2 DEF OrphanInv, NoOrphans
<1>2. hub.at = "clear" /\ ~Held(hub.m)' => index'.mach[hub.m] # "on"
  BY DEF OrphanInv, Types, ServerTypes
<1>3. NoOrphans'
  BY <1>1 DEF NoOrphans
<1> QED
  BY <1>2, <1>3 DEF OrphanInv, Held

LEMMA OrphanStep == Types /\ OutInv /\ OrphanInv /\ [Next]_vars => OrphanInv'
<1> SUFFICES ASSUME Types, OutInv, OrphanInv, [Next]_vars PROVE OrphanInv'
  OBVIOUS
<1> USE DEF agentVars, netVars, srvVars, dashVars, histVars
<1>0. index \in Indexes
  BY DEF Types, IndexTypes
<1>1. CASE UNCHANGED <<stage, hub, index>>
  <2>1. \A m \in Machines : (Held(m) => Held(m)') /\ ListedOn(m)' = ListedOn(m)
    BY <1>1 DEF Held, ListedOn
  <2> QED
    BY <1>1, <2>1, OrphanFrame
<1>2. ASSUME NEW c \in Conns, NEW st \in Stages, stage' = [stage EXCEPT ![c] = st],
             stage[c] \in {"none", "accepting"} \/ st \in {"greeting", "serving", "leaving"}
      PROVE  \A m \in Machines : Held(m) => Held(m)'
  <2>1. /\ \A d \in Conns \ {c} : stage'[d] = stage[d]
        /\ stage'[c] = st
    BY <1>2 DEF Types, ServerTypes
  <2> QED
    BY <1>2, <2>1 DEF Held, Slots
<1>3. ASSUME NEW c \in Conns, NEW st \in Stages, stage' = [stage EXCEPT ![c] = st],
             stage[c] \in {"none", "accepting"} \/ st \in {"greeting", "serving", "leaving"},
             UNCHANGED <<hub, index>>
      PROVE  OrphanInv'
  <2>1. \A m \in Machines : (Held(m) => Held(m)') /\ ListedOn(m)' = ListedOn(m)
    BY <1>2, <1>3 DEF ListedOn
  <2> QED
    BY <1>3, <2>1, OrphanFrame
<1>4. ASSUME NEW m \in Machines, NEW c \in Conns, Dial(m, c) PROVE OrphanInv'
  BY <1>3, <1>4 DEF Dial, Stages
<1>5. ASSUME NEW c \in Conns, AcceptHello(c) PROVE OrphanInv'
  <2>1. CASE index' # index \/ out' # out \/ stage'[c] # "none"
    <3>1. /\ index' = SetMachine(AgentOf[c], "on")
          /\ stage' = [stage EXCEPT ![c] = "greeting"]
      BY <1>5, <2>1, AcceptChange DEF Change, Mutate
    <3>2. \A m \in Machines : Held(m) => Held(m)'
      BY <1>2, <3>1 DEF Stages
    <3>3. Held(AgentOf[c])'
      BY <3>1 DEF Held, Slots, Types, ServerTypes
    <3>4. /\ \A m \in Machines \ {AgentOf[c]} : index'.mach[m] = index.mach[m]
          /\ index'.sess = index.sess
      BY <1>0, <3>1, IndexMach DEF SetMachine, MachineStates
    <3>5. \A m \in Machines : ListedOn(m)' = ListedOn(m)
      BY <3>4 DEF ListedOn
    <3> QED
      BY <1>5, <3>2, <3>3, <3>4, <3>5, OrphanFrame DEF AcceptHello
  <2>2. CASE stage'[c] = "none" /\ index' = index /\ out' = out
    <3>1. stage' = [stage EXCEPT ![c] = "none"] /\ stage[c] = "accepting"
      BY <1>5, <2>2 DEF AcceptHello, Types, ServerTypes
    <3> QED
      BY <1>3, <1>5, <2>2, <3>1 DEF AcceptHello, Stages
  <2> QED
    BY <2>1, <2>2
<1>6. ASSUME NEW c \in Conns, AcceptFails(c) \/ Register(c) \/ ReadFails(c) PROVE OrphanInv'
  BY <1>3, <1>6 DEF AcceptFails, Register, ReadFails, Stages
<1>7. ASSUME NEW c \in Conns, ReadMessage(c) PROVE OrphanInv'
  <2> DEFINE m == AgentOf[c]
  <2>1. Held(m) /\ \A n \in Machines : Held(n) => Held(n)'
    BY <1>7 DEF ReadMessage, Held, Slots
  <2>2. PICK msg \in MsgsOf(c) : index' = Applied(m, msg)
    BY <1>7 DEF ReadMessage, Mutate, Types, NetTypes
  <2>3. /\ \A n \in Machines \ {m} : index'.mach[n] = index.mach[n]
        /\ \A n \in Machines \ {m} : ListedOn(n)' \subseteq ListedOn(n)
    <3>1. CASE msg.t \in {"upsert", "removed"}
      <4>1. msg.s \in On(m)
        BY <3>1 DEF MsgsOf
      <4>2. PICK S \in SUBSET Sessions :
               index' = [index EXCEPT !.sess = S] /\ S \subseteq index.sess \cup {msg.s}
        <5>1. index.sess \cup {msg.s} \in SUBSET Sessions /\ index.sess \ {msg.s} \in SUBSET Sessions
          BY <1>0, <4>1 DEF Indexes, On
        <5> QED
          BY <2>2, <3>1, <5>1 DEF Applied
      <4>3. index'.mach = index.mach /\ index'.sess \subseteq index.sess \cup {msg.s}
        BY <1>0, <4>2, IndexSess
      <4> QED
        BY <4>1, <4>3 DEF ListedOn, On
    <3>2. CASE index' = SetMachine(m, "on")
      <4>1. /\ \A n \in Machines \ {m} : index'.mach[n] = index.mach[n]
            /\ index'.sess = index.sess
        BY <1>0, <3>2, IndexMach DEF SetMachine, MachineStates
      <4> QED
        BY <4>1 DEF ListedOn
    <3>3. CASE index' = index
      BY <3>3 DEF ListedOn
    <3> QED
      BY <2>2, <3>1, <3>2, <3>3 DEF Applied
  <2> QED
    BY <1>7, <2>1, <2>3, OrphanFrame DEF ReadMessage
<1>8. ASSUME NEW c \in Conns, HandBack(c) PROVE OrphanInv'
  <2>1. /\ stage' = [stage EXCEPT ![c] = "none"] /\ UNCHANGED index
        /\ hub'.at = "offline" /\ hub'.m = AgentOf[c] /\ hub.at = "idle"
    BY <1>8 DEF HandBack, IdleHub
  <2>2. ASSUME NEW m \in Machines, ~Attached(m)' PROVE ~Attached(m)
    <3>1. m # AgentOf[c]
      BY <2>1, <2>2 DEF Attached
    <3>2. \A d \in Slots(m) : stage'[d] = stage[d]
      BY <2>1, <3>1 DEF Slots, Types, ServerTypes
    <3> QED
      BY <2>1, <2>2, <3>2 DEF Attached
  <2> QED
    BY <2>1, <2>2 DEF OrphanInv, NoOrphans, ListedOn
<1>9. ASSUME HubMarksOffline PROVE OrphanInv'
  <2>1. /\ hub'.at = "clear" /\ hub'.m = hub.m /\ hub.at = "offline" /\ UNCHANGED stage
        /\ hub.m \in Machines
    BY <1>9 DEF HubMarksOffline, Types, ServerTypes, Tasks
  <2>2. index' = IF index.mach[hub.m] # "none" THEN SetMachine(hub.m, "off") ELSE index
    BY <1>9 DEF HubMarksOffline, Mutate
  <2>3. /\ index'.mach[hub.m] # "on" /\ index'.sess = index.sess
        /\ \A m \in Machines : index'.mach[m] = "on" => index.mach[m] = "on"
    <3>1. CASE index.mach[hub.m] # "none"
      BY <1>0, <2>1, <2>2, <3>1, IndexMach DEF SetMachine, MachineStates
    <3>2. CASE index.mach[hub.m] = "none"
      BY <2>2, <3>2
    <3> QED
      BY <3>1, <3>2
  <2>4. \A m \in Machines : Attached(m)' <=> Attached(m)
    BY <2>1 DEF Attached
  <2>5. NoOrphans'
    BY <2>3, <2>4 DEF OrphanInv, NoOrphans, ListedOn
  <2> QED
    BY <2>1, <2>3, <2>5 DEF OrphanInv
<1>10. ASSUME HubClears PROVE OrphanInv'
  <2>1. /\ hub'.at = "return" /\ hub.at = "clear" /\ UNCHANGED stage /\ hub.m \in Machines
    BY <1>10 DEF HubClears, Types, ServerTypes, Tasks
  <2>2. index' = [index EXCEPT !.sess = index.sess \ On(hub.m)]
    BY <1>10 DEF HubClears, Mutate
  <2>3. index'.mach = index.mach /\ index'.sess = index.sess \ On(hub.m)
    BY <1>0, <2>2, IndexSess DEF Indexes
  <2>4. ASSUME NEW m \in Machines, ~Attached(m)' PROVE index'.mach[m] # "on" /\ ListedOn(m)' = {}
    <3>1. ~Held(m)
      BY <2>1, <2>4 DEF Attached, Held
    <3>2. CASE m = hub.m
      BY <2>1, <2>3, <3>1, <3>2 DEF OrphanInv, ListedOn
    <3>3. CASE m # hub.m
      <4>1. ~Attached(m)
        BY <3>1, <3>3 DEF Attached, Held
      <4> QED
        BY <2>3, <4>1 DEF OrphanInv, NoOrphans, ListedOn
    <3> QED
      BY <3>2, <3>3
  <2> QED
    BY <2>1, <2>4 DEF OrphanInv, NoOrphans
<1>11. ASSUME HubReturns PROVE OrphanInv'
  <2>1. hub'.at = "idle" /\ hub.at = "return" /\ UNCHANGED <<stage, index>>
    BY <1>11 DEF HubReturns, IdleHub
  <2>2. \A m \in Machines : Attached(m)' <=> Attached(m)
    BY <2>1 DEF Attached
  <2> QED
    BY <2>1, <2>2 DEF OrphanInv, NoOrphans, ListedOn
<1>12. ASSUME DeleteSessions \/ DeleteMachine PROVE OrphanInv'
  <2>1. http.m \in Machines /\ UNCHANGED <<hub, stage>>
    BY <1>12 DEF DeleteSessions, DeleteMachine, Types, ServerTypes
  <2>2. \/ index' = [index EXCEPT !.sess = index.sess \ On(http.m)]
        \/ index' = SetMachine(http.m, "none")
    BY <1>12 DEF DeleteSessions, DeleteMachine, Mutate
  <2>3. /\ index'.sess \subseteq index.sess
        /\ \A m \in Machines : index'.mach[m] = "on" => index.mach[m] = "on"
    <3>1. CASE index' = [index EXCEPT !.sess = index.sess \ On(http.m)]
      BY <1>0, <3>1, IndexSess DEF Indexes
    <3>2. CASE index' = SetMachine(http.m, "none")
      BY <1>0, <2>1, <3>2, IndexMach DEF SetMachine, MachineStates
    <3> QED
      BY <2>2, <3>1, <3>2
  <2>4. \A m \in Machines : (Held(m) => Held(m)') /\ ListedOn(m)' \subseteq ListedOn(m)
    BY <2>1, <2>3 DEF Held, ListedOn
  <2> QED
    BY <2>1, <2>3, <2>4, OrphanFrame
<1>13. ASSUME ServerRestarts PROVE OrphanInv'
  BY <1>13 DEF ServerRestarts, OrphanInv, NoOrphans, EmptyIndex, ListedOn, IdleHub
<1>14. ASSUME NEW g \in Goroutines, Emit(g) PROVE OrphanInv'
  BY <1>1, <1>14 DEF Emit
<1>15. ASSUME NEW m \in Machines, \/ \E s \in On(m) : Discover(m, s)
                                  \/ Heartbeat(m) \/ SayHello(m) \/ AgentNotices(m)
                                  \/ AgentRestarts(m) \/ Enroll(m)
                                  \/ \E force \in BOOLEAN : DeleteStarts(m, force)
       PROVE  OrphanInv'
  BY <1>1, <1>15 DEF Discover, Heartbeat, SayHello, AgentNotices, AgentRestarts, Enroll, DeleteStarts
<1>16. CASE \/ \E s \in Sessions : WorldChanges(MachineOf[s], s)
            \/ \E c \in Conns : Break(c)
            \/ \E b \in Browsers : DashStep(b) \/ PageStep(b) \/ DashDrops(b)
            \/ DeleteRevokes
            \/ UNCHANGED vars
  BY <1>1, <1>16 DEF WorldChanges, Break, DashStep, PageStep, DashDrops, TakeSnapshot, RegisterDash,
                     Receive, ReadFleet, HydrateFleet, DeleteRevokes, vars
<1> QED
  BY <1>4, <1>5, <1>6, <1>7, <1>8, <1>9, <1>10, <1>11, <1>12, <1>13, <1>14, <1>15, <1>16
  DEF Next, AgentStep, ConnStep, HubStep, HttpStep, Environment

-----------------------------------------------------------------------------
(***************************************************************************)
(* The dashboards' copies.                                                 *)
(***************************************************************************)

\* What dashboard b has to rely on.
Exact(b) == dash[b] # "off" /\ ~gap[b] /\ ~raced[b]

LEMMA ViewInit == Init => ViewInv
  BY DEF Init, ViewInv

\* Nothing between the index and the dashboards changes.
LEMMA ViewFrame ==
    ASSUME ViewInv, UNCHANGED <<index, out, dash, queue, snap, view, gap, raced>>
    PROVE  ViewInv'
<1>1. Stale(index, out)' = Stale(index, out)
  BY DEF Stale
<1>2. \A e \in Entries : Pending(e) => Pending(e)'
  BY DEF Pending
<1>3. \A b \in Browsers : \A e \in Entries : ComesRight(b, e) => ComesRight(b, e)'
  BY DEF ComesRight, Base
<1> QED
  BY <1>1, <1>2, <1>3 DEF ViewInv, Stale

\* A change of the index: an entry that changes is pending, and the dashboards
\* are told when it makes another pending diff wrong.
LEMMA ViewChange ==
    ASSUME Types, ViewInv, NEW g, NEW idx, NEW ds, Change(g, idx, ds), UNCHANGED dashVars
    PROVE  ViewInv'
<1> USE DEF dashVars
<1>1. /\ index' = idx /\ out' = [out EXCEPT ![g] = ds] /\ UNCHANGED gap
      /\ \A b \in Browsers : raced'[b] <=> raced[b] \/ (dash[b] # "off" /\ Stale(idx, out'))
  BY DEF Change, Mutate
<1>2. out'[g] = ds /\ \A h \in Goroutines \ {g} : out'[h] = out[h]
  BY <1>1, ChangeOut DEF Change, Types, IndexTypes
<1>3. \A e \in Entries : Pending(e) => Pending(e)'
  BY <1>2 DEF Pending, Change
<1>4. ASSUME NEW e \in Entries, ~Pending(e)' PROVE Value(index', e) = Value(index, e)
  <2>1. \A d \in ds : ~Touches(d, e)
    BY <1>2, <1>4 DEF Pending, Change
  <2> QED
    BY <1>1, <2>1 DEF Change, Covers
<1>5. ASSUME NEW b \in Browsers, NEW e \in Entries, ComesRight(b, e), ~Pending(e)'
      PROVE  ComesRight(b, e)'
  BY <1>4, <1>5 DEF ComesRight, Base
<1>6. ASSUME NEW b \in Browsers, dash'[b] # "off", ~gap'[b], ~raced'[b]
      PROVE  /\ ~Stale(index', out')
             /\ \A e \in Entries : Pending(e)' \/ ComesRight(b, e)'
  <2>1. ~Stale(index', out') /\ ~raced[b]
    BY <1>1, <1>6
  <2>2. \A e \in Entries : Pending(e) \/ ComesRight(b, e)
    BY <1>1, <1>6, <2>1 DEF ViewInv
  <2> QED
    BY <1>3, <1>5, <2>1, <2>2
<1> QED
  BY <1>6 DEF ViewInv, Stale

\* Appending d to the queue, when d says what the index has.
LEMMA QueueGrows ==
    ASSUME NEW q \in Seq(Diffs), NEW d \in Diffs
    PROVE  /\ DOMAIN Append(q, d) = 1 .. (Len(q) + 1) /\ DOMAIN q = 1 .. Len(q)
           /\ Append(q, d)[Len(q) + 1] = d
           /\ \A i \in 1 .. Len(q) : Append(q, d)[i] = q[i]
           /\ Len(q) \in Nat
  OBVIOUS

LEMMA QueueShrinks ==
    ASSUME NEW q \in Seq(Diffs), q # <<>>
    PROVE  /\ Len(q) \in Nat \ {0} /\ DOMAIN q = 1 .. Len(q) /\ Head(q) = q[1] /\ Head(q) \in Diffs
           /\ DOMAIN Tail(q) = 1 .. (Len(q) - 1)
           /\ \A i \in 1 .. (Len(q) - 1) : Tail(q)[i] = q[i + 1]
  OBVIOUS

LEMMA ViewEmit ==
    ASSUME Types, ViewInv, NEW g \in Goroutines, NEW d \in out[g], Emits(g, d)
    PROVE  ViewInv'
<1>1. /\ d \in Diffs /\ index \in Indexes /\ UNCHANGED <<index, view>>
      /\ out'[g] = out[g] \ {d} /\ \A h \in Goroutines \ {g} : out'[h] = out[h]
  BY DEF Types, IndexTypes, Emits
<1>2. ASSUME NEW e \in Entries, Pending(e), ~Touches(d, e) PROVE Pending(e)'
  BY <1>1, <1>2 DEF Pending
<1>3. Stale(index', out') => Stale(index, out)
  BY <1>1 DEF Stale
<1>4. ASSUME NEW b \in Browsers, Exact(b)'
      PROVE  /\ Exact(b) /\ dash[b] = "on" /\ snap'[b] = snap[b] /\ queue'[b] = Append(queue[b], d)
             /\ queue[b] \in Seq(Diffs)
  BY <1>4 DEF Exact, Emits, Types, DashTypes
<1>5. ASSUME NEW b \in Browsers, Exact(b)', NEW e \in Entries
      PROVE  Pending(e)' \/ ComesRight(b, e)'
  <2>1. ~Stale(index, out) /\ (Pending(e) \/ ComesRight(b, e))
    BY <1>4, <1>5 DEF ViewInv, Exact
  <2>2. CASE Touches(d, e)
    <3>1. ApplyDiff(index, d) = index
      BY <2>1 DEF Stale
    <3>2. Written(d) = Value(index, e)
      BY <1>1, <2>2, <3>1, ApplyValue
    <3>3. /\ Len(queue[b]) + 1 \in DOMAIN queue'[b] /\ queue'[b][Len(queue[b]) + 1] = d
          /\ \A j \in DOMAIN queue'[b] : ~(j > Len(queue[b]) + 1)
      BY <1>1, <1>4, <1>5, QueueGrows
    <3> QED
      BY <1>1, <2>2, <3>2, <3>3 DEF ComesRight
  <2>3. CASE ~Touches(d, e) /\ Pending(e)
    BY <1>2, <2>3
  <2>4. CASE ~Touches(d, e) /\ ComesRight(b, e)
    <3>1. /\ \A i \in DOMAIN queue[b] : i \in DOMAIN queue'[b] /\ queue'[b][i] = queue[b][i]
          /\ \A i \in DOMAIN queue'[b] : i \in DOMAIN queue[b] \/ queue'[b][i] = d
      BY <1>1, <1>4, <1>5, QueueGrows
    <3>2. Base(b)' = Base(b)
      BY <1>1, <1>4, <1>5 DEF Base
    <3>3. CASE \A i \in DOMAIN queue[b] : ~Touches(queue[b][i], e)
      BY <1>1, <2>4, <3>1, <3>2, <3>3 DEF ComesRight
    <3>4. CASE \E i \in DOMAIN queue[b] : Touches(queue[b][i], e)
      <4>1. PICK i \in DOMAIN queue[b] :
               /\ Touches(queue[b][i], e) /\ Written(queue[b][i]) = Value(index, e)
               /\ \A j \in DOMAIN queue[b] : j > i => ~Touches(queue[b][j], e)
        BY <2>4, <3>4 DEF ComesRight
      <4>2. \A j \in DOMAIN queue'[b] : j > i => ~Touches(queue'[b][j], e)
        BY <2>4, <3>1, <4>1
      <4> QED
        BY <1>1, <3>1, <4>1, <4>2 DEF ComesRight
    <3> QED
      BY <3>3, <3>4
  <2> QED
    BY <2>1, <2>2, <2>3, <2>4
<1>6. ASSUME NEW b \in Browsers, dash'[b] = "off" PROVE queue'[b] = <<>> /\ snap'[b] = <<>>
  BY <1>6 DEF ViewInv, Emits, Full
<1>7. ASSUME NEW b \in Browsers, Exact(b)' PROVE ~Stale(index', out')
  BY <1>3, <1>4, <1>7 DEF ViewInv, Exact
<1> QED
  BY <1>5, <1>6, <1>7 DEF ViewInv, Exact, Stale

LEMMA ViewReceive ==
    ASSUME Types, ViewInv, NEW b \in Browsers, Receive(b)
    PROVE  ViewInv'
<1> USE DEF agentVars, netVars, srvVars, histVars
<1>1. UNCHANGED <<index, out, dash, gap, raced>> /\ dash[b] = "on"
  BY DEF Receive
<1>2. \A c \in Browsers \ {b} : queue'[c] = queue[c] /\ snap'[c] = snap[c] /\ view'[c] = view[c]
  BY DEF Receive, Types, DashTypes
<1>3. ASSUME NEW c \in Browsers \ {b}, NEW e \in Entries, ComesRight(c, e) PROVE ComesRight(c, e)'
  BY <1>1, <1>2, <1>3 DEF ComesRight, Base
<1>4. ASSUME NEW e \in Entries, ComesRight(b, e) PROVE ComesRight(b, e)'
  <2>1. CASE snap[b] # <<>>
    <3>1. queue'[b] = queue[b] /\ Base(b)' = Base(b)
      BY <2>1 DEF Receive, Base, Types, DashTypes
    <3> QED
      BY <1>1, <1>4, <3>1 DEF ComesRight
  <2>2. CASE snap[b] = <<>>
    <3>1. /\ queue[b] # <<>> /\ queue'[b] = Tail(queue[b]) /\ queue[b] \in Seq(Diffs)
          /\ view'[b] = ApplyDiff(view[b], Head(queue[b])) /\ view[b] \in Indexes
          /\ snap'[b] = <<>>
      BY <2>2 DEF Receive, Types, DashTypes
    <3>2. Base(b) = view[b] /\ Base(b)' = view'[b]
      BY <2>2, <3>1 DEF Base
    <3>3. /\ Len(queue[b]) \in Nat \ {0} /\ DOMAIN queue[b] = 1 .. Len(queue[b])
          /\ DOMAIN queue'[b] = 1 .. (Len(queue[b]) - 1)
          /\ \A i \in DOMAIN queue'[b] : i + 1 \in DOMAIN queue[b] /\ queue'[b][i] = queue[b][i + 1]
          /\ queue[b][1] = Head(queue[b])
      BY <3>1, QueueShrinks
    <3>4. Value(view'[b], e) = IF Touches(queue[b][1], e) THEN Written(queue[b][1])
                               ELSE Value(view[b], e)
      BY <3>1, QueueShrinks, ApplyValue
    <3>5. CASE \A i \in DOMAIN queue[b] : ~Touches(queue[b][i], e)
      <4>1. Value(view[b], e) = Value(index, e)
        BY <1>4, <3>2, <3>5 DEF ComesRight
      <4>2. ~Touches(queue[b][1], e) /\ \A i \in DOMAIN queue'[b] : ~Touches(queue'[b][i], e)
        BY <3>3, <3>5
      <4> QED
        BY <1>1, <3>2, <3>4, <4>1, <4>2 DEF ComesRight
    <3>6. CASE \E i \in DOMAIN queue[b] : Touches(queue[b][i], e)
      <4>1. PICK i \in DOMAIN queue[b] :
               /\ Touches(queue[b][i], e) /\ Written(queue[b][i]) = Value(index, e)
               /\ \A j \in DOMAIN queue[b] : j > i => ~Touches(queue[b][j], e)
        BY <1>4, <3>6 DEF ComesRight
      <4>2. CASE i = 1
        <5>1. \A j \in DOMAIN queue'[b] : ~Touches(queue'[b][j], e)
          BY <3>3, <4>1, <4>2
        <5> QED
          BY <1>1, <3>2, <3>4, <4>1, <4>2, <5>1 DEF ComesRight
      <4>3. CASE i # 1
        <5>1. i - 1 \in DOMAIN queue'[b] /\ queue'[b][i - 1] = queue[b][i]
          BY <3>3, <4>1, <4>3
        <5>2. \A j \in DOMAIN queue'[b] : j > i - 1 => ~Touches(queue'[b][j], e)
          BY <3>3, <4>1
        <5> QED
          BY <1>1, <4>1, <5>1, <5>2 DEF ComesRight
      <4> QED
        BY <4>2, <4>3
    <3> QED
      BY <3>5, <3>6
  <2> QED
    BY <2>1, <2>2
<1>5. \A e \in Entries : Pending(e) => Pending(e)'
  BY <1>1 DEF Pending
<1>6. Stale(index', out') => Stale(index, out)
  BY <1>1
<1> QED
  BY <1>1, <1>2, <1>3, <1>4, <1>5, <1>6 DEF ViewInv, Stale

LEMMA ViewHydrate ==
    ASSUME Types, ViewInv, NEW b \in Browsers, HydrateFleet(b)
    PROVE  ViewInv'
<1> USE DEF agentVars, netVars, srvVars, histVars
<1>1. /\ UNCHANGED <<index, out, dash, queue, snap, gap>>
      /\ \A c \in Browsers \ {b} : view'[c] = view[c] /\ raced'[c] = raced[c]
      /\ raced'[b] <=> raced[b] \/ page[b].rows # index
  BY DEF HydrateFleet, Types, DashTypes
<1>2. ASSUME page[b].rows = index, NEW e \in Entries, Value(view[b], e) = Value(index, e)
      PROVE  Value(view'[b], e) = Value(index, e)
  <2>1. view'[b] = [mach |-> [m \in Machines |-> IF index.mach[m] = "none"
                                                THEN view[b].mach[m] ELSE index.mach[m]],
                    sess |-> view[b].sess \cup index.sess]
    BY <1>2 DEF HydrateFleet, Types, DashTypes
  <2>2. CASE e.k = "mach"
    BY <1>2, <2>1, <2>2 DEF Value, Entries
  <2>3. CASE e.k = "sess"
    BY <1>2, <2>1, <2>3 DEF Value, Entries
  <2> QED
    BY <2>2, <2>3 DEF Entries
<1>3. ASSUME NEW c \in Browsers, NEW e \in Entries, ComesRight(c, e), ~raced'[c]
      PROVE  ComesRight(c, e)'
  <2>1. CASE c # b \/ snap[c] # <<>>
    <3>1. Base(c)' = Base(c)
      BY <1>1, <2>1 DEF Base
    <3> QED
      BY <1>1, <1>3, <3>1 DEF ComesRight
  <2>2. CASE c = b /\ snap[c] = <<>>
    <3>1. Base(b) = view[b] /\ Base(b)' = view'[b] /\ page[b].rows = index
      BY <1>1, <1>3, <2>2 DEF Base
    <3> QED
      BY <1>1, <1>2, <1>3, <2>2, <3>1 DEF ComesRight
  <2> QED
    BY <2>1, <2>2
<1>4. \A e \in Entries : Pending(e) => Pending(e)'
  BY <1>1 DEF Pending
<1>5. \A c \in Browsers : ~raced'[c] => ~raced[c]
  BY <1>1
<1> QED
  BY <1>1, <1>3, <1>4, <1>5 DEF ViewInv, Stale

LEMMA ViewStep == Types /\ OutInv /\ ViewInv /\ [Next]_vars => ViewInv'
<1> SUFFICES ASSUME Types, OutInv, ViewInv, [Next]_vars PROVE ViewInv'
  OBVIOUS
<1> USE DEF agentVars, netVars, srvVars, dashVars, histVars
<1>1. ASSUME NEW c \in Conns, AcceptHello(c) PROVE ViewInv'
  <2>1. CASE index' # index \/ out' # out \/ stage'[c] # "none"
    BY <1>1, <2>1, AcceptChange, ViewChange DEF AcceptHello
  <2>2. CASE stage'[c] = "none" /\ index' = index /\ out' = out
    <3>1. UNCHANGED histVars
      BY <1>1, <2>2 DEF AcceptHello, Types, ServerTypes
    <3> QED
      BY <1>1, <2>2, <3>1, ViewFrame DEF AcceptHello
  <2> QED
    BY <2>1, <2>2
<1>2. ASSUME NEW c \in Conns, ReadMessage(c) PROVE ViewInv'
  BY <1>2, ReadChange, ViewChange DEF ReadMessage
<1>3. ASSUME HubMarksOffline PROVE ViewInv'
  BY <1>3, OfflineChange, ViewChange DEF HubMarksOffline
<1>4. ASSUME HubClears PROVE ViewInv'
  BY <1>4, ClearChange, ViewChange DEF HubClears
<1>5. ASSUME DeleteSessions PROVE ViewInv'
  BY <1>5, SessionsChange, ViewChange DEF DeleteSessions
<1>6. ASSUME DeleteMachine PROVE ViewInv'
  BY <1>6, MachineChange, ViewChange DEF DeleteMachine
<1>7. ASSUME ServerRestarts PROVE ViewInv'
  BY <1>7 DEF ServerRestarts, ViewInv
<1>8. ASSUME NEW g \in Goroutines, Emit(g) PROVE ViewInv'
  BY <1>8, EmitFacts, ViewEmit
<1>9. ASSUME NEW b \in Browsers, TakeSnapshot(b) PROVE ViewInv'
  <2>1. /\ UNCHANGED <<index, out, queue, view, gap>> /\ dash[b] = "off"
        /\ dash'[b] = "snapped" /\ snap'[b] = <<index>> /\ (raced'[b] <=> Stale(index, out))
        /\ \A c \in Browsers \ {b} : dash'[c] = dash[c] /\ snap'[c] = snap[c] /\ raced'[c] = raced[c]
    BY <1>9 DEF TakeSnapshot, Types, DashTypes
  <2>2. ASSUME NEW c \in Browsers \ {b}, NEW e \in Entries, ComesRight(c, e) PROVE ComesRight(c, e)'
    BY <2>1, <2>2 DEF ComesRight, Base
  <2>3. queue'[b] = <<>> /\ Base(b)' = index
    BY <2>1 DEF ViewInv, Base
  <2>4. ASSUME NEW e \in Entries PROVE ComesRight(b, e)'
    BY <2>1, <2>3 DEF ComesRight
  <2>5. \A e \in Entries : Pending(e) => Pending(e)'
    BY <2>1 DEF Pending
  <2> QED
    BY <2>1, <2>2, <2>4, <2>5 DEF ViewInv, Stale
<1>10. ASSUME NEW b \in Browsers, RegisterDash(b) PROVE ViewInv'
  <2>1. /\ UNCHANGED <<index, out, queue, view, snap, gap, raced>> /\ dash[b] # "off"
        /\ dash'[b] # "off" /\ \A c \in Browsers \ {b} : dash'[c] = dash[c]
    BY <1>10 DEF RegisterDash, Types, DashTypes
  <2>2. \A c \in Browsers, e \in Entries : ComesRight(c, e) => ComesRight(c, e)'
    BY <2>1 DEF ComesRight, Base
  <2>3. \A e \in Entries : Pending(e) => Pending(e)'
    BY <2>1 DEF Pending
  <2> QED
    BY <2>1, <2>2, <2>3 DEF ViewInv, Stale
<1>11. ASSUME NEW b \in Browsers, Receive(b) PROVE ViewInv'
  BY <1>11, ViewReceive
<1>12. ASSUME NEW b \in Browsers, HydrateFleet(b) PROVE ViewInv'
  BY <1>12, ViewHydrate
<1>13. ASSUME NEW b \in Browsers, DashDrops(b) PROVE ViewInv'
  <2>1. /\ UNCHANGED <<index, out, view>>
        /\ dash'[b] = "off" /\ queue'[b] = <<>> /\ snap'[b] = <<>>
        /\ \A c \in Browsers \ {b} : /\ dash'[c] = dash[c] /\ snap'[c] = snap[c]
                                     /\ queue'[c] = queue[c]
                                     /\ gap'[c] = gap[c] /\ raced'[c] = raced[c]
    BY <1>13 DEF DashDrops, Types, DashTypes
  <2>2. ASSUME NEW c \in Browsers \ {b}, NEW e \in Entries, ComesRight(c, e) PROVE ComesRight(c, e)'
    BY <2>1, <2>2 DEF ComesRight, Base
  <2>3. \A e \in Entries : Pending(e) => Pending(e)'
    BY <2>1 DEF Pending
  <2> QED
    BY <2>1, <2>2, <2>3 DEF ViewInv, Stale
<1>14. ASSUME NEW m \in Machines, \/ \E s \in On(m) : Discover(m, s)
                                  \/ Heartbeat(m) \/ SayHello(m) \/ AgentNotices(m)
                                  \/ AgentRestarts(m) \/ Enroll(m)
                                  \/ \E c \in Conns : Dial(m, c)
                                  \/ \E force \in BOOLEAN : DeleteStarts(m, force)
       PROVE  ViewInv'
  BY <1>14, ViewFrame
     DEF Discover, Heartbeat, SayHello, AgentNotices, AgentRestarts, Enroll, Dial, DeleteStarts
<1>15. ASSUME NEW c \in Conns, \/ AcceptFails(c) \/ Register(c) \/ ReadFails(c) \/ HandBack(c)
                               \/ Break(c)
       PROVE  ViewInv'
  BY <1>15, ViewFrame DEF AcceptFails, Register, ReadFails, HandBack, Break
<1>16. CASE \/ \E s \in Sessions : WorldChanges(MachineOf[s], s)
            \/ \E b \in Browsers : ReadFleet(b)
            \/ HubReturns \/ DeleteRevokes
            \/ UNCHANGED vars
  BY <1>16, ViewFrame DEF WorldChanges, ReadFleet, HubReturns, DeleteRevokes, vars
<1> QED
  BY <1>1, <1>2, <1>3, <1>4, <1>5, <1>6, <1>7, <1>8, <1>9, <1>10, <1>11, <1>12, <1>13, <1>14,
     <1>15, <1>16
  DEF Next, AgentStep, ConnStep, HubStep, HttpStep, DashStep, PageStep, Environment

-----------------------------------------------------------------------------
(***************************************************************************)
(* The theorems.                                                           *)
(***************************************************************************)

\* The inductive invariant of the server's handlers (ws.go, agent_handler.go,
\* handlers.go) and the dashboards' store (live.ts) at every interleaving.
THEOREM Inductive == Spec => []IInv
<1>1. Init => IInv
  BY TypesInit, OutInit, OrphanInit, ViewInit DEF IInv
<1>2. IInv /\ [Next]_vars => IInv'
  BY TypesStep, OutStep, OrphanStep, ViewStep DEF IInv
<1> QED
  BY <1>1, <1>2, PTL DEF Spec

\* However agents, connections, handlers, dashboards and restarts interleave,
\* the state of the server, the agents and the dashboards keeps its type, and
\* neither a pipe nor a send buffer (Client.enqueue) exceeds its capacity.
THEOREM LiveIndexTypes == Spec => []TypeOK
<1>1. IInv => TypeOK
  BY DEF IInv, Types, AgentTypes, NetTypes, ServerTypes, IndexTypes, DashTypes, Tasks, HubAts,
         HttpAts, Pages, Snaps, TypeOK
<1> QED
  BY <1>1, Inductive, PTL

\* onUnregister, run by the hub goroutine for every connection that ends,
\* leaves no machine online and no session listed without a connection, for
\* any number of connections of a machine that overlap, and whatever
\* handleDeleteMachine does at the same time.
THEOREM OrphanCorrect == Spec => []NoOrphans
<1>1. IInv => NoOrphans
  BY DEF IInv, OrphanInv
<1> QED
  BY <1>1, Inductive, PTL

\* A dashboard that replays the snapshot and every later diff (live.ts,
\* applyMessage) ends up with the index, for any number of machines, sessions
\* and goroutines that change it, unless a diff fell into the gap of handleWS
\* or was out of date when it was broadcast.
THEOREM ViewCorrect == Spec => []ViewExact
<1>1. ASSUME IInv PROVE ViewExact
  <2> SUFFICES ASSUME NEW b \in Browsers, Settled(b), ~gap[b], ~raced[b] PROVE view[b] = index
    BY DEF ViewExact
  <2>1. \A e \in Entries : ~Pending(e)
    BY DEF Settled, Pending
  <2>2. \A e \in Entries : ComesRight(b, e)
    BY <1>1, <2>1 DEF IInv, ViewInv, Settled
  <2>3. \A e \in Entries : Value(view[b], e) = Value(index, e)
    BY <2>2 DEF ComesRight, Base, Settled
  <2>4. view[b] \in Indexes /\ index \in Indexes
    BY <1>1 DEF IInv, Types, DashTypes, IndexTypes
  <2> QED
    BY <2>3, <2>4, SameIndex
<1> QED
  BY <1>1, Inductive, PTL
=============================================================================
