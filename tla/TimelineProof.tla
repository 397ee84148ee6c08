---------------------------- MODULE TimelineProof ----------------------------
(***************************************************************************)
(* Proofs about the activity timeline, for every number of connections,    *)
(* events, restarts and every size of the ring, the buffers and the list   *)
(* of the dashboard.                                                       *)
(***************************************************************************)
EXTENDS Timeline, TLAPS, FiniteSetTheorems, SequenceTheorems

USE TimelineAssumption

-----------------------------------------------------------------------------
(***************************************************************************)
(* The inductive invariant. An event has one place: it waits on the        *)
(* connection it was reported on, or the goroutine of that connection      *)
(* records it, or it is past. The goroutine of an event is part of the     *)
(* event (via), so the order on one connection carries over to the ring    *)
(* and, message by message, to the dashboard.                              *)
(***************************************************************************)
Members == Statuses \cup {Absent}

\* What happened to the session is reported on a connection, or lost.
Events ==
    {e \in [kind : Kinds, from : Members, to : Members, via : Goroutines \cup {NoConn}] :
        e.kind \in SessionKinds => e.via \in Conns \cup {NoConn}}

Stages  == {"free", "dialed", "hello", "open", "ended"}
Records == [at : 0 .. 3, id : 0 .. MaxEvents]
Lists   == {<<"snapshot", s>> : s \in Seq(Ids)}
News    == {<<id>> : id \in Ids}

AgentTypes ==
    /\ known \in Members /\ cur \in Conns \cup {NoConn} /\ acted \subseteq Ids
    /\ plan \in Plans /\ boots \in 0 .. MaxBoots /\ cut \in BOOLEAN

LogTypes == log \in Seq(Events) /\ Len(log) <= MaxEvents

NetTypes ==
    /\ conn \in [Conns -> Stages] /\ broken \subseteq Conns /\ agents \in Conns \cup {NoConn}
    /\ up \in [Conns -> Seq(Ids)] /\ down \in [Conns -> Seq(Ids)]
    /\ \A c \in Conns : Len(up[c]) <= WireCap /\ Len(down[c]) <= WireCap

\* A goroutine that records nothing is at event 0.
RecTypes ==
    /\ rec \in [Goroutines -> Records]
    /\ \A g \in Goroutines : rec[g].at = 0 <=> rec[g].id = 0

DbTypes ==
    /\ stored \subseteq Ids /\ files \subseteq Ids /\ pruned \subseteq Ids
    /\ unsaved \subseteq Ids /\ sent \subseteq Ids

RingTypes == ring \in Seq(Ids) /\ Len(ring) <= RingCap

DashTypes ==
    /\ dash \in {"off", "snapped", "live"} /\ missed \subseteq Ids
    /\ inbox \in Seq(Lists \cup News) /\ Len(inbox) <= InboxCap
    /\ shown \in Seq(Ids) /\ Len(shown) <= MaxShown

Types == /\ AgentTypes /\ LogTypes /\ NetTypes /\ RecTypes /\ DbTypes
         /\ RingTypes /\ DashTypes

\* Events that exist, events of the session, events a dashboard was or can be
\* told of, events whose saving was tried.
Born == 1 .. Len(log)
Sess(i) == log[i].kind \in SessionKinds
MsgIds(m) == IF Len(m) = 2 THEN Range(m[2]) ELSE {m[1]}
Told == Range(shown) \cup UNION {MsgIds(inbox[k]) : k \in DOMAIN inbox}
Seen == Range(ring) \cup Told
Saved == stored \cup pruned \cup unsaved

BornInv ==
    /\ \A c \in Conns : Range(up[c]) \subseteq Born
    /\ \A g \in Goroutines : rec[g].at > 0 => rec[g].id \in Born
    /\ Seen \subseteq Born /\ Saved \subseteq Born

\* What is on the way was reported on that connection, in order.
WireInv ==
    /\ \A c \in Conns : \A k \in DOMAIN up[c] : Sess(up[c][k]) /\ log[up[c][k]].via = c
    /\ \A c \in Conns : \A k, l \in DOMAIN up[c] : k < l => up[c][k] < up[c][l]
    /\ \A g \in Goroutines : rec[g].at > 0 => log[rec[g].id].via = g
    /\ \A c \in Conns : rec[c].at > 0 /\ Sess(rec[c].id) =>
          \A k \in DOMAIN up[c] : rec[c].id < up[c][k]
    /\ \A c \in Conns : conn[c] \in {"free", "dialed", "ended"} => rec[c] = Idle

\* Event j is not later than what its connection still has to deliver.
Past(j) ==
    \A c \in Conns : Sess(j) /\ log[j].via = c =>
        /\ \A k \in DOMAIN up[c] : j < up[c][k]
        /\ rec[c].at > 0 /\ Sess(rec[c].id) => j <= rec[c].id

PastInv ==
    /\ \A j \in Seen : Past(j)
    /\ \A g \in Goroutines : rec[g].at \in {1, 2} => rec[g].id \notin Range(ring)

NotAfter(i, j) == Sess(i) /\ Sess(j) /\ log[i].via = log[j].via => i <= j
Ascends(s)  == \A i, j \in DOMAIN s : i < j => NotAfter(s[i], s[j])
Descends(s) == \A i, j \in DOMAIN s : i < j => NotAfter(s[j], s[i])

\* No event twice, and those of one connection in order: in the ring, on the
\* screen, in a snapshot on its way; what follows continues it.
OrderInv ==
    /\ IsInjective(ring) /\ Ascends(ring)
    /\ IsInjective(shown) /\ Descends(shown)
    /\ \A k \in DOMAIN inbox : inbox[k] \in Lists =>
          k = 1 /\ IsInjective(inbox[k][2]) /\ Descends(inbox[k][2])
    /\ \A k, l \in DOMAIN inbox : k < l =>
          \A i \in MsgIds(inbox[k]), j \in MsgIds(inbox[l]) : NotAfter(i, j)
    /\ \A k \in DOMAIN inbox : inbox[1] \notin Lists =>
          \A i \in Range(shown), j \in MsgIds(inbox[k]) : NotAfter(i, j)

SavedInv ==
    /\ Seen \subseteq Saved
    /\ \A g \in Goroutines : rec[g].at >= 2 => rec[g].id \in Saved

AuditInv ==
    /\ acted \subseteq sent /\ \A c \in Conns : Range(down[c]) \subseteq sent
    /\ sent \cup files \subseteq Saved \cup Recording
    /\ \A i \in Born : /\ log[i].kind = "command" => i \in sent
                       /\ log[i].kind = "file" => i \in files

\* v is where the events of the session before the n-th event left it.
LeftAt(v, n) ==
    \/ v = Absent /\ \A j \in 1 .. n - 1 : ~Sess(j)
    \/ \E m \in 1 .. n - 1 : /\ Sess(m) /\ log[m].to = v
                             /\ \A j \in m + 1 .. n - 1 : ~Sess(j)

Placed(i) ==
    i \in stored \cup pruned \cup Recording \/ \E c \in Conns : i \in Range(up[c])

\* While nothing was lost the log is one chain, and each of its events is
\* stored, being recorded, or on its way.
ChainInv ==
    ~cut =>
        /\ \A i \in Born : Sess(i) => LeftAt(log[i].from, i)
        /\ LeftAt(known, Len(log) + 1)
        /\ unsaved = {}
        /\ \A i \in Born : Sess(i) => Placed(i)

IInv == /\ Types /\ BornInv /\ WireInv /\ PastInv /\ OrderInv /\ SavedInv
        /\ AuditInv /\ ChainInv

-----------------------------------------------------------------------------
(***************************************************************************)
(* Sequences.                                                              *)
(***************************************************************************)
LEMMA AppendFacts ==
    ASSUME NEW S, NEW q \in Seq(S), NEW e \in S
    PROVE  /\ Append(q, e) \in Seq(S) /\ Len(q) \in Nat /\ Len(Append(q, e)) = Len(q) + 1
           /\ DOMAIN q = 1 .. Len(q) /\ DOMAIN Append(q, e) = 1 .. (Len(q) + 1)
           /\ Append(q, e)[Len(q) + 1] = e
           /\ \A i \in 1 .. Len(q) : Append(q, e)[i] = q[i]
  OBVIOUS

\* The rest of a sequence is shifted by one.
LEMMA TailFacts ==
    ASSUME NEW S, NEW q \in Seq(S), q # <<>>
    PROVE  /\ Tail(q) \in Seq(S) /\ Len(q) \in Nat \ {0} /\ Len(Tail(q)) = Len(q) - 1
           /\ DOMAIN q = 1 .. Len(q) /\ DOMAIN Tail(q) = 1 .. (Len(q) - 1)
           /\ Head(q) = q[1] /\ Head(q) \in S
           /\ \A i \in 1 .. (Len(q) - 1) : Tail(q)[i] = q[i + 1]
  OBVIOUS

\* A beginning of a sequence.
LEMMA PrefixFacts ==
    ASSUME NEW S, NEW q \in Seq(S), NEW k \in 0 .. Len(q)
    PROVE  /\ SubSeq(q, 1, k) \in Seq(S) /\ Len(SubSeq(q, 1, k)) = k
           /\ DOMAIN q = 1 .. Len(q) /\ DOMAIN SubSeq(q, 1, k) = 1 .. k
           /\ \A i \in 1 .. k : SubSeq(q, 1, k)[i] = q[i]
  OBVIOUS

\* The larger of two numbers.
LEMMA MaxPair ==
    ASSUME NEW a \in Int, NEW b \in Int
    PROVE  Max({a, b}) = IF a >= b THEN a ELSE b
<1>1. PICK m \in {a, b} : m = IF a >= b THEN a ELSE b
  OBVIOUS
<1>2. \A y \in {a, b} : m >= y
  BY <1>1
<1>3. \A x \in {a, b} : (\A y \in {a, b} : x >= y) => x = m
  BY <1>1
<1> QED
  BY <1>1, <1>2, <1>3 DEF Max

\* The smaller of two numbers.
LEMMA MinPair ==
    ASSUME NEW a \in Int, NEW b \in Int
    PROVE  Min({a, b}) = IF a <= b THEN a ELSE b
<1>1. PICK m \in {a, b} : m = IF a <= b THEN a ELSE b
  OBVIOUS
<1>2. \A y \in {a, b} : m <= y
  BY <1>1
<1>3. \A x \in {a, b} : (\A y \in {a, b} : x <= y) => x = m
  BY <1>1
<1> QED
  BY <1>1, <1>2, <1>3 DEF Min

\* The last k elements: d elements are left out.
LEMMA LastNFacts ==
    ASSUME NEW S, NEW q \in Seq(S), NEW k \in Nat \ {0}
    PROVE  \E d \in Nat : /\ LastN(q, k) \in Seq(S) /\ Len(LastN(q, k)) = Len(q) - d
                          /\ Len(LastN(q, k)) <= k /\ d <= Len(q)
                          /\ DOMAIN LastN(q, k) = 1 .. (Len(q) - d)
                          /\ \A i \in 1 .. (Len(q) - d) : LastN(q, k)[i] = q[i + d]
<1>1. PICK n \in Nat : n = Len(q)
  OBVIOUS
<1>2. PICK d \in Nat : d = IF n <= k THEN 0 ELSE n - k
  <2>1. CASE n <= k
    BY <2>1
  <2>2. CASE n > k
    <3>1. n - k \in Nat /\ ~(n <= k)
      BY <2>2
    <3> QED
      BY <3>1
  <2> QED
    BY <2>1, <2>2
<1>3. Max({1, Len(q) - k + 1}) = d + 1
  BY <1>1, <1>2, MaxPair
<1>4. LastN(q, k) = SubSeq(q, d + 1, n)
  BY <1>1, <1>3 DEF LastN
<1>5. d <= n /\ n - d <= k
  BY <1>1, <1>2
<1>6. /\ SubSeq(q, d + 1, n) \in Seq(S) /\ Len(SubSeq(q, d + 1, n)) = n - d
      /\ \A i \in 1 .. (n - d) : SubSeq(q, d + 1, n)[i] = q[i + d]
  <2>1. \A i \in d + 1 .. n : q[i] \in S
    BY <1>1
  <2>2. d + 1 \in Int /\ n \in Int
    OBVIOUS
  <2>3. /\ SubSeq(q, d + 1, n) \in Seq(S)
        /\ Len(SubSeq(q, d + 1, n)) = IF d + 1 <= n THEN n - (d + 1) + 1 ELSE 0
        /\ \A i \in 1 .. n - (d + 1) + 1 : SubSeq(q, d + 1, n)[i] = q[(d + 1) + i - 1]
    BY <2>1, <2>2, SubSeqProperties
  <2>4. n - (d + 1) + 1 = n - d /\ (d + 1 <= n \/ n - d = 0)
    BY <1>5
  <2>5. \A i \in 1 .. (n - d) : (d + 1) + i - 1 = i + d
    OBVIOUS
  <2> QED
    BY <2>3, <2>4, <2>5
<1> QED
  BY SMTT(30), <1>1, <1>4, <1>5, <1>6

\* A reversed sequence has the same elements, counted from the end.
LEMMA ReverseFacts ==
    ASSUME NEW S, NEW q \in Seq(S)
    PROVE  /\ Reverse(q) \in Seq(S) /\ Len(Reverse(q)) = Len(q) /\ Len(q) \in Nat
           /\ DOMAIN Reverse(q) = 1 .. Len(q) /\ DOMAIN q = 1 .. Len(q)
           /\ \A i \in 1 .. Len(q) : Reverse(q)[i] = q[Len(q) - i + 1]
           /\ Range(Reverse(q)) = Range(q)
<1>1. /\ Reverse(q) \in Seq(S) /\ Len(Reverse(q)) = Len(q) /\ Len(q) \in Nat
      /\ DOMAIN Reverse(q) = 1 .. Len(q) /\ DOMAIN q = 1 .. Len(q)
      /\ \A i \in 1 .. Len(q) : Reverse(q)[i] = q[Len(q) - i + 1]
  BY DEF Reverse
<1>2. ASSUME NEW i \in 1 .. Len(q)
      PROVE  Len(q) - i + 1 \in 1 .. Len(q) /\ q[i] = Reverse(q)[Len(q) - i + 1]
  <2>1. Len(q) - i + 1 \in 1 .. Len(q) /\ Len(q) - (Len(q) - i + 1) + 1 = i
    BY <1>1
  <2> QED
    BY <1>1, <2>1
<1>3. Range(Reverse(q)) \subseteq Range(q)
  BY <1>1, <1>2 DEF Range
<1>4. Range(q) \subseteq Range(Reverse(q))
  BY <1>1, <1>2 DEF Range
<1> QED
  BY <1>1, <1>3, <1>4

\* The steps of a recording by their number.
LEMMA StepFacts ==
    ASSUME RecTypes, NEW g \in Goroutines
    PROVE  /\ Doing(g, "save") <=> rec[g].at = 1
           /\ Doing(g, "ring") <=> rec[g].at = 2
           /\ Doing(g, "emit") <=> rec[g].at = 3
           /\ Len(Steps) = 3
<1>1. rec[g].at \in 0 .. 3
  BY DEF RecTypes, Records
<1>2. rec[g].at = 0 \/ rec[g].at = 1 \/ rec[g].at = 2 \/ rec[g].at = 3
  BY <1>1
<1>3. Steps[1] = "save" /\ Steps[2] = "ring" /\ Steps[3] = "emit" /\ Len(Steps) = 3
  BY DEF Steps
<1> QED
  BY <1>2, <1>3 DEF Doing

\* A message of the dashboard is a snapshot or an event.
LEMMA MsgFacts ==
    ASSUME NEW m \in Lists \cup News
    PROVE  \/ m \in Lists /\ m \notin News /\ Len(m) = 2 /\ m[2] \in Seq(Ids) /\ MsgIds(m) = Range(m[2])
           \/ m \in News /\ m \notin Lists /\ Len(m) = 1 /\ m[1] \in Ids /\ MsgIds(m) = {m[1]}
<1>1. ASSUME m \in Lists PROVE Len(m) = 2 /\ m[2] \in Seq(Ids)
  BY <1>1 DEF Lists
<1>2. ASSUME m \in News PROVE Len(m) = 1 /\ m[1] \in Ids
  BY <1>2 DEF News
<1> QED
  BY <1>1, <1>2 DEF MsgIds

\* The agent's differ makes an event of the session.
LEMMA DiffFacts ==
    ASSUME Types, NEW v \in Members
    PROVE  LET e == DiffSessionEvents(known, v)
           IN  /\ e \in Events /\ e.kind \in SessionKinds
               /\ e.from = known /\ e.to = v /\ e.via = cur
<1>1. PICK k \in SessionKinds : DiffSessionEvents(known, v) = Event(k, known, v, cur)
  BY DEF DiffSessionEvents, SessionKinds
<1>2. Event(k, known, v, cur) \in Events
  BY DEF Event, Events, Kinds, Types, AgentTypes, Goroutines
<1> QED
  BY <1>1, <1>2 DEF Event

\* What the server does itself makes an event that is not of the session.
LEMMA ServerEventFacts ==
    ASSUME NEW k \in {"connected", "offline", "command", "file"}, NEW g \in Goroutines
    PROVE  /\ ServerEvent(k, g) \in Events /\ ServerEvent(k, g).kind = k
           /\ ServerEvent(k, g).kind \notin SessionKinds /\ ServerEvent(k, g).via = g
<1>1. Absent \in Members /\ k \in Kinds /\ k \notin SessionKinds
  BY DEF Members, Kinds, SessionKinds
<1> QED
  BY <1>1 DEF ServerEvent, Event, Events

-----------------------------------------------------------------------------
(***************************************************************************)
(* Types.                                                                  *)
(***************************************************************************)
LEMMA TypesSuffice == Types => TypeOK
<1> SUFFICES ASSUME Types PROVE TypeOK
  OBVIOUS
<1>1. \A i \in DOMAIN log : log[i].kind \in Kinds
  <2>1. \A i \in DOMAIN log : log[i] \in Events
    BY DEF Types, LogTypes
  <2> QED
    BY <2>1 DEF Events
<1>2. rec \in [Goroutines -> [at : 0 .. Len(Steps), id : 0 .. MaxEvents]]
  <2>1. Len(Steps) = 3
    BY DEF Steps
  <2> QED
    BY <2>1 DEF Types, RecTypes, Records
<1>3. Len(inbox) <= Max({1, InboxCap})
  <2>1. Max({1, InboxCap}) = InboxCap
    BY MaxPair
  <2> QED
    BY <2>1 DEF Types, DashTypes
<1>4. \A S \in {stored, files, pruned, unsaved, missed, sent, acted} : S \subseteq Ids
  BY DEF Types, AgentTypes, DbTypes, DashTypes
<1>5. /\ plan \in Plans /\ boots \in 0 .. MaxBoots /\ known \in Statuses \cup {Absent}
      /\ cur \in Conns \cup {NoConn} /\ agents \in Conns \cup {NoConn}
      /\ Len(log) <= MaxEvents /\ cut \in BOOLEAN
      /\ conn \in [Conns -> {"free", "dialed", "hello", "open", "ended"}] /\ broken \subseteq Conns
  BY DEF Types, AgentTypes, NetTypes, LogTypes, Members, Stages
<1>6. \A c \in Conns : /\ up[c] \in Seq(Ids) /\ Len(up[c]) <= WireCap
                       /\ down[c] \in Seq(Ids) /\ Len(down[c]) <= WireCap
  BY DEF Types, NetTypes
<1>7. /\ ring \in Seq(Ids) /\ Len(ring) <= RingCap /\ dash \in {"off", "snapped", "live"}
      /\ shown \in Seq(Ids) /\ Len(shown) <= MaxShown
  BY DEF Types, RingTypes, DashTypes
<1> QED
  BY <1>1, <1>2, <1>3, <1>4, <1>5, <1>6, <1>7 DEF TypeOK

\* The types hold in the beginning.
LEMMA TypesInit == Init => Types
<1> SUFFICES ASSUME Init PROVE Types
  OBVIOUS
<1>1. AgentTypes
  <2>1. boots \in 0 .. MaxBoots
    BY DEF Init
  <2>2. plan \in Plans /\ cut \in BOOLEAN /\ acted \subseteq Ids
    BY DEF Init
  <2>3. known \in Members /\ cur \in Conns \cup {NoConn}
    BY DEF Init, Members
  <2> QED
    BY <2>1, <2>2, <2>3 DEF AgentTypes
<1>2. LogTypes /\ DbTypes /\ RingTypes
  BY DEF Init, LogTypes, DbTypes, RingTypes
<1>3. NetTypes
  BY DEF Init, NetTypes, Stages
<1>4. RecTypes
  BY DEF Init, RecTypes, Records, Idle
<1>5. DashTypes
  BY DEF Init, DashTypes
<1> QED
  BY <1>1, <1>2, <1>3, <1>4, <1>5 DEF Types

\* A new event of the server, and the goroutine that records it.
LEMMA CreateType ==
    ASSUME Types, NEW e \in Events, Create(e)
    PROVE  LogTypes' /\ NewId \in Ids /\ Len(log) \in Nat /\ Len(log') = Len(log) + 1
           /\ log'[NewId] = e /\ \A i \in Born : log'[i] = log[i]
<1>1. log \in Seq(Events) /\ log' = Append(log, e) /\ NewId \in Ids /\ NewId = Len(log) + 1
  BY DEF Create, NewId, Types, LogTypes
<1>2. /\ log' \in Seq(Events) /\ Len(log') = Len(log) + 1 /\ Len(log) \in Nat
      /\ log'[Len(log) + 1] = e /\ \A i \in 1 .. Len(log) : log'[i] = log[i]
  BY <1>1, AppendFacts
<1> QED
  BY <1>1, <1>2 DEF LogTypes, Born, Ids

\* What starting to record does to the goroutine.
LEMMA StartType ==
    ASSUME Types, NEW g \in Goroutines, NEW id \in Ids, rec' = Start(g, id)
    PROVE  /\ RecTypes' /\ rec'[g] = [at |-> 1, id |-> id]
           /\ \A h \in Goroutines \ {g} : rec'[h] = rec[h]
<1>1. rec \in [Goroutines -> Records] /\ [at |-> 1, id |-> id] \in Records
  BY DEF Types, RecTypes, Records, Ids
<1>2. rec' = [rec EXCEPT ![g] = [at |-> 1, id |-> id]]
  BY DEF Start
<1>3. /\ rec' \in [Goroutines -> Records] /\ rec'[g] = [at |-> 1, id |-> id]
      /\ \A h \in Goroutines \ {g} : rec'[h] = rec[h]
  BY <1>1, <1>2
<1>4. ASSUME NEW h \in Goroutines PROVE rec'[h].at = 0 <=> rec'[h].id = 0
  <2>1. CASE h = g
    BY <1>3, <2>1 DEF Ids
  <2>2. CASE h # g
    BY <1>3, <2>2 DEF Types, RecTypes
  <2> QED
    BY <2>1, <2>2
<1> QED
  BY <1>3, <1>4 DEF RecTypes

\* What an advance does to the goroutine that takes a step.
LEMMA AdvanceType ==
    ASSUME Types, NEW g \in Goroutines, rec[g].at > 0, Advance(g)
    PROVE  /\ RecTypes' /\ \A h \in Goroutines \ {g} : rec'[h] = rec[h]
           /\ rec[g].id \in Ids
           /\ rec[g].at = 3 => rec'[g] = Idle
           /\ rec[g].at \in {1, 2} => rec'[g].at = rec[g].at + 1 /\ rec'[g].id = rec[g].id
<1>1. /\ rec \in [Goroutines -> Records] /\ rec[g] \in Records /\ rec[g].at \in 1 .. 3
      /\ rec[g].id \in Ids
  BY DEF Types, RecTypes, Records, Ids
<1>2. rec' = [rec EXCEPT ![g] = IF rec[g].at = 3 THEN Idle
                                ELSE [rec[g] EXCEPT !.at = rec[g].at + 1]]
  <2>1. Len(Steps) = 3
    BY DEF Steps
  <2>2. rec' = [rec EXCEPT ![g] = IF rec[g].at = Len(Steps) THEN Idle
                                  ELSE [rec[g] EXCEPT !.at = rec[g].at + 1]]
    BY DEF Advance
  <2> QED
    BY <2>1, <2>2
<1>3. \A h \in Goroutines \ {g} : rec'[h] = rec[h]
  BY <1>1, <1>2
<1>4. CASE rec[g].at = 3
  <2>1. Idle \in Records /\ Idle.at = 0 /\ Idle.id = 0
    BY DEF Idle, Records
  <2>2. rec'[g] = Idle /\ rec' \in [Goroutines -> Records]
    BY <1>1, <1>2, <1>4, <2>1
  <2> QED
    BY <1>1, <1>3, <1>4, <2>1, <2>2 DEF Types, RecTypes
<1>5. CASE rec[g].at # 3
  <2>1. PICK a \in 1 .. 3 : a = rec[g].at
    BY <1>1
  <2>2. PICK r \in Records : r = [rec[g] EXCEPT !.at = a + 1] /\ r.at = a + 1 /\ r.id = rec[g].id
    <3>1. a + 1 \in 0 .. 3
      BY <1>5, <2>1
    <3>2. rec[g] \in [at : 0 .. 3, id : 0 .. MaxEvents]
      BY <1>1 DEF Records
    <3>3. /\ [rec[g] EXCEPT !.at = a + 1] \in [at : 0 .. 3, id : 0 .. MaxEvents]
          /\ [rec[g] EXCEPT !.at = a + 1].at = a + 1
          /\ [rec[g] EXCEPT !.at = a + 1].id = rec[g].id
      BY <3>1, <3>2
    <3> QED
      BY <3>3 DEF Records
  <2>3. rec'[g] = r /\ rec' \in [Goroutines -> Records]
    BY <1>1, <1>2, <1>5, <2>1, <2>2
  <2>4. rec'[g].at # 0 /\ rec'[g].id # 0
    BY <1>1, <2>2, <2>3 DEF Ids
  <2> QED
    BY <1>1, <1>3, <1>5, <2>1, <2>2, <2>3, <2>4 DEF Types, RecTypes
<1> QED
  BY <1>4, <1>5

\* A report is put on the agent's connection or lost.
LEMMA SendType ==
    ASSUME Types, NEW id \in Ids, Send(id)
    PROVE  /\ up' \in [Conns -> Seq(Ids)] /\ \A c \in Conns : Len(up'[c]) <= WireCap
           /\ \/ UNCHANGED up /\ cut' = TRUE
              \/ /\ cur \in Conns /\ UNCHANGED cut
                 /\ up'[cur] = Append(up[cur], id) /\ \A c \in Conns \ {cur} : up'[c] = up[c]
<1>t. up \in [Conns -> Seq(Ids)] /\ \A c \in Conns : Len(up[c]) <= WireCap
  BY DEF Types, NetTypes
<1>1. CASE cur = NoConn \/ cur \in broken
  BY <1>1, <1>t DEF Send
<1>2. CASE ~(cur = NoConn \/ cur \in broken)
  <2>1. /\ cur \in Conns /\ UNCHANGED cut
        /\ Len(up[cur]) < WireCap /\ up' = [up EXCEPT ![cur] = Append(up[cur], id)]
    BY <1>2 DEF Send, Types, AgentTypes
  <2>2. Append(up[cur], id) \in Seq(Ids) /\ Len(Append(up[cur], id)) <= WireCap
    <3>1. /\ Append(up[cur], id) \in Seq(Ids) /\ Len(up[cur]) \in Nat
          /\ Len(Append(up[cur], id)) = Len(up[cur]) + 1
      BY <1>t, <2>1, AppendFacts
    <3> QED
      BY <2>1, <3>1
  <2> QED
    BY <1>t, <2>1, <2>2
<1> QED
  BY <1>1, <1>2

\* A poll creates an event and reports it.
LEMMA TypesDiscover ==
    ASSUME Types, NEW seen \in Members, Discover(seen)
    PROVE  Types'
<1>1. PICK e \in Events : e = DiffSessionEvents(known, seen)
  BY DiffFacts
<1>2. Create(e) /\ Send(NewId) /\ known' = seen
      /\ UNCHANGED <<runVars, cur, acted, conn, broken, down, agents, rec, dbVars, ring, dashVars, sent>>
  BY <1>1 DEF Discover
<1>3. LogTypes' /\ NewId \in Ids
  BY <1>2, CreateType
<1>4. AgentTypes'
  <2>1. cut' \in BOOLEAN
    BY <1>2, <1>3, SendType DEF Types, AgentTypes
  <2> QED
    BY <1>2, <2>1 DEF Types, AgentTypes, runVars
<1>5. NetTypes'
  <2>1. up' \in [Conns -> Seq(Ids)] /\ \A c \in Conns : Len(up'[c]) <= WireCap
    BY <1>2, <1>3, SendType
  <2> QED
    BY <1>2, <2>1 DEF Types, NetTypes
<1>6. RecTypes' /\ DbTypes' /\ RingTypes' /\ DashTypes'
  BY <1>2 DEF Types, RecTypes, DbTypes, RingTypes, DashTypes, dbVars, dashVars
<1> QED
  BY <1>3, <1>4, <1>5, <1>6 DEF Types

\* The agent's connection and its command handler.
LEMMA TypesAgent ==
    ASSUME Types,
           \/ AgentNotices \/ HandleCommand \/ AgentRestarts
           \/ \E c \in Conns : Dial(c) \/ Break(c)
    PROVE  Types'
<1>t. /\ conn \in [Conns -> Stages] /\ broken \subseteq Conns
      /\ up \in [Conns -> Seq(Ids)] /\ down \in [Conns -> Seq(Ids)]
      /\ \A c \in Conns : Len(up[c]) <= WireCap /\ Len(down[c]) <= WireCap
      /\ known \in Members /\ cur \in Conns \cup {NoConn} /\ acted \subseteq Ids
  BY DEF Types, NetTypes, AgentTypes
<1>e. <<>> \in Seq(Ids) /\ Len(<<>>) <= WireCap
  OBVIOUS
<1>0. LogTypes' /\ RecTypes' /\ DbTypes' /\ RingTypes' /\ DashTypes'
  <2>1. UNCHANGED <<log, rec, dbVars, ring, dashVars, sent>>
    BY DEF AgentNotices, HandleCommand, AgentRestarts, Dial, Break
  <2>2. LogTypes' /\ RecTypes'
    BY <2>1 DEF Types, LogTypes, RecTypes
  <2>3. DbTypes' /\ RingTypes' /\ DashTypes'
    BY <2>1 DEF Types, DbTypes, RingTypes, DashTypes, dbVars, dashVars
  <2> QED
    BY <2>2, <2>3
<1>1. ASSUME AgentNotices PROVE Types'
  BY <1>0, <1>1 DEF AgentNotices, Types, AgentTypes, NetTypes, runVars, netVars
<1>2. ASSUME HandleCommand PROVE Types'
  <2>1. cur \in Conns /\ down[cur] \in Seq(Ids) /\ down[cur] # <<>>
    BY <1>2, <1>t DEF HandleCommand
  <2>2. /\ down' = [down EXCEPT ![cur] = Tail(down[cur])]
        /\ acted' \in {acted, acted \cup {Head(down[cur])}}
        /\ UNCHANGED <<runVars, known, cur, conn, broken, up, agents, cut>>
    BY <1>2 DEF HandleCommand, Control
  <2>3. Tail(down[cur]) \in Seq(Ids) /\ Len(Tail(down[cur])) <= WireCap /\ Head(down[cur]) \in Ids
    BY <1>t, <2>1, TailFacts
  <2>4. AgentTypes'
    BY <1>t, <2>2, <2>3 DEF Types, AgentTypes, runVars
  <2>5. NetTypes'
    BY <1>t, <2>1, <2>2, <2>3 DEF Types, NetTypes
  <2> QED
    BY <1>0, <2>4, <2>5 DEF Types
<1>3. ASSUME AgentRestarts PROVE Types'
  <2>1. /\ known' = Absent /\ cur' = NoConn /\ cut' = TRUE
        /\ broken' = broken \cup ({cur} \cap Conns)
        /\ down' = [c \in Conns |-> IF c = cur THEN <<>> ELSE down[c]]
        /\ UNCHANGED <<runVars, acted, conn, up, agents>>
    BY <1>3 DEF AgentRestarts
  <2>2. AgentTypes'
    BY <2>1 DEF Types, AgentTypes, Members, runVars
  <2>3. NetTypes'
    BY <1>e, <1>t, <2>1 DEF Types, NetTypes
  <2> QED
    BY <1>0, <2>2, <2>3 DEF Types
<1>4. ASSUME NEW c \in Conns, Dial(c) PROVE Types'
  <2>1. /\ cur' = c /\ conn' = [conn EXCEPT ![c] = "dialed"] /\ broken' = broken \ {c}
        /\ UNCHANGED <<runVars, known, acted, up, down, agents, cut>>
    BY <1>4 DEF Dial
  <2>2. AgentTypes'
    BY <2>1 DEF Types, AgentTypes, runVars
  <2>3. NetTypes'
    BY <1>t, <2>1 DEF Types, NetTypes, Stages
  <2> QED
    BY <1>0, <2>2, <2>3 DEF Types
<1>5. ASSUME NEW c \in Conns, Break(c) PROVE Types'
  <2>1. PICK k \in 0 .. Len(up[c]) :
           /\ up' = [up EXCEPT ![c] = SubSeq(up[c], 1, k)]
           /\ cut' = (cut \/ k < Len(up[c]))
    BY <1>5 DEF Break
  <2>2. /\ broken' = broken \cup {c} /\ down' = [down EXCEPT ![c] = <<>>]
        /\ UNCHANGED <<runVars, agentVars, conn, agents>>
    BY <1>5 DEF Break
  <2>3. SubSeq(up[c], 1, k) \in Seq(Ids) /\ Len(SubSeq(up[c], 1, k)) <= WireCap
    <3>1. up[c] \in Seq(Ids) /\ Len(up[c]) <= WireCap
      BY <1>t
    <3>2. SubSeq(up[c], 1, k) \in Seq(Ids) /\ Len(SubSeq(up[c], 1, k)) = k
      BY <3>1, PrefixFacts
    <3> QED
      BY <3>1, <3>2
  <2>4. AgentTypes'
    <3>1. cut' \in BOOLEAN
      BY <2>1
    <3> QED
      BY <2>2, <3>1 DEF Types, AgentTypes, agentVars, runVars
  <2>5. NetTypes'
    BY <1>e, <1>t, <2>1, <2>2, <2>3 DEF Types, NetTypes
  <2> QED
    BY <1>0, <2>4, <2>5 DEF Types
<1> QED
  BY <1>1, <1>2, <1>3, <1>4, <1>5

\* Recording.
LEMMA TypesRecord ==
    ASSUME Types, NEW g \in Goroutines, Record(g)
    PROVE  Types'
<1>1. rec[g].at > 0 /\ Advance(g)
  BY DEF Record, SaveEvent, AddEvent, EmitEvent, Doing
<1>2. RecTypes' /\ rec[g].id \in Ids
  BY <1>1, AdvanceType
<1>3. UNCHANGED <<runVars, log, agentVars, netVars, sent>> /\ cut' \in BOOLEAN
  BY DEF Record, SaveEvent, AddEvent, EmitEvent, Types, AgentTypes
<1>4. AgentTypes' /\ LogTypes' /\ NetTypes'
  <2>1. AgentTypes' /\ LogTypes'
    BY <1>3 DEF Types, AgentTypes, LogTypes, runVars, agentVars
  <2>2. NetTypes'
    BY <1>3 DEF Types, NetTypes, netVars
  <2> QED
    BY <2>1, <2>2
<1>5. CASE SaveEvent(g)
  <2>1. DbTypes'
    BY <1>2, <1>3, <1>5 DEF SaveEvent, Types, DbTypes
  <2>2. RingTypes' /\ DashTypes'
    BY <1>5 DEF SaveEvent, Types, RingTypes, DashTypes, dashVars
  <2> QED
    BY <1>2, <1>4, <2>1, <2>2 DEF Types
<1>6. CASE AddEvent(g)
  <2>1. RingTypes'
    <3>1. Append(ring, rec[g].id) \in Seq(Ids)
      BY <1>2, AppendFacts DEF Types, RingTypes
    <3>2. LastN(Append(ring, rec[g].id), RingCap) \in Seq(Ids)
          /\ Len(LastN(Append(ring, rec[g].id), RingCap)) <= RingCap
      BY <3>1, LastNFacts
    <3> QED
      BY <1>6, <3>2 DEF AddEvent, RingTypes
  <2>2. DbTypes' /\ DashTypes'
    BY <1>3, <1>6 DEF AddEvent, Types, DbTypes, DashTypes, dbVars, dashVars
  <2> QED
    BY <1>2, <1>4, <2>1, <2>2 DEF Types
<1>7. CASE EmitEvent(g)
  <2>0. PICK m \in News : m = <<rec[g].id>>
    BY <1>2 DEF News
  <2>1. UNCHANGED <<dbVars, ring, shown>>
    BY <1>7 DEF EmitEvent
  <2>2. DbTypes' /\ RingTypes'
    BY <1>3, <2>1 DEF Types, DbTypes, RingTypes, dbVars
  <2>3. inbox' \in Seq(Lists \cup News) /\ Len(inbox') <= InboxCap
    <3>1. inbox \in Seq(Lists \cup News) /\ Len(inbox) <= InboxCap
      BY DEF Types, DashTypes
    <3>2. CASE inbox' = Append(inbox, m) /\ Len(inbox) < InboxCap
      BY <3>1, <3>2, AppendFacts
    <3>3. CASE inbox' = <<>>
      BY <3>3
    <3>4. inbox' = <<>> \/ inbox' = inbox \/ (Len(inbox) < InboxCap /\ inbox' = Append(inbox, m))
      <4>1. Len(inbox) \in Nat
        BY <3>1
      <4>2. ~(Len(inbox) >= InboxCap) => Len(inbox) < InboxCap
        BY <4>1
      <4> QED
        BY <1>7, <2>0, <4>2 DEF EmitEvent
    <3> QED
      BY <3>1, <3>2, <3>3, <3>4
  <2>5. dash' \in {"off", dash} /\ missed' \in {missed, missed \cup {rec[g].id}}
    BY <1>7 DEF EmitEvent
  <2>6. dash' \in {"off", "snapped", "live"} /\ missed' \subseteq Ids /\ shown' = shown
    BY <1>2, <2>1, <2>5 DEF Types, DashTypes
  <2>4. DashTypes'
    BY <2>3, <2>6 DEF Types, DashTypes
  <2> QED
    BY <1>2, <1>4, <2>2, <2>4 DEF Types
<1> QED
  BY <1>5, <1>6, <1>7 DEF Record

\* What the dashboard shows after a message: the beginning of the snapshot,
\* what it showed, or the event and the beginning of what it showed.
LEMMA ShownFacts ==
    ASSUME Types, NEW m \in Lists \cup News
    PROVE  /\ Shown(m) \in Seq(Ids) /\ Len(Shown(m)) <= MaxShown
           /\ \/ m \in Lists /\ \E k \in 0 .. Len(m[2]) : Shown(m) = SubSeq(m[2], 1, k)
              \/ m \in News /\ Shown(m) = shown
              \/ /\ m \in News /\ m[1] \notin Range(shown)
                 /\ \E k \in 0 .. Len(shown) :
                       /\ DOMAIN Shown(m) = 1 .. k + 1 /\ Shown(m)[1] = m[1]
                       /\ \A i \in 2 .. k + 1 : Shown(m)[i] = shown[i - 1]
<1>t. shown \in Seq(Ids) /\ Len(shown) <= MaxShown /\ Len(shown) \in Nat /\ DOMAIN shown = 1 .. Len(shown)
  BY DEF Types, DashTypes
<1>1. CASE m \in Lists
  <2>1. Len(m) = 2 /\ m[2] \in Seq(Ids)
    BY <1>1, MsgFacts
  <2>2. PICK n \in Nat : n = Len(m[2])
    BY <2>1
  <2>3. PICK k \in 0 .. n : k = Min({MaxShown, n}) /\ k <= MaxShown
    <3>1. Min({MaxShown, n}) = IF MaxShown <= n THEN MaxShown ELSE n
      BY MinPair
    <3> QED
      BY <3>1
  <2>4. Shown(m) = SubSeq(m[2], 1, k)
    BY <2>1, <2>2, <2>3 DEF Shown
  <2>5. Shown(m) \in Seq(Ids) /\ Len(Shown(m)) = k
    BY <2>1, <2>2, <2>4, PrefixFacts
  <2> QED
    BY <1>1, <2>2, <2>3, <2>4, <2>5
<1>2. CASE m \in News
  <2>1. Len(m) = 1 /\ m[1] \in Ids /\ m \in News
    BY <1>2, MsgFacts
  <2>0. /\ Contains(shown, m[1]) => Shown(m) = shown
        /\ ~Contains(shown, m[1]) =>
              Shown(m) = SubSeq(m \o shown, 1, Min({MaxShown, Len(shown) + 1}))
    <3>1. Len(m) # 2
      BY <2>1
    <3> QED
      BY <3>1, Zenon DEF Shown
  <2>2. CASE Contains(shown, m[1])
    BY <1>t, <2>0, <2>1, <2>2
  <2>3. CASE ~Contains(shown, m[1])
    <3>1. m[1] \notin Range(shown)
      BY <1>t, <2>3 DEF Contains, Range
    <3>2. PICK n \in Nat : n = Len(shown) + 1
      BY <1>t
    <3>3. PICK q \in Seq(Ids) :
             /\ q = m \o shown /\ Len(q) = n /\ q[1] = m[1]
             /\ \A i \in 2 .. n : q[i] = shown[i - 1]
      <4>1. m = <<m[1]>>
        BY <1>2 DEF News
      <4>2. <<m[1]>> \o shown \in Seq(Ids) /\ Len(<<m[1]>> \o shown) = n
            /\ (<<m[1]>> \o shown)[1] = m[1]
            /\ \A i \in 2 .. n : (<<m[1]>> \o shown)[i] = shown[i - 1]
        BY <1>t, <2>1, <3>2
      <4> QED
        BY <4>1, <4>2
    <3>4. PICK l \in 1 .. n : l = Min({MaxShown, n}) /\ l <= MaxShown
      <4>1. Min({MaxShown, n}) = IF MaxShown <= n THEN MaxShown ELSE n
        BY MinPair
      <4> QED
        BY <3>2, <4>1, <1>t
    <3>5. Shown(m) = SubSeq(q, 1, l)
      <4>1. Shown(m) = SubSeq(m \o shown, 1, Min({MaxShown, Len(shown) + 1}))
        BY <2>0, <2>3
      <4> QED
        BY <3>2, <3>3, <3>4, <4>1, Zenon
    <3>6. /\ Shown(m) \in Seq(Ids) /\ Len(Shown(m)) = l /\ DOMAIN Shown(m) = 1 .. l
          /\ \A i \in 1 .. l : Shown(m)[i] = q[i]
      <4>1. l \in 0 .. Len(q)
        BY <3>3
      <4> QED
        BY SMTT(30), <3>5, <4>1, PrefixFacts
    <3>7. PICK k \in 0 .. Len(shown) : l = k + 1
      <4>1. l - 1 \in 0 .. Len(shown) /\ l = (l - 1) + 1
        BY <1>t, <3>2
      <4> QED
        BY <4>1
    <3>8. /\ DOMAIN Shown(m) = 1 .. k + 1 /\ Shown(m)[1] = m[1]
          /\ \A i \in 2 .. k + 1 : Shown(m)[i] = shown[i - 1]
      <4>1. 1 \in 1 .. l /\ 1 .. l = 1 .. k + 1
        BY <3>7
      <4>2. \A i \in 2 .. k + 1 : i \in 1 .. l /\ i \in 2 .. n
        BY <3>7
      <4> QED
        BY <3>3, <3>6, <4>1, <4>2
    <3> QED
      BY <1>2, <3>1, <3>4, <3>6, <3>7, <3>8
  <2> QED
    BY <2>2, <2>3
<1> QED
  BY <1>1, <1>2

\* What a restart puts in the ring: stored events, in ascending order.
LEMMA SeedFacts ==
    ASSUME Types, NEW k \in Nat, NEW r \in Seed(k)
    PROVE  /\ r \in Seq(Ids) /\ Len(r) <= RingCap /\ Range(r) \subseteq stored
           /\ \A i, j \in DOMAIN r : i < j => r[i] < r[j]
<1>1. PICK S \in SUBSET stored : S = AllRecentEvents(k)
  BY DEF AllRecentEvents
<1>2. PICK s \in Ascending(S) : r = LastN(s, RingCap)
  BY <1>1 DEF Seed
<1>3. S \subseteq Ids
  BY DEF Types, DbTypes
<1>4. PICK n \in Nat : n = Cardinality(S)
  <2>1. IsFiniteSet(1 .. MaxEvents)
    BY FS_Interval
  <2>2. IsFiniteSet(S)
    BY <1>3, <2>1, FS_Subset DEF Ids
  <2> QED
    BY <2>2, FS_CardinalityType
<1>5. /\ s \in [1 .. n -> S] /\ \A i, j \in 1 .. n : i < j => s[i] < s[j]
  BY <1>2, <1>4 DEF Ascending
<1>6. s \in Seq(S) /\ Len(s) = n
  BY <1>5
<1>7. PICK d \in Nat : /\ r \in Seq(S) /\ Len(r) <= RingCap /\ d <= n
                       /\ DOMAIN r = 1 .. (n - d) /\ \A i \in 1 .. (n - d) : r[i] = s[i + d]
  <2>1. RingCap \in Nat \ {0}
    OBVIOUS
  <2>2. \E d \in Nat : /\ LastN(s, RingCap) \in Seq(S) /\ Len(LastN(s, RingCap)) = Len(s) - d
                       /\ Len(LastN(s, RingCap)) <= RingCap /\ d <= Len(s)
                       /\ DOMAIN LastN(s, RingCap) = 1 .. (Len(s) - d)
                       /\ \A i \in 1 .. (Len(s) - d) : LastN(s, RingCap)[i] = s[i + d]
    BY ZenonT(60), <1>6, <2>1, LastNFacts
  <2> QED
    BY <1>2, <1>6, <2>2
<1>8. r \in Seq(Ids) /\ Range(r) \subseteq stored
  BY <1>3, <1>7 DEF Range
<1>9. ASSUME NEW i \in DOMAIN r, NEW j \in DOMAIN r, i < j PROVE r[i] < r[j]
  <2>1. i + d \in 1 .. n /\ j + d \in 1 .. n /\ i + d < j + d
    BY SMTT(30), <1>7, <1>9
  <2> QED
    BY <1>5, <1>7, <1>9, <2>1
<1> QED
  BY <1>7, <1>8, <1>9

\* The server accepts and reads the agent's connections.
LEMMA TypesConns ==
    ASSUME Types, NEW c \in Conns,
           \/ AcceptHello(c) \/ AcceptFails(c) \/ Register(c)
           \/ ReadReport(c) \/ ReadFails(c) \/ Unregister(c)
    PROVE  Types'
<1>t. /\ conn \in [Conns -> Stages] /\ broken \subseteq Conns /\ agents \in Conns \cup {NoConn}
      /\ up \in [Conns -> Seq(Ids)] /\ down \in [Conns -> Seq(Ids)]
      /\ \A d \in Conns : Len(up[d]) <= WireCap /\ Len(down[d]) <= WireCap
  BY DEF Types, NetTypes
<1>e. <<>> \in Seq(Ids) /\ Len(<<>>) <= WireCap
  OBVIOUS
<1>0. DbTypes' /\ RingTypes' /\ DashTypes' /\ AgentTypes'
  <2>1. UNCHANGED <<runVars, agentVars, dbVars, ring, dashVars, sent>> /\ cut' \in BOOLEAN
    BY DEF AcceptHello, AcceptFails, Register, ReadReport, ReadFails, Unregister, Types, AgentTypes
  <2>2. AgentTypes'
    BY <2>1 DEF Types, AgentTypes, agentVars, runVars
  <2>3. DbTypes' /\ RingTypes'
    BY <2>1 DEF Types, DbTypes, RingTypes, dbVars
  <2>4. DashTypes'
    BY <2>1 DEF Types, DashTypes, dashVars
  <2> QED
    BY <2>2, <2>3, <2>4
<1>1. /\ conn' \in [Conns -> Stages] /\ agents' \in Conns \cup {NoConn}
      /\ down' \in [Conns -> Seq(Ids)] /\ \A d \in Conns : Len(down'[d]) <= WireCap
  <2>1. conn' \in [Conns -> Stages]
    <3>1. \/ UNCHANGED conn
          \/ \E v \in Stages : conn' = [conn EXCEPT ![c] = v]
      BY DEF AcceptHello, AcceptFails, Register, ReadReport, ReadFails, Unregister, Stages
    <3> QED
      BY <1>t, <3>1
  <2>2. agents' \in Conns \cup {NoConn}
    BY <1>t DEF AcceptHello, AcceptFails, Register, ReadReport, ReadFails, Unregister
  <2>3. UNCHANGED down \/ down' = [down EXCEPT ![c] = <<>>]
    BY DEF AcceptHello, AcceptFails, Register, ReadReport, ReadFails, Unregister
  <2>4. down' \in [Conns -> Seq(Ids)] /\ \A d \in Conns : Len(down'[d]) <= WireCap
    BY <1>e, <1>t, <2>3
  <2> QED
    BY <2>1, <2>2, <2>4
<1>2. up' \in [Conns -> Seq(Ids)] /\ \A d \in Conns : Len(up'[d]) <= WireCap
  <2>1. CASE ReadReport(c)
    <3>1. up[c] \in Seq(Ids) /\ up[c] # <<>> /\ up' = [up EXCEPT ![c] = Tail(up[c])]
      BY <1>t, <2>1 DEF ReadReport
    <3>2. Tail(up[c]) \in Seq(Ids) /\ Len(Tail(up[c])) = Len(up[c]) - 1 /\ Len(up[c]) \in Nat
      BY <3>1, TailFacts
    <3> QED
      BY <1>t, <3>1, <3>2
  <2>2. CASE UNCHANGED up \/ up' = [up EXCEPT ![c] = <<>>]
    BY <1>e, <1>t, <2>2
  <2> QED
    BY <2>1, <2>2 DEF AcceptHello, AcceptFails, Register, ReadFails, Unregister
<1>3. LogTypes' /\ RecTypes'
  <2>1. ASSUME NEW k \in {"connected", "offline"}, NEW g \in Goroutines,
               Create(ServerEvent(k, g)), rec' = Start(g, NewId)
        PROVE  LogTypes' /\ RecTypes'
    <3>1. ServerEvent(k, g) \in Events
      BY ServerEventFacts
    <3> QED
      BY <2>1, <3>1, CreateType, StartType
  <2>2. CASE AcceptHello(c) \/ Unregister(c)
    BY <2>1, <2>2 DEF AcceptHello, Unregister, Goroutines
  <2>3. CASE ReadReport(c)
    <3>1. Head(up[c]) \in Ids
      BY <1>t, <2>3, TailFacts DEF ReadReport
    <3>2. c \in Goroutines /\ rec' = Start(c, Head(up[c])) /\ UNCHANGED log
      BY <2>3 DEF ReadReport, Goroutines
    <3> QED
      BY <3>1, <3>2, StartType DEF Types, LogTypes
  <2>4. CASE UNCHANGED <<log, rec>>
    BY <2>4 DEF Types, LogTypes, RecTypes
  <2> QED
    BY <2>2, <2>3, <2>4 DEF AcceptFails, Register, ReadFails
<1>4. NetTypes'
  <2>1. broken' \in {broken, broken \cup {c}}
    BY DEF AcceptHello, AcceptFails, Register, ReadReport, ReadFails, Unregister
  <2> QED
    BY <1>1, <1>2, <1>t, <2>1 DEF NetTypes
<1> QED
  BY <1>0, <1>3, <1>4 DEF Types

\* A command and a file keep the types.
LEMMA TypesHttp ==
    ASSUME Types, SendCommand \/ Publish
    PROVE  Types'
<1>1. PICK k \in {"command", "file"} : Create(ServerEvent(k, Http)) /\ rec' = Start(Http, NewId)
  BY DEF SendCommand, Publish
<1>2. ServerEvent(k, Http) \in Events /\ Http \in Goroutines
  BY ServerEventFacts DEF Goroutines
<1>3. LogTypes' /\ RecTypes' /\ NewId \in Ids
  BY <1>1, <1>2, CreateType, StartType
<1>4. UNCHANGED <<runVars, agentVars, conn, broken, up, agents, stored, pruned, unsaved, ring, dashVars, cut>>
  BY DEF SendCommand, Publish, dbVars, netVars
<1>5. AgentTypes' /\ RingTypes' /\ DashTypes'
  <2>1. AgentTypes' /\ RingTypes'
    BY <1>4 DEF Types, AgentTypes, RingTypes, agentVars, runVars
  <2> QED
    BY <1>4, <2>1 DEF Types, DashTypes, dashVars
<1>6. DbTypes'
  <2>1. sent' \in {sent, sent \cup {NewId}} /\ files' \in {files, files \cup {NewId}}
    BY DEF SendCommand, Publish, dbVars
  <2> QED
    BY <1>3, <1>4, <2>1 DEF Types, DbTypes
<1>7. NetTypes'
  <2>t. down \in [Conns -> Seq(Ids)] /\ \A c \in Conns : Len(down[c]) <= WireCap
    BY DEF Types, NetTypes
  <2>1. CASE UNCHANGED down
    BY <1>4, <2>1 DEF Types, NetTypes
  <2>2. CASE /\ agents \in Conns /\ Len(down[agents]) < WireCap
             /\ down' = [down EXCEPT ![agents] = Append(down[agents], NewId)]
    <3>1. /\ Append(down[agents], NewId) \in Seq(Ids) /\ Len(down[agents]) \in Nat
          /\ Len(Append(down[agents], NewId)) = Len(down[agents]) + 1
      BY <1>3, <2>2, <2>t, AppendFacts
    <3>2. down' \in [Conns -> Seq(Ids)] /\ \A c \in Conns : Len(down'[c]) <= WireCap
      BY <2>2, <2>t, <3>1
    <3> QED
      BY <1>4, <3>2 DEF Types, NetTypes
  <2> QED
    BY <2>1, <2>2 DEF SendCommand, Publish, netVars, Types, NetTypes
<1> QED
  BY <1>3, <1>5, <1>6, <1>7 DEF Types

\* The retention job, and a restart of the server.
LEMMA TypesServer ==
    ASSUME Types, ServerRestarts \/ \E cutoff \in Ids : Prune(cutoff)
    PROVE  Types'
<1>1. ASSUME NEW cutoff \in Ids, Prune(cutoff) PROVE Types'
  <2>1. /\ stored' \subseteq stored /\ pruned' \subseteq pruned \cup stored
        /\ UNCHANGED <<runVars, log, agentVars, netVars, rec, files, unsaved, ring, dashVars, sent, cut>>
    BY <1>1 DEF Prune
  <2>2. DbTypes' /\ RingTypes' /\ LogTypes' /\ RecTypes'
    BY <2>1 DEF Types, DbTypes, RingTypes, LogTypes, RecTypes
  <2>3. AgentTypes' /\ NetTypes'
    BY <2>1 DEF Types, AgentTypes, NetTypes, agentVars, runVars, netVars
  <2>4. DashTypes'
    BY <2>1 DEF Types, DashTypes, dashVars
  <2> QED
    BY <2>2, <2>3, <2>4 DEF Types
<1>2. ASSUME ServerRestarts PROVE Types'
  <2>1. /\ boots < MaxBoots /\ boots' = boots + 1 /\ cut' \in BOOLEAN
        /\ UNCHANGED <<plan, log, agentVars, stored, files, pruned, shown, missed, sent>>
        /\ unsaved' = unsaved \cup ((Recording \ {0}) \ stored)
        /\ rec' = [g \in Goroutines |-> Idle]
        /\ conn' = [c \in Conns |-> "free"] /\ broken' = broken \cup ({cur} \cap Conns)
        /\ up' = [c \in Conns |-> <<>>] /\ down' = [c \in Conns |-> <<>>] /\ agents' = NoConn
        /\ dash' = "off" /\ inbox' = <<>>
    BY <1>2 DEF ServerRestarts, Types, AgentTypes
  <2>2. PICK k \in Nat : ring' \in Seed(k)
    BY <1>2 DEF ServerRestarts
  <2>3. RingTypes'
    BY <2>2, SeedFacts DEF RingTypes
  <2>4. AgentTypes'
    <3>1. boots' \in 0 .. MaxBoots
      BY <2>1 DEF Types, AgentTypes
    <3> QED
      BY <2>1, <3>1 DEF Types, AgentTypes, agentVars
  <2>5. RecTypes'
    BY <2>1 DEF RecTypes, Records, Idle
  <2>6. DbTypes'
    <3>1. Recording \ {0} \subseteq Ids
      BY DEF Recording, Types, RecTypes, Records, Ids
    <3> QED
      BY <2>1, <3>1 DEF Types, DbTypes
  <2>7. NetTypes'
    BY <2>1 DEF Types, NetTypes, Stages
  <2>8. DashTypes' /\ LogTypes'
    BY <2>1 DEF Types, DashTypes, LogTypes
  <2> QED
    BY <2>3, <2>4, <2>5, <2>6, <2>7, <2>8 DEF Types
<1> QED
  BY <1>1, <1>2

\* The dashboard's steps keep the types.
LEMMA TypesDash ==
    ASSUME Types, Dashboard
    PROVE  Types'
<1>1. UNCHANGED <<runVars, log, agentVars, netVars, rec, dbVars, ring, sent, cut>>
  BY DEF Dashboard, TakeSnapshot, RegisterDash, Receive, DashDrops, dbVars
<1>2. AgentTypes' /\ LogTypes' /\ NetTypes' /\ RecTypes'
  <2>1. AgentTypes' /\ LogTypes' /\ RecTypes'
    BY <1>1 DEF Types, AgentTypes, LogTypes, RecTypes, agentVars, runVars
  <2>2. NetTypes'
    BY <1>1 DEF Types, NetTypes, netVars
  <2> QED
    BY <2>1, <2>2
<1>3. DbTypes' /\ RingTypes'
  BY <1>1 DEF Types, DbTypes, RingTypes, dbVars
<1>t. /\ dash \in {"off", "snapped", "live"} /\ missed \subseteq Ids
      /\ inbox \in Seq(Lists \cup News) /\ Len(inbox) <= InboxCap
      /\ shown \in Seq(Ids) /\ Len(shown) <= MaxShown
  BY DEF Types, DashTypes
<1>4. CASE TakeSnapshot
  <2>1. PICK m \in Lists : m = <<"snapshot", Reverse(ring)>>
    BY ReverseFacts DEF Types, RingTypes, Lists
  <2>2. <<m>> \in Seq(Lists \cup News) /\ Len(<<m>>) <= InboxCap
    OBVIOUS
  <2>3. inbox' = <<m>> /\ dash' = "snapped" /\ missed' = {} /\ shown' = shown
    BY <1>4, <2>1 DEF TakeSnapshot
  <2> QED
    BY <1>2, <1>3, <1>t, <2>2, <2>3 DEF Types, DashTypes
<1>5. CASE Receive
  <2>1. PICK m \in Lists \cup News : m = Head(inbox)
    BY <1>5, <1>t, TailFacts DEF Receive
  <2>2. Tail(inbox) \in Seq(Lists \cup News) /\ Len(Tail(inbox)) = Len(inbox) - 1 /\ Len(inbox) \in Nat
    BY <1>5, <1>t, TailFacts DEF Receive
  <2>3. Shown(m) \in Seq(Ids) /\ Len(Shown(m)) <= MaxShown
    BY ShownFacts
  <2>4. inbox' = Tail(inbox) /\ shown' = Shown(m) /\ dash' = dash /\ missed' = missed
    BY <1>5, <2>1 DEF Receive
  <2>5. Len(Tail(inbox)) <= InboxCap
    BY <1>t, <2>2
  <2> QED
    BY <1>2, <1>3, <1>t, <2>2, <2>3, <2>4, <2>5 DEF Types, DashTypes
<1>6. CASE RegisterDash \/ DashDrops
  <2>1. inbox' \in {inbox, <<>>} /\ dash' \in {"live", "off"} /\ UNCHANGED <<shown, missed>>
    BY <1>6 DEF RegisterDash, DashDrops
  <2>2. inbox' \in Seq(Lists \cup News) /\ Len(inbox') <= InboxCap
    <3>1. CASE inbox' = <<>>
      BY <3>1
    <3> QED
      BY <1>t, <2>1, <3>1
  <2> QED
    BY <1>2, <1>3, <1>t, <2>1, <2>2 DEF Types, DashTypes
<1> QED
  BY <1>4, <1>5, <1>6 DEF Dashboard

\* Every step keeps the types.
LEMMA TypesStep == Types /\ [Next]_vars => Types'
<1> SUFFICES ASSUME Types, [Next]_vars PROVE Types'
  OBVIOUS
<1>1. CASE UNCHANGED vars
  <2>1. AgentTypes' /\ LogTypes' /\ RecTypes'
    BY <1>1 DEF vars, Types, AgentTypes, LogTypes, RecTypes, agentVars
  <2>2. NetTypes'
    BY <1>1 DEF vars, Types, NetTypes, netVars
  <2>3. DbTypes' /\ RingTypes'
    BY <1>1 DEF vars, Types, DbTypes, RingTypes, dbVars
  <2>4. DashTypes'
    BY <1>1 DEF vars, Types, DashTypes, dashVars
  <2> QED
    BY <2>1, <2>2, <2>3, <2>4 DEF Types
<1>2. CASE Agent
  BY <1>2, TypesDiscover, TypesAgent DEF Agent, Members
<1>3. CASE Server
  BY <1>3, TypesRecord, TypesConns, TypesHttp, TypesServer DEF Server
<1> QED
  BY <1>1, <1>2, <1>3, TypesAgent, TypesDash DEF Next

\* Every variable keeps its type; the ring, the list of the dashboard and the
\* buffers keep their bounds (internal/state/manager.go:57, live.ts:166).
THEOREM TimelineTypes == Spec => []TypeOK
<1> QED
  BY TypesInit, TypesStep, TypesSuffice, PTL DEF Spec

-----------------------------------------------------------------------------
(***************************************************************************)
(* What keeps an event past and a list in order.                           *)
(***************************************************************************)

\* The log only grows.
Kept == Born \subseteq Born' /\ \A i \in Born : log'[i] = log[i]

\* In the beginning nothing exists.
LEMMA InitIInv == Init => IInv
<1> SUFFICES ASSUME Init PROVE IInv
  OBVIOUS
<1>1. Types
  BY TypesInit
<1>2. Seen = {} /\ Saved = {}
  BY DEF Init, Seen, Told, Saved, Range
<1>3. /\ \A g \in Goroutines : rec[g] = Idle /\ rec[g].at = 0 /\ rec[g].id = 0
      /\ \A c \in Conns : up[c] = <<>> /\ Range(up[c]) = {} /\ down[c] = <<>> /\ Range(down[c]) = {}
      /\ Conns \subseteq Goroutines
  BY DEF Init, Idle, Goroutines, Range
<1>4. Len(log) = 0 /\ Born = {} /\ known = Absent /\ unsaved = {}
  BY DEF Init, Born
<1>5. BornInv /\ SavedInv
  <2>1. \A g \in Goroutines : ~(rec[g].at > 0) /\ ~(rec[g].at >= 2)
    BY <1>3
  <2>2. \A c \in Conns : Range(up[c]) \subseteq Born
    BY <1>3
  <2>3. BornInv
    BY <1>2, <2>1, <2>2 DEF BornInv
  <2>4. SavedInv
    BY <1>2, <2>1 DEF SavedInv
  <2> QED
    BY <2>3, <2>4
<1>6. WireInv
  BY <1>3 DEF WireInv
<1>7. PastInv
  BY <1>2, <1>3 DEF PastInv
<1>8. OrderInv
  BY DEF Init, OrderInv, IsInjective, Ascends, Descends
<1>9. AuditInv
  BY <1>3, <1>4 DEF AuditInv, Init
<1>10. ChainInv
  BY <1>4 DEF ChainInv, LeftAt
<1> QED
  BY <1>1, <1>5, <1>6, <1>7, <1>8, <1>9, <1>10 DEF IInv

\* A new event leaves the others as they are.
LEMMA CreateKeeps ==
    ASSUME Types, NEW e \in Events, Create(e)
    PROVE  /\ Kept /\ NewId \in Ids /\ NewId \notin Born /\ Born' = Born \cup {NewId}
           /\ log'[NewId] = e /\ Born \subseteq Nat /\ \A i \in Born : i < NewId
<1>1. /\ NewId \in Ids /\ Len(log) \in Nat /\ Len(log') = Len(log) + 1
      /\ log'[NewId] = e /\ \A i \in Born : log'[i] = log[i]
  BY CreateType
<1>2. NewId = Len(log) + 1
  BY DEF NewId
<1>3. Born = 1 .. Len(log) /\ Born' = 1 .. (Len(log) + 1)
  BY <1>1 DEF Born
<1> QED
  BY <1>1, <1>2, <1>3 DEF Kept

\* A log that does not change keeps its events.
LEMMA SameLog == UNCHANGED log => Kept /\ Born' = Born
  BY DEF Kept, Born

\* An event that is kept stays of the session or not.
LEMMA SessKept ==
    ASSUME Kept
    PROVE  /\ \A i \in Born : Sess(i)' <=> Sess(i)
           /\ \A i, j \in Born : NotAfter(i, j) => NotAfter(i, j)'
<1>1. \A i \in Born : log'[i] = log[i]
  BY DEF Kept
<1>2. \A i \in Born : Sess(i)' <=> Sess(i)
  BY <1>1 DEF Sess
<1>3. ASSUME NEW i \in Born, NEW j \in Born, NotAfter(i, j) PROVE NotAfter(i, j)'
  BY <1>1, <1>2, <1>3 DEF NotAfter
<1> QED
  BY <1>2, <1>3

\* What waits is what waited, or later than everything that exists; what a
\* connection records it recorded before, or it waited.
LEMMA PastKept ==
    ASSUME Types, WireInv, BornInv, Kept,
           \A c \in Conns : \A k \in DOMAIN up'[c] :
              up'[c][k] \in Range(up[c]) \/ \A i \in Born : i < up'[c][k],
           \A c \in Conns : rec'[c].at > 0 /\ Sess(rec[c].id)' =>
              \/ rec[c].at > 0 /\ rec'[c].id = rec[c].id
              \/ rec'[c].id \in Range(up[c]),
           NEW j \in Born, Past(j)
    PROVE  Past(j)'
<1>1. SUFFICES ASSUME NEW c \in Conns, Sess(j)', log'[j].via = c
               PROVE  /\ \A k \in DOMAIN up'[c] : j < up'[c][k]
                      /\ rec'[c].at > 0 /\ Sess(rec[c].id)' => j <= rec'[c].id
  BY DEF Past
<1>2. Sess(j) /\ log[j].via = c
  <2>1. Sess(j)' <=> Sess(j)
    BY SessKept
  <2>2. log'[j] = log[j]
    BY DEF Kept
  <2> QED
    BY <1>1, <2>1, <2>2
<1>3. \A i \in Range(up[c]) : j < i
  BY <1>2 DEF Past, Range
<1>4. \A k \in DOMAIN up'[c] : j < up'[c][k]
  BY <1>3
<1>5. ASSUME rec'[c].at > 0, Sess(rec[c].id)' PROVE j <= rec'[c].id
  <2>1. CASE rec[c].at > 0 /\ rec'[c].id = rec[c].id
    <3>1. c \in Goroutines
      BY DEF Goroutines
    <3>2. rec[c].id \in Born
      BY <2>1, <3>1 DEF BornInv
    <3>3. Sess(rec[c].id)
      <4>1. \A i \in Born : Sess(i)' <=> Sess(i)
        BY SessKept
      <4>2. PICK i \in Born : i = rec[c].id
        BY <3>2
      <4>3. Sess(i)'
        BY <1>5, <2>1, <4>2 DEF Sess
      <4> QED
        BY <4>1, <4>2, <4>3
    <3> QED
      BY <1>2, <2>1, <3>3 DEF Past
  <2>2. CASE rec'[c].id \in Range(up[c])
    <3>1. up[c] \in Seq(Ids)
      BY DEF Types, NetTypes
    <3>2. rec'[c].id \in Ids
      BY <2>2, <3>1 DEF Range
    <3> QED
      BY <1>3, <2>2, <3>2 DEF Ids, Born
  <2> QED
    BY <1>5, <2>1, <2>2
<1> QED
  BY <1>4, <1>5

\* The order of what is in ring and list is told by events that are kept.
LEMMA OrderKept ==
    ASSUME Types, BornInv, OrderInv, Kept, UNCHANGED <<ring, shown, inbox>>
    PROVE  OrderInv'
<1>0. \A i, j \in Born : NotAfter(i, j) => NotAfter(i, j)'
  BY SessKept
<1>b. /\ \A i \in DOMAIN ring : ring[i] \in Born
      /\ \A i \in DOMAIN shown : shown[i] \in Born
      /\ \A k \in DOMAIN inbox : MsgIds(inbox[k]) \subseteq Born
      /\ Range(shown) \subseteq Born
  BY DEF BornInv, Seen, Told, Range
<1>1. Ascends(ring)' /\ Descends(shown)'
  <2>1. ASSUME NEW i \in DOMAIN ring, NEW j \in DOMAIN ring, i < j
        PROVE  NotAfter(ring[i], ring[j])'
    <3>1. PICK a \in Born, b \in Born : a = ring[i] /\ b = ring[j]
      BY <1>b
    <3>2. NotAfter(a, b)'
      BY <1>0, <2>1, <3>1 DEF OrderInv, Ascends
    <3> QED
      BY <3>1, <3>2 DEF NotAfter, Sess
  <2>2. ASSUME NEW i \in DOMAIN shown, NEW j \in DOMAIN shown, i < j
        PROVE  NotAfter(shown[j], shown[i])'
    <3>1. PICK a \in Born, b \in Born : a = shown[i] /\ b = shown[j]
      BY <1>b
    <3>2. NotAfter(b, a)'
      BY <1>0, <2>2, <3>1 DEF OrderInv, Descends
    <3> QED
      BY <3>1, <3>2 DEF NotAfter, Sess
  <2> QED
    BY <2>1, <2>2 DEF Ascends, Descends
<1>2. ASSUME NEW k \in DOMAIN inbox, inbox[k] \in Lists
      PROVE  k = 1 /\ IsInjective(inbox[k][2]) /\ Descends(inbox[k][2])'
  <2>1. k = 1 /\ IsInjective(inbox[k][2]) /\ Descends(inbox[k][2])
    BY <1>2 DEF OrderInv
  <2>2. \A i \in DOMAIN inbox[k][2] : inbox[k][2][i] \in Born
    <3>1. MsgIds(inbox[k]) = Range(inbox[k][2])
      BY <1>2, MsgFacts
    <3> QED
      BY <1>b, <3>1 DEF Range
  <2>3. Descends(inbox[k][2])'
    BY <1>0, <2>1, <2>2 DEF Descends
  <2> QED
    BY <2>1, <2>3
<1>3. ASSUME NEW k \in DOMAIN inbox, NEW l \in DOMAIN inbox, k < l,
             NEW i \in MsgIds(inbox[k]), NEW j \in MsgIds(inbox[l])
      PROVE  NotAfter(i, j)'
  BY <1>0, <1>3, <1>b DEF OrderInv
<1>4. ASSUME NEW k \in DOMAIN inbox, inbox[1] \notin Lists,
             NEW i \in Range(shown), NEW j \in MsgIds(inbox[k])
      PROVE  NotAfter(i, j)'
  BY <1>0, <1>4, <1>b DEF OrderInv
<1>5. MsgIds(inbox)' = MsgIds(inbox) /\ \A k : MsgIds(inbox[k])' = MsgIds(inbox[k])
  BY DEF MsgIds
<1> QED
  BY <1>1, <1>2, <1>3, <1>4, <1>5 DEF OrderInv, IsInjective

-----------------------------------------------------------------------------
(***************************************************************************)
(* The way of an event through the actions.                                *)
(***************************************************************************)
FeedInv == BornInv /\ WireInv /\ PastInv /\ OrderInv /\ SavedInv

\* A connection that is not accepted has no goroutine that records.
Quiescent == \A c \in Conns : conn[c] \in {"free", "dialed", "ended"} => rec[c] = Idle

\* What is seen is in the ring, the list and the inbox.
LEMMA SeenKept == UNCHANGED <<ring, shown, inbox>> => Seen' = Seen /\ Told' = Told
  BY DEF Seen, Told, MsgIds, Range

\* A step that moves no event keeps every event's place.
LEMMA FeedStill ==
    ASSUME Types, FeedInv, UNCHANGED <<log, up, rec, ring, shown, inbox>>, Saved' = Saved, Quiescent'
    PROVE  FeedInv'
<1>1. Seen' = Seen /\ Kept /\ Born' = Born
  BY SeenKept, SameLog
<1>2. BornInv' /\ SavedInv'
  BY <1>1 DEF FeedInv, BornInv, SavedInv
<1>3. WireInv'
  BY DEF FeedInv, WireInv, Quiescent, Sess
<1>4. PastInv'
  BY <1>1 DEF FeedInv, PastInv, Past, Sess
<1>5. OrderInv'
  BY <1>1, OrderKept DEF FeedInv
<1> QED
  BY <1>2, <1>3, <1>4, <1>5 DEF FeedInv

\* A goroutine of the server creates an event and starts to record it.
LEMMA FeedCreates ==
    ASSUME Types, FeedInv, NEW k \in {"connected", "offline", "command", "file"},
           NEW g \in Goroutines, Create(ServerEvent(k, g)), rec' = Start(g, NewId),
           UNCHANGED <<up, ring, shown, inbox, stored, pruned, unsaved>>, Quiescent'
    PROVE  FeedInv'
<1>1. PICK e \in Events : e = ServerEvent(k, g) /\ e.kind \notin SessionKinds /\ e.via = g
  BY ServerEventFacts
<1>2. Create(e)
  BY <1>1
<1>3. PICK n \in Ids : n = NewId
  BY <1>2, CreateKeeps
<1>4. /\ Kept /\ n \notin Born /\ Born' = Born \cup {n} /\ log'[n] = e
      /\ Born \subseteq Nat /\ \A i \in Born : i < n
  BY <1>2, <1>3, CreateKeeps
<1>5. rec'[g] = [at |-> 1, id |-> n] /\ \A h \in Goroutines \ {g} : rec'[h] = rec[h]
  BY <1>3, StartType
<1>6. Seen' = Seen /\ Saved' = Saved
  BY SeenKept DEF Saved
<1>b. /\ \A c \in Conns : Range(up[c]) \subseteq Born
      /\ \A h \in Goroutines : rec[h].at > 0 => rec[h].id \in Born
      /\ Seen \subseteq Born /\ Saved \subseteq Born /\ Range(ring) \subseteq Born
      /\ \A c \in Conns : \A i \in DOMAIN up[c] : up[c][i] \in Born
  BY DEF FeedInv, BornInv, Range, Seen
<1>s. /\ \A i \in Born : Sess(i)' <=> Sess(i)
      /\ \A i \in Born : log'[i] = log[i]
  BY <1>4, SessKept DEF Kept
<1>n. ~(log'[n].kind \in SessionKinds) /\ log'[n].via = g
  BY <1>1, <1>4
<1>7. BornInv'
  <2>1. \A h \in Goroutines : rec'[h].at > 0 => rec'[h].id \in Born'
    BY <1>4, <1>5, <1>b
  <2> QED
    BY <1>4, <1>6, <1>b, <2>1 DEF BornInv
<1>8. WireInv'
  <2>1. \A c \in Conns : \A i \in DOMAIN up[c] : Sess(up[c][i])' /\ log'[up[c][i]].via = c
    <3>1. ASSUME NEW c \in Conns, NEW i \in DOMAIN up[c]
          PROVE  Sess(up[c][i])' /\ log'[up[c][i]].via = c
      <4>1. PICK a \in Born : a = up[c][i]
        BY <1>b
      <4>2. Sess(a) /\ log[a].via = c
        BY <4>1 DEF FeedInv, WireInv
      <4>3. Sess(a)' /\ log'[a].via = c
        BY <1>s, <4>2
      <4> QED
        BY <4>1, <4>3 DEF Sess
    <3> QED
      BY <3>1
  <2>2. \A h \in Goroutines : rec'[h].at > 0 => log'[rec'[h].id].via = h
    <3>1. ASSUME NEW h \in Goroutines, rec'[h].at > 0 PROVE log'[rec'[h].id].via = h
      <4>1. CASE h = g
        BY <1>5, <1>n, <4>1
      <4>2. CASE h # g
        BY <1>5, <1>b, <1>s, <3>1, <4>2 DEF FeedInv, WireInv
      <4> QED
        BY <4>1, <4>2
    <3> QED
      BY <3>1
  <2>3. ASSUME NEW c \in Conns, rec'[c].at > 0, Sess(rec[c].id)', NEW i \in DOMAIN up[c]
        PROVE  rec'[c].id < up[c][i]
    <3>1. c # g
      BY <1>5, <1>n, <2>3 DEF Sess
    <3>2. c \in Goroutines
      BY DEF Goroutines
    <3>3. rec'[c] = rec[c] /\ rec[c].at > 0 /\ rec[c].id \in Born
      BY <1>5, <1>b, <2>3, <3>1, <3>2
    <3>4. Sess(rec[c].id)
      BY <1>s, <2>3, <3>3 DEF Sess
    <3> QED
      BY <3>3, <3>4 DEF FeedInv, WireInv
  <2>4. \A c \in Conns : \A i, j \in DOMAIN up[c] : i < j => up[c][i] < up[c][j]
    BY DEF FeedInv, WireInv
  <2> QED
    BY <2>1, <2>2, <2>3, <2>4 DEF WireInv, Quiescent
<1>9. PastInv'
  <2>1. \A c \in Conns : \A i \in DOMAIN up'[c] : up'[c][i] \in Range(up[c])
    BY DEF Range
  <2>2. ASSUME NEW c \in Conns, rec'[c].at > 0, Sess(rec[c].id)'
        PROVE  rec[c].at > 0 /\ rec'[c].id = rec[c].id
    <3>1. c # g
      BY <1>5, <1>n, <2>2 DEF Sess
    <3>2. c \in Goroutines
      BY DEF Goroutines
    <3> QED
      BY <1>5, <2>2, <3>1, <3>2
  <2>3. \A j \in Seen : Past(j)'
    <3>1. \A j \in Born : Past(j) => Past(j)'
      BY <1>4, <2>1, <2>2, PastKept DEF FeedInv
    <3> QED
      BY <1>b, <3>1 DEF FeedInv, PastInv
  <2>4. ASSUME NEW h \in Goroutines, rec'[h].at \in {1, 2} PROVE rec'[h].id \notin Range(ring)
    BY <1>4, <1>5, <1>b, <2>4 DEF FeedInv, PastInv
  <2> QED
    BY <1>6, <2>3, <2>4 DEF PastInv
<1>10. OrderInv'
  BY <1>4, OrderKept DEF FeedInv
<1>11. SavedInv'
  <2>1. \A h \in Goroutines : rec'[h].at >= 2 => rec'[h].id \in Saved
    BY <1>5 DEF FeedInv, SavedInv
  <2> QED
    BY <1>6, <2>1 DEF FeedInv, SavedInv
<1> QED
  BY <1>7, <1>8, <1>9, <1>10, <1>11 DEF FeedInv

\* Connections lose the end of what waits on them.
LEMMA FeedLoses ==
    ASSUME Types, FeedInv, NEW c \in Conns, NEW k \in 0 .. Len(up[c]),
           up' = [up EXCEPT ![c] = SubSeq(up[c], 1, k)],
           UNCHANGED <<log, rec, ring, shown, inbox>>, Saved' = Saved, Quiescent'
    PROVE  FeedInv'
<1>1. Seen' = Seen /\ Kept /\ Born' = Born
  BY SeenKept, SameLog
<1>t. up \in [Conns -> Seq(Ids)]
  BY DEF Types, NetTypes
<1>2. ASSUME NEW d \in Conns
      PROVE  /\ DOMAIN up'[d] \subseteq DOMAIN up[d]
             /\ \A i \in DOMAIN up'[d] : up'[d][i] = up[d][i]
  <2>1. /\ DOMAIN SubSeq(up[c], 1, k) \subseteq DOMAIN up[c]
        /\ \A i \in DOMAIN SubSeq(up[c], 1, k) : SubSeq(up[c], 1, k)[i] = up[c][i]
    <3>1. up[c] \in Seq(Ids)
      BY <1>t
    <3>2. /\ DOMAIN up[c] = 1 .. Len(up[c]) /\ DOMAIN SubSeq(up[c], 1, k) = 1 .. k
          /\ \A i \in 1 .. k : SubSeq(up[c], 1, k)[i] = up[c][i]
      BY <3>1, PrefixFacts
    <3> QED
      BY <3>1, <3>2
  <2>2. d # c => up'[d] = up[d]
    BY <1>t
  <2>3. up'[c] = SubSeq(up[c], 1, k)
    BY <1>t
  <2> QED
    BY <2>1, <2>2, <2>3
<1>3. \A d \in Conns : Range(up'[d]) \subseteq Range(up[d])
  BY <1>2 DEF Range
<1>4. BornInv' /\ SavedInv'
  BY <1>1, <1>3 DEF FeedInv, BornInv, SavedInv
<1>5. WireInv'
  <2>1. ASSUME NEW d \in Conns, NEW i \in DOMAIN up'[d]
        PROVE  Sess(up[d][i])' /\ log'[up'[d][i]].via = d
    BY SMTT(30), <1>2, <2>1 DEF FeedInv, WireInv, Sess
  <2>2. ASSUME NEW d \in Conns, NEW i \in DOMAIN up'[d], NEW j \in DOMAIN up'[d], i < j
        PROVE  up'[d][i] < up'[d][j]
    BY <1>2, <2>2 DEF FeedInv, WireInv
  <2>3. ASSUME NEW d \in Conns, rec'[d].at > 0, Sess(rec[d].id)', NEW i \in DOMAIN up'[d]
        PROVE  rec'[d].id < up'[d][i]
    BY <1>2, <2>3 DEF FeedInv, WireInv, Sess
  <2>4. \A g \in Goroutines : rec'[g].at > 0 => log'[rec'[g].id].via = g
    BY DEF FeedInv, WireInv
  <2> QED
    BY <2>1, <2>2, <2>3, <2>4 DEF WireInv, Quiescent
<1>6. PastInv'
  <2>1. ASSUME NEW j \in Seen PROVE Past(j)'
    BY SMTT(30), <1>2 DEF FeedInv, PastInv, Past, Sess
  <2> QED
    BY <1>1, <2>1 DEF FeedInv, PastInv
<1>7. OrderInv'
  BY <1>1, OrderKept DEF FeedInv
<1> QED
  BY <1>4, <1>5, <1>6, <1>7 DEF FeedInv

\* The goroutine of a connection takes the next report: it is not in the ring
\* yet, because what is there is older.
LEMMA FeedReads ==
    ASSUME Types, FeedInv, NEW c \in Conns, ReadReport(c)
    PROVE  FeedInv'
<1>t. /\ up \in [Conns -> Seq(Ids)] /\ up[c] \in Seq(Ids) /\ up[c] # <<>> /\ c \in Goroutines
      /\ conn[c] = "open" /\ rec[c] = Idle
      /\ up' = [up EXCEPT ![c] = Tail(up[c])] /\ rec' = Start(c, Head(up[c]))
      /\ UNCHANGED <<conn, log, ring, shown, inbox, stored, pruned, unsaved>>
  BY DEF ReadReport, Types, NetTypes, Goroutines, dbVars, dashVars
<1>1. Seen' = Seen /\ Kept /\ Born' = Born /\ Saved' = Saved
  BY <1>t, SeenKept, SameLog DEF Saved
<1>2. PICK h \in Ids : /\ h = Head(up[c]) /\ h = up[c][1] /\ 1 \in DOMAIN up[c]
  BY <1>t, TailFacts
<1>3. /\ DOMAIN up'[c] = 1 .. Len(up[c]) - 1 /\ DOMAIN up[c] = 1 .. Len(up[c])
      /\ Len(up[c]) \in Nat /\ \A i \in DOMAIN up'[c] : up'[c][i] = up[c][i + 1]
      /\ \A d \in Conns \ {c} : up'[d] = up[d]
  BY <1>t, TailFacts
<1>4. rec'[c] = [at |-> 1, id |-> h] /\ \A g \in Goroutines \ {c} : rec'[g] = rec[g]
  BY <1>t, <1>2, StartType
<1>5. ASSUME NEW i \in DOMAIN up'[c]
      PROVE  /\ i + 1 \in DOMAIN up[c] /\ up'[c][i] = up[c][i + 1] /\ 1 < i + 1
             /\ h < up'[c][i] /\ Sess(up[c][i + 1]) /\ log[up[c][i + 1]].via = c
  <2>1. i + 1 \in DOMAIN up[c] /\ up'[c][i] = up[c][i + 1] /\ 1 < i + 1
    BY SMTT(30), <1>3
  <2> QED
    BY <1>2, <2>1 DEF FeedInv, WireInv
<1>6. h \in Born /\ Sess(h) /\ log[h].via = c /\ Range(up'[c]) \subseteq Range(up[c])
  <2>1. h \in Range(up[c])
    BY <1>2 DEF Range
  <2> QED
    BY <1>2, <1>5, <2>1 DEF FeedInv, BornInv, WireInv, Range
<1>7. \A d \in Conns : Range(up'[d]) \subseteq Range(up[d])
  BY <1>3, <1>6
<1>8. BornInv' /\ SavedInv'
  <2>1. \A g \in Goroutines : rec'[g].at > 0 => rec'[g].id \in Born
    BY <1>4, <1>6 DEF FeedInv, BornInv
  <2>2. BornInv'
    BY <1>1, <1>7, <2>1 DEF FeedInv, BornInv
  <2>3. \A g \in Goroutines : rec'[g].at >= 2 => rec'[g].id \in Saved
    BY <1>4 DEF FeedInv, SavedInv
  <2> QED
    BY <1>1, <2>2, <2>3 DEF FeedInv, SavedInv
<1>9. WireInv'
  <2>1. ASSUME NEW d \in Conns, NEW i \in DOMAIN up'[d]
        PROVE  Sess(up[d][i])' /\ log'[up'[d][i]].via = d
    <3>1. CASE d = c
      BY <1>5, <1>t, <2>1, <3>1 DEF Sess
    <3>2. CASE d # c
      BY <1>3, <1>t, <2>1, <3>2 DEF Sess, FeedInv, WireInv
    <3> QED
      BY <3>1, <3>2
  <2>2. ASSUME NEW d \in Conns, NEW i \in DOMAIN up'[d], NEW j \in DOMAIN up'[d], i < j
        PROVE  up'[d][i] < up'[d][j]
    <3>1. CASE d = c
      <4>1. i + 1 < j + 1
        BY <1>3, <2>2, <3>1
      <4> QED
        BY <1>5, <2>2, <3>1, <4>1 DEF FeedInv, WireInv
    <3>2. CASE d # c
      BY <1>3, <2>2, <3>2 DEF FeedInv, WireInv
    <3> QED
      BY <3>1, <3>2
  <2>3. ASSUME NEW d \in Conns, rec'[d].at > 0, Sess(rec[d].id)', NEW i \in DOMAIN up'[d]
        PROVE  rec'[d].id < up'[d][i]
    <3>1. CASE d = c
      BY <1>4, <1>5, <2>3, <3>1
    <3>2. CASE d # c
      <4>1. d \in Goroutines
        BY DEF Goroutines
      <4>2. rec'[d] = rec[d] /\ up'[d] = up[d]
        BY <1>3, <1>4, <3>2, <4>1
      <4> QED
        BY <1>t, <2>3, <4>2 DEF FeedInv, WireInv, Sess
    <3> QED
      BY <3>1, <3>2
  <2>4. ASSUME NEW g \in Goroutines, rec'[g].at > 0 PROVE log'[rec'[g].id].via = g
    <3>1. CASE g = c
      BY <1>4, <1>6, <1>t, <3>1
    <3>2. CASE g # c
      BY <1>4, <1>t, <2>4, <3>2 DEF FeedInv, WireInv
    <3> QED
      BY <3>1, <3>2
  <2>5. ASSUME NEW d \in Conns, conn'[d] \in {"free", "dialed", "ended"} PROVE rec'[d] = Idle
    <3>1. d # c /\ d \in Goroutines
      BY <1>t, <2>5 DEF Goroutines
    <3> QED
      BY <1>4, <1>t, <2>5, <3>1 DEF FeedInv, WireInv
  <2> QED
    BY <2>1, <2>2, <2>3, <2>4, <2>5 DEF WireInv
<1>10. PastInv'
  <2>1. \A d \in Conns : \A i \in DOMAIN up'[d] : up'[d][i] \in Range(up[d])
    BY <1>7 DEF Range
  <2>2. ASSUME NEW d \in Conns, rec'[d].at > 0, Sess(rec[d].id)'
        PROVE  (rec[d].at > 0 /\ rec'[d].id = rec[d].id) \/ rec'[d].id \in Range(up[d])
    <3>1. CASE d = c
      BY <1>2, <1>4, <3>1 DEF Range
    <3>2. CASE d # c
      <4>1. d \in Goroutines
        BY DEF Goroutines
      <4> QED
        BY <1>4, <2>2, <3>2, <4>1
    <3> QED
      BY <3>1, <3>2
  <2>3. \A j \in Born : Past(j) => Past(j)'
    BY <1>1, <2>1, <2>2, PastKept DEF FeedInv
  <2>4. \A j \in Seen : Past(j)'
    BY <2>3 DEF FeedInv, PastInv, BornInv
  <2>5. ASSUME NEW g \in Goroutines, rec'[g].at \in {1, 2} PROVE rec'[g].id \notin Range(ring)
    <3>1. CASE g = c
      <4>1. SUFFICES ASSUME h \in Range(ring) PROVE FALSE
        BY <1>4, <3>1
      <4>2. Past(h)
        BY <4>1 DEF Seen, FeedInv, PastInv
      <4>3. h < up[c][1]
        BY <1>2, <1>6, <4>2 DEF Past
      <4> QED
        BY <1>2, <4>3 DEF Ids
    <3>2. CASE g # c
      BY <1>4, <2>5, <3>2 DEF FeedInv, PastInv
    <3> QED
      BY <3>1, <3>2
  <2> QED
    BY <1>1, <1>t, <2>4, <2>5 DEF PastInv
<1>11. OrderInv'
  BY <1>1, <1>t, OrderKept DEF FeedInv
<1> QED
  BY <1>8, <1>9, <1>10, <1>11 DEF FeedInv

\* The agent reports what a poll found: nothing that exists is newer.
LEMMA FeedDiscover ==
    ASSUME Types, FeedInv, NEW seen \in Members, Discover(seen)
    PROVE  FeedInv'
<1>1. PICK e \in Events : e = DiffSessionEvents(known, seen) /\ e.kind \in SessionKinds /\ e.via = cur
  BY DiffFacts
<1>2. Create(e)
  BY <1>1 DEF Discover
<1>3. PICK n \in Ids : n = NewId
  BY <1>2, CreateKeeps
<1>4. /\ Kept /\ n \notin Born /\ Born' = Born \cup {n} /\ log'[n] = e
      /\ Born \subseteq Nat /\ \A i \in Born : i < n
  BY <1>2, <1>3, CreateKeeps
<1>5. UNCHANGED <<conn, rec, ring, shown, inbox, stored, pruned, unsaved>>
  BY DEF Discover, dbVars, dashVars
<1>6. Seen' = Seen /\ Saved' = Saved
  BY <1>5, SeenKept DEF Saved
<1>u. \/ UNCHANGED up
      \/ cur \in Conns /\ up'[cur] = Append(up[cur], n) /\ \A c \in Conns \ {cur} : up'[c] = up[c]
  BY <1>3, SendType DEF Discover
<1>b. /\ \A c \in Conns : \A i \in DOMAIN up[c] : up[c][i] \in Born
      /\ \A h \in Goroutines : rec[h].at > 0 => rec[h].id \in Born
      /\ Seen \subseteq Born /\ Saved \subseteq Born /\ Range(ring) \subseteq Born
  BY DEF FeedInv, BornInv, Range, Seen
<1>s. /\ \A i \in Born : Sess(i)' <=> Sess(i)
      /\ \A i \in Born : log'[i] = log[i]
  BY <1>4, SessKept DEF Kept
<1>7. ASSUME NEW c \in Conns, NEW i \in DOMAIN up'[c]
      PROVE  \/ i \in DOMAIN up[c] /\ up'[c][i] = up[c][i]
             \/ /\ up'[c][i] = n /\ c = cur /\ i \notin DOMAIN up[c]
                /\ \A j \in DOMAIN up'[c] : j # i => j \in DOMAIN up[c] /\ j < i
  <2>1. up[c] \in Seq(Ids)
    BY DEF Types, NetTypes
  <2>2. CASE up'[c] = up[c]
    BY <1>7, <2>2
  <2>3. CASE c = cur /\ up'[c] = Append(up[c], n)
    BY SMTT(30), <1>7, <2>1, <2>3, AppendFacts
  <2> QED
    BY <1>u, <2>2, <2>3
<1>8. BornInv'
  <2>1. \A c \in Conns : Range(up'[c]) \subseteq Born'
    <3>1. ASSUME NEW c \in Conns, NEW i \in DOMAIN up'[c] PROVE up'[c][i] \in Born'
      BY <1>4, <1>7, <1>b
    <3> QED
      BY <3>1 DEF Range
  <2>2. \A h \in Goroutines : rec'[h].at > 0 => rec'[h].id \in Born'
    BY <1>4, <1>5, <1>b
  <2> QED
    BY <1>4, <1>6, <1>b, <2>1, <2>2 DEF BornInv
<1>9. WireInv'
  <2>1. ASSUME NEW c \in Conns, NEW i \in DOMAIN up'[c]
        PROVE  Sess(up[c][i])' /\ log'[up'[c][i]].via = c
    <3>1. CASE i \in DOMAIN up[c] /\ up'[c][i] = up[c][i]
      <4>1. PICK a \in Born : a = up[c][i]
        BY <1>b, <3>1
      <4>2. Sess(a) /\ log[a].via = c
        BY <3>1, <4>1 DEF FeedInv, WireInv
      <4>3. Sess(a)' /\ log'[a].via = c
        BY <1>s, <4>2
      <4> QED
        BY <3>1, <4>1, <4>3 DEF Sess
    <3>2. CASE up'[c][i] = n /\ c = cur
      BY <1>1, <1>4, <3>2 DEF Sess
    <3> QED
      BY <1>7, <3>1, <3>2
  <2>2. ASSUME NEW c \in Conns, NEW i \in DOMAIN up'[c], NEW j \in DOMAIN up'[c], i < j
        PROVE  up'[c][i] < up'[c][j]
    <3>0. up[c] \in Seq(Ids)
      BY DEF Types, NetTypes
    <3>1. i \in DOMAIN up[c] /\ up'[c][i] = up[c][i]
      <4>1. CASE up'[c] = up[c]
        BY <2>2, <4>1
      <4>2. CASE up'[c] = Append(up[c], n)
        BY <2>2, <3>0, <4>2, AppendFacts
      <4> QED
        BY <1>u, <4>1, <4>2
    <3>2. CASE j \in DOMAIN up[c] /\ up'[c][j] = up[c][j]
      BY <2>2, <3>1, <3>2 DEF FeedInv, WireInv
    <3>3. CASE up'[c][j] = n
      BY <1>4, <1>b, <3>1, <3>3
    <3> QED
      BY <1>7, <3>2, <3>3
  <2>3. ASSUME NEW c \in Conns, rec'[c].at > 0, Sess(rec[c].id)', NEW i \in DOMAIN up'[c]
        PROVE  rec'[c].id < up'[c][i]
    <3>1. c \in Goroutines
      BY DEF Goroutines
    <3>2. PICK a \in Born : a = rec[c].id /\ rec'[c].id = a /\ rec[c].at > 0
      BY <1>5, <1>b, <2>3, <3>1
    <3>3. Sess(a)
      BY <1>s, <2>3, <3>2 DEF Sess
    <3>4. CASE i \in DOMAIN up[c] /\ up'[c][i] = up[c][i]
      BY <3>2, <3>3, <3>4 DEF FeedInv, WireInv
    <3>5. CASE up'[c][i] = n
      BY <1>4, <3>2, <3>5
    <3> QED
      BY <1>7, <3>4, <3>5
  <2>4. ASSUME NEW h \in Goroutines, rec'[h].at > 0 PROVE log'[rec'[h].id].via = h
    BY <1>5, <1>b, <1>s, <2>4 DEF FeedInv, WireInv
  <2>5. \A c \in Conns : conn'[c] \in {"free", "dialed", "ended"} => rec'[c] = Idle
    BY <1>5 DEF FeedInv, WireInv
  <2> QED
    BY <2>1, <2>2, <2>3, <2>4, <2>5 DEF WireInv
<1>10. PastInv'
  <2>1. ASSUME NEW c \in Conns, NEW i \in DOMAIN up'[c]
        PROVE  up'[c][i] \in Range(up[c]) \/ \A j \in Born : j < up'[c][i]
    BY <1>4, <1>7 DEF Range
  <2>2. \A c \in Conns : rec'[c].at > 0 => rec[c].at > 0 /\ rec'[c].id = rec[c].id
    BY <1>5
  <2>3. \A j \in Born : Past(j) => Past(j)'
    BY <1>4, <2>1, <2>2, PastKept DEF FeedInv
  <2> QED
    BY <1>5, <1>6, <1>b, <2>3 DEF FeedInv, PastInv
<1>11. OrderInv'
  BY <1>4, <1>5, OrderKept DEF FeedInv
<1>12. SavedInv'
  BY <1>5, <1>6 DEF FeedInv, SavedInv
<1> QED
  BY <1>8, <1>9, <1>10, <1>11, <1>12 DEF FeedInv

\* A goroutine goes one step on with the event it records.
LEMMA Advances ==
    ASSUME Types, FeedInv, NEW g \in Goroutines, rec[g].at > 0, Advance(g),
           UNCHANGED <<log, up, conn>>
    PROVE  /\ Kept /\ Born' = Born /\ WireInv' /\ rec[g].id \in Born /\ log[rec[g].id].via = g
           /\ \A h \in Goroutines \ {g} : rec'[h] = rec[h]
           /\ \A h \in Goroutines : rec'[h].at > 0 =>
                 rec[h].at > 0 /\ rec'[h].id = rec[h].id /\ rec'[h].id \in Born
           /\ rec[g].at = 3 => rec'[g] = Idle
           /\ rec[g].at \in {1, 2} => rec'[g].at = rec[g].at + 1
           /\ \A j \in Born : Past(j) => Past(j)'
           /\ Past(rec[g].id)
<1>1. Kept /\ Born' = Born
  BY SameLog
<1>2. /\ \A h \in Goroutines \ {g} : rec'[h] = rec[h]
      /\ rec[g].at = 3 => rec'[g] = Idle
      /\ rec[g].at \in {1, 2} => rec'[g].at = rec[g].at + 1 /\ rec'[g].id = rec[g].id
  BY AdvanceType
<1>3. rec[g].at \in {1, 2} \/ rec[g].at = 3
  <2>1. rec[g].at \in 0 .. 3
    BY DEF Types, RecTypes, Records
  <2> QED
    BY <2>1
<1>4. \A h \in Goroutines : rec'[h].at > 0 =>
         rec[h].at > 0 /\ rec'[h].id = rec[h].id /\ rec'[h].id \in Born
  <2>1. ASSUME NEW h \in Goroutines, rec'[h].at > 0
        PROVE  rec[h].at > 0 /\ rec'[h].id = rec[h].id
    <3>1. CASE h = g
      <4>1. ~(Idle.at > 0)
        BY DEF Idle
      <4> QED
        BY <1>2, <1>3, <2>1, <3>1, <4>1
    <3>2. CASE h # g
      BY <1>2, <2>1, <3>2
    <3> QED
      BY <3>1, <3>2
  <2> QED
    BY <2>1 DEF FeedInv, BornInv
<1>5. rec[g].id \in Born /\ log[rec[g].id].via = g
  BY DEF FeedInv, BornInv, WireInv
<1>c. Conns \subseteq Goroutines
  BY DEF Goroutines
<1>6. WireInv'
  <2>1. ASSUME NEW c \in Conns, rec'[c].at > 0, Sess(rec[c].id)', NEW k \in DOMAIN up[c]
        PROVE  rec'[c].id < up[c][k]
    <3>1. rec[c].at > 0 /\ rec'[c].id = rec[c].id
      BY <1>4, <1>c, <2>1
    <3> QED
      BY <2>1, <3>1 DEF FeedInv, WireInv, Sess
  <2>2. ASSUME NEW c \in Conns, conn[c] \in {"free", "dialed", "ended"} PROVE rec'[c] = Idle
    <3>1. rec[c] = Idle
      BY <2>2 DEF FeedInv, WireInv
    <3>2. c # g
      BY <3>1 DEF Idle
    <3> QED
      BY <1>2, <1>c, <3>1, <3>2
  <2>3. \A h \in Goroutines : rec'[h].at > 0 => log[rec'[h].id].via = h
    BY <1>4 DEF FeedInv, WireInv
  <2>4. \A c \in Conns : \A k \in DOMAIN up[c] : Sess(up[c][k])' /\ log[up[c][k]].via = c
    BY DEF FeedInv, WireInv, Sess
  <2>5. \A c \in Conns : \A k, l \in DOMAIN up[c] : k < l => up[c][k] < up[c][l]
    BY DEF FeedInv, WireInv
  <2> QED
    BY <2>1, <2>2, <2>3, <2>4, <2>5 DEF WireInv
<1>7. \A j \in Born : Past(j) => Past(j)'
  <2>1. \A c \in Conns : \A k \in DOMAIN up'[c] : up'[c][k] \in Range(up[c])
    BY DEF Range
  <2>2. \A c \in Conns : rec'[c].at > 0 => rec[c].at > 0 /\ rec'[c].id = rec[c].id
    BY <1>4, <1>c
  <2> QED
    BY <1>1, <2>1, <2>2, PastKept DEF FeedInv
<1>8. Past(rec[g].id)
  <2>1. ASSUME NEW c \in Conns, Sess(rec[g].id), log[rec[g].id].via = c
        PROVE  /\ \A k \in DOMAIN up[c] : rec[g].id < up[c][k]
               /\ rec[c].at > 0 /\ Sess(rec[c].id) => rec[g].id <= rec[c].id
    <3>1. c = g
      BY <1>5, <2>1
    <3>2. rec[g].id \in Nat
      BY <1>5 DEF Born
    <3> QED
      BY <2>1, <3>1, <3>2 DEF FeedInv, WireInv
  <2> QED
    BY <2>1 DEF Past
<1> QED
  BY <1>1, <1>2, <1>4, <1>5, <1>6, <1>7, <1>8

\* What a goroutine records is not older than what was broadcast, added or
\* shown before.
LEMMA NewestOfAll ==
    ASSUME Types, FeedInv, NEW g \in Goroutines, rec[g].at > 0, NEW j \in Seen
    PROVE  NotAfter(j, rec[g].id)
<1>1. SUFFICES ASSUME Sess(j), Sess(rec[g].id), log[j].via = log[rec[g].id].via
               PROVE  j <= rec[g].id
  BY DEF NotAfter
<1>2. rec[g].id \in Born /\ log[rec[g].id].via = g
  BY DEF FeedInv, BornInv, WireInv
<1>3. g \in Conns
  <2>1. log \in Seq(Events)
    BY DEF Types, LogTypes
  <2>2. log[rec[g].id] \in Events
    BY <1>2, <2>1 DEF Born
  <2>3. g \in Conns \cup {NoConn}
    BY <1>1, <1>2, <2>2 DEF Events, Sess
  <2>4. NoConn \notin Goroutines
    BY DEF Goroutines, NoConn, Hub, Http
  <2> QED
    BY <2>3, <2>4
<1>4. Past(j)
  BY DEF FeedInv, PastInv
<1> QED
  BY <1>1, <1>2, <1>3, <1>4 DEF Past

\* SaveEvent: the row is stored, or refused.
LEMMA FeedSaves ==
    ASSUME Types, FeedInv, NEW g \in Goroutines, SaveEvent(g)
    PROVE  FeedInv'
<1>1. rec[g].at > 0 /\ Advance(g) /\ UNCHANGED <<log, up, conn, ring, shown, inbox>>
  BY DEF SaveEvent, Doing, netVars, dashVars
<1>2. PICK id \in Born : id = rec[g].id
  BY <1>1, Advances
<1>3. Kept /\ Born' = Born /\ WireInv' /\ \A j \in Born : Past(j) => Past(j)'
  BY <1>1, Advances
<1>4. /\ \A h \in Goroutines \ {g} : rec'[h] = rec[h]
      /\ \A h \in Goroutines : rec'[h].at > 0 =>
            rec[h].at > 0 /\ rec'[h].id = rec[h].id /\ rec'[h].id \in Born
  BY <1>1, Advances
<1>5. Seen' = Seen
  BY <1>1, SeenKept
<1>6. Saved' = Saved \cup {id}
  BY <1>2 DEF SaveEvent, Saved
<1>7. rec[g].at = 1
  BY StepFacts DEF SaveEvent, Types
<1>8. BornInv'
  BY <1>1, <1>3, <1>4, <1>5, <1>6 DEF FeedInv, BornInv
<1>9. PastInv'
  <2>1. \A j \in Seen : Past(j)'
    BY <1>3 DEF FeedInv, BornInv, PastInv
  <2>2. ASSUME NEW h \in Goroutines, rec'[h].at \in {1, 2} PROVE rec'[h].id \notin Range(ring)
    <3>1. CASE h = g
      BY <1>4, <1>7, <2>2, <3>1 DEF FeedInv, PastInv
    <3>2. CASE h # g
      BY <1>4, <2>2, <3>2 DEF FeedInv, PastInv
    <3> QED
      BY <3>1, <3>2
  <2> QED
    BY <1>1, <1>5, <2>1, <2>2 DEF PastInv
<1>10. OrderInv'
  BY <1>1, <1>3, OrderKept DEF FeedInv
<1>11. SavedInv'
  <2>1. ASSUME NEW h \in Goroutines, rec'[h].at >= 2 PROVE rec'[h].id \in Saved \cup {id}
    <3>1. CASE h = g
      <4>1. rec'[g].at > 0
        <5>1. RecTypes'
          BY <1>1, AdvanceType
        <5>2. rec'[g].at \in 0 .. 3
          BY <5>1 DEF RecTypes, Records
        <5> QED
          BY <2>1, <3>1, <5>2
      <4> QED
        BY <1>2, <1>4, <3>1, <4>1
    <3>2. CASE h # g
      BY <1>4, <2>1, <3>2 DEF FeedInv, SavedInv
    <3> QED
      BY <3>1, <3>2
  <2> QED
    BY <1>5, <1>6, <2>1 DEF FeedInv, SavedInv
<1> QED
  BY <1>3, <1>8, <1>9, <1>10, <1>11 DEF FeedInv

\* AddEvent: the ring gets the event at its end and loses its oldest one.
LEMMA FeedAdds ==
    ASSUME Types, FeedInv, NEW g \in Goroutines, AddEvent(g)
    PROVE  FeedInv'
<1>1. /\ rec[g].at = 2 /\ Advance(g) /\ UNCHANGED <<log, up, conn, shown, inbox, stored, pruned, unsaved>>
      /\ ring' = LastN(Append(ring, rec[g].id), RingCap)
  BY StepFacts DEF AddEvent, Types, netVars, dashVars, dbVars
<1>0. rec[g].at > 0
  BY <1>1
<1>2. PICK id \in Born : id = rec[g].id
  BY <1>0, <1>1, Advances
<1>3. /\ Kept /\ Born' = Born /\ WireInv' /\ log[id].via = g
      /\ \A j \in Born : Past(j) => Past(j)'
      /\ Past(id)
  BY <1>0, <1>1, <1>2, Advances
<1>4. /\ \A h \in Goroutines \ {g} : rec'[h] = rec[h]
      /\ \A h \in Goroutines : rec'[h].at > 0 =>
            rec[h].at > 0 /\ rec'[h].id = rec[h].id /\ rec'[h].id \in Born
      /\ rec'[g].at = 3
  BY <1>0, <1>1, Advances
<1>5. PICK q \in Seq(Ids) : q = Append(ring, id)
  <2>1. id \in Ids
    BY <1>0, <1>1, <1>2, AdvanceType
  <2> QED
    BY <2>1, AppendFacts DEF Types, RingTypes
<1>6. /\ Len(ring) \in Nat /\ DOMAIN ring = 1 .. Len(ring)
      /\ Len(q) = Len(ring) + 1 /\ q[Len(ring) + 1] = id
      /\ \A i \in 1 .. Len(ring) : q[i] = ring[i]
  <2>1. ring \in Seq(Ids) /\ id \in Ids
    BY <1>0, <1>1, <1>2, AdvanceType DEF Types, RingTypes
  <2> QED
    BY <1>5, <2>1, AppendFacts
<1>7. PICK d \in Nat : /\ d <= Len(q) /\ DOMAIN ring' = 1 .. (Len(q) - d)
                       /\ \A i \in 1 .. (Len(q) - d) : ring'[i] = q[i + d]
  <2>1. RingCap \in Nat \ {0}
    OBVIOUS
  <2>2. ring' = LastN(q, RingCap)
    BY <1>1, <1>2, <1>5
  <2>3. PICK d \in Nat : /\ LastN(q, RingCap) \in Seq(Ids) /\ Len(LastN(q, RingCap)) = Len(q) - d
                         /\ Len(LastN(q, RingCap)) <= RingCap /\ d <= Len(q)
                         /\ DOMAIN LastN(q, RingCap) = 1 .. (Len(q) - d)
                         /\ \A i \in 1 .. (Len(q) - d) : LastN(q, RingCap)[i] = q[i + d]
    BY <2>1, LastNFacts
  <2> QED
    BY <2>2, <2>3
<1>8. \A i, j \in 1 .. Len(q) : i < j => q[i] # q[j] /\ NotAfter(q[i], q[j])
  <2>1. ASSUME NEW i \in 1 .. Len(q), NEW j \in 1 .. Len(q), i < j
        PROVE  q[i] # q[j] /\ NotAfter(q[i], q[j])
    <3>1. i \in DOMAIN ring /\ q[i] = ring[i]
      BY <1>6, <2>1
    <3>2. CASE j \in DOMAIN ring
      <4>1. q[j] = ring[j]
        BY <1>6, <3>2
      <4>2. ring[i] # ring[j]
        BY <2>1, <3>1, <3>2 DEF FeedInv, OrderInv, IsInjective
      <4>3. NotAfter(ring[i], ring[j])
        BY <2>1, <3>1, <3>2 DEF FeedInv, OrderInv, Ascends
      <4> QED
        BY <3>1, <4>1, <4>2, <4>3
    <3>3. CASE j = Len(ring) + 1
      <4>1. q[j] = id /\ ring[i] \in Range(ring) /\ ring[i] \in Seen
        BY <1>6, <3>1, <3>3 DEF Range, Seen
      <4>2. ring[i] # id
        BY <1>1, <1>2, <4>1 DEF FeedInv, PastInv
      <4>3. NotAfter(ring[i], id)
        BY <1>0, <1>2, <4>1, NewestOfAll
      <4> QED
        BY <3>1, <4>1, <4>2, <4>3
    <3> QED
      BY <1>6, <3>2, <3>3
  <2> QED
    BY <2>1
<1>9. Range(ring') \subseteq Range(ring) \cup {id}
  <2>1. ASSUME NEW i \in DOMAIN ring' PROVE ring'[i] \in Range(ring) \cup {id}
    <3>1. i + d \in 1 .. Len(q) /\ ring'[i] = q[i + d]
      BY <1>6, <1>7
    <3>2. i + d \in 1 .. Len(ring) \/ i + d = Len(ring) + 1
      BY <1>6, <3>1
    <3> QED
      BY <1>6, <3>1, <3>2 DEF Range
  <2> QED
    BY <2>1 DEF Range
<1>10. Seen' \subseteq Seen \cup {id}
  BY <1>1, <1>9 DEF Seen, Told, MsgIds
<1>11. Saved' = Saved /\ id \in Saved
  BY <1>1, <1>2 DEF Saved, FeedInv, SavedInv
<1>12. BornInv'
  BY <1>1, <1>3, <1>4, <1>10, <1>11 DEF FeedInv, BornInv
<1>13. PastInv'
  <2>1. \A j \in Seen' : Past(j)'
    BY <1>3, <1>10 DEF FeedInv, BornInv, PastInv
  <2>2. ASSUME NEW h \in Goroutines, rec'[h].at \in {1, 2} PROVE rec'[h].id \notin Range(ring')
    <3>1. h # g
      BY <1>4, <2>2
    <3>2. rec'[h] = rec[h]
      BY <1>4, <3>1
    <3>3. rec[h].id # id
      <4>1. log[rec[h].id].via = h
        BY <2>2, <3>2 DEF FeedInv, WireInv
      <4> QED
        BY <1>3, <3>1, <4>1
    <3> QED
      BY <1>9, <2>2, <3>2, <3>3 DEF FeedInv, PastInv
  <2> QED
    BY <2>1, <2>2 DEF PastInv
<1>14. OrderInv'
  <2>1. ASSUME NEW i \in DOMAIN ring', NEW j \in DOMAIN ring', i < j
        PROVE  ring'[i] # ring'[j] /\ NotAfter(ring[i], ring[j])'
    <3>1. i + d \in 1 .. Len(q) /\ j + d \in 1 .. Len(q) /\ i + d < j + d
      BY SMTT(30), <1>6, <1>7, <2>1
    <3>2. q[i + d] # q[j + d] /\ NotAfter(q[i + d], q[j + d])
      BY <1>8, <3>1
    <3> QED
      BY <1>1, <1>7, <3>2 DEF NotAfter, Sess
  <2>2. IsInjective(ring') /\ Ascends(ring)'
    <3>1. IsInjective(ring')
      <4>1. \A i, j \in DOMAIN ring' : i < j \/ j < i \/ i = j
        BY <1>6, <1>7
      <4> QED
        BY <2>1, <4>1 DEF IsInjective
    <3>2. Ascends(ring)'
      BY <2>1 DEF Ascends
    <3> QED
      BY <3>1, <3>2
  <2>3. Descends(shown)'
    BY <1>1 DEF FeedInv, OrderInv, Descends, NotAfter, Sess
  <2>4. \A k \in DOMAIN inbox : inbox[k] \in Lists =>
           k = 1 /\ IsInjective(inbox[k][2]) /\ Descends(inbox[k][2])'
    BY <1>1 DEF FeedInv, OrderInv, Descends, NotAfter, Sess
  <2>5. ASSUME NEW k \in DOMAIN inbox, NEW l \in DOMAIN inbox, k < l,
               NEW i \in MsgIds(inbox[k]), NEW j \in MsgIds(inbox[l])
        PROVE  NotAfter(i, j)'
    <3>1. NotAfter(i, j)
      BY <2>5 DEF FeedInv, OrderInv
    <3> QED
      BY <1>1, <3>1 DEF NotAfter, Sess
  <2>6. ASSUME NEW k \in DOMAIN inbox, inbox[1] \notin Lists,
               NEW i \in Range(shown), NEW j \in MsgIds(inbox[k])
        PROVE  NotAfter(i, j)'
    <3>1. NotAfter(i, j)
      BY <2>6 DEF FeedInv, OrderInv
    <3> QED
      BY <1>1, <3>1 DEF NotAfter, Sess
  <2>7. IsInjective(shown) /\ \A k : MsgIds(inbox[k])' = MsgIds(inbox[k])
    BY <1>1 DEF FeedInv, OrderInv, MsgIds
  <2> QED
    BY <1>1, <2>2, <2>3, <2>4, <2>5, <2>6, <2>7 DEF OrderInv
<1>15. SavedInv'
  <2>1. ASSUME NEW h \in Goroutines, rec'[h].at >= 2 PROVE rec'[h].id \in Saved
    <3>1. CASE h = g
      BY <1>2, <1>4, <1>11, <3>1
    <3>2. CASE h # g
      BY <1>4, <2>1, <3>2 DEF FeedInv, SavedInv
    <3> QED
      BY <3>1, <3>2
  <2> QED
    BY <1>10, <1>11, <2>1 DEF FeedInv, SavedInv
<1> QED
  BY <1>3, <1>12, <1>13, <1>14, <1>15 DEF FeedInv

\* EmitOrg: the message goes to the end of what a live dashboard has to read.
LEMMA FeedEmits ==
    ASSUME Types, FeedInv, NEW g \in Goroutines, EmitEvent(g)
    PROVE  FeedInv'
<1>1. /\ rec[g].at = 3 /\ Advance(g)
      /\ UNCHANGED <<log, up, conn, ring, shown, stored, pruned, unsaved>>
  BY StepFacts DEF EmitEvent, Types, netVars, dbVars
<1>0. rec[g].at > 0
  BY <1>1
<1>2. PICK id \in Born : id = rec[g].id
  BY <1>0, <1>1, Advances
<1>3. Kept /\ Born' = Born /\ WireInv' /\ Past(id) /\ \A j \in Born : Past(j) => Past(j)'
  BY <1>0, <1>1, <1>2, Advances
<1>4. /\ \A h \in Goroutines \ {g} : rec'[h] = rec[h]
      /\ \A h \in Goroutines : rec'[h].at > 0 =>
            rec[h].at > 0 /\ rec'[h].id = rec[h].id /\ rec'[h].id \in Born
      /\ rec'[g] = Idle
  BY <1>0, <1>1, Advances
<1>5. PICK m \in News : m = <<id>>
  <2>1. id \in Ids
    BY <1>0, <1>1, <1>2, AdvanceType
  <2> QED
    BY <2>1 DEF News
<1>m. m \notin Lists /\ MsgIds(m) = {id}
  BY <1>5, MsgFacts
<1>6. inbox' = <<>> \/ inbox' = inbox \/ inbox' = Append(inbox, m)
  BY <1>2, <1>5 DEF EmitEvent
<1>t. inbox \in Seq(Lists \cup News)
  BY DEF Types, DashTypes
<1>7. ASSUME NEW k \in DOMAIN inbox'
      PROVE  \/ k \in DOMAIN inbox /\ inbox'[k] = inbox[k]
             \/ inbox'[k] = m /\ k \notin DOMAIN inbox /\ \A l \in DOMAIN inbox' : l <= k
  <2>1. CASE inbox' = <<>>
    BY <2>1
  <2>2. CASE inbox' = inbox
    BY <2>2
  <2>3. CASE inbox' = Append(inbox, m)
    BY <1>t, <2>3, AppendFacts
  <2> QED
    BY <1>6, <2>1, <2>2, <2>3
<1>8. ASSUME NEW k \in DOMAIN inbox' PROVE MsgIds(inbox'[k]) \subseteq Told \cup {id}
  BY <1>7, <1>m DEF Told
<1>9. Seen' \subseteq Seen \cup {id}
  <2>1. Told' = Range(shown) \cup UNION {MsgIds(inbox'[k]) : k \in DOMAIN inbox'}
    BY <1>1 DEF Told, MsgIds
  <2>2. UNION {MsgIds(inbox'[k]) : k \in DOMAIN inbox'} \subseteq Told \cup {id}
    BY <1>8
  <2>3. Range(shown) \subseteq Told
    BY DEF Told
  <2>4. Told' \subseteq Told \cup {id}
    BY <2>1, <2>2, <2>3
  <2> QED
    BY <1>1, <2>4 DEF Seen
<1>10. Saved' = Saved /\ id \in Saved
  BY <1>1, <1>2 DEF Saved, FeedInv, SavedInv
<1>11. BornInv'
  BY <1>1, <1>3, <1>4, <1>9, <1>10 DEF FeedInv, BornInv
<1>12. PastInv'
  <2>1. \A j \in Seen' : Past(j)'
    BY <1>3, <1>9 DEF FeedInv, BornInv, PastInv
  <2>2. ASSUME NEW h \in Goroutines, rec'[h].at \in {1, 2} PROVE rec'[h].id \notin Range(ring)
    <3>1. h # g
      BY <1>4, <2>2 DEF Idle
    <3> QED
      BY <1>4, <2>2, <3>1 DEF FeedInv, PastInv
  <2> QED
    BY <1>1, <2>1, <2>2 DEF PastInv
<1>13. OrderInv'
  <2>1. \A i, j : NotAfter(i, j)' <=> NotAfter(i, j)
    BY <1>1 DEF NotAfter, Sess
  <2>2. IsInjective(ring)' /\ Ascends(ring)' /\ IsInjective(shown)' /\ Descends(shown)'
    BY <1>1 DEF FeedInv, OrderInv, IsInjective, Ascends, Descends, NotAfter, Sess
  <2>3. ASSUME NEW k \in DOMAIN inbox', inbox'[k] \in Lists
        PROVE  k = 1 /\ IsInjective(inbox'[k][2]) /\ Descends(inbox[k][2])'
    <3>1. k \in DOMAIN inbox /\ inbox'[k] = inbox[k]
      BY <1>7, <1>m, <2>3
    <3>2. PICK s : s = inbox[k][2]
      OBVIOUS
    <3>3. k = 1 /\ IsInjective(s) /\ Descends(s)
      BY <2>3, <3>1, <3>2 DEF FeedInv, OrderInv
    <3>4. Descends(s)'
      BY <2>1, <3>3 DEF Descends
    <3> QED
      BY <3>1, <3>2, <3>3, <3>4 DEF Descends, NotAfter, Sess
  <2>4. ASSUME NEW k \in DOMAIN inbox', NEW l \in DOMAIN inbox', k < l,
               NEW i \in MsgIds(inbox'[k]), NEW j \in MsgIds(inbox'[l])
        PROVE  NotAfter(i, j)'
    <3>1. k \in DOMAIN inbox /\ inbox'[k] = inbox[k]
      <4>1. k \in Nat /\ l \in Nat
        <5>1. DashTypes' => inbox' \in Seq(Lists \cup News)
          BY DEF DashTypes
        <5>2. Types'
          BY TypesRecord DEF Record
        <5> QED
          BY <5>1, <5>2 DEF Types
      <4> QED
        BY <1>7, <2>4, <4>1
    <3>2. CASE l \in DOMAIN inbox /\ inbox'[l] = inbox[l]
      BY <2>1, <2>4, <3>1, <3>2 DEF FeedInv, OrderInv
    <3>3. CASE inbox'[l] = m
      <4>1. j = id /\ i \in Seen
        BY <1>m, <2>4, <3>1, <3>3 DEF Seen, Told
      <4> QED
        BY <1>0, <1>2, <2>1, <4>1, NewestOfAll
    <3> QED
      BY <1>7, <3>2, <3>3
  <2>5. ASSUME NEW k \in DOMAIN inbox', inbox'[1] \notin Lists,
               NEW i \in Range(shown), NEW j \in MsgIds(inbox'[k])
        PROVE  NotAfter(i, j)'
    <3>1. CASE k \in DOMAIN inbox /\ inbox'[k] = inbox[k]
      <4>1. inbox'[1] = inbox[1]
        <5>1. 1 \in DOMAIN inbox /\ 1 \in DOMAIN inbox'
          <6>1. DOMAIN inbox = 1 .. Len(inbox) /\ Len(inbox) \in Nat
            BY <1>t
          <6>2. 1 \in DOMAIN inbox
            BY <3>1, <6>1
          <6>3. 1 \in DOMAIN inbox'
            BY <1>6, <1>t, <2>5, <6>2, AppendFacts
          <6> QED
            BY <6>2, <6>3
        <5> QED
          BY <1>7, <5>1
      <4> QED
        BY <2>1, <2>5, <3>1, <4>1 DEF FeedInv, OrderInv
    <3>2. CASE inbox'[k] = m
      <4>1. j = id /\ i \in Seen
        BY <1>m, <2>5, <3>2 DEF Seen, Told
      <4> QED
        BY <1>0, <1>2, <2>1, <4>1, NewestOfAll
    <3> QED
      BY <1>7, <3>1, <3>2
  <2>6. \A k : MsgIds(inbox[k])' = MsgIds(inbox'[k])
    BY DEF MsgIds
  <2>7. /\ \A k \in DOMAIN inbox' : inbox'[k] \in Lists' =>
              k = 1 /\ IsInjective(inbox'[k][2]) /\ Descends(inbox[k][2])'
        /\ Lists' = Lists
    BY <2>3
  <2>8. \A k, l \in DOMAIN inbox' : k < l =>
           \A i \in MsgIds(inbox[k])', j \in MsgIds(inbox[l])' : NotAfter(i, j)'
    BY <2>4, <2>6
  <2>9. \A k \in DOMAIN inbox' : inbox'[1] \notin Lists =>
           \A i \in Range(shown'), j \in MsgIds(inbox[k])' : NotAfter(i, j)'
    BY <1>1, <2>5, <2>6
  <2> QED
    BY <2>2, <2>7, <2>8, <2>9 DEF OrderInv
<1>14. SavedInv'
  <2>1. ASSUME NEW h \in Goroutines, rec'[h].at >= 2 PROVE rec'[h].id \in Saved
    <3>1. CASE h = g
      BY <1>4, <2>1, <3>1 DEF Idle
    <3>2. CASE h # g
      BY <1>4, <2>1, <3>2 DEF FeedInv, SavedInv
    <3> QED
      BY <3>1, <3>2
  <2> QED
    BY <1>9, <1>10, <2>1 DEF FeedInv, SavedInv
<1> QED
  BY <1>3, <1>11, <1>12, <1>13, <1>14 DEF FeedInv

\* A restart of the server: nothing is on the way, the ring is read from the
\* database.
LEMMA FeedRestarts ==
    ASSUME Types, FeedInv, ServerRestarts
    PROVE  FeedInv'
<1>1. /\ up' = [c \in Conns |-> <<>>] /\ rec' = [g \in Goroutines |-> Idle]
      /\ inbox' = <<>> /\ UNCHANGED <<log, stored, pruned, shown>>
      /\ unsaved' = unsaved \cup ((Recording \ {0}) \ stored)
  BY DEF ServerRestarts
<1>2. PICK k \in Nat : ring' \in Seed(k)
  BY DEF ServerRestarts
<1>3. /\ ring' \in Seq(Ids) /\ Range(ring') \subseteq stored
      /\ \A i, j \in DOMAIN ring' : i < j => ring'[i] < ring'[j]
  BY <1>2, SeedFacts
<1>4. Kept /\ Born' = Born
  BY <1>1, SameLog
<1>r. \A g \in Goroutines : rec'[g] = Idle /\ rec'[g].at = 0
  BY <1>1 DEF Idle
<1>c. Conns \subseteq Goroutines
  BY DEF Goroutines
<1>5. Seen' \subseteq stored \cup Range(shown)
  BY <1>1, <1>3 DEF Seen, Told
<1>s. Range(shown) \subseteq Seen
  BY DEF Seen, Told
<1>6. Saved \subseteq Saved' /\ Saved' \subseteq Saved \cup (Recording \ {0}) /\ stored \subseteq Saved
  BY <1>1 DEF Saved
<1>7. Recording \ {0} \subseteq Born
  <2>1. ASSUME NEW g \in Goroutines, rec[g].id # 0 PROVE rec[g].id \in Born
    <3>1. rec[g].at \in 0 .. 3 /\ rec[g].at # 0
      BY <2>1 DEF Types, RecTypes, Records
    <3>2. rec[g].at > 0
      BY <3>1
    <3> QED
      BY <3>2 DEF FeedInv, BornInv
  <2> QED
    BY <2>1 DEF Recording
<1>8. BornInv'
  <2>1. \A c \in Conns : Range(up'[c]) \subseteq Born
    BY <1>1 DEF Range
  <2>2. Seen' \subseteq Born /\ Saved' \subseteq Born
    BY <1>5, <1>6, <1>7, <1>s DEF FeedInv, BornInv
  <2>3. \A g \in Goroutines : ~(rec'[g].at > 0)
    BY <1>r
  <2> QED
    BY <1>4, <2>1, <2>2, <2>3 DEF BornInv
<1>9. WireInv'
  <2>1. \A c \in Conns : DOMAIN up'[c] = {}
    BY <1>1
  <2>2. \A g \in Goroutines : ~(rec'[g].at > 0)
    BY <1>r
  <2>3. \A c \in Conns : rec'[c] = Idle /\ ~(rec'[c].at > 0)
    BY <1>c, <1>r, <2>2
  <2> QED
    BY <2>1, <2>2, <2>3 DEF WireInv
<1>10. PastInv'
  <2>1. \A c \in Conns : DOMAIN up'[c] = {} /\ ~(rec'[c].at > 0)
    BY <1>1, <1>c, <1>r
  <2>2. \A j : Past(j)'
    BY <2>1 DEF Past
  <2>3. \A g \in Goroutines : ~(rec'[g].at \in {1, 2})
    BY <1>r
  <2> QED
    BY <2>2, <2>3 DEF PastInv
<1>11. OrderInv'
  <2>1. DOMAIN ring' \subseteq Nat /\ \A i \in DOMAIN ring' : ring'[i] \in Nat
    BY SMTT(30), <1>3 DEF Ids
  <2>2. IsInjective(ring)'
    <3>1. \A i, j \in DOMAIN ring' : i < j \/ j < i \/ i = j
      BY <2>1
    <3>2. \A i, j \in DOMAIN ring' : i < j => ring'[i] # ring'[j]
      BY <1>3, <2>1
    <3> QED
      BY <3>1, <3>2 DEF IsInjective
  <2>3. Ascends(ring)'
    BY <1>3, <2>1 DEF Ascends, NotAfter
  <2>4. IsInjective(shown)' /\ Descends(shown)'
    BY <1>1 DEF FeedInv, OrderInv, IsInjective, Descends, NotAfter, Sess
  <2>5. DOMAIN inbox' = {}
    BY <1>1
  <2> QED
    BY <2>2, <2>3, <2>4, <2>5 DEF OrderInv
<1>12. SavedInv'
  <2>1. \A g \in Goroutines : ~(rec'[g].at >= 2)
    BY <1>r
  <2>2. Seen' \subseteq Saved'
    BY <1>5, <1>6, <1>s DEF FeedInv, SavedInv
  <2> QED
    BY <2>1, <2>2 DEF SavedInv
<1> QED
  BY <1>8, <1>9, <1>10, <1>11, <1>12 DEF FeedInv

\* The dashboard shows and reads only what was broadcast or is in the ring.
LEMMA FeedShows ==
    ASSUME Types, FeedInv, Seen' \subseteq Seen, OrderInv',
           UNCHANGED <<log, conn, up, rec, ring, stored, pruned, unsaved>>
    PROVE  FeedInv'
<1>1. Saved' = Saved /\ Born' = Born
  BY DEF Saved, Born
<1>2. BornInv' /\ SavedInv'
  BY <1>1 DEF FeedInv, BornInv, SavedInv
<1>3. WireInv'
  BY DEF FeedInv, WireInv, Sess
<1>4. PastInv'
  <2>1. \A j : Past(j)' <=> Past(j)
    BY DEF Past, Sess
  <2> QED
    BY <2>1 DEF FeedInv, PastInv
<1> QED
  BY <1>2, <1>3, <1>4 DEF FeedInv

\* A snapshot shows the ring from its end.
LEMMA FeedSnapshot ==
    ASSUME Types, FeedInv, TakeSnapshot
    PROVE  FeedInv'
<1>1. UNCHANGED <<log, conn, up, rec, ring, shown, stored, pruned, unsaved>>
  BY DEF TakeSnapshot, netVars, dbVars
<1>2. PICK q \in Seq(Ids) : q = Reverse(ring)
  BY ReverseFacts DEF Types, RingTypes
<1>3. PICK n \in Nat : /\ n = Len(ring) /\ DOMAIN q = 1 .. n /\ DOMAIN ring = 1 .. n
                       /\ \A i \in 1 .. n : q[i] = ring[n - i + 1]
                       /\ Range(q) = Range(ring)
  BY <1>2, ReverseFacts DEF Types, RingTypes
<1>4. PICK m \in Lists : m = <<"snapshot", q>> /\ m[2] = q
  <2>1. <<"snapshot", q>> \in Lists
    BY DEF Lists
  <2>2. <<"snapshot", q>>[2] = q
    OBVIOUS
  <2> QED
    BY <2>1, <2>2
<1>5. MsgIds(m) = Range(ring)
  BY <1>3, <1>4, MsgFacts
<1>6. inbox' = <<m>> /\ DOMAIN inbox' = {1} /\ inbox'[1] = m
  BY <1>2, <1>4 DEF TakeSnapshot
<1>7. Seen' \subseteq Seen
  <2>1. Told' = Range(shown) \cup MsgIds(m)
    BY <1>1, <1>6 DEF Told, MsgIds
  <2> QED
    BY <1>1, <1>5, <2>1 DEF Seen, Told
<1>8. \A i, j : NotAfter(i, j)' <=> NotAfter(i, j)
  BY <1>1 DEF NotAfter, Sess
<1>9. IsInjective(q) /\ Descends(q)
  <2>1. ASSUME NEW i \in 1 .. n, NEW j \in 1 .. n, i < j
        PROVE  q[i] # q[j] /\ NotAfter(q[j], q[i])
    <3>1. PICK a \in 1 .. n, b \in 1 .. n : a = n - i + 1 /\ b = n - j + 1 /\ b < a
      <4>1. n - i + 1 \in 1 .. n /\ n - j + 1 \in 1 .. n /\ n - j + 1 < n - i + 1
        BY SMTT(30), <2>1
      <4> QED
        BY <4>1
    <3>2. q[i] = ring[a] /\ q[j] = ring[b]
      BY <1>3, <3>1
    <3>3. ring[a] # ring[b] /\ NotAfter(ring[b], ring[a])
      <4>1. a \in DOMAIN ring /\ b \in DOMAIN ring /\ a # b
        BY <1>3, <3>1
      <4>2. NotAfter(ring[b], ring[a])
        BY <3>1, <4>1 DEF FeedInv, OrderInv, Ascends
      <4> QED
        BY <4>1, <4>2 DEF FeedInv, OrderInv, IsInjective
    <3> QED
      BY <3>2, <3>3
  <2>2. IsInjective(q)
    <3>1. \A i, j \in 1 .. n : i < j \/ j < i \/ i = j
      OBVIOUS
    <3> QED
      BY <1>3, <2>1, <3>1 DEF IsInjective
  <2>3. Descends(q)
    BY <1>3, <2>1 DEF Descends
  <2> QED
    BY <2>2, <2>3
<1>10. OrderInv'
  <2>1. IsInjective(ring)' /\ Ascends(ring)' /\ IsInjective(shown)' /\ Descends(shown)'
    BY <1>1 DEF FeedInv, OrderInv, IsInjective, Ascends, Descends, NotAfter, Sess
  <2>2. ASSUME NEW k \in DOMAIN inbox'
        PROVE  k = 1 /\ IsInjective(inbox'[k][2]) /\ Descends(inbox[k][2])'
    <3>1. k = 1 /\ inbox'[k][2] = q
      BY <1>4, <1>6, <2>2
    <3> QED
      BY <1>1, <1>9, <3>1 DEF Descends, NotAfter, Sess
  <2>3. inbox'[1] \in Lists /\ \A k, l \in DOMAIN inbox' : ~(k < l)
    BY <1>6
  <2> QED
    BY <2>1, <2>2, <2>3 DEF OrderInv
<1> QED
  BY <1>1, <1>7, <1>10, FeedShows

\* The dashboard reads a message: a snapshot replaces what it shows, an event
\* is put in front of it.
LEMMA FeedReceives ==
    ASSUME Types, FeedInv, Receive
    PROVE  FeedInv'
<1>1. UNCHANGED <<log, conn, up, rec, ring, stored, pruned, unsaved>>
  BY DEF Receive, netVars, dbVars
<1>t. inbox \in Seq(Lists \cup News) /\ inbox # <<>> /\ shown \in Seq(Ids)
  BY DEF Receive, Types, DashTypes
<1>2. PICK m \in Lists \cup News : m = Head(inbox) /\ m = inbox[1] /\ 1 \in DOMAIN inbox
  BY <1>t, TailFacts
<1>3. /\ DOMAIN inbox = 1 .. Len(inbox) /\ Len(inbox) \in Nat
      /\ DOMAIN inbox' = 1 .. Len(inbox) - 1
      /\ \A k \in DOMAIN inbox' : inbox'[k] = inbox[k + 1]
  BY <1>t, TailFacts DEF Receive
<1>4. shown' = Shown(m)
  BY <1>2 DEF Receive
<1>5. ASSUME NEW k \in DOMAIN inbox'
      PROVE  k + 1 \in DOMAIN inbox /\ 1 < k + 1 /\ inbox'[k] = inbox[k + 1]
             /\ inbox[k + 1] \notin Lists
  <2>1. k + 1 \in DOMAIN inbox /\ 1 < k + 1 /\ inbox'[k] = inbox[k + 1] /\ k + 1 # 1
    BY <1>3
  <2> QED
    BY <2>1 DEF FeedInv, OrderInv
<1>6. \A i, j : NotAfter(i, j)' <=> NotAfter(i, j)
  BY <1>1 DEF NotAfter, Sess
<1>n. /\ \A k, l \in DOMAIN inbox : k < l =>
            \A i \in MsgIds(inbox[k]), j \in MsgIds(inbox[l]) : NotAfter(i, j)
      /\ inbox[1] \notin Lists =>
            \A k \in DOMAIN inbox : \A i \in Range(shown), j \in MsgIds(inbox[k]) : NotAfter(i, j)
      /\ IsInjective(shown) /\ Descends(shown)
      /\ inbox[1] \in Lists => IsInjective(inbox[1][2]) /\ Descends(inbox[1][2])
  BY <1>2 DEF FeedInv, OrderInv
\* What it shows now: injective, newest first, from the message or shown before.
<1>7. PICK s \in Seq(Ids) :
         /\ s = shown' /\ IsInjective(s) /\ Descends(s)
         /\ Range(s) \subseteq Range(shown) \cup MsgIds(m)
         /\ \A k \in DOMAIN inbox' : \A i \in Range(s), j \in MsgIds(inbox'[k]) : NotAfter(i, j)
  <2>1. CASE m \in Lists
    <3>1. PICK q \in Seq(Ids) : q = m[2] /\ MsgIds(m) = Range(q)
      BY <2>1, MsgFacts
    <3>2. PICK k \in 0 .. Len(q) : Shown(m) = SubSeq(q, 1, k)
      <4>1. m \notin News
        BY <2>1, MsgFacts
      <4> QED
        BY <2>1, <3>1, <4>1, ShownFacts
    <3>3. PICK s \in Seq(Ids) :
             /\ s = shown' /\ DOMAIN s = 1 .. k /\ DOMAIN q = 1 .. Len(q)
             /\ \A i \in 1 .. k : s[i] = q[i]
      <4>1. /\ SubSeq(q, 1, k) \in Seq(Ids) /\ DOMAIN SubSeq(q, 1, k) = 1 .. k
            /\ DOMAIN q = 1 .. Len(q) /\ \A i \in 1 .. k : SubSeq(q, 1, k)[i] = q[i]
        BY PrefixFacts
      <4> QED
        BY <1>4, <3>2, <4>1
    <3>4. DOMAIN s \subseteq DOMAIN q /\ \A i \in DOMAIN s : s[i] = q[i]
      BY <3>1, <3>3
    <3>5. IsInjective(s) /\ Descends(s) /\ Range(s) \subseteq Range(q)
      <4>1. IsInjective(q) /\ Descends(q)
        BY <1>2, <1>n, <2>1, <3>1
      <4>2. IsInjective(s)
        BY <3>4, <4>1 DEF IsInjective
      <4>3. Descends(s)
        BY <3>4, <4>1 DEF Descends
      <4> QED
        BY <3>4, <4>2, <4>3 DEF Range
    <3>6. ASSUME NEW l \in DOMAIN inbox', NEW i \in Range(s), NEW j \in MsgIds(inbox'[l])
          PROVE  NotAfter(i, j)
      <4>1. i \in MsgIds(inbox[1])
        BY <1>2, <3>1, <3>5
      <4> QED
        BY <1>2, <1>5, <1>n, <3>6, <4>1
    <3> QED
      BY <3>1, <3>3, <3>5, <3>6
  <2>2. CASE m \in News /\ Shown(m) = shown
    <3>1. inbox[1] \notin Lists
      BY <1>2, <2>2, MsgFacts
    <3> QED
      BY <1>4, <1>5, <1>n, <1>t, <2>2, <3>1
  <2>3. CASE /\ m \in News /\ m[1] \notin Range(shown)
             /\ \E k \in 0 .. Len(shown) :
                   /\ DOMAIN Shown(m) = 1 .. k + 1 /\ Shown(m)[1] = m[1]
                   /\ \A i \in 2 .. k + 1 : Shown(m)[i] = shown[i - 1]
    <3>1. inbox[1] \notin Lists /\ MsgIds(m) = {m[1]} /\ m[1] \in Ids
      BY <1>2, <2>3, MsgFacts
    <3>2. PICK s \in Seq(Ids), k \in 0 .. Len(shown) :
             /\ s = shown' /\ DOMAIN s = 1 .. k + 1 /\ s[1] = m[1]
             /\ \A i \in 2 .. k + 1 : s[i] = shown[i - 1]
      <4>1. Shown(m) \in Seq(Ids)
        BY ShownFacts
      <4> QED
        BY <1>4, <2>3, <4>1
    <3>3. ASSUME NEW i \in DOMAIN s
          PROVE  \/ i = 1 /\ s[i] = m[1]
                 \/ i - 1 \in DOMAIN shown /\ s[i] = shown[i - 1] /\ s[i] \in Range(shown)
      <4>1. i = 1 \/ i \in 2 .. k + 1
        BY <3>2
      <4>2. CASE i \in 2 .. k + 1
        <5>1. i - 1 \in DOMAIN shown
          BY <1>t, <4>2
        <5> QED
          BY <3>2, <4>2, <5>1 DEF Range
      <4> QED
        BY <3>2, <4>1, <4>2
    <3>4. ASSUME NEW i \in DOMAIN s, NEW j \in DOMAIN s, i < j
          PROVE  s[i] # s[j] /\ NotAfter(s[j], s[i])
      <4>1. j # 1 /\ i \in Nat /\ j \in Nat
        BY <3>2, <3>4
      <4>2. j - 1 \in DOMAIN shown /\ s[j] = shown[j - 1] /\ s[j] \in Range(shown)
        BY <3>3, <4>1
      <4>3. CASE i = 1 /\ s[i] = m[1]
        <5>1. NotAfter(s[j], m[1])
          BY <1>2, <1>n, <3>1, <4>2
        <5> QED
          BY <2>3, <4>2, <4>3, <5>1
      <4>4. CASE i - 1 \in DOMAIN shown /\ s[i] = shown[i - 1]
        <5>1. i - 1 < j - 1 /\ i - 1 # j - 1
          BY <3>4, <4>1
        <5> QED
          BY <1>n, <4>2, <4>4, <5>1 DEF IsInjective, Descends
      <4> QED
        BY <3>3, <4>3, <4>4
    <3>5. IsInjective(s) /\ Descends(s)
      <4>1. \A i, j \in DOMAIN s : i < j \/ j < i \/ i = j
        BY <3>2
      <4>2. IsInjective(s)
        BY <3>4, <4>1 DEF IsInjective
      <4>3. Descends(s)
        BY <3>4 DEF Descends
      <4> QED
        BY <4>2, <4>3
    <3>6. Range(s) \subseteq Range(shown) \cup MsgIds(m)
      BY <3>1, <3>3 DEF Range
    <3>7. ASSUME NEW l \in DOMAIN inbox', NEW i \in Range(s), NEW j \in MsgIds(inbox'[l])
          PROVE  NotAfter(i, j)
      <4>1. CASE i \in Range(shown)
        BY <1>5, <1>n, <3>1, <3>7, <4>1
      <4>2. CASE i \in MsgIds(inbox[1])
        BY <1>2, <1>5, <1>n, <3>7, <4>2
      <4> QED
        BY <1>2, <3>6, <4>1, <4>2
    <3> QED
      BY <3>2, <3>5, <3>6, <3>7
  <2> QED
    BY <2>1, <2>2, <2>3, ShownFacts
<1>8. Seen' \subseteq Seen
  <2>1. Told' = Range(s) \cup UNION {MsgIds(inbox'[k]) : k \in DOMAIN inbox'}
    BY <1>7 DEF Told, MsgIds
  <2>2. MsgIds(m) \subseteq Told
    BY <1>2 DEF Told
  <2>3. \A k \in DOMAIN inbox' : MsgIds(inbox'[k]) \subseteq Told
    BY <1>5 DEF Told
  <2>4. Range(shown) \subseteq Told
    BY DEF Told
  <2> QED
    BY <1>1, <1>7, <2>1, <2>2, <2>3, <2>4 DEF Seen
<1>9. OrderInv'
  <2>1. IsInjective(ring)' /\ Ascends(ring)'
    BY <1>1 DEF FeedInv, OrderInv, IsInjective, Ascends, NotAfter, Sess
  <2>2. IsInjective(shown)' /\ Descends(shown)'
    BY <1>1, <1>7 DEF Descends, NotAfter, Sess
  <2>3. \A k \in DOMAIN inbox' : inbox'[k] \notin Lists
    BY <1>5
  <2>4. ASSUME NEW k \in DOMAIN inbox', NEW l \in DOMAIN inbox', k < l,
               NEW i \in MsgIds(inbox'[k]), NEW j \in MsgIds(inbox'[l])
        PROVE  NotAfter(i, j)
    <3>1. k + 1 < l + 1
      BY <1>3, <2>4
    <3> QED
      BY <1>5, <1>n, <2>4, <3>1
  <2>5. \A k : MsgIds(inbox[k])' = MsgIds(inbox'[k])
    BY DEF MsgIds
  <2>6. \A k, l \in DOMAIN inbox' : k < l =>
           \A i \in MsgIds(inbox[k])', j \in MsgIds(inbox[l])' : NotAfter(i, j)'
    BY <1>6, <2>4, <2>5
  <2>7. \A k \in DOMAIN inbox' : \A i \in Range(shown'), j \in MsgIds(inbox[k])' : NotAfter(i, j)'
    BY <1>6, <1>7, <2>5
  <2> QED
    BY <2>1, <2>2, <2>3, <2>6, <2>7 DEF OrderInv
<1> QED
  BY <1>1, <1>8, <1>9, FeedShows

\* The dashboard's connection ends: what was on its way is lost.
LEMMA FeedDrops ==
    ASSUME Types, FeedInv, DashDrops
    PROVE  FeedInv'
<1>1. UNCHANGED <<log, conn, up, rec, ring, shown, stored, pruned, unsaved>> /\ inbox' = <<>>
  BY DEF DashDrops, netVars, dbVars
<1>2. Seen' \subseteq Seen
  <2>1. Told' \subseteq Told
    BY <1>1 DEF Told
  <2> QED
    BY <1>1, <2>1 DEF Seen
<1>3. OrderInv'
  BY <1>1 DEF FeedInv, OrderInv, IsInjective, Ascends, Descends, NotAfter, Sess
<1> QED
  BY <1>1, <1>2, <1>3, FeedShows

\* Events wait only on connections, and all but connections that the server has
\* not accepted or that ended may have a goroutine that records.
LEMMA FeedConns ==
    ASSUME Types, FeedInv, NEW c \in Conns,
           \/ AcceptHello(c) \/ AcceptFails(c) \/ Register(c)
           \/ ReadReport(c) \/ ReadFails(c) \/ Unregister(c)
    PROVE  FeedInv'
<1>t. /\ conn \in [Conns -> Stages] /\ up \in [Conns -> Seq(Ids)] /\ Conns \subseteq Goroutines
      /\ \A d \in Conns : conn[d] \in {"free", "dialed", "ended"} => rec[d] = Idle
  BY DEF Types, NetTypes, Goroutines, FeedInv, WireInv
<1>1. CASE AcceptHello(c)
  <2>1. /\ Create(ServerEvent("connected", c)) /\ rec' = Start(c, NewId)
        /\ conn' = [conn EXCEPT ![c] = "hello"]
        /\ UNCHANGED <<up, ring, shown, inbox, stored, pruned, unsaved>>
    BY <1>1 DEF AcceptHello, dbVars, dashVars
  <2>2. ServerEvent("connected", c) \in Events /\ c \in Goroutines
    BY <1>t, ServerEventFacts
  <2>3. \A g \in Goroutines \ {c} : rec'[g] = rec[g]
    BY <2>1, <2>2, CreateKeeps, StartType
  <2>4. Quiescent'
    BY <1>t, <2>1, <2>3 DEF Quiescent
  <2> QED
    BY <2>1, <2>2, <2>4, FeedCreates
<1>2. CASE AcceptFails(c)
  <2>1. /\ conn[c] = "dialed" /\ conn' = [conn EXCEPT ![c] = "free"]
        /\ up' = [up EXCEPT ![c] = <<>>]
        /\ UNCHANGED <<log, rec, ring, shown, inbox, stored, pruned, unsaved>>
    BY <1>2 DEF AcceptFails, dbVars, dashVars
  <2>2. SubSeq(up[c], 1, 0) = <<>> /\ 0 \in 0 .. Len(up[c])
    BY <1>t
  <2>3. Quiescent'
    BY <1>t, <2>1 DEF Quiescent
  <2>4. Saved' = Saved
    BY <2>1 DEF Saved
  <2>5. up' = [up EXCEPT ![c] = SubSeq(up[c], 1, 0)]
    BY <2>1, <2>2
  <2> QED
    BY <2>1, <2>2, <2>3, <2>4, <2>5, FeedLoses
<1>3. CASE Register(c) \/ ReadFails(c)
  <2>1. /\ rec[c] = Idle /\ conn' \in {[conn EXCEPT ![c] = "open"], [conn EXCEPT ![c] = "ended"]}
        /\ UNCHANGED <<log, up, rec, ring, shown, inbox, stored, pruned, unsaved>>
    BY <1>3 DEF Register, ReadFails, dbVars, dashVars
  <2>2. Quiescent'
    BY <1>t, <2>1 DEF Quiescent
  <2>3. Saved' = Saved
    BY <2>1 DEF Saved
  <2> QED
    BY <2>1, <2>2, <2>3, FeedStill
<1>4. CASE Unregister(c)
  <2>1. /\ Create(ServerEvent("offline", Hub)) /\ rec' = Start(Hub, NewId)
        /\ conn[c] = "ended" /\ conn' = [conn EXCEPT ![c] = "free"]
        /\ UNCHANGED <<up, ring, shown, inbox, stored, pruned, unsaved>>
    BY <1>4 DEF Unregister, dbVars, dashVars
  <2>2. ServerEvent("offline", Hub) \in Events /\ Hub \in Goroutines /\ Hub \notin Conns
    BY ServerEventFacts DEF Goroutines
  <2>3. \A g \in Goroutines \ {Hub} : rec'[g] = rec[g]
    BY <2>1, <2>2, CreateKeeps, StartType
  <2>4. Quiescent'
    BY <1>t, <2>1, <2>2, <2>3 DEF Quiescent
  <2> QED
    BY <2>1, <2>2, <2>4, FeedCreates
<1> QED
  BY <1>1, <1>2, <1>3, <1>4, FeedReads

\* A command or a file is recorded by the HTTP goroutine.
LEMMA FeedHttp ==
    ASSUME Types, FeedInv, SendCommand \/ Publish
    PROVE  FeedInv'
<1>1. PICK k \in {"command", "file"} : Create(ServerEvent(k, Http)) /\ rec' = Start(Http, NewId)
  BY DEF SendCommand, Publish
<1>2. ServerEvent(k, Http) \in Events /\ Http \in Goroutines /\ Http \notin Conns
  BY ServerEventFacts DEF Goroutines
<1>3. \A g \in Goroutines \ {Http} : rec'[g] = rec[g]
  BY <1>1, <1>2, CreateKeeps, StartType
<1>4. UNCHANGED <<conn, up, ring, shown, inbox, stored, pruned, unsaved>>
  BY DEF SendCommand, Publish, netVars, dbVars, dashVars
<1>5. Quiescent'
  <2>1. Conns \subseteq Goroutines
    BY DEF Goroutines
  <2> QED
    BY <1>2, <1>3, <1>4, <2>1 DEF Quiescent, FeedInv, WireInv
<1> QED
  BY <1>1, <1>2, <1>4, <1>5, FeedCreates

\* The actions that touch no event on its way.
LEMMA FeedRest ==
    ASSUME Types, FeedInv,
           \/ AgentNotices \/ HandleCommand \/ AgentRestarts \/ RegisterDash
           \/ \E c \in Conns : Dial(c) \/ Break(c)
           \/ \E cutoff \in Ids : Prune(cutoff)
           \/ UNCHANGED vars
    PROVE  FeedInv'
<1>t. /\ conn \in [Conns -> Stages] /\ up \in [Conns -> Seq(Ids)]
      /\ \A d \in Conns : conn[d] \in {"free", "dialed", "ended"} => rec[d] = Idle
  BY DEF Types, NetTypes, FeedInv, WireInv
<1>1. CASE \/ AgentNotices \/ HandleCommand \/ AgentRestarts \/ RegisterDash \/ UNCHANGED vars
  <2>1. UNCHANGED <<log, conn, up, rec, ring, shown, inbox, stored, pruned, unsaved>>
    BY <1>1 DEF AgentNotices, HandleCommand, AgentRestarts, RegisterDash, vars, netVars, dbVars, dashVars
  <2>2. Saved' = Saved /\ Quiescent'
    BY <1>t, <2>1 DEF Saved, Quiescent
  <2> QED
    BY <2>1, <2>2, FeedStill
<1>2. ASSUME NEW c \in Conns, Dial(c) PROVE FeedInv'
  <2>1. /\ conn[c] = "free" /\ conn' = [conn EXCEPT ![c] = "dialed"]
        /\ UNCHANGED <<log, up, rec, ring, shown, inbox, stored, pruned, unsaved>>
    BY <1>2 DEF Dial, dbVars, dashVars
  <2>2. Saved' = Saved /\ Quiescent'
    BY <1>t, <2>1 DEF Saved, Quiescent
  <2> QED
    BY <2>1, <2>2, FeedStill
<1>3. ASSUME NEW c \in Conns, Break(c) PROVE FeedInv'
  <2>1. UNCHANGED <<log, conn, rec, ring, shown, inbox, stored, pruned, unsaved>>
    BY <1>3 DEF Break, dbVars, dashVars
  <2>2. PICK k \in 0 .. Len(up[c]) : up' = [up EXCEPT ![c] = SubSeq(up[c], 1, k)]
    BY <1>3 DEF Break
  <2>3. Saved' = Saved /\ Quiescent'
    BY <1>t, <2>1 DEF Saved, Quiescent
  <2> QED
    BY <2>1, <2>2, <2>3, FeedLoses
<1>4. ASSUME NEW cutoff \in Ids, Prune(cutoff) PROVE FeedInv'
  <2>1. /\ stored' = {id \in stored : id >= cutoff}
        /\ pruned' = pruned \cup {id \in stored : id < cutoff}
        /\ UNCHANGED <<log, conn, up, rec, ring, shown, inbox, unsaved>>
    BY <1>4 DEF Prune, netVars, dashVars
  <2>2. Saved' = Saved
    <3>1. \A id \in stored : id >= cutoff \/ id < cutoff
      BY DEF Types, DbTypes, Ids
    <3> QED
      BY <2>1, <3>1 DEF Saved
  <2>3. Quiescent'
    BY <1>t, <2>1 DEF Quiescent
  <2> QED
    BY <2>1, <2>2, <2>3, FeedStill
<1> QED
  BY <1>1, <1>2, <1>3, <1>4

\* Every step keeps every event in its place.
LEMMA FeedStep == Types /\ FeedInv /\ [Next]_vars => FeedInv'
<1> SUFFICES ASSUME Types, FeedInv, [Next]_vars PROVE FeedInv'
  OBVIOUS
<1>1. CASE Agent
  BY <1>1, FeedDiscover, FeedRest DEF Agent, Members
<1>2. CASE Server
  BY <1>2, FeedSaves, FeedAdds, FeedEmits, FeedConns, FeedHttp, FeedRest, FeedRestarts
     DEF Server, Record
<1>3. CASE Dashboard
  BY <1>3, FeedSnapshot, FeedReceives, FeedDrops, FeedRest DEF Dashboard
<1> QED
  BY <1>1, <1>2, <1>3, FeedRest DEF Next

-----------------------------------------------------------------------------
(***************************************************************************)
(* Nothing is forgotten: what is saved or being recorded stays so.         *)
(***************************************************************************)
LEMMA StartCovers ==
    ASSUME Types, NEW g \in Goroutines, rec[g] = Idle, NEW n \in Ids, rec' = Start(g, n)
    PROVE  Recording \ {0} \subseteq Recording' /\ n \in Recording'
<1>1. rec'[g] = [at |-> 1, id |-> n] /\ \A h \in Goroutines \ {g} : rec'[h] = rec[h]
  BY StartType
<1>2. n \in Recording'
  BY <1>1 DEF Recording
<1>3. ASSUME NEW h \in Goroutines, rec[h].id # 0 PROVE rec[h].id \in Recording'
  <2>1. h # g
    BY <1>3 DEF Idle
  <2> QED
    BY <1>1, <2>1 DEF Recording
<1> QED
  BY <1>2, <1>3 DEF Recording

\* What is saved or being recorded stays so in every step.
LEMMA Covered ==
    ASSUME Types, FeedInv, [Next]_vars, NEW i \in Ids, i \in Saved \cup Recording
    PROVE  i \in Saved' \cup Recording'
<1>0. i # 0
  BY DEF Ids
<1>1. CASE UNCHANGED rec /\ Saved \subseteq Saved'
  BY <1>1 DEF Recording
<1>2. ASSUME NEW g \in Goroutines, Record(g) PROVE i \in Saved' \cup Recording'
  <2>1. rec[g].at > 0 /\ Advance(g)
    BY <1>2 DEF Record, SaveEvent, AddEvent, EmitEvent, Doing
  <2>2. Saved \subseteq Saved' /\ (SaveEvent(g) => rec[g].id \in Saved')
    BY <1>2 DEF Record, SaveEvent, AddEvent, EmitEvent, Saved, dbVars
  <2>3. rec[g].id \in Saved'
    <3>1. CASE SaveEvent(g)
      BY <2>2, <3>1
    <3>2. CASE ~SaveEvent(g)
      <4>1. rec[g].at = 2 \/ rec[g].at = 3
        BY <1>2, <3>2, StepFacts DEF Record, AddEvent, EmitEvent, Types
      <4>2. rec[g].at >= 2
        BY <4>1
      <4> QED
        BY <2>2, <4>2 DEF FeedInv, SavedInv
    <3> QED
      BY <3>1, <3>2
  <2>4. \A h \in Goroutines \ {g} : rec'[h] = rec[h]
    BY <2>1, AdvanceType
  <2>5. CASE i \in Recording
    <3>1. PICK h \in Goroutines : i = rec[h].id
      BY <2>5 DEF Recording
    <3>2. CASE h = g
      BY <2>3, <3>1, <3>2
    <3>3. CASE h # g
      BY <2>4, <3>1, <3>3 DEF Recording
    <3> QED
      BY <3>2, <3>3
  <2> QED
    BY <2>2, <2>5
<1>3. ASSUME NEW g \in Goroutines, NEW n \in Ids, rec[g] = Idle, rec' = Start(g, n), Saved' = Saved
      PROVE  i \in Saved' \cup Recording'
  BY <1>0, <1>3, StartCovers
<1>4. ASSUME NEW c \in Conns,
             \/ AcceptHello(c) \/ AcceptFails(c) \/ Register(c)
             \/ ReadReport(c) \/ ReadFails(c) \/ Unregister(c)
      PROVE  i \in Saved' \cup Recording'
  <2>1. Saved' = Saved
    BY <1>4 DEF AcceptHello, AcceptFails, Register, ReadReport, ReadFails, Unregister, Saved, dbVars
  <2>2. Conns \subseteq Goroutines /\ Hub \in Goroutines
    BY DEF Goroutines
  <2>3. CASE AcceptHello(c) \/ Unregister(c)
    <3>1. PICK g \in Goroutines : rec[g] = Idle /\ rec' = Start(g, NewId) /\ NewId \in Ids
      BY <2>2, <2>3 DEF AcceptHello, Unregister, Create, FeedInv, WireInv
    <3> QED
      BY <1>3, <2>1, <3>1
  <2>4. CASE ReadReport(c)
    <3>1. up[c] \in Seq(Ids) /\ up[c] # <<>>
      BY <2>4 DEF ReadReport, Types, NetTypes
    <3>2. Head(up[c]) \in Ids
      BY <3>1, TailFacts
    <3> QED
      BY <1>3, <2>1, <2>2, <2>4, <3>2 DEF ReadReport
  <2>5. CASE UNCHANGED rec
    BY <1>1, <2>1, <2>5
  <2> QED
    BY <1>4, <2>3, <2>4, <2>5 DEF AcceptFails, Register, ReadFails
<1>5. CASE SendCommand \/ Publish
  <2>1. Saved' = Saved /\ Http \in Goroutines /\ NewId \in Ids /\ rec[Http] = Idle /\ rec' = Start(Http, NewId)
    BY <1>5 DEF SendCommand, Publish, Saved, Goroutines, Create, dbVars
  <2> QED
    BY <1>3, <2>1
<1>6. ASSUME NEW cutoff \in Ids, Prune(cutoff) PROVE i \in Saved' \cup Recording'
  <2>1. /\ stored' = {id \in stored : id >= cutoff}
        /\ pruned' = pruned \cup {id \in stored : id < cutoff}
        /\ UNCHANGED <<rec, unsaved>>
    BY <1>6 DEF Prune
  <2>2. \A id \in stored : id >= cutoff \/ id < cutoff
    <3>1. stored \subseteq Int /\ cutoff \in Int
      BY DEF Types, DbTypes, Ids
    <3> QED
      BY <3>1
  <2> QED
    BY <1>1, <2>1, <2>2 DEF Saved
<1>7. CASE ServerRestarts
  <2>1. unsaved' = unsaved \cup ((Recording \ {0}) \ stored) /\ UNCHANGED <<stored, pruned>>
    BY <1>7 DEF ServerRestarts
  <2> QED
    BY <1>0, <2>1 DEF Saved
<1>8. CASE \/ Agent \/ Dashboard \/ UNCHANGED vars \/ \E c \in Conns : Break(c)
  <2>1. UNCHANGED <<rec, stored, pruned, unsaved>>
    BY <1>8 DEF Agent, Dashboard, Break, Discover, AgentNotices, HandleCommand, AgentRestarts, Dial,
                TakeSnapshot, RegisterDash, Receive, DashDrops, vars, dbVars
  <2> QED
    BY <1>1, <2>1 DEF Saved
<1> QED
  BY <1>2, <1>4, <1>5, <1>6, <1>7, <1>8 DEF Next, Server

\* The audit trail keeps up with commands and files.
LEMMA AuditStep ==
    ASSUME Types, FeedInv, AuditInv, [Next]_vars
    PROVE  AuditInv'
<1>t. /\ down \in [Conns -> Seq(Ids)] /\ cur \in Conns \cup {NoConn} /\ agents \in Conns \cup {NoConn}
      /\ sent \subseteq Ids /\ files \subseteq Ids
  BY DEF Types, NetTypes, AgentTypes, DbTypes
<1>a. /\ acted \subseteq sent /\ \A c \in Conns : Range(down[c]) \subseteq sent
      /\ sent \cup files \subseteq Saved \cup Recording
  BY DEF AuditInv
<1>c. sent \cup files \subseteq Saved' \cup Recording'
  BY <1>a, <1>t, Covered
<1>e. Range(<<>>) = {}
  BY DEF Range
\* Actions that create no event and send no command.
<1>1. ASSUME UNCHANGED <<log, sent, files>>, acted' \subseteq sent,
             \A c \in Conns : Range(down'[c]) \subseteq sent
      PROVE  AuditInv'
  <2>1. \A i \in Born' : /\ log'[i].kind = "command" => i \in sent'
                         /\ log'[i].kind = "file" => i \in files'
    BY <1>1 DEF AuditInv, Born
  <2> QED
    BY <1>1, <1>c, <2>1 DEF AuditInv
\* Actions that create the event e.
<1>2. ASSUME NEW e \in Events, Create(e), UNCHANGED acted,
             sent \subseteq sent', files \subseteq files',
             sent' \cup files' \subseteq sent \cup files \cup Recording',
             \A c \in Conns : Range(down'[c]) \subseteq sent',
             e.kind = "command" => NewId \in sent', e.kind = "file" => NewId \in files'
      PROVE  AuditInv'
  <2>1. /\ Born' = Born \cup {NewId} /\ log'[NewId] = e /\ \A i \in Born : log'[i] = log[i]
    BY <1>2, CreateKeeps DEF Kept
  <2>2. ASSUME NEW i \in Born' PROVE /\ log'[i].kind = "command" => i \in sent'
                                     /\ log'[i].kind = "file" => i \in files'
    <3>1. CASE i = NewId
      BY <1>2, <2>1, <3>1
    <3>2. CASE i \in Born
      <4>1. log'[i] = log[i]
        BY <2>1, <3>2
      <4>2. /\ log[i].kind = "command" => i \in sent
            /\ log[i].kind = "file" => i \in files
        BY <3>2 DEF AuditInv
      <4> QED
        BY <1>2, <4>1, <4>2
    <3> QED
      BY <2>1, <3>1, <3>2
  <2> QED
    BY <1>2, <1>a, <1>c, <2>2 DEF AuditInv
<1>3. ASSUME NEW seen \in Members, Discover(seen) PROVE AuditInv'
  <2>1. PICK e \in Events : e = DiffSessionEvents(known, seen) /\ e.kind \in SessionKinds
    BY DiffFacts
  <2>2. Create(e) /\ UNCHANGED <<acted, sent, files, down>>
    BY <1>3, <2>1 DEF Discover, dbVars
  <2>3. e.kind # "command" /\ e.kind # "file"
    BY <2>1 DEF SessionKinds
  <2> QED
    BY <1>2, <1>a, <2>2, <2>3
<1>4. CASE AgentNotices \/ \E c \in Conns : Dial(c)
  BY <1>1, <1>4, <1>a DEF AgentNotices, Dial, netVars, dbVars
<1>5. CASE HandleCommand
  <2>1. cur \in Conns /\ down[cur] \in Seq(Ids) /\ down[cur] # <<>>
    BY <1>5, <1>t DEF HandleCommand
  <2>2. /\ down' = [down EXCEPT ![cur] = Tail(down[cur])]
        /\ acted' \in {acted, acted \cup {Head(down[cur])}}
        /\ UNCHANGED <<log, sent, files>>
    BY <1>5 DEF HandleCommand, Control, dbVars
  <2>3. Range(Tail(down[cur])) \subseteq Range(down[cur]) /\ Head(down[cur]) \in Range(down[cur])
    <3>1. /\ DOMAIN down[cur] = 1 .. Len(down[cur]) /\ Len(down[cur]) \in Nat \ {0}
          /\ DOMAIN Tail(down[cur]) = 1 .. (Len(down[cur]) - 1) /\ Head(down[cur]) = down[cur][1]
          /\ \A i \in 1 .. (Len(down[cur]) - 1) : Tail(down[cur])[i] = down[cur][i + 1]
      BY <2>1, TailFacts
    <3>2. \A i \in 1 .. (Len(down[cur]) - 1) : i + 1 \in DOMAIN down[cur]
      BY <3>1
    <3>3. 1 \in DOMAIN down[cur]
      BY <3>1
    <3> QED
      BY <3>1, <3>2, <3>3 DEF Range
  <2>4. \A c \in Conns : Range(down'[c]) \subseteq sent
    <3>1. ASSUME NEW c \in Conns PROVE Range(down'[c]) \subseteq sent
      <4>1. CASE c = cur
        <5>1. down'[c] = Tail(down[cur])
          BY <1>t, <2>2, <4>1
        <5> QED
          BY <1>a, <2>1, <2>3, <5>1
      <4>2. CASE c # cur
        <5>1. down'[c] = down[c]
          BY <1>t, <2>2, <4>2
        <5> QED
          BY <1>a, <5>1
      <4> QED
        BY <4>1, <4>2
    <3> QED
      BY <3>1
  <2>5. acted' \subseteq sent
    BY <1>a, <2>1, <2>2, <2>3
  <2> QED
    BY <1>1, <2>2, <2>4, <2>5
<1>6. CASE AgentRestarts \/ ServerRestarts \/ \E c \in Conns : Break(c)
  <2>1. UNCHANGED <<log, sent, files, acted>>
    BY <1>6 DEF AgentRestarts, ServerRestarts, Break, agentVars, dbVars
  <2>2. \A c \in Conns : down'[c] = down[c] \/ down'[c] = <<>>
    BY <1>6, <1>t DEF AgentRestarts, ServerRestarts, Break
  <2>3. \A c \in Conns : Range(down'[c]) \subseteq sent
    BY <1>a, <1>e, <2>2
  <2> QED
    BY <1>1, <1>a, <2>1, <2>3
<1>7. CASE \/ Dashboard \/ UNCHANGED vars \/ \E g \in Goroutines : Record(g)
           \/ \E cutoff \in Ids : Prune(cutoff)
  <2>1. UNCHANGED <<log, sent, files, acted, down>>
    BY <1>7 DEF Dashboard, TakeSnapshot, RegisterDash, Receive, DashDrops, Record, SaveEvent, AddEvent,
                EmitEvent, Prune, vars, agentVars, netVars, dbVars
  <2> QED
    BY <1>1, <1>a, <2>1
<1>8. ASSUME NEW c \in Conns, AcceptFails(c) \/ Register(c) \/ ReadReport(c) \/ ReadFails(c)
      PROVE  AuditInv'
  <2>1. UNCHANGED <<log, sent, files, acted, down>>
    BY <1>8 DEF AcceptFails, Register, ReadReport, ReadFails, agentVars, dbVars
  <2> QED
    BY <1>1, <1>a, <2>1
<1>9. ASSUME NEW c \in Conns, AcceptHello(c) \/ Unregister(c) PROVE AuditInv'
  <2>1. PICK k \in {"connected", "offline"}, g \in Goroutines : Create(ServerEvent(k, g))
    BY <1>9 DEF AcceptHello, Unregister, Goroutines
  <2>2. PICK e \in Events : e = ServerEvent(k, g) /\ e.kind = k
    BY ServerEventFacts
  <2>3. UNCHANGED <<sent, files, acted>> /\ (UNCHANGED down \/ down' = [down EXCEPT ![c] = <<>>])
    BY <1>9 DEF AcceptHello, Unregister, agentVars, dbVars
  <2>4. \A d \in Conns : down'[d] = down[d] \/ down'[d] = <<>>
    BY <1>t, <2>3
  <2>5. \A d \in Conns : Range(down'[d]) \subseteq sent
    BY <1>a, <1>e, <2>4
  <2>6. e.kind # "command" /\ e.kind # "file"
    BY <2>2
  <2> QED
    BY <1>2, <2>1, <2>2, <2>3, <2>5, <2>6
<1>10. CASE SendCommand \/ Publish
  <2>1. /\ rec[Http] = Idle /\ rec' = Start(Http, NewId) /\ NewId \in Ids /\ Http \in Goroutines
        /\ UNCHANGED acted
    BY <1>10 DEF SendCommand, Publish, Create, Goroutines, agentVars
  <2>2. NewId \in Recording'
    BY <2>1, StartCovers
  <2>3. CASE SendCommand
    <3>1. PICK e \in Events : e = ServerEvent("command", Http) /\ e.kind = "command"
      BY <2>1, ServerEventFacts
    <3>2. /\ Create(e) /\ sent' = sent \cup {NewId} /\ UNCHANGED files
          /\ \/ UNCHANGED down
             \/ agents \in Conns /\ down' = [down EXCEPT ![agents] = Append(down[agents], NewId)]
      BY <1>t, <2>3, <3>1 DEF SendCommand, dbVars
    <3>3. \A c \in Conns : Range(down'[c]) \subseteq sent'
      <4>1. ASSUME NEW c \in Conns, down'[c] = Append(down[c], NewId)
            PROVE  Range(down'[c]) \subseteq sent'
        <5>1. down[c] \in Seq(Ids)
          BY <1>t
        <5>2. Range(Append(down[c], NewId)) \subseteq Range(down[c]) \cup {NewId}
          <6>1. ASSUME NEW j \in DOMAIN Append(down[c], NewId)
                PROVE  Append(down[c], NewId)[j] \in Range(down[c]) \cup {NewId}
            <7>1. j \in 1 .. Len(down[c]) \/ j = Len(down[c]) + 1
              BY <2>1, <5>1, AppendFacts
            <7> QED
              BY <2>1, <5>1, <7>1, AppendFacts DEF Range
          <6> QED
            BY <6>1 DEF Range
        <5> QED
          BY <1>a, <3>2, <4>1, <5>2
      <4>2. ASSUME NEW c \in Conns PROVE down'[c] = down[c] \/ down'[c] = Append(down[c], NewId)
        BY <1>t, <3>2
      <4> QED
        BY <1>a, <3>2, <4>1, <4>2
    <3>4. e.kind # "file"
      BY <3>1
    <3> QED
      BY <1>2, <2>1, <2>2, <3>1, <3>2, <3>3, <3>4
  <2>4. CASE Publish
    <3>1. PICK e \in Events : e = ServerEvent("file", Http) /\ e.kind = "file"
      BY <2>1, ServerEventFacts
    <3>2. Create(e) /\ files' = files \cup {NewId} /\ UNCHANGED <<sent, down>>
      BY <2>4, <3>1 DEF Publish, netVars
    <3>3. e.kind # "command"
      BY <3>1
    <3> QED
      BY <1>2, <1>a, <2>1, <2>2, <3>1, <3>2, <3>3
  <2> QED
    BY <1>10, <2>3, <2>4
<1>11. CASE Agent
  BY <1>11, <1>3, <1>4, <1>5, <1>6 DEF Agent, Members
<1>12. CASE Server
  BY <1>12, <1>6, <1>7, <1>8, <1>9, <1>10 DEF Server
<1> QED
  BY <1>11, <1>12, <1>6, <1>7 DEF Next

-----------------------------------------------------------------------------
(***************************************************************************)
(* The chain of the session's events, while nothing was lost.              *)
(***************************************************************************)
LEMMA NothingLost ==
    ASSUME Types, [Next]_vars, ~cut'
    PROVE  ~cut /\ unsaved' = unsaved
<1>1. CASE UNCHANGED <<cut, unsaved>>
  BY <1>1
<1>2. CASE \E seen \in Members : Discover(seen)
  BY <1>2 DEF Discover, Send, dbVars
<1>3. CASE AgentRestarts
  BY <1>3 DEF AgentRestarts
<1>4. CASE \E c \in Conns : Break(c)
  BY <1>4 DEF Break, dbVars, Types, AgentTypes
<1>5. CASE \E g \in Goroutines : Record(g)
  BY <1>5 DEF Record, SaveEvent, AddEvent, EmitEvent, dbVars
<1>6. CASE \E c \in Conns : AcceptFails(c)
  BY <1>6 DEF AcceptFails, dbVars, Types, AgentTypes
<1>7. CASE ServerRestarts
  BY <1>7 DEF ServerRestarts, Types, AgentTypes
<1>8. ASSUME \/ AgentNotices \/ HandleCommand \/ SendCommand \/ Publish \/ Dashboard
             \/ UNCHANGED vars \/ \E cutoff \in Ids : Prune(cutoff)
             \/ \E c \in Conns : \/ Dial(c) \/ AcceptHello(c) \/ Register(c) \/ ReadReport(c)
                                 \/ ReadFails(c) \/ Unregister(c)
      PROVE  UNCHANGED <<cut, unsaved>>
  BY <1>8 DEF AgentNotices, HandleCommand, SendCommand, Publish, Dashboard, TakeSnapshot, RegisterDash,
              Receive, DashDrops, Prune, Dial, AcceptHello, Register, ReadReport, ReadFails, Unregister,
              vars, dbVars
<1>9. CASE Agent
  BY <1>1, <1>2, <1>3, <1>8, <1>9 DEF Agent, Members
<1>10. CASE Server
  BY <1>1, <1>5, <1>6, <1>7, <1>8, <1>10 DEF Server
<1> QED
  BY <1>1, <1>4, <1>8, <1>9, <1>10 DEF Next

\* What waits goes on waiting, or is taken to be recorded.
LEMMA WaitKept ==
    ASSUME Types, [Next]_vars, ~cut', NEW c \in Conns, NEW i \in Range(up[c])
    PROVE  i \in Range(up'[c]) \/ i \in Recording'
<1>t. up \in [Conns -> Seq(Ids)] /\ up[c] \in Seq(Ids) /\ up[c] # <<>>
  <2>1. up \in [Conns -> Seq(Ids)]
    BY DEF Types, NetTypes
  <2>2. up[c] # <<>>
    BY DEF Range
  <2> QED
    BY <2>1, <2>2
<1>j. PICK j \in 1 .. Len(up[c]) : i = up[c][j]
  BY <1>t DEF Range
<1>1. CASE UNCHANGED up
  BY <1>1
<1>2. ASSUME NEW seen \in Members, Discover(seen) PROVE i \in Range(up'[c])
  <2>1. PICK n \in Ids : n = NewId
    BY <1>2 DEF Discover, Create
  <2>2. up'[c] = up[c] \/ up'[c] = Append(up[c], n)
    BY <1>2, <2>1, SendType DEF Discover
  <2>3. CASE up'[c] = Append(up[c], n)
    <3>1. j \in DOMAIN Append(up[c], n) /\ Append(up[c], n)[j] = i
      BY <1>j, <1>t, AppendFacts
    <3> QED
      BY <2>3, <3>1 DEF Range
  <2> QED
    BY <2>2, <2>3
<1>3. ASSUME NEW d \in Conns, Break(d) PROVE i \in Range(up'[c])
  <2>1. PICK k \in 0 .. Len(up[d]) :
           up' = [up EXCEPT ![d] = SubSeq(up[d], 1, k)] /\ cut' = (cut \/ k < Len(up[d]))
    BY <1>3 DEF Break
  <2>2. CASE d = c
    <3>1. ~(k < Len(up[c])) /\ k \in 0 .. Len(up[c]) /\ Len(up[c]) \in Nat
      <4>1. cut' = (cut \/ k < Len(up[c])) /\ k \in 0 .. Len(up[c])
        BY <2>1, <2>2
      <4>2. ~(k < Len(up[c]))
        BY <4>1, Zenon
      <4> QED
        BY <1>t, <4>1, <4>2
    <3>2. j \in 1 .. k
      BY <3>1
    <3>3. up'[c] = SubSeq(up[c], 1, k)
      BY <1>t, <2>1, <2>2
    <3>4. j \in DOMAIN SubSeq(up[c], 1, k) /\ SubSeq(up[c], 1, k)[j] = i
      BY <1>j, <1>t, <3>1, <3>2, PrefixFacts
    <3> QED
      BY <3>3, <3>4 DEF Range
  <2>3. CASE d # c
    BY <1>t, <2>1, <2>3
  <2> QED
    BY <2>2, <2>3
<1>4. ASSUME NEW d \in Conns, AcceptFails(d) PROVE i \in Range(up'[c])
  <2>1. up' = [up EXCEPT ![d] = <<>>] /\ up[d] = <<>>
    BY <1>4 DEF AcceptFails, Types, AgentTypes
  <2> QED
    BY <1>t, <2>1
<1>5. ASSUME NEW d \in Conns, ReadReport(d) PROVE i \in Range(up'[c]) \/ i \in Recording'
  <2>1. up' = [up EXCEPT ![d] = Tail(up[d])] /\ rec' = Start(d, Head(up[d])) /\ d \in Goroutines
    BY <1>5 DEF ReadReport, Goroutines
  <2>2. CASE d = c
    <3>1. /\ DOMAIN Tail(up[c]) = 1 .. (Len(up[c]) - 1) /\ Head(up[c]) = up[c][1]
          /\ Len(up[c]) \in Nat \ {0} /\ Head(up[c]) \in Ids
          /\ \A k \in 1 .. (Len(up[c]) - 1) : Tail(up[c])[k] = up[c][k + 1]
      BY <1>t, TailFacts
    <3>2. CASE j = 1
      <4>1. PICK h \in Ids : h = Head(up[c])
        BY <3>1
      <4>2. rec'[c].id = h /\ c \in Goroutines
        <5>1. rec' = Start(c, h) /\ c \in Goroutines
          BY <2>1, <2>2, <4>1
        <5>2. rec'[c] = [at |-> 1, id |-> h]
          BY <5>1, StartType
        <5> QED
          BY <5>1, <5>2
      <4> QED
        BY <1>j, <3>1, <3>2, <4>1, <4>2 DEF Recording
    <3>3. CASE j # 1
      <4>1. j - 1 \in 1 .. (Len(up[c]) - 1) /\ (j - 1) + 1 = j
        BY <3>1, <3>3
      <4>2. up'[c] = Tail(up[c])
        BY <1>t, <2>1, <2>2
      <4>3. Tail(up[c])[j - 1] = i /\ j - 1 \in DOMAIN Tail(up[c])
        BY <1>j, <3>1, <4>1
      <4> QED
        BY <4>2, <4>3 DEF Range
    <3> QED
      BY <3>2, <3>3
  <2>3. CASE d # c
    BY <1>t, <2>1, <2>3
  <2> QED
    BY <2>2, <2>3
<1>6. CASE ServerRestarts
  <2>1. up[c] = <<>>
    BY <1>6 DEF ServerRestarts, Types, AgentTypes
  <2> QED
    BY <1>t, <2>1
<1>7. CASE \/ AgentNotices \/ HandleCommand \/ AgentRestarts \/ SendCommand \/ Publish \/ Dashboard
           \/ UNCHANGED vars \/ (\E cutoff \in Ids : Prune(cutoff)) \/ (\E g \in Goroutines : Record(g))
           \/ \E d \in Conns : \/ Dial(d) \/ AcceptHello(d) \/ Register(d)
                               \/ ReadFails(d) \/ Unregister(d)
  <2>1. UNCHANGED up
    BY <1>7 DEF AgentNotices, HandleCommand, AgentRestarts, SendCommand, Publish, Dashboard, TakeSnapshot,
                RegisterDash, Receive, DashDrops, Prune, Record, SaveEvent, AddEvent, EmitEvent, Dial,
                AcceptHello, Register, ReadFails, Unregister, vars, netVars
  <2> QED
    BY <1>1, <2>1
<1>8. CASE Agent
  BY <1>2, <1>7, <1>8 DEF Agent, Members
<1>9. CASE Server
  BY <1>4, <1>5, <1>6, <1>7, <1>9 DEF Server
<1> QED
  BY <1>3, <1>7, <1>8, <1>9 DEF Next

\* An event that has a place still has one when nothing is forgotten.
LEMMA PlacedKept ==
    ASSUME Types, FeedInv, [Next]_vars, ~cut', unsaved = {}, NEW i \in Born, Placed(i)
    PROVE  Placed(i)'
<1>1. unsaved' = {}
  BY NothingLost
<1>2. i \in Ids
  <2>1. Len(log) \in Nat /\ Len(log) <= MaxEvents /\ MaxEvents \in Nat
    BY DEF Types, LogTypes
  <2> QED
    BY <2>1 DEF Born, Ids
<1>3. CASE i \in stored \cup pruned \cup Recording
  BY <1>1, <1>2, <1>3, Covered DEF Saved, Placed
<1>4. ASSUME NEW c \in Conns, i \in Range(up[c]) PROVE Placed(i)'
  BY <1>4, WaitKept DEF Placed
<1> QED
  BY <1>3, <1>4 DEF Placed

\* What a step creates.
LEMMA LogCases ==
    ASSUME Types, [Next]_vars, ~cut'
    PROVE  \/ UNCHANGED <<log, known>>
           \/ UNCHANGED known /\ \E e \in Events : Create(e) /\ e.kind \notin SessionKinds
           \/ \E seen \in Members : Discover(seen)
<1>1. CASE \/ AgentNotices \/ HandleCommand \/ Dashboard \/ UNCHANGED vars \/ ServerRestarts
           \/ (\E cutoff \in Ids : Prune(cutoff)) \/ (\E g \in Goroutines : Record(g))
           \/ \E c \in Conns : \/ Dial(c) \/ Break(c) \/ AcceptFails(c) \/ Register(c)
                               \/ ReadReport(c) \/ ReadFails(c)
  BY <1>1 DEF AgentNotices, HandleCommand, Dashboard, TakeSnapshot, RegisterDash, Receive, DashDrops,
              ServerRestarts, Prune, Record, SaveEvent, AddEvent, EmitEvent, Dial, Break, AcceptFails,
              Register, ReadReport, ReadFails, vars, agentVars
<1>2. CASE SendCommand \/ Publish \/ \E c \in Conns : AcceptHello(c) \/ Unregister(c)
  <2>1. PICK k \in {"connected", "offline", "command", "file"}, g \in Goroutines :
           Create(ServerEvent(k, g)) /\ UNCHANGED known
    BY <1>2 DEF SendCommand, Publish, AcceptHello, Unregister, agentVars, Goroutines
  <2> QED
    BY <2>1, ServerEventFacts
<1>3. CASE AgentRestarts
  BY <1>3 DEF AgentRestarts
<1>4. CASE Agent
  BY <1>1, <1>3, <1>4 DEF Agent, Members
<1>5. CASE Server
  BY <1>1, <1>2, <1>5 DEF Server
<1> QED
  BY <1>1, <1>4, <1>5 DEF Next

\* A new event of another kind does not change where the session was left.
LEMMA LeftKept ==
    ASSUME Types, Kept, NEW v, NEW n \in Nat, n <= Len(log) + 1, LeftAt(v, n)
    PROVE  LeftAt(v, n)'
<1>1. Len(log) \in Nat
  BY DEF Types, LogTypes
<1>2. \A j \in 1 .. n - 1 : j \in Born
  BY <1>1 DEF Born
<1>3. \A j \in 1 .. n - 1 : (Sess(j)' <=> Sess(j)) /\ log'[j] = log[j]
  BY <1>2, SessKept DEF Kept
<1>4. CASE v = Absent /\ \A j \in 1 .. n - 1 : ~Sess(j)
  BY <1>3, <1>4 DEF LeftAt
<1>5. ASSUME NEW m \in 1 .. n - 1, Sess(m), log[m].to = v, \A j \in m + 1 .. n - 1 : ~Sess(j)
      PROVE  LeftAt(v, n)'
  <2>1. Sess(m)' /\ log'[m].to = v
    BY <1>3, <1>5
  <2>2. \A j \in m + 1 .. n - 1 : ~Sess(j)'
    <3>1. \A j \in m + 1 .. n - 1 : j \in 1 .. n - 1
      OBVIOUS
    <3> QED
      BY <1>3, <1>5, <3>1
  <2> QED
    BY <2>1, <2>2 DEF LeftAt
<1> QED
  BY <1>4, <1>5 DEF LeftAt

\* Every step keeps the chain.
LEMMA ChainStep ==
    ASSUME Types, FeedInv, ChainInv, [Next]_vars
    PROVE  ChainInv'
<1>1. SUFFICES ASSUME ~cut'
               PROVE  /\ \A i \in Born' : Sess(i)' => LeftAt(log[i].from, i)'
                      /\ LeftAt(known, Len(log) + 1)'
                      /\ unsaved' = {}
                      /\ \A i \in Born' : Sess(i)' => Placed(i)'
  BY DEF ChainInv
<1>2. ~cut /\ unsaved = {} /\ unsaved' = {}
  BY <1>1, NothingLost DEF ChainInv
<1>3. /\ \A i \in Born : Sess(i) => LeftAt(log[i].from, i) /\ Placed(i)
      /\ LeftAt(known, Len(log) + 1)
  BY <1>2 DEF ChainInv
<1>4. PICK n \in Nat : n = Len(log)
  BY DEF Types, LogTypes
<1>5. ASSUME Kept, NEW i \in Born, Sess(i)' PROVE LeftAt(log[i].from, i)' /\ Placed(i)'
  <2>1. Sess(i) /\ log'[i] = log[i]
    BY <1>5, SessKept DEF Kept
  <2>2. Placed(i)'
    BY <1>1, <1>2, <1>3, <2>1, PlacedKept
  <2>3. PICK v : v = log[i].from
    OBVIOUS
  <2>4. LeftAt(v, i)'
    <3>1. i \in Nat /\ i <= Len(log) + 1
      BY <1>4 DEF Born
    <3>2. LeftAt(v, i)
      BY <1>3, <2>1, <2>3
    <3> QED
      BY <1>5, <3>1, <3>2, LeftKept
  <2>5. log'[i].from = v
    BY <2>1, <2>3
  <2> QED
    BY <2>2, <2>4, <2>5 DEF LeftAt, Sess
<1>6. CASE UNCHANGED <<log, known>>
  <2>1. Kept /\ Born' = Born
    BY <1>6, SameLog
  <2>2. LeftAt(known, Len(log) + 1)'
    BY <1>3, <1>6 DEF LeftAt, Sess
  <2> QED
    BY <1>2, <1>5, <2>1, <2>2
<1>7. ASSUME NEW e \in Events, Create(e), UNCHANGED known, e.kind \notin SessionKinds
      PROVE  /\ \A i \in Born' : Sess(i)' => LeftAt(log[i].from, i)'
             /\ LeftAt(known, Len(log) + 1)'
             /\ unsaved' = {}
             /\ \A i \in Born' : Sess(i)' => Placed(i)'
  <2>1. /\ Kept /\ Born' = Born \cup {n + 1} /\ log'[n + 1] = e /\ Len(log') = n + 1
    BY <1>4, <1>7, CreateKeeps, CreateType DEF NewId
  <2>2. ~Sess(n + 1)'
    BY <1>7, <2>1 DEF Sess
  <2>3. PICK v : v = known
    OBVIOUS
  <2>4. LeftAt(v, n + 1)'
    BY <1>3, <1>4, <2>1, <2>3, LeftKept
  <2>5. LeftAt(v, n + 2)'
    <3>1. n + 1 - 1 = n /\ n + 2 - 1 = n + 1
      BY <1>4
    <3>2. CASE v = Absent /\ \A j \in 1 .. n : ~Sess(j)'
      <4>1. \A j \in 1 .. n + 1 : j \in 1 .. n \/ j = n + 1
        BY <1>4
      <4>2. \A j \in 1 .. n + 1 : ~Sess(j)'
        BY <2>2, <3>2, <4>1
      <4> QED
        BY <3>1, <3>2, <4>2 DEF LeftAt
    <3>3. ASSUME NEW m \in 1 .. n, Sess(m)', log'[m].to = v, \A j \in m + 1 .. n : ~Sess(j)'
          PROVE  LeftAt(v, n + 2)'
      <4>1. \A j \in m + 1 .. n + 1 : j \in m + 1 .. n \/ j = n + 1
        BY <1>4
      <4>2. \A j \in m + 1 .. n + 1 : ~Sess(j)'
        BY <2>2, <3>3, <4>1
      <4>3. m \in 1 .. n + 1
        BY <1>4
      <4> QED
        BY <3>1, <3>3, <4>2, <4>3 DEF LeftAt
    <3> QED
      BY <2>4, <3>1, <3>2, <3>3 DEF LeftAt
  <2>6. known' = v /\ Len(log') + 1 = n + 2
    BY <1>4, <1>7, <2>1, <2>3
  <2>7. LeftAt(known, Len(log) + 1)'
    BY <2>5, <2>6 DEF LeftAt, Sess
  <2> QED
    BY <1>2, <1>5, <2>1, <2>2, <2>7
<1>8. ASSUME NEW seen \in Members, Discover(seen)
      PROVE  /\ \A i \in Born' : Sess(i)' => LeftAt(log[i].from, i)'
             /\ LeftAt(known, Len(log) + 1)'
             /\ unsaved' = {}
             /\ \A i \in Born' : Sess(i)' => Placed(i)'
  <2>1. PICK e \in Events : /\ e = DiffSessionEvents(known, seen) /\ e.kind \in SessionKinds
                            /\ e.from = known /\ e.to = seen
    BY DiffFacts
  <2>2. Create(e) /\ known' = seen
    BY <1>8, <2>1 DEF Discover
  <2>3. /\ Kept /\ Born' = Born \cup {n + 1} /\ log'[n + 1] = e /\ Len(log') = n + 1 /\ NewId = n + 1
        /\ NewId \in Ids
    BY <1>4, <2>2, CreateKeeps, CreateType DEF NewId
  <2>4. PICK v : v = known
    OBVIOUS
  <2>5. LeftAt(v, n + 1)'
    BY <1>3, <1>4, <2>3, <2>4, LeftKept
  <2>6. log'[n + 1].from = v
    BY <2>1, <2>3, <2>4
  <2>7. LeftAt(log[n + 1].from, n + 1)'
    BY <2>5, <2>6 DEF LeftAt, Sess
  <2>8. LeftAt(seen, n + 2)'
    <3>1. n + 1 \in 1 .. n + 2 - 1 /\ \A j \in n + 1 + 1 .. n + 2 - 1 : FALSE
      BY <1>4
    <3>2. Sess(n + 1)' /\ log'[n + 1].to = seen
      BY <2>1, <2>3 DEF Sess
    <3> QED
      BY <3>1, <3>2 DEF LeftAt
  <2>9. Len(log') + 1 = n + 2
    BY <1>4, <2>3
  <2>10. LeftAt(known, Len(log) + 1)'
    BY <2>2, <2>8, <2>9 DEF LeftAt, Sess
  <2>11. Placed(n + 1)'
    <3>1. /\ cur \in Conns /\ up'[cur] = Append(up[cur], n + 1)
      BY <1>1, <1>8, <2>3, SendType DEF Discover
    <3>2. up[cur] \in Seq(Ids) /\ n + 1 \in Ids
      BY <2>3, <3>1 DEF Types, NetTypes
    <3>3. n + 1 \in Range(Append(up[cur], n + 1))
      <4>1. Len(up[cur]) + 1 \in DOMAIN Append(up[cur], n + 1)
            /\ Append(up[cur], n + 1)[Len(up[cur]) + 1] = n + 1
        BY <3>2, AppendFacts
      <4> QED
        BY <4>1 DEF Range
    <3>4. \E c \in Conns : n + 1 \in Range(up'[c])
      BY <3>1, <3>3
    <3> QED
      BY <3>4 DEF Placed
  <2> QED
    BY <1>2, <1>5, <2>3, <2>7, <2>10, <2>11
<1> QED
  BY <1>1, <1>6, <1>7, <1>8, LogCases

\* The invariant: what is true of every state that can be reached.
THEOREM Inductive == Spec => []IInv
<1>1. IInv /\ [Next]_vars => IInv'
  <2> SUFFICES ASSUME IInv, [Next]_vars PROVE IInv'
    OBVIOUS
  <2>1. Types /\ FeedInv /\ AuditInv /\ ChainInv
    BY DEF IInv, FeedInv
  <2>2. Types' /\ FeedInv' /\ AuditInv' /\ ChainInv'
    BY <2>1, TypesStep, FeedStep, AuditStep, ChainStep
  <2> QED
    BY <2>2 DEF IInv, FeedInv
<1> QED
  BY <1>1, InitIInv, PTL DEF Spec

-----------------------------------------------------------------------------
(***************************************************************************)
(* The safety properties.                                                  *)
(***************************************************************************)

\* The dashboard shows no event twice (live.ts:232), although an event recorded
\* while it connects is in its snapshot and is broadcast to it: an event that is
\* shown already is not added.
THEOREM OnceShown == Spec => []ShownOnce
<1>1. IInv => ShownOnce
  BY DEF IInv, OrderInv, ShownOnce
<1> QED
  BY <1>1, Inductive, PTL

\* recordEvent saves before it fills the ring and broadcasts
\* (internal/server/events.go:32): what a user can see is in the database, was
\* pruned from it, or was refused by it or cut off by a restart.
THEOREM StoredCorrect == Spec => []ShownIsStored
<1>1. IInv => ShownIsStored
  BY DEF IInv, SavedInv, Seen, Told, Saved, ShownIsStored
<1> QED
  BY <1>1, Inductive, PTL

\* Two places of a sequence without repetitions hold two events.
LEMMA StrictOrder ==
    ASSUME NEW s \in Seq(Ids), IsInjective(s), Ascends(s)
    PROVE  Ordered(s)
<1>1. SUFFICES ASSUME NEW i \in DOMAIN s, NEW j \in DOMAIN s, i < j,
                      {s[i], s[j]} \subseteq SessionEvents(Ids \cap DOMAIN log),
                      log[s[i]].via = log[s[j]].via
               PROVE  s[i] < s[j]
  BY DEF Ordered
<1>2. Sess(s[i]) /\ Sess(s[j])
  BY <1>1 DEF SessionEvents, Sess
<1>3. s[i] <= s[j]
  BY <1>1, <1>2 DEF Ascends, NotAfter
<1>4. s[i] # s[j]
  <2>1. i # j
    BY <1>1
  <2> QED
    BY <1>1, <2>1 DEF IsInjective
<1>5. s[i] \in Nat /\ s[j] \in Nat
  BY <1>1 DEF Ids
<1> QED
  BY <1>3, <1>4, <1>5

\* The ring and the list of the dashboard keep the order in which a connection
\* reported events (server.go:82, live.ts:232), through restarts that seed the
\* ring from the database and snapshots that overlap with broadcasts.
THEOREM OrderCorrect == Spec => []TimelineOrder
<1>1. IInv => TimelineOrder
  <2> SUFFICES ASSUME IInv PROVE TimelineOrder
    OBVIOUS
  <2>1. Ordered(ring)
    BY StrictOrder DEF IInv, OrderInv, Types, RingTypes
  <2>2. PICK s \in Seq(Ids) : s = Reverse(shown)
    BY ReverseFacts DEF IInv, Types, DashTypes
  <2>3. PICK n \in Nat : /\ n = Len(shown) /\ DOMAIN s = 1 .. n /\ DOMAIN shown = 1 .. n
                         /\ \A i \in 1 .. n : s[i] = shown[n - i + 1]
    BY <2>2, ReverseFacts DEF IInv, Types, DashTypes
  <2>4. ASSUME NEW i \in 1 .. n, NEW j \in 1 .. n, i < j
        PROVE  s[i] # s[j] /\ NotAfter(s[i], s[j])
    <3>1. PICK a \in 1 .. n, b \in 1 .. n : a = n - i + 1 /\ b = n - j + 1 /\ b < a
      <4>1. n - i + 1 \in 1 .. n /\ n - j + 1 \in 1 .. n /\ n - j + 1 < n - i + 1
        BY <2>4
      <4> QED
        BY <4>1
    <3>2. s[i] = shown[a] /\ s[j] = shown[b] /\ a \in DOMAIN shown /\ b \in DOMAIN shown /\ a # b
      BY <2>3, <3>1
    <3>3. NotAfter(shown[a], shown[b])
      BY <3>1, <3>2 DEF IInv, OrderInv, Descends
    <3>4. shown[a] # shown[b]
      BY <3>2 DEF IInv, OrderInv, IsInjective
    <3> QED
      BY <3>2, <3>3, <3>4
  <2>5. IsInjective(s)
    <3>1. \A i, j \in 1 .. n : i < j \/ j < i \/ i = j
      OBVIOUS
    <3> QED
      BY <2>3, <2>4, <3>1 DEF IsInjective
  <2>6. Ascends(s)
    BY <2>3, <2>4 DEF Ascends
  <2> QED
    BY <2>1, <2>2, <2>5, <2>6, StrictOrder DEF TimelineOrder
<1> QED
  BY <1>1, Inductive, PTL

\* The largest of a set of events.
LEMMA MaxIs ==
    ASSUME NEW T \in SUBSET Int, NEW m \in T, \A j \in T : j <= m
    PROVE  Max(T) = m
<1>1. \A y \in T : m >= y
  OBVIOUS
<1>2. \A x \in T : (\A y \in T : x >= y) => x = m
  <2>1. ASSUME NEW x \in T, \A y \in T : x >= y PROVE x = m
    <3>1. x >= m /\ x <= m /\ x \in Int /\ m \in Int
      BY <2>1
    <3> QED
      BY <3>1
  <2> QED
    BY <2>1
<1>3. \A x \in T : (\A y \in T : x >= y) <=> x = m
  BY <1>1, <1>2
<1> QED
  BY <1>3, Zenon DEF Max

\* Where the session was left is told by its last event.
LEMMA LeftByLast ==
    ASSUME Types, NEW v, NEW n \in Nat, n <= Len(log) + 1, LeftAt(v, n),
           NEW T, T \subseteq Born, \A j \in Born : j \in T <=> Sess(j) /\ j < n
    PROVE  v = IF T = {} THEN Absent ELSE log[Max(T)].to
<1>1. Len(log) \in Nat
  BY DEF Types, LogTypes
<1>2. /\ \A j \in T : j \in 1 .. n - 1 /\ Sess(j)
      /\ \A j \in 1 .. n - 1 : Sess(j) => j \in T
  BY <1>1 DEF Born
<1>3. CASE v = Absent /\ \A j \in 1 .. n - 1 : ~Sess(j)
  <2>1. T = {}
    BY <1>2, <1>3
  <2> QED
    BY <1>3, <2>1
<1>4. ASSUME NEW m \in 1 .. n - 1, Sess(m), log[m].to = v, \A j \in m + 1 .. n - 1 : ~Sess(j)
      PROVE  v = IF T = {} THEN Absent ELSE log[Max(T)].to
  <2>1. m \in T /\ T \in SUBSET Int
    BY <1>2, <1>4
  <2>2. \A j \in T : j <= m
    <3>1. ASSUME NEW j \in T, ~(j <= m) PROVE FALSE
      <4>1. j \in m + 1 .. n - 1
        BY <1>2, <3>1
      <4> QED
        BY <1>2, <1>4, <4>1
    <3> QED
      BY <3>1
  <2>3. Max(T) = m
    BY <2>1, <2>2, MaxIs
  <2> QED
    BY <1>4, <2>1, <2>3
<1> QED
  BY <1>3, <1>4 DEF LeftAt

\* The agent's differ (internal/agent/events.go), its one connection and the
\* server's recording tell the session's story without a gap: each event starts
\* where the one before it ended, and the last one ends at what the agent knows.
THEOREM ChainCorrect == Spec => []ChainIsWhole
<1>1. IInv => ChainIsWhole
  <2> SUFFICES ASSUME IInv, Quiet, ~cut
               PROVE  LET S == SessionEvents(stored \cup pruned)
                          before(i) == {j \in S : j < i}
                      IN  /\ \A i \in S :
                                log[i].from = IF before(i) = {} THEN Absent ELSE log[Max(before(i))].to
                          /\ known = IF S = {} THEN Absent ELSE log[Max(S)].to
    BY DEF ChainIsWhole
  <2>s. PICK S : S = SessionEvents(stored \cup pruned)
    OBVIOUS
  <2>1. Types /\ BornInv /\ ChainInv
    BY DEF IInv
  <2>2. S = {i \in Born : Sess(i)}
    <3>1. stored \cup pruned \subseteq Born
      BY <2>1 DEF BornInv, Saved
    <3>2. ASSUME NEW i \in Born, Sess(i) PROVE i \in stored \cup pruned
      <4>1. Placed(i) /\ i # 0
        BY <2>1, <3>2 DEF ChainInv, Born
      <4>2. i \notin Recording
        BY <4>1 DEF Quiet, Recording, Idle
      <4>3. \A c \in Conns : i \notin Range(up[c])
        BY DEF Quiet, Range
      <4> QED
        BY <4>1, <4>2, <4>3 DEF Placed
    <3> QED
      BY <2>s, <3>1, <3>2 DEF SessionEvents, Sess
  <2>3. PICK n \in Nat : n = Len(log) /\ Born = 1 .. n
    BY <2>1 DEF Types, LogTypes, Born
  <2>4. ASSUME NEW i \in S, NEW before, before = {j \in S : j < i}
        PROVE  log[i].from = IF before = {} THEN Absent ELSE log[Max(before)].to
    <3>1. i \in Born /\ Sess(i) /\ i \in Nat /\ i <= Len(log) + 1
      BY <2>2, <2>3
    <3>2. LeftAt(log[i].from, i)
      BY <2>1, <3>1 DEF ChainInv
    <3>3. before = {j \in Born : Sess(j) /\ j < i}
      BY <2>2, <2>4
    <3>4. PICK v : v = log[i].from
      OBVIOUS
    <3>5. PICK k \in Nat : k = i
      BY <3>1
    <3>6. /\ LeftAt(v, k) /\ k <= Len(log) + 1
          /\ before \subseteq Born /\ \A j \in Born : j \in before <=> Sess(j) /\ j < k
      BY <3>1, <3>2, <3>3, <3>4, <3>5
    <3>7. v = IF before = {} THEN Absent ELSE log[Max(before)].to
      BY <2>1, <3>6, LeftByLast
    <3> QED
      BY <3>4, <3>7
  <2>5. known = IF S = {} THEN Absent ELSE log[Max(S)].to
    <3>1. LeftAt(known, n + 1) /\ n + 1 \in Nat /\ n + 1 <= Len(log) + 1
      BY <2>1, <2>3 DEF ChainInv
    <3>2. S \subseteq Born /\ \A j \in Born : j \in S <=> Sess(j) /\ j < n + 1
      <4>1. \A j \in Born : j < n + 1
        BY <2>3
      <4> QED
        BY <2>2, <4>1
    <3>3. PICK v : v = known
      OBVIOUS
    <3>4. LeftAt(v, n + 1)
      BY <3>1, <3>3
    <3>5. v = IF S = {} THEN Absent ELSE log[Max(S)].to
      BY <2>1, <3>1, <3>2, <3>4, LeftByLast
    <3> QED
      BY <3>3, <3>5
  <2> QED
    BY <2>s, <2>4, <2>5
<1> QED
  BY <1>1, Inductive, PTL

\* command.issued and file.published are created by the handler that does what
\* they tell of (handlers.go, files.go:136): nothing is done without its event,
\* and no event tells of what was not done.
THEOREM AuditCorrect == Spec => []AuditTrail
<1>1. IInv => AuditTrail
  <2> SUFFICES ASSUME IInv PROVE AuditTrail
    OBVIOUS
  <2>1. stored \subseteq Born
    BY DEF IInv, BornInv, Saved
  <2>2. acted \cup files \subseteq stored \cup pruned \cup unsaved \cup Recording
    BY DEF IInv, AuditInv, Saved
  <2> QED
    BY <2>1, <2>2 DEF IInv, AuditInv, AuditTrail
<1> QED
  BY <1>1, Inductive, PTL

-----------------------------------------------------------------------------
(***************************************************************************)
(* Completeness. An event of the ring that is not shown any more has had   *)
(* too many others put in front of it. Those are newer in the ring, or     *)
(* were in the ring before it and broadcast after it: each of the latter   *)
(* was on its way from the ring to the broadcast when the event was added, *)
(* and a goroutine records one event at a time.                            *)
(***************************************************************************)

\* What the list is before the events that are on their way.
Base == IF inbox # <<>> /\ inbox[1] \in Lists THEN inbox[1][2] ELSE shown
Coming(y) == \E k \in DOMAIN inbox : inbox[k] = <<y>>

\* In the ring y is newer than x; in the list y is, or will be, in front of x.
After(x, y) == \E i, j \in DOMAIN ring : i < j /\ ring[i] = x /\ ring[j] = y
Ahead(x, y) ==
    /\ y # x
    /\ \/ \E i, j \in DOMAIN Base : i < j /\ Base[i] = y /\ Base[j] = x
       \/ x \in Range(Base) /\ Coming(y)
       \/ \E k, l \in DOMAIN inbox : k < l /\ inbox[k] = <<x>> /\ inbox[l] = <<y>>

\* y is in the ring, or was, and is still to be broadcast.
Pending(x, y) == y # x /\ \E g \in Goroutines : rec[g].at = 3 /\ rec[g].id = y
Late(x, y) == ~After(x, y) /\ ((dash # "off" /\ Ahead(x, y)) \/ Pending(x, y))

\* The late events of x are of different goroutines, and of another than x.
LateAt(x) ==
    /\ \A y \in Ids : Late(x, y) => log[y].via \in Goroutines \ {log[x].via}
    /\ \A y, z \in Ids : Late(x, y) /\ Late(x, z) /\ log[y].via = log[z].via => y = z

LateInv == \A x \in Range(ring) : LateAt(x)

\* An event that is not in the ring yet has not been seen.
FreshInv == \A g \in Goroutines : rec[g].at \in {1, 2} => rec[g].id \notin Seen
ViaInv == \A i \in stored \cup Range(ring) : log[i].via \in Goroutines
RoomInv == \A k \in DOMAIN inbox : inbox[k] \in Lists => Len(inbox[k][2]) <= RingCap

\* What is in the ring is in the list, or on its way there.
Listed(x) == x \in missed \cup Recording \/ x \in Range(Base) \/ Coming(x)
ListInv == dash # "off" => \A x \in Range(ring) : Listed(x)

ShowInv == LateInv /\ FreshInv /\ ViaInv /\ RoomInv /\ ListInv

\* The list has room for the ring and for an event of every other goroutine.
Room == IsFiniteSet(Conns) /\ RingCap + Cardinality(Goroutines) <= MaxShown + 1

-----------------------------------------------------------------------------
\* A sequence has no more members than its length.
LEMMA RangeBound ==
    ASSUME NEW S, NEW q \in Seq(S)
    PROVE  IsFiniteSet(Range(q)) /\ Cardinality(Range(q)) \in Nat /\ Cardinality(Range(q)) <= Len(q)
<1>1. PICK n \in Nat : n = Len(q) /\ DOMAIN q = 1 .. n
  OBVIOUS
<1>2. q \in Surjection(1 .. n, Range(q))
  BY <1>1 DEF Surjection, Range
<1>3. IsFiniteSet(1 .. n) /\ Cardinality(1 .. n) = n
  <2>1. 1 \in Int /\ n \in Int
    OBVIOUS
  <2>2. IsFiniteSet(1 .. n) /\ Cardinality(1 .. n) = IF 1 > n THEN 0 ELSE n - 1 + 1
    BY <2>1, FS_Interval
  <2> QED
    BY <2>2
<1>4. IsFiniteSet(Range(q)) /\ Cardinality(Range(q)) <= Cardinality(1 .. n)
  BY <1>2, <1>3, FS_Surjection
<1> QED
  BY <1>1, <1>3, <1>4, FS_CardinalityType

\* The events that are newer than x in the ring.
LEMMA NewerBound ==
    ASSUME Types, FeedInv, NEW x \in Range(ring), NEW A, A = {y \in Ids : After(x, y)}
    PROVE  IsFiniteSet(A) /\ Cardinality(A) \in Nat /\ Cardinality(A) + 1 <= RingCap
<1>t. ring \in Seq(Ids) /\ Len(ring) \in Nat /\ Len(ring) <= RingCap /\ DOMAIN ring \subseteq Nat
  BY DEF Types, RingTypes
<1>1. PICK R : R = Range(ring)
  OBVIOUS
<1>2. IsFiniteSet(R) /\ Cardinality(R) \in Nat /\ Cardinality(R) <= Len(ring)
  BY <1>1, <1>t, RangeBound
<1>3. IsFiniteSet(R \ {x}) /\ Cardinality(R \ {x}) = Cardinality(R) - 1
  BY <1>1, <1>2, FS_RemoveElement
<1>4. A \in SUBSET (R \ {x})
  <2>1. ASSUME NEW y \in A PROVE y \in R /\ y # x
    <3>1. PICK i, j \in DOMAIN ring : i < j /\ ring[i] = x /\ ring[j] = y
      BY <2>1 DEF After
    <3>2. i # j
      BY <1>t, <3>1
    <3> QED
      BY <1>1, <3>1, <3>2 DEF FeedInv, OrderInv, IsInjective, Range
  <2> QED
    BY <2>1
<1>5. IsFiniteSet(A) /\ Cardinality(A) <= Cardinality(R \ {x})
  BY <1>3, <1>4, FS_Subset
<1>6. Cardinality(A) \in Nat
  BY <1>5, FS_CardinalityType
<1> QED
  BY <1>2, <1>3, <1>5, <1>6, <1>t

\* The server has finitely many goroutines.
LEMMA FiniteGoroutines == Room => IsFiniteSet(Goroutines) /\ Cardinality(Goroutines) \in Nat
<1> SUFFICES ASSUME Room PROVE IsFiniteSet(Goroutines)
  BY FS_CardinalityType
<1>1. IsFiniteSet(Conns \cup {Hub})
  BY FS_AddElement DEF Room
<1>2. IsFiniteSet((Conns \cup {Hub}) \cup {Http})
  BY <1>1, FS_AddElement
<1>3. (Conns \cup {Hub}) \cup {Http} = Goroutines
  BY DEF Goroutines
<1> QED
  BY <1>2, <1>3

\* The late events of x.
LEMMA LateBound ==
    ASSUME Room, NEW x, LateAt(x), log[x].via \in Goroutines,
           NEW L, L = {y \in Ids : Late(x, y)}
    PROVE  IsFiniteSet(L) /\ Cardinality(L) \in Nat /\ Cardinality(L) + 1 <= Cardinality(Goroutines)
<1>1. IsFiniteSet(Goroutines)
  BY FiniteGoroutines
<1>v. PICK v \in Goroutines : v = log[x].via
  OBVIOUS
<1>2. PICK G : G = Goroutines \ {v}
  OBVIOUS
<1>3. IsFiniteSet(G) /\ Cardinality(G) = Cardinality(Goroutines) - 1 /\ Cardinality(Goroutines) \in Nat
  <2>1. IsFiniteSet(G) /\ Cardinality(G) = Cardinality(Goroutines) - 1
    <3>1. /\ IsFiniteSet(Goroutines \ {v})
          /\ Cardinality(Goroutines \ {v}) =
                IF v \in Goroutines THEN Cardinality(Goroutines) - 1 ELSE Cardinality(Goroutines)
      BY <1>1, FS_RemoveElement
    <3> QED
      BY <1>2, <3>1
  <2> QED
    BY <2>1, FiniteGoroutines
<1>4. PICK f : f = [y \in L |-> log[y].via]
  OBVIOUS
<1>5. f \in Injection(L, G)
  <2>1. f \in [L -> G]
    BY <1>v, <1>2, <1>4 DEF LateAt
  <2>2. IsInjective(f)
    BY <1>4 DEF LateAt, IsInjective
  <2> QED
    BY <2>1, <2>2 DEF Injection
<1>6. IsFiniteSet(L) /\ Cardinality(L) <= Cardinality(G)
  BY <1>3, <1>5, FS_Injection
<1>7. Cardinality(L) \in Nat
  BY <1>6, FS_CardinalityType
<1> QED
  BY <1>3, <1>6, <1>7

\* There is room for one more event in front of x.
LEMMA FrontFits ==
    ASSUME Types, FeedInv, Room, NEW x \in Range(ring), LateAt(x), log[x].via \in Goroutines,
           dash # "off", Base = shown, NEW p \in DOMAIN shown, shown[p] = x,
           NEW y \in Ids, y \notin Range(shown), Coming(y)
    PROVE  p < MaxShown
<1>t. /\ shown \in Seq(Ids) /\ DOMAIN shown \subseteq Nat \ {0} /\ p \in Nat \ {0} /\ IsInjective(shown)
      /\ DOMAIN shown = 1 .. Len(shown) /\ Len(shown) \in Nat
  BY DEF Types, DashTypes, FeedInv, OrderInv
<1>1. PICK f : f = [i \in 1 .. p |-> IF i = p THEN y ELSE shown[i]]
  OBVIOUS
<1>2. PICK A : A = {z \in Ids : After(x, z)}
  OBVIOUS
<1>3. PICK L : L = {z \in Ids : Late(x, z)}
  OBVIOUS
<1>4. /\ IsFiniteSet(A) /\ Cardinality(A) \in Nat /\ Cardinality(A) + 1 <= RingCap
      /\ IsFiniteSet(L) /\ Cardinality(L) \in Nat /\ Cardinality(L) + 1 <= Cardinality(Goroutines)
  BY <1>2, <1>3, NewerBound, LateBound
<1>5. \A i \in 1 .. p : i = p \/ (i \in DOMAIN shown /\ i < p)
  BY <1>t
<1>6. ASSUME NEW i \in 1 .. p PROVE f[i] \in A \cup L
  <2>1. f[i] \in Ids /\ Ahead(x, f[i])
    <3>1. CASE i = p
      <4>1. f[i] = y /\ y # x /\ x \in Range(shown)
        BY <1>1, <3>1, <1>t DEF Range
      <4> QED
        BY <4>1 DEF Ahead
    <3>2. CASE i # p
      <4>1. i \in DOMAIN shown /\ i < p /\ f[i] = shown[i]
        BY <1>1, <1>5, <3>2
      <4>2. shown[i] # x /\ shown[i] \in Ids
        BY <1>t, <3>2, <4>1 DEF IsInjective
      <4> QED
        BY <4>1, <4>2 DEF Ahead
    <3> QED
      BY <3>1, <3>2
  <2> QED
    BY <1>2, <1>3, <2>1 DEF Late
<1>7. f \in Injection(1 .. p, A \cup L)
  <2>1. f \in [1 .. p -> A \cup L]
    BY <1>1, <1>6
  <2>2. ASSUME NEW i \in 1 .. p, NEW j \in 1 .. p, f[i] = f[j] PROVE i = j
    <3>1. CASE i = p /\ j = p
      BY <3>1
    <3>2. CASE i # p /\ j # p
      BY <1>1, <1>5, <1>t, <2>2, <3>2 DEF IsInjective
    <3>3. CASE (i = p /\ j # p) \/ (i # p /\ j = p)
      BY <1>1, <1>5, <2>2, <3>3 DEF Range
    <3> QED
      BY <3>1, <3>2, <3>3
  <2>3. IsInjective(f)
    BY <2>1, <2>2 DEF IsInjective
  <2> QED
    BY <2>1, <2>3 DEF Injection
<1>8. IsFiniteSet(A \cup L) /\ Cardinality(A \cup L) <= Cardinality(A) + Cardinality(L)
  <2>1. IsFiniteSet(A \cup L) /\ Cardinality(A \cup L) = Cardinality(A) + Cardinality(L) - Cardinality(A \cap L)
    BY <1>4, FS_Union
  <2>2. IsFiniteSet(A \cap L)
    BY <1>4, FS_Intersection
  <2>3. Cardinality(A \cap L) \in Nat
    BY <2>2, FS_CardinalityType
  <2> QED
    BY <1>4, <2>1, <2>3
<1>9. Cardinality(1 .. p) <= Cardinality(A \cup L)
  BY <1>7, <1>8, FS_Injection
<1>10. Cardinality(1 .. p) = p
  BY <1>t, FS_Interval
<1>11. Cardinality(A \cup L) \in Nat
  BY <1>8, FS_CardinalityType
<1>12. PICK c \in Nat : c = Cardinality(Goroutines)
  BY FiniteGoroutines
<1>13. RingCap + c <= MaxShown + 1
  BY <1>12 DEF Room
<1>14. Cardinality(L) + 1 <= c
  BY <1>4, <1>12
<1>15. PICK a \in Nat, l \in Nat, u \in Nat :
          a = Cardinality(A) /\ l = Cardinality(L) /\ u = Cardinality(A \cup L)
  BY <1>4, <1>11
<1>16. p <= u /\ u <= a + l /\ a + 1 <= RingCap /\ l + 1 <= c
  BY <1>4, <1>8, <1>9, <1>10, <1>14, <1>15
<1>17. RingCap \in Nat /\ MaxShown \in Nat
  OBVIOUS
<1> QED
  BY <1>13, <1>16, <1>17, <1>t

\* What is in the list, or on its way there, was told to the dashboard.
LEMMA BaseFacts ==
    ASSUME Types
    PROVE  /\ Base \in Seq(Ids) /\ Range(Base) \subseteq Told
           /\ \A y : Coming(y) => y \in Told /\ y \in Ids
           /\ inbox \in Seq(Lists \cup News)
<1>t. inbox \in Seq(Lists \cup News) /\ shown \in Seq(Ids)
  BY DEF Types, DashTypes
<1>1. Base \in Seq(Ids) /\ Range(Base) \subseteq Told
  <2>1. CASE inbox # <<>> /\ inbox[1] \in Lists
    <3>1. 1 \in DOMAIN inbox
      BY <1>t, <2>1
    <3>2. Base = inbox[1][2]
      BY <2>1 DEF Base
    <3>3. inbox[1][2] \in Seq(Ids) /\ MsgIds(inbox[1]) = Range(inbox[1][2])
      BY <2>1, MsgFacts
    <3> QED
      BY <3>1, <3>2, <3>3 DEF Told
  <2>2. CASE ~(inbox # <<>> /\ inbox[1] \in Lists)
    <3>1. Base = shown
      BY <2>2 DEF Base
    <3> QED
      BY <1>t, <3>1 DEF Told
  <2> QED
    BY <2>1, <2>2
<1>3. ASSUME NEW y, Coming(y) PROVE y \in Told /\ y \in Ids
  <2>1. PICK k \in DOMAIN inbox : inbox[k] = <<y>>
    BY <1>3 DEF Coming
  <2>2. inbox[k] \in Lists \cup News
    BY <1>t
  <2>3. Len(<<y>>) = 1 /\ <<y>>[1] = y
    OBVIOUS
  <2>4. MsgIds(inbox[k]) = {y} /\ y \in Ids
    BY <2>1, <2>2, <2>3, MsgFacts
  <2> QED
    BY <2>4 DEF Told
<1> QED
  BY <1>t, <1>1, <1>3

\* A late event exists.
LEMMA LateBorn ==
    ASSUME Types, FeedInv, NEW x, NEW y, Late(x, y)
    PROVE  y \in Born
<1>1. Told \subseteq Born
  BY DEF FeedInv, BornInv, Seen
<1>2. CASE Pending(x, y)
  BY <1>2 DEF Pending, FeedInv, BornInv
<1>3. CASE Ahead(x, y)
  <2>1. CASE Coming(y)
    BY <1>1, <2>1, BaseFacts
  <2>2. CASE y \in Range(Base)
    BY <1>1, <2>2, BaseFacts
  <2> QED
    BY <1>3, <2>1, <2>2 DEF Ahead, Coming, Range
<1> QED
  BY <1>2, <1>3 DEF Late

\* What is late for x remains so when nothing else becomes late.
LEMMA LateLess ==
    ASSUME Types, FeedInv, Kept, NEW x \in Range(ring), LateAt(x),
           \A y : Late(x, y)' => Late(x, y)
    PROVE  LateAt(x)'
<1>1. x \in Born
  BY DEF FeedInv, BornInv, Seen
<1>2. log'[x] = log[x]
  BY <1>1 DEF Kept
<1>3. ASSUME NEW y \in Ids, Late(x, y)'
      PROVE  Late(x, y) /\ log'[y] = log[y]
  <2>1. Late(x, y)
    BY <1>3
  <2>2. y \in Born
    BY <2>1, LateBorn
  <2> QED
    BY <2>1, <2>2 DEF Kept
<1>4. \A y \in Ids : Late(x, y)' => log'[y].via \in Goroutines \ {log'[x].via}
  BY <1>2, <1>3 DEF LateAt
<1>5. ASSUME NEW y \in Ids, NEW z \in Ids, Late(x, y)', Late(x, z)', log'[y].via = log'[z].via
      PROVE  y = z
  BY <1>3, <1>5 DEF LateAt
<1> QED
  BY <1>4, <1>5 DEF LateAt

\* Nothing is added, broadcast or read.
LEMMA ShowStill ==
    ASSUME Types, FeedInv, ShowInv, Kept, UNCHANGED <<ring, shown, inbox, missed>>,
           dash' # "off" <=> dash # "off",
           \A g \in Goroutines : rec'[g].at = 3 => rec[g].at = 3 /\ rec'[g].id = rec[g].id,
           Recording \subseteq Recording' \cup {0},
           \A g \in Goroutines : rec'[g].at \in {1, 2} => rec'[g].id \notin Seen,
           \A i \in stored' : i \in stored \/ log'[i].via \in Goroutines
    PROVE  ShowInv'
<1>1. Base' = Base /\ \A y : Coming(y)' <=> Coming(y)
  BY DEF Base, Coming
<1>2. \A x, y : After(x, y)' <=> After(x, y)
  BY DEF After
<1>3. \A x, y : Ahead(x, y)' <=> Ahead(x, y)
  BY <1>1 DEF Ahead
<1>4. \A x, y : Pending(x, y)' => Pending(x, y)
  BY DEF Pending
<1>5. LateInv'
  <2>1. ASSUME NEW x \in Range(ring) PROVE LateAt(x)'
    <3>1. \A y : Late(x, y)' => Late(x, y)
      BY <1>2, <1>3, <1>4 DEF Late
    <3> QED
      BY <3>1, LateLess DEF ShowInv, LateInv
  <2> QED
    BY <2>1 DEF LateInv
<1>6. FreshInv'
  <2>1. Seen' = Seen
    BY SeenKept
  <2> QED
    BY <2>1 DEF FreshInv
<1>b. Saved \subseteq Born /\ Range(ring) \subseteq Born /\ 0 \notin Range(ring)
  BY DEF FeedInv, BornInv, Seen, Born
<1>7. ViaInv'
  <2>1. ASSUME NEW i \in stored' \cup Range(ring) PROVE log'[i].via \in Goroutines
    <3>1. CASE i \in stored \cup Range(ring)
      <4>1. i \in Born /\ log'[i] = log[i]
        BY <1>b, <3>1 DEF Saved, Kept
      <4> QED
        BY <3>1, <4>1 DEF ShowInv, ViaInv
    <3> QED
      BY <2>1, <3>1
  <2> QED
    BY <2>1 DEF ViaInv
<1>8. RoomInv'
  BY DEF ShowInv, RoomInv
<1>9. ListInv'
  BY <1>1, <1>b DEF ShowInv, ListInv, Listed
<1> QED
  BY <1>5, <1>6, <1>7, <1>8, <1>9 DEF ShowInv

\* A goroutine that was idle starts with an event that was not seen.
LEMMA ShowStarts ==
    ASSUME Types, FeedInv, ShowInv, Kept,
           UNCHANGED <<ring, shown, inbox, dash, missed, stored>>,
           NEW g \in Goroutines, NEW id \in Ids, rec[g] = Idle, rec' = Start(g, id), id \notin Seen
    PROVE  ShowInv'
<1>1. rec'[g] = [at |-> 1, id |-> id] /\ \A h \in Goroutines \ {g} : rec'[h] = rec[h]
  BY StartType
<1>2. rec'[g].at = 1 /\ rec'[g].id = id
  BY <1>1
<1>3. \A h \in Goroutines : rec'[h].at = 3 => rec[h].at = 3 /\ rec'[h].id = rec[h].id
  BY <1>1, <1>2
<1>4. Recording \subseteq Recording' \cup {0}
  <2>1. \A h \in Goroutines : rec[h].id \in Recording' \cup {0}
    BY <1>1 DEF Recording, Idle
  <2> QED
    BY <2>1 DEF Recording
<1>5. \A h \in Goroutines : rec'[h].at \in {1, 2} => rec'[h].id \notin Seen
  BY <1>1, <1>2 DEF ShowInv, FreshInv
<1> QED
  BY <1>3, <1>4, <1>5, ShowStill

\* The agent, the network and what else is not about the feed.
LEMMA ShowRest ==
    ASSUME Types, FeedInv, ShowInv,
           \/ AgentNotices \/ HandleCommand \/ AgentRestarts \/ RegisterDash
           \/ \E seen \in Members : Discover(seen)
           \/ \E c \in Conns : Dial(c) \/ Break(c) \/ AcceptFails(c) \/ Register(c) \/ ReadFails(c)
           \/ \E cutoff \in Ids : Prune(cutoff)
           \/ UNCHANGED vars
    PROVE  ShowInv'
<1>1. /\ UNCHANGED <<rec, ring, shown, inbox, missed>> /\ stored' \subseteq stored
      /\ dash' # "off" <=> dash # "off"
      /\ UNCHANGED log \/ \E seen \in Members : Discover(seen)
  BY DEF AgentNotices, HandleCommand, AgentRestarts, Discover, Dial, Break, AcceptFails, Register,
         ReadFails, Prune, RegisterDash, vars, dashVars, dbVars
<1>2. Kept
  <2>1. CASE UNCHANGED log
    BY <2>1, SameLog
  <2>2. ASSUME NEW seen \in Members, Discover(seen) PROVE Kept
    <3>1. Create(DiffSessionEvents(known, seen))
      BY <2>2 DEF Discover
    <3>2. DiffSessionEvents(known, seen) \in Events
      BY DiffFacts
    <3> QED
      BY <3>1, <3>2, CreateKeeps
  <2> QED
    BY <1>1, <2>1, <2>2
<1>3. Recording' = Recording
  BY <1>1 DEF Recording
<1>4. \A g \in Goroutines : rec'[g].at \in {1, 2} => rec'[g].id \notin Seen
  BY <1>1 DEF ShowInv, FreshInv
<1>5. \A i \in stored' : i \in stored \/ log'[i].via \in Goroutines
  BY <1>1
<1>6. \A g \in Goroutines : rec'[g].at = 3 => rec[g].at = 3 /\ rec'[g].id = rec[g].id
  BY <1>1
<1> QED
  BY <1>1, <1>2, <1>3, <1>4, <1>5, <1>6, ShowStill

\* An event is created and its recording starts; nobody has seen it.
LEMMA ShowCreates ==
    ASSUME Types, FeedInv, ShowInv,
           \/ \E c \in Conns : AcceptHello(c) \/ Unregister(c)
           \/ SendCommand \/ Publish
    PROVE  ShowInv'
<1>1. ASSUME NEW k \in {"connected", "offline", "command", "file"}, NEW g \in Goroutines,
             Create(ServerEvent(k, g)), rec' = Start(g, NewId), rec[g] = Idle,
             UNCHANGED <<ring, shown, inbox, dash, missed, stored>>
      PROVE  ShowInv'
  <2>1. PICK e \in Events : e = ServerEvent(k, g)
    BY ServerEventFacts
  <2>2. PICK n \in Ids : n = NewId /\ Kept /\ n \notin Born
    BY <1>1, <2>1, CreateKeeps
  <2>3. n \notin Seen
    BY <2>2 DEF FeedInv, BornInv
  <2>4. rec' = Start(g, n)
    BY <1>1, <2>2
  <2> QED
    BY <1>1, <2>2, <2>3, <2>4, ShowStarts
<1>2. ASSUME NEW c \in Conns, AcceptHello(c) PROVE ShowInv'
  <2>1. /\ Create(ServerEvent("connected", c)) /\ rec' = Start(c, NewId) /\ c \in Goroutines
        /\ UNCHANGED <<ring, shown, inbox, dash, missed, stored>>
    BY <1>2 DEF AcceptHello, dashVars, dbVars, Goroutines
  <2>2. rec[c] = Idle
    BY <1>2 DEF AcceptHello, FeedInv, WireInv
  <2> QED
    BY <1>1, <2>1, <2>2
<1>3. ASSUME NEW c \in Conns, Unregister(c) PROVE ShowInv'
  <2>1. /\ Create(ServerEvent("offline", Hub)) /\ rec' = Start(Hub, NewId) /\ Hub \in Goroutines
        /\ rec[Hub] = Idle
        /\ UNCHANGED <<ring, shown, inbox, dash, missed, stored>>
    BY <1>3 DEF Unregister, dashVars, dbVars, Goroutines
  <2> QED
    BY <1>1, <2>1
<1>4. ASSUME SendCommand \/ Publish PROVE ShowInv'
  <2>1. PICK k \in {"command", "file"} : Create(ServerEvent(k, Http))
    BY <1>4 DEF SendCommand, Publish
  <2>2. /\ rec' = Start(Http, NewId) /\ Http \in Goroutines /\ rec[Http] = Idle
        /\ UNCHANGED <<ring, shown, inbox, dash, missed, stored>>
    BY <1>4 DEF SendCommand, Publish, dashVars, dbVars, Goroutines
  <2> QED
    BY <1>1, <2>1, <2>2
<1> QED
  BY <1>2, <1>3, <1>4

\* A report that is read has not been seen: what was is older.
LEMMA ShowReads ==
    ASSUME Types, FeedInv, ShowInv, NEW c \in Conns, ReadReport(c)
    PROVE  ShowInv'
<1>1. /\ up[c] \in Seq(Ids) /\ up[c] # <<>> /\ rec[c] = Idle /\ c \in Goroutines
      /\ rec' = Start(c, Head(up[c]))
      /\ UNCHANGED <<log, ring, shown, inbox, dash, missed, stored>>
  BY DEF ReadReport, Types, NetTypes, Goroutines, dashVars, dbVars
<1>2. PICK id \in Ids : id = Head(up[c]) /\ id = up[c][1] /\ 1 \in DOMAIN up[c]
  BY <1>1, TailFacts
<1>3. Sess(id) /\ log[id].via = c
  BY <1>2 DEF FeedInv, WireInv
<1>4. ASSUME id \in Seen PROVE FALSE
  <2>1. id < id
    BY <1>2, <1>3, <1>4 DEF FeedInv, PastInv, Past
  <2> QED
    BY <2>1 DEF Ids
<1> QED
  BY <1>1, <1>2, <1>4, SameLog, ShowStarts

\* Two goroutines record two events.
LEMMA OneEach ==
    ASSUME Types, FeedInv, NEW g \in Goroutines, NEW h \in Goroutines,
           rec[g].at > 0, rec[h].at > 0, rec[g].id = rec[h].id
    PROVE  g = h
  BY DEF FeedInv, WireInv

\* SaveEvent.
LEMMA ShowSaves ==
    ASSUME Types, FeedInv, ShowInv, NEW g \in Goroutines, SaveEvent(g)
    PROVE  ShowInv'
<1>1. /\ rec[g].at = 1 /\ Advance(g) /\ UNCHANGED <<log, ring, shown, inbox, dash, missed>>
      /\ stored' \subseteq stored \cup {rec[g].id}
  BY StepFacts DEF SaveEvent, Types, dashVars
<1>0. rec[g].at > 0
  BY <1>1
<1>2. /\ \A h \in Goroutines \ {g} : rec'[h] = rec[h]
      /\ rec'[g].at = 2 /\ rec'[g].id = rec[g].id
  <2>1. rec[g].at + 1 = 2 /\ rec[g].at \in {1, 2}
    BY <1>1
  <2> QED
    BY <1>0, <1>1, <2>1, AdvanceType
<1>3. log'[rec[g].id].via \in Goroutines
  BY <1>0, <1>1 DEF FeedInv, WireInv
<1>4. \A i \in stored' : i \in stored \/ log'[i].via \in Goroutines
  BY <1>1, <1>3
<1>5. \A h \in Goroutines : rec'[h].id = rec[h].id
  BY <1>2
<1>6. Recording \subseteq Recording' \cup {0}
  BY <1>5 DEF Recording
<1>7. \A h \in Goroutines : rec'[h].at = 3 => rec[h].at = 3 /\ rec'[h].id = rec[h].id
  BY <1>2
<1>8. \A h \in Goroutines : rec'[h].at \in {1, 2} => rec'[h].id \notin Seen
  BY <1>1, <1>2 DEF ShowInv, FreshInv
<1> QED
  BY <1>1, <1>4, <1>6, <1>7, <1>8, SameLog, ShowStill

\* What AddEvent does to the order of the ring.
LEMMA RingAdds ==
    ASSUME Types, FeedInv, NEW g \in Goroutines, AddEvent(g), NEW id \in Ids, id = rec[g].id
    PROVE  /\ Range(ring') \subseteq Range(ring) \cup {id}
           /\ \A x \in Range(ring') : x # id => /\ x \in Range(ring) /\ After(x, id)'
                                                /\ \A y : After(x, y) => After(x, y)'
<1>t. ring \in Seq(Ids)
  BY DEF Types, RingTypes
<1>1. PICK q \in Seq(Ids) : q = Append(ring, id)
  BY <1>t, AppendFacts
<1>2. PICK n \in Nat : /\ n = Len(ring) /\ DOMAIN ring = 1 .. n /\ Len(q) = n + 1 /\ q[n + 1] = id
                       /\ \A i \in 1 .. n : q[i] = ring[i]
  BY <1>t, <1>1, AppendFacts
<1>3. PICK r : r = ring'
  OBVIOUS
<1>4. PICK d \in Nat : /\ d <= n + 1 /\ DOMAIN r = 1 .. (n + 1 - d)
                       /\ \A i \in 1 .. (n + 1 - d) : r[i] = q[i + d]
  <2>1. r = LastN(q, RingCap)
    BY <1>1, <1>3 DEF AddEvent
  <2>2. RingCap \in Nat \ {0}
    OBVIOUS
  <2>3. PICK d \in Nat : /\ LastN(q, RingCap) \in Seq(Ids) /\ Len(LastN(q, RingCap)) = Len(q) - d
                         /\ Len(LastN(q, RingCap)) <= RingCap /\ d <= Len(q)
                         /\ DOMAIN LastN(q, RingCap) = 1 .. (Len(q) - d)
                         /\ \A i \in 1 .. (Len(q) - d) : LastN(q, RingCap)[i] = q[i + d]
    BY <2>2, LastNFacts
  <2> QED
    BY <1>2, <2>1, <2>3
<1>5. ASSUME NEW i \in DOMAIN r
      PROVE  \/ r[i] = id /\ i = n + 1 - d
             \/ i + d \in DOMAIN ring /\ r[i] = ring[i + d] /\ i < n + 1 - d
  <2>1. i + d \in 1 .. n + 1 /\ r[i] = q[i + d]
    BY <1>4
  <2>2. (i + d = n + 1 /\ i = n + 1 - d) \/ (i + d \in 1 .. n /\ i < n + 1 - d)
    BY SMTT(30), <1>4, <2>1
  <2> QED
    BY <1>2, <2>1, <2>2
<1>6. Range(r) \subseteq Range(ring) \cup {id}
  BY <1>5 DEF Range
<1>7. ASSUME NEW x \in Range(r), x # id
      PROVE  /\ x \in Range(ring)
             /\ \E i, j \in DOMAIN r : i < j /\ r[i] = x /\ r[j] = id
             /\ \A y : After(x, y) => \E i, j \in DOMAIN r : i < j /\ r[i] = x /\ r[j] = y
  <2>1. PICK i \in DOMAIN r : r[i] = x
    BY DEF Range
  <2>2. i + d \in DOMAIN ring /\ ring[i + d] = x /\ i < n + 1 - d /\ i \in Nat \ {0}
    BY SMTT(30), <1>4, <1>5, <1>7, <2>1
  <2>3. PICK l \in DOMAIN r : l = n + 1 - d /\ r[l] = id /\ i < l
    <3>1. n + 1 - d \in 1 .. (n + 1 - d) /\ (n + 1 - d) + d = n + 1
      BY <2>2
    <3> QED
      BY <1>2, <1>4, <2>2, <3>1
  <2>4. ASSUME NEW y, After(x, y) PROVE \E k, j \in DOMAIN r : k < j /\ r[k] = x /\ r[j] = y
    <3>1. PICK a, b \in DOMAIN ring : a < b /\ ring[a] = x /\ ring[b] = y
      BY <2>4 DEF After
    <3>2. a = i + d
      BY <2>2, <3>1 DEF FeedInv, OrderInv, IsInjective
    <3>3. PICK j \in DOMAIN r : j = b - d /\ i < j /\ r[j] = q[j + d] /\ j + d = b
      <4>1. b - d \in 1 .. (n + 1 - d) /\ i < b - d /\ (b - d) + d = b
        BY SMTT(30), <1>2, <2>2, <3>1, <3>2
      <4> QED
        BY <1>4, <4>1
    <3>4. r[j] = y
      BY <1>2, <3>1, <3>3
    <3> QED
      BY <2>1, <3>3, <3>4
  <2>5. x \in Range(ring)
    BY <2>2 DEF Range
  <2> QED
    BY <2>1, <2>3, <2>4, <2>5
<1> QED
  BY <1>3, <1>6, <1>7 DEF After

\* AddEvent: for the events of the ring the new one is newer; for the new one
\* only events on their way to the broadcast are late.
LEMMA ShowAdds ==
    ASSUME Types, FeedInv, ShowInv, NEW g \in Goroutines, AddEvent(g)
    PROVE  ShowInv'
<1>1. rec[g].at = 2 /\ Advance(g) /\ UNCHANGED <<log, up, conn, shown, inbox, dash, missed, stored>>
  BY StepFacts DEF AddEvent, Types, netVars, dashVars, dbVars
<1>0. rec[g].at > 0 /\ rec[g].at \in {1, 2}
  BY <1>1
<1>2. PICK id \in Ids : id = rec[g].id
  BY <1>0, <1>1, AdvanceType
<1>3. /\ \A h \in Goroutines \ {g} : rec'[h] = rec[h]
      /\ rec'[g].at = 3 /\ rec'[g].id = id
  <2>1. rec[g].at + 1 = 3
    BY <1>1
  <2> QED
    BY <1>0, <1>1, <1>2, <2>1, AdvanceType
<1>4. /\ Range(ring') \subseteq Range(ring) \cup {id}
      /\ \A x \in Range(ring') : x # id => /\ x \in Range(ring) /\ After(x, id)'
                                           /\ \A y : After(x, y) => After(x, y)'
  BY <1>2, RingAdds
<1>5. Base' = Base /\ \A y : Coming(y)' <=> Coming(y)
  BY <1>1 DEF Base, Coming
<1>6. \A x, y : Ahead(x, y)' <=> Ahead(x, y)
  BY <1>1, <1>5 DEF Ahead
<1>7. id \notin Told /\ id \notin Seen
  BY <1>0, <1>2 DEF ShowInv, FreshInv, Seen
<1>8. log[id].via = g
  BY <1>0, <1>2 DEF FeedInv, WireInv
<1>k. Kept
  BY <1>1, SameLog
<1>9. LateInv'
  <2>1. ASSUME NEW x \in Range(ring'), x # id PROVE LateAt(x)'
    <3>1. ASSUME NEW y, Late(x, y)' PROVE Late(x, y)
      <4>1. ~After(x, y) /\ y # id
        BY <1>4, <2>1, <3>1 DEF Late
      <4>2. ASSUME Pending(x, y)' PROVE Pending(x, y)
        <5>1. PICK h \in Goroutines : rec'[h].at = 3 /\ rec'[h].id = y /\ y # x
          BY <4>2 DEF Pending
        <5>2. h # g
          BY <1>3, <4>1, <5>1
        <5> QED
          BY <1>3, <5>1, <5>2 DEF Pending
      <4> QED
        BY <1>1, <1>6, <3>1, <4>1, <4>2 DEF Late
    <3> QED
      BY <1>4, <1>k, <2>1, <3>1, LateLess DEF ShowInv, LateInv
  <2>2. LateAt(id)'
    <3>1. ASSUME NEW y, Ahead(id, y) PROVE FALSE
      <4>1. id \in Range(Base) \/ Coming(id)
        BY <3>1 DEF Ahead, Range, Coming
      <4> QED
        BY <1>7, <4>1, BaseFacts
    <3>2. ASSUME NEW y, Late(id, y)' PROVE \E h \in Goroutines \ {g} : log[y].via = h /\ rec[h].id = y
      <4>1. Pending(id, y)'
        BY <1>6, <3>1, <3>2 DEF Late
      <4>2. PICK h \in Goroutines : rec'[h].at = 3 /\ rec'[h].id = y /\ y # id
        BY <4>1 DEF Pending
      <4>3. h # g /\ rec[h].at = 3 /\ rec[h].id = y
        BY <1>3, <4>2
      <4>4. rec[h].at > 0
        BY <4>3
      <4>5. log[rec[h].id].via = h
        BY <4>4 DEF FeedInv, WireInv
      <4> QED
        BY <4>3, <4>5
    <3>3. \A y \in Ids : Late(id, y)' => log[y].via \in Goroutines \ {log[id].via}
      BY <1>8, <3>2
    <3>4. \A y, z \in Ids : Late(id, y)' /\ Late(id, z)' /\ log[y].via = log[z].via => y = z
      BY <3>2
    <3> QED
      BY <1>1, <3>3, <3>4 DEF LateAt
  <2> QED
    BY <2>1, <2>2 DEF LateInv
<1>10. FreshInv'
  <2>1. Seen' \subseteq Seen \cup {id}
    BY <1>1, <1>4 DEF Seen, Told, MsgIds
  <2>2. ASSUME NEW h \in Goroutines, rec'[h].at \in {1, 2} PROVE rec'[h].id \notin Seen \cup {id}
    <3>1. h # g /\ rec'[h] = rec[h]
      BY <1>3, <2>2
    <3>2. rec[h].at > 0
      BY <2>2, <3>1
    <3>3. rec[h].id # id
      BY <1>0, <1>2, <3>1, <3>2, OneEach
    <3> QED
      BY <2>2, <3>1, <3>3 DEF ShowInv, FreshInv
  <2> QED
    BY <2>1, <2>2 DEF FreshInv
<1>11. ViaInv'
  BY <1>1, <1>4, <1>8 DEF ShowInv, ViaInv
<1>12. RoomInv'
  BY <1>1 DEF ShowInv, RoomInv
<1>13. ListInv'
  <2>1. id \in Recording' /\ Recording \subseteq Recording'
    <3>1. \A h \in Goroutines : rec'[h].id = rec[h].id
      BY <1>2, <1>3
    <3> QED
      BY <1>2, <3>1 DEF Recording
  <2>2. ASSUME NEW x \in Range(ring'), dash # "off" PROVE Listed(x)'
    <3>1. CASE x = id
      BY <2>1, <3>1 DEF Listed
    <3>2. CASE x # id
      <4>1. Listed(x)
        BY <1>4, <2>2, <3>2 DEF ShowInv, ListInv
      <4> QED
        BY <1>1, <1>5, <2>1, <4>1 DEF Listed
    <3> QED
      BY <3>1, <3>2
  <2> QED
    BY <1>1, <2>2 DEF ListInv
<1> QED
  BY <1>9, <1>10, <1>11, <1>12, <1>13 DEF ShowInv

\* The dashboard is not connected any more: only what is still to be broadcast
\* counts.
LEMMA ShowOff ==
    ASSUME Types, FeedInv, ShowInv, UNCHANGED <<log, ring, shown, stored>>,
           dash' = "off", inbox' = <<>>,
           \A g \in Goroutines : rec'[g].at > 0 => rec'[g] = rec[g]
    PROVE  ShowInv'
<1>1. ASSUME NEW g \in Goroutines, rec'[g].at \in {1, 2, 3} PROVE rec'[g] = rec[g]
  BY <1>1
<1>2. \A x, y : Pending(x, y)' => Pending(x, y)
  BY <1>1 DEF Pending
<1>3. \A x, y : After(x, y)' <=> After(x, y)
  BY DEF After
<1>4. LateInv'
  <2>1. \A x, y : Late(x, y)' => Late(x, y)
    BY <1>2, <1>3 DEF Late
  <2>2. ASSUME NEW x \in Range(ring) PROVE LateAt(x)'
    BY <2>1, SameLog, LateLess DEF ShowInv, LateInv
  <2> QED
    BY <2>2 DEF LateInv
<1>5. FreshInv'
  <2>1. Seen' \subseteq Seen
    BY DEF Seen, Told
  <2> QED
    BY <1>1, <2>1 DEF ShowInv, FreshInv
<1>6. ViaInv'
  BY DEF ShowInv, ViaInv
<1>7. RoomInv' /\ ListInv'
  BY DEF RoomInv, ListInv
<1> QED
  BY <1>4, <1>5, <1>6, <1>7 DEF ShowInv

\* The dashboard's connection ends.
LEMMA ShowDrops ==
    ASSUME Types, FeedInv, ShowInv, DashDrops
    PROVE  ShowInv'
<1>1. UNCHANGED <<log, ring, shown, stored, rec>> /\ dash' = "off" /\ inbox' = <<>>
  BY DEF DashDrops, dbVars
<1>2. \A g \in Goroutines : rec'[g].at > 0 => rec'[g] = rec[g]
  BY <1>1
<1> QED
  BY <1>1, <1>2, ShowOff

\* What is added to the inbox changes the list only by what is coming.
LEMMA EmitAdds ==
    ASSUME Types, NEW id \in Ids, inbox' = Append(inbox, <<id>>), UNCHANGED shown
    PROVE  /\ Base' = Base /\ \A y : Coming(y)' <=> Coming(y) \/ y = id
           /\ \A x, y : Ahead(x, y)' => Ahead(x, y) \/ (y = id /\ y # x)
           /\ \A k \in DOMAIN inbox' : inbox'[k] \in Lists => k \in DOMAIN inbox /\ inbox'[k] = inbox[k]
<1>1. PICK m \in News : m = <<id>> /\ m \notin Lists
  <2>1. <<id>> \in News
    BY DEF News
  <2> QED
    BY <2>1, MsgFacts
<1>r. PICK r : r = inbox'
  OBVIOUS
<1>2. PICK n \in Nat :
         /\ n = Len(inbox) /\ DOMAIN inbox = 1 .. n /\ DOMAIN r = 1 .. n + 1
         /\ r[n + 1] = m /\ \A i \in 1 .. n : r[i] = inbox[i]
  <2>1. inbox \in Seq(Lists \cup News) /\ r = Append(inbox, m)
    BY <1>1, <1>r DEF Types, DashTypes
  <2> QED
    BY <2>1, AppendFacts
<1>3. \A k \in DOMAIN r : (k \in DOMAIN inbox /\ r[k] = inbox[k]) \/ (k = n + 1 /\ r[k] = m)
  <2>1. \A k \in 1 .. n + 1 : k \in 1 .. n \/ k = n + 1
    OBVIOUS
  <2> QED
    BY <1>2, <2>1
<1>4. \A k \in DOMAIN inbox : k \in DOMAIN r /\ k < n + 1 /\ k \in Nat
  BY <1>2
<1>5. Base' = Base
  <2>1. r # <<>>
    BY <1>2
  <2>2. CASE inbox = <<>>
    <3>1. n = 0 /\ r[1] = m
      BY <1>2, <2>2
    <3> QED
      BY <1>r, <1>1, <1>2, <2>1, <2>2, <3>1 DEF Base
  <2>3. CASE inbox # <<>>
    <3>1. 1 \in DOMAIN inbox
      BY <1>2, <2>3
    <3>2. r[1] = inbox[1]
      BY <1>2, <3>1
    <3> QED
      BY <1>r, <2>1, <2>3, <3>2 DEF Base
  <2> QED
    BY <2>2, <2>3
<1>6. ASSUME NEW y PROVE (\E k \in DOMAIN r : r[k] = <<y>>) <=> Coming(y) \/ y = id
  <2>1. <<y>> = <<id>> <=> y = id
    <3>1. <<y>>[1] = y /\ <<id>>[1] = id
      OBVIOUS
    <3> QED
      BY <3>1
  <2>2. n + 1 \in DOMAIN r
    BY <1>2
  <2>3. ASSUME NEW k \in DOMAIN r, r[k] = <<y>> PROVE Coming(y) \/ y = id
    BY <1>1, <1>3, <2>1, <2>3 DEF Coming
  <2>4. Coming(y) => \E k \in DOMAIN r : r[k] = <<y>>
    BY <1>3, <1>4, <1>2 DEF Coming
  <2>5. y = id => \E k \in DOMAIN r : r[k] = <<y>>
    BY <1>1, <1>2, <2>2
  <2> QED
    BY <2>3, <2>4, <2>5
<1>7. \A y : Coming(y)' <=> Coming(y) \/ y = id
  BY <1>r, <1>6 DEF Coming
<1>8. ASSUME NEW x, NEW y, Ahead(x, y)' PROVE Ahead(x, y) \/ (y = id /\ y # x)
  <2>0. y # x
    BY <1>8 DEF Ahead
  <2>1. CASE \E i, j \in DOMAIN Base : i < j /\ Base[i] = y /\ Base[j] = x
    BY <2>0, <2>1 DEF Ahead
  <2>2. CASE x \in Range(Base) /\ Coming(y)'
    BY <1>7, <2>0, <2>2 DEF Ahead
  <2>3. CASE \E k, l \in DOMAIN r : k < l /\ r[k] = <<x>> /\ r[l] = <<y>>
    <3>1. PICK k, l \in DOMAIN r : k < l /\ r[k] = <<x>> /\ r[l] = <<y>>
      BY <2>3
    <3>2. CASE l = n + 1 /\ r[l] = m
      <4>1. <<y>>[1] = y /\ <<id>>[1] = id
        OBVIOUS
      <4> QED
        BY <1>1, <2>0, <3>1, <3>2, <4>1
    <3>3. CASE l \in DOMAIN inbox /\ r[l] = inbox[l]
      <4>1. k # n + 1
        BY <1>2, <1>4, <3>1, <3>3
      <4>2. k \in DOMAIN inbox /\ inbox[k] = <<x>>
        BY <1>3, <3>1, <4>1
      <4> QED
        BY <2>0, <3>1, <3>3, <4>2 DEF Ahead
    <3> QED
      BY <1>3, <3>1, <3>2, <3>3
  <2> QED
    BY <1>r, <1>5, <1>8, <2>1, <2>2, <2>3 DEF Ahead
<1>9. \A k \in DOMAIN r : r[k] \in Lists => k \in DOMAIN inbox /\ r[k] = inbox[k]
  BY <1>1, <1>3
<1> QED
  BY <1>r, <1>5, <1>7, <1>8, <1>9

\* EmitEvent: the event was late for those in front of which it is put.
LEMMA ShowEmits ==
    ASSUME Types, FeedInv, ShowInv, NEW g \in Goroutines, EmitEvent(g)
    PROVE  ShowInv'
<1>1. rec[g].at = 3 /\ Advance(g) /\ UNCHANGED <<log, up, conn, ring, shown, stored>>
  BY StepFacts DEF EmitEvent, Types, netVars, dbVars
<1>0. rec[g].at > 0
  BY <1>1
<1>2. PICK id \in Ids : id = rec[g].id
  BY <1>0, <1>1, AdvanceType
<1>3. \A h \in Goroutines \ {g} : rec'[h] = rec[h]
  BY <1>0, <1>1, AdvanceType
<1>4. rec'[g].at = 0
  BY <1>0, <1>1, AdvanceType DEF Idle
<1>5. \A h \in Goroutines : rec'[h].at > 0 => h # g /\ rec'[h] = rec[h]
  BY <1>3, <1>4
<1>6. ASSUME NEW x, NEW y, Pending(x, y)' PROVE Pending(x, y)
  <2>1. PICK h \in Goroutines : rec'[h].at = 3 /\ rec'[h].id = y /\ y # x
    BY <1>6 DEF Pending
  <2>2. rec'[h].at > 0
    BY <2>1
  <2> QED
    BY <1>5, <2>1, <2>2 DEF Pending
<1>7. \A x, y : After(x, y)' <=> After(x, y)
  BY <1>1 DEF After
<1>k. Kept
  BY <1>1, SameLog
<1>8. CASE dash = "live" /\ Len(inbox) >= InboxCap
  <2>1. dash' = "off" /\ inbox' = <<>>
    BY <1>8 DEF EmitEvent
  <2>2. \A h \in Goroutines : rec'[h].at > 0 => rec'[h] = rec[h]
    BY <1>5
  <2> QED
    BY <1>1, <2>1, <2>2, ShowOff
<1>9. CASE ~(dash = "live" /\ Len(inbox) >= InboxCap)
  <2>1. /\ dash' = dash
        /\ inbox' = IF dash = "live" THEN Append(inbox, <<id>>) ELSE inbox
        /\ missed' = IF dash = "snapped" THEN missed \cup {id} ELSE missed
    BY <1>2, <1>9 DEF EmitEvent
  <2>2. /\ Base' = Base /\ \A y : Coming(y)' <=> Coming(y) \/ (dash = "live" /\ y = id)
        /\ \A x, y : Ahead(x, y)' => Ahead(x, y) \/ (y = id /\ y # x)
        /\ \A k \in DOMAIN inbox' : inbox'[k] \in Lists => k \in DOMAIN inbox /\ inbox'[k] = inbox[k]
    <3>1. CASE dash = "live"
      BY <1>1, <2>1, <3>1, EmitAdds
    <3>2. CASE dash # "live"
      <4>1. inbox' = inbox
        BY <2>1, <3>2
      <4>2. Base' = Base /\ \A y : Coming(y)' <=> Coming(y)
        BY <1>1, <4>1 DEF Base, Coming
      <4>3. \A x, y : Ahead(x, y)' <=> Ahead(x, y)
        BY <4>1, <4>2 DEF Ahead
      <4> QED
        BY <3>2, <4>1, <4>2, <4>3
    <3> QED
      BY <3>1, <3>2
  <2>3. LateInv'
    <3>1. ASSUME NEW x, NEW y, Late(x, y)' PROVE Late(x, y)
      <4>1. ~After(x, y)
        BY <1>7, <3>1 DEF Late
      <4>2. y = id /\ y # x => Pending(x, y)
        BY <1>1, <1>2 DEF Pending
      <4> QED
        BY <1>6, <2>1, <2>2, <3>1, <4>1, <4>2 DEF Late
    <3>2. ASSUME NEW x \in Range(ring) PROVE LateAt(x)'
      BY <1>k, <3>1, LateLess DEF ShowInv, LateInv
    <3> QED
      BY <1>1, <3>2 DEF LateInv
  <2>4. FreshInv'
    <3>1. Seen' \subseteq Seen \cup {id}
      <4>1. PICK r : r = inbox'
        OBVIOUS
      <4>2. ASSUME NEW k \in DOMAIN r PROVE MsgIds(r[k]) \subseteq Told \cup {id}
        <5>1. CASE k \in DOMAIN inbox /\ r[k] = inbox[k]
          BY <5>1 DEF Told
        <5>2. CASE r[k] = <<id>>
          <6>1. MsgIds(<<id>>) = {id}
            BY MsgFacts DEF News
          <6> QED
            BY <5>2, <6>1
        <5>3. CASE dash # "live"
          BY <2>1, <4>1, <5>1, <5>3
        <5>4. CASE dash = "live"
          <6>1. inbox \in Seq(Lists \cup News) /\ <<id>> \in Lists \cup News /\ r = Append(inbox, <<id>>)
            BY <2>1, <4>1, <5>4 DEF Types, DashTypes, News
          <6>2. (k \in DOMAIN inbox /\ r[k] = inbox[k]) \/ r[k] = <<id>>
            BY <6>1, AppendFacts
          <6> QED
            BY <5>1, <5>2, <6>2
        <5> QED
          BY <5>3, <5>4
      <4>3. Told' \subseteq Told \cup {id}
        <5>1. Told' = Range(shown) \cup UNION {MsgIds(r[k]) : k \in DOMAIN r}
          BY <1>1, <4>1 DEF Told, MsgIds
        <5>2. Range(shown) \subseteq Told
          BY DEF Told
        <5> QED
          BY <4>2, <5>1, <5>2
      <4> QED
        BY <1>1, <4>3 DEF Seen
    <3>2. ASSUME NEW h \in Goroutines, rec'[h].at \in {1, 2} PROVE rec'[h].id \notin Seen \cup {id}
      <4>1. rec'[h].at > 0
        BY <3>2
      <4>2. h # g /\ rec'[h] = rec[h] /\ rec[h].at > 0
        BY <1>5, <4>1
      <4>3. rec[h].id # id
        BY <1>0, <1>2, <4>2, OneEach
      <4> QED
        BY <3>2, <4>2, <4>3 DEF ShowInv, FreshInv
    <3> QED
      BY <3>1, <3>2 DEF FreshInv
  <2>5. ViaInv'
    BY <1>1 DEF ShowInv, ViaInv
  <2>6. RoomInv'
    BY <2>2 DEF ShowInv, RoomInv
  <2>7. ListInv'
    <3>1. ASSUME NEW x \in Range(ring), dash # "off" PROVE Listed(x)'
      <4>1. Listed(x)
        BY <3>1 DEF ShowInv, ListInv
      <4>2. CASE x = id
        <5>1. dash \in {"live", "snapped"}
          BY <3>1 DEF Types, DashTypes
        <5>2. CASE dash = "live"
          BY <2>2, <4>2, <5>2 DEF Listed
        <5>3. CASE dash = "snapped"
          <6>1. x \in missed'
            BY <2>1, <4>2, <5>3
          <6> QED
            BY <6>1 DEF Listed
        <5> QED
          BY <5>1, <5>2, <5>3
      <4>3. CASE x # id
        <5>1. x \in Recording => x \in Recording'
          <6>1. ASSUME x \in Recording PROVE x \in Recording'
            <7>1. PICK h \in Goroutines : rec[h].id = x
              BY <6>1 DEF Recording
            <7>2. h # g
              BY <1>2, <4>3, <7>1
            <7> QED
              BY <1>3, <7>1, <7>2 DEF Recording
          <6> QED
            BY <6>1
        <5>2. missed \subseteq missed'
          BY <2>1
        <5> QED
          BY <2>2, <4>1, <5>1, <5>2 DEF Listed
      <4> QED
        BY <4>2, <4>3
    <3> QED
      BY <1>1, <2>1, <3>1 DEF ListInv
  <2> QED
    BY <2>3, <2>4, <2>5, <2>6, <2>7 DEF ShowInv
<1> QED
  BY <1>8, <1>9

\* A restart of the server: the ring is read from the database, nobody is
\* connected.
LEMMA ShowRestarts ==
    ASSUME Types, FeedInv, ShowInv, ServerRestarts
    PROVE  ShowInv'
<1>1. /\ rec' = [g \in Goroutines |-> Idle] /\ dash' = "off" /\ inbox' = <<>>
      /\ UNCHANGED <<log, stored>>
  BY DEF ServerRestarts
<1>2. PICK k \in Nat : ring' \in Seed(k)
  BY DEF ServerRestarts
<1>3. Range(ring') \subseteq stored
  BY <1>2, SeedFacts
<1>4. \A g \in Goroutines : rec'[g].at = 0
  BY <1>1 DEF Idle
<1>5. LateInv'
  <2>1. \A x, y : ~Pending(x, y)'
    BY <1>4 DEF Pending
  <2>2. \A x, y : ~Late(x, y)'
    BY <1>1, <2>1 DEF Late
  <2> QED
    BY <2>2 DEF LateInv, LateAt
<1>6. FreshInv'
  BY <1>4 DEF FreshInv
<1>7. ViaInv'
  BY <1>1, <1>3 DEF ShowInv, ViaInv
<1>8. RoomInv' /\ ListInv'
  BY <1>1 DEF RoomInv, ListInv
<1> QED
  BY <1>5, <1>6, <1>7, <1>8 DEF ShowInv

\* A snapshot has the order of the ring: nothing is late for it but what is on
\* its way to the broadcast.
LEMMA ShowSnapshot ==
    ASSUME Types, FeedInv, ShowInv, TakeSnapshot
    PROVE  ShowInv'
<1>1. UNCHANGED <<log, rec, ring, shown, stored>>
  BY DEF TakeSnapshot, dbVars
<1>t. ring \in Seq(Ids) /\ Len(ring) <= RingCap
  BY DEF Types, RingTypes
<1>2. PICK q \in Seq(Ids) : q = Reverse(ring)
  BY <1>t, ReverseFacts
<1>3. PICK n \in Nat : /\ n = Len(ring) /\ DOMAIN q = 1 .. n /\ DOMAIN ring = 1 .. n /\ Len(q) = n
                       /\ \A i \in 1 .. n : q[i] = ring[n - i + 1]
                       /\ Range(q) = Range(ring)
  BY <1>t, <1>2, ReverseFacts
<1>4. PICK m \in Lists : m = <<"snapshot", q>> /\ m[2] = q
  <2>1. <<"snapshot", q>> \in Lists
    BY DEF Lists
  <2>2. <<"snapshot", q>>[2] = q
    OBVIOUS
  <2> QED
    BY <2>1, <2>2
<1>5. PICK r : r = inbox' /\ r = <<m>> /\ DOMAIN r = {1} /\ r[1] = m /\ r # <<>>
  BY <1>2, <1>4 DEF TakeSnapshot
<1>6. Base' = q
  BY <1>4, <1>5 DEF Base
<1>7. \A y : ~Coming(y)'
  <2>1. Len(m) = 2
    BY MsgFacts
  <2>2. \A y : m # <<y>>
    <3>1. ASSUME NEW y, m = <<y>> PROVE FALSE
      <4>1. Len(<<y>>) = 1
        OBVIOUS
      <4> QED
        BY <2>1, <3>1, <4>1
    <3> QED
      BY <3>1
  <2> QED
    BY <1>5, <2>2 DEF Coming
<1>8. ASSUME NEW x, NEW y, Ahead(x, y)' PROVE After(x, y)
  <2>1. CASE \E i, j \in DOMAIN q : i < j /\ q[i] = y /\ q[j] = x
    <3>1. PICK i \in 1 .. n, j \in 1 .. n : i < j /\ q[i] = y /\ q[j] = x
      BY <1>3, <2>1
    <3>2. PICK a \in 1 .. n, b \in 1 .. n : a = n - i + 1 /\ b = n - j + 1 /\ b < a
      <4>1. n - i + 1 \in 1 .. n /\ n - j + 1 \in 1 .. n /\ n - j + 1 < n - i + 1
        <5>1. i < j
          BY <3>1
        <5> QED
          BY <5>1
      <4> QED
        BY <4>1
    <3>3. ring[b] = x /\ ring[a] = y
      BY <1>3, <3>1, <3>2
    <3> QED
      BY <1>3, <3>2, <3>3 DEF After
  <2>2. CASE \E k, l \in DOMAIN r : k < l /\ r[k] = <<x>> /\ r[l] = <<y>>
    BY <1>5, <2>2
  <2> QED
    BY <1>5, <1>6, <1>7, <1>8, <2>1, <2>2 DEF Ahead
<1>9. LateInv'
  <2>1. \A x, y : After(x, y)' <=> After(x, y)
    BY <1>1 DEF After
  <2>2. \A x, y : Pending(x, y)' <=> Pending(x, y)
    BY <1>1 DEF Pending
  <2>3. \A x, y : Late(x, y)' => Late(x, y)
    BY <1>8, <2>1, <2>2 DEF Late
  <2>4. ASSUME NEW x \in Range(ring) PROVE LateAt(x)'
    BY <1>1, <2>3, SameLog, LateLess DEF ShowInv, LateInv
  <2> QED
    BY <1>1, <2>4 DEF LateInv
<1>10. FreshInv'
  <2>1. MsgIds(m) = Range(ring)
    BY <1>3, <1>4, MsgFacts
  <2>2. Told' = Range(shown) \cup MsgIds(m)
    BY <1>1, <1>5 DEF Told, MsgIds
  <2>3. Seen' \subseteq Seen
    BY <1>1, <2>1, <2>2 DEF Seen, Told
  <2> QED
    BY <1>1, <2>3 DEF ShowInv, FreshInv
<1>11. ViaInv'
  BY <1>1 DEF ShowInv, ViaInv
<1>12. RoomInv'
  BY <1>t, <1>3, <1>4, <1>5 DEF RoomInv
<1>13. ListInv'
  BY <1>1, <1>3, <1>6 DEF ListInv, Listed
<1> QED
  BY <1>9, <1>10, <1>11, <1>12, <1>13 DEF ShowInv

\* A snapshot fits on the screen: the ring is not longer than the list.
LEMMA SnapShown ==
    ASSUME Types, NEW m \in Lists, Len(m[2]) <= RingCap
    PROVE  Shown(m) = m[2]
<1>1. Len(m) = 2 /\ m[2] \in Seq(Ids)
  BY MsgFacts
<1>2. PICK n \in Nat : n = Len(m[2])
  BY <1>1
<1>3. Min({MaxShown, n}) = n
  <2>1. n <= MaxShown
    BY <1>2
  <2>2. Min({MaxShown, n}) = IF MaxShown <= n THEN MaxShown ELSE n
    BY MinPair
  <2> QED
    BY <2>1, <2>2
<1>4. Shown(m) = SubSeq(m[2], 1, n)
  BY <1>1, <1>2, <1>3 DEF Shown
<1>5. SubSeq(m[2], 1, n) = m[2]
  BY <1>1, <1>2
<1> QED
  BY <1>4, <1>5

\* An event that is not shown is put in front of what is.
LEMMA FrontShown ==
    ASSUME Types, NEW e \in Ids, NEW s, s = Shown(<<e>>)
    PROVE  /\ e \in Range(shown) => s = shown
           /\ e \notin Range(shown) =>
                 /\ 1 \in DOMAIN s /\ s[1] = e
                 /\ \A j \in DOMAIN s : j \in Nat /\ (j = 1 \/ (j > 1 /\ j - 1 \in DOMAIN shown /\ s[j] = shown[j - 1]))
                 /\ \A p \in DOMAIN shown : p < MaxShown => p + 1 \in DOMAIN s /\ s[p + 1] = shown[p]
<1>t. shown \in Seq(Ids) /\ Len(shown) <= MaxShown /\ Len(shown) \in Nat /\ DOMAIN shown = 1 .. Len(shown)
  BY DEF Types, DashTypes
<1>1. /\ Contains(shown, e) => s = shown
      /\ ~Contains(shown, e) => s = SubSeq(<<e>> \o shown, 1, Min({MaxShown, Len(shown) + 1}))
  <2>1. Len(<<e>>) # 2 /\ <<e>>[1] = e
    OBVIOUS
  <2> QED
    BY <2>1, Zenon DEF Shown
<1>2. Contains(shown, e) <=> e \in Range(shown)
  BY <1>t DEF Contains, Range
<1>3. ASSUME e \notin Range(shown)
      PROVE  /\ 1 \in DOMAIN s /\ s[1] = e
             /\ \A j \in DOMAIN s : j \in Nat /\ (j = 1 \/ (j > 1 /\ j - 1 \in DOMAIN shown /\ s[j] = shown[j - 1]))
             /\ \A p \in DOMAIN shown : p < MaxShown => p + 1 \in DOMAIN s /\ s[p + 1] = shown[p]
  <2>1. PICK n \in Nat : n = Len(shown) + 1
    BY <1>t
  <2>2. PICK q \in Seq(Ids) :
           /\ q = <<e>> \o shown /\ Len(q) = n /\ q[1] = e
           /\ \A i \in 2 .. n : q[i] = shown[i - 1]
    <3>1. /\ <<e>> \o shown \in Seq(Ids) /\ Len(<<e>> \o shown) = n /\ (<<e>> \o shown)[1] = e
          /\ \A i \in 2 .. n : (<<e>> \o shown)[i] = shown[i - 1]
      BY <1>t, <2>1
    <3> QED
      BY <3>1
  <2>3. PICK l \in 1 .. n : l = Min({MaxShown, n}) /\ (l = MaxShown \/ l = n)
    <3>1. Min({MaxShown, n}) = IF MaxShown <= n THEN MaxShown ELSE n
      BY MinPair
    <3> QED
      BY <2>1, <3>1, <1>t
  <2>4. s = SubSeq(q, 1, l)
    BY <1>1, <1>2, <1>3, <2>1, <2>2, <2>3, Zenon
  <2>5. DOMAIN s = 1 .. l /\ \A i \in 1 .. l : s[i] = q[i]
    <3>1. l \in 0 .. Len(q)
      BY <2>2
    <3> QED
      BY <2>4, <3>1, PrefixFacts
  <2>6. 1 \in DOMAIN s /\ s[1] = e
    <3>1. 1 \in 1 .. l
      BY <2>3
    <3> QED
      BY <2>2, <2>5, <3>1
  <2>7. ASSUME NEW j \in DOMAIN s
        PROVE j \in Nat /\ (j = 1 \/ (j > 1 /\ j - 1 \in DOMAIN shown /\ s[j] = shown[j - 1]))
    <3>1. j \in 1 .. l
      BY <2>5
    <3>2. j \in Nat /\ (j = 1 \/ (j > 1 /\ j \in 2 .. n /\ j - 1 \in 1 .. Len(shown)))
      BY <1>t, <2>1, <3>1
    <3>3. s[j] = q[j]
      BY <2>5, <3>1
    <3>4. CASE j = 1
      BY <3>2, <3>4
    <3>5. CASE j # 1
      <4>1. j > 1 /\ j - 1 \in DOMAIN shown /\ j \in 2 .. n
        BY <1>t, <3>2, <3>5
      <4>2. q[j] = shown[j - 1]
        BY <2>2, <4>1
      <4> QED
        BY <3>2, <3>3, <4>1, <4>2
    <3> QED
      BY <3>4, <3>5
  <2>8. ASSUME NEW p \in DOMAIN shown, p < MaxShown PROVE p + 1 \in DOMAIN s /\ s[p + 1] = shown[p]
    <3>1. p + 1 \in 1 .. l /\ p + 1 \in 2 .. n /\ (p + 1) - 1 = p
      BY SMTT(30), <1>t, <2>1, <2>3, <2>8
    <3>2. q[p + 1] = shown[(p + 1) - 1]
      BY <2>2, <3>1
    <3> QED
      BY <2>5, <3>1, <3>2
  <2> QED
    BY <2>6, <2>7, <2>8
<1> QED
  BY <1>1, <1>2, <1>3

\* What reading the first message leaves on its way, and adds to the list.
LEMMA ReadFacts ==
    ASSUME Types, FeedInv, Receive
    PROVE  /\ inbox[1] \in Lists \cup News /\ shown' = Shown(inbox[1]) /\ Base' = shown'
           /\ Range(shown') \subseteq Range(shown) \cup MsgIds(inbox[1])
           /\ \A y : Coming(y)' => Coming(y)
           /\ \A y : Coming(y) => Coming(y)' \/ inbox[1] = <<y>>
           /\ \A y : Coming(y)' => \E l \in DOMAIN inbox : 1 < l /\ inbox[l] = <<y>>
           /\ \A x, y : (\E k, l \in DOMAIN inbox' : k < l /\ inbox'[k] = <<x>> /\ inbox'[l] = <<y>>)
                           => \E k, l \in DOMAIN inbox : k < l /\ inbox[k] = <<x>> /\ inbox[l] = <<y>>
           /\ \A k \in DOMAIN inbox' : inbox'[k] \notin Lists
           /\ Told' \subseteq Told /\ 1 \in DOMAIN inbox
<1>t. inbox \in Seq(Lists \cup News) /\ inbox # <<>>
  BY DEF Receive, Types, DashTypes
<1>1. PICK n \in Nat \ {0} : n = Len(inbox) /\ DOMAIN inbox = 1 .. n
  BY <1>t, TailFacts
<1>2. PICK m \in Lists \cup News : m = Head(inbox) /\ m = inbox[1] /\ 1 \in DOMAIN inbox
  BY <1>t, <1>1, TailFacts
<1>3. PICK r : r = inbox'
  OBVIOUS
<1>4. PICK s : s = shown' /\ s = Shown(m)
  BY <1>2 DEF Receive
<1>5. r = Tail(inbox)
  BY <1>3 DEF Receive
<1>6. DOMAIN r = 1 .. n - 1 /\ \A k \in 1 .. n - 1 : r[k] = inbox[k + 1]
  BY <1>t, <1>1, <1>5, TailFacts
<1>7. ASSUME NEW k \in DOMAIN r
      PROVE  k + 1 \in DOMAIN inbox /\ 1 < k + 1 /\ r[k] = inbox[k + 1] /\ r[k] \notin Lists
  <2>1. k + 1 \in 1 .. n /\ 1 < k + 1 /\ r[k] = inbox[k + 1]
    BY <1>6
  <2>2. inbox[k + 1] \notin Lists
    <3>1. k + 1 \in DOMAIN inbox /\ k + 1 # 1
      BY <1>1, <2>1
    <3> QED
      BY <3>1 DEF FeedInv, OrderInv
  <2> QED
    BY <1>1, <2>1, <2>2
<1>8. ASSUME NEW k \in DOMAIN inbox, k # 1 PROVE \E j \in DOMAIN r : r[j] = inbox[k]
  <2>1. k - 1 \in 1 .. n - 1 /\ (k - 1) + 1 = k
    BY <1>1, <1>8
  <2> QED
    BY <1>6, <2>1
<1>9. Base' = s
  <2>1. ASSUME r # <<>>, r[1] \in Lists PROVE FALSE
    <3>1. 1 \in DOMAIN r
      BY <1>t, <1>5, <1>6, <2>1
    <3> QED
      BY <1>7, <2>1, <3>1
  <2> QED
    BY <1>3, <1>4, <2>1 DEF Base
<1>10. Range(s) \subseteq Range(shown) \cup MsgIds(m)
  <2>1. CASE m \in Lists /\ \E k \in 0 .. Len(m[2]) : s = SubSeq(m[2], 1, k)
    <3>1. MsgIds(m) = Range(m[2]) /\ m[2] \in Seq(Ids)
      BY <2>1, MsgFacts
    <3>2. PICK k \in 0 .. Len(m[2]) : s = SubSeq(m[2], 1, k)
      BY <2>1
    <3>3. DOMAIN s = 1 .. k /\ \A i \in 1 .. k : i \in DOMAIN m[2] /\ s[i] = m[2][i]
      BY <3>1, <3>2, PrefixFacts
    <3> QED
      BY <3>1, <3>3 DEF Range
  <2>2. CASE m \in News
    <3>1. m[1] \in Ids /\ MsgIds(m) = {m[1]} /\ m = <<m[1]>>
      BY <2>2, MsgFacts DEF News
    <3>2. PICK e \in Ids : e = m[1]
      BY <3>1
    <3>3. s = Shown(<<e>>)
      BY <1>4, <3>1, <3>2
    <3>4. CASE e \in Range(shown)
      BY <3>3, <3>4, FrontShown
    <3>5. CASE e \notin Range(shown)
      <4>1. s[1] = e /\ \A j \in DOMAIN s : j = 1 \/ (j - 1 \in DOMAIN shown /\ s[j] = shown[j - 1])
        BY <3>3, <3>5, FrontShown
      <4> QED
        BY <3>1, <3>2, <4>1 DEF Range
    <3> QED
      BY <3>4, <3>5
  <2> QED
    BY <1>4, <2>1, <2>2, ShownFacts
<1>11. ASSUME NEW y PROVE (\E k \in DOMAIN r : r[k] = <<y>>) => \E l \in DOMAIN inbox : 1 < l /\ inbox[l] = <<y>>
  BY <1>7
<1>12. ASSUME NEW y, Coming(y), inbox[1] # <<y>> PROVE \E k \in DOMAIN r : r[k] = <<y>>
  <2>1. PICK k \in DOMAIN inbox : inbox[k] = <<y>>
    BY <1>12 DEF Coming
  <2>2. k # 1
    BY <1>12, <2>1
  <2> QED
    BY <1>8, <2>1, <2>2
<1>13. ASSUME NEW x, NEW y, \E k, l \in DOMAIN r : k < l /\ r[k] = <<x>> /\ r[l] = <<y>>
       PROVE  \E k, l \in DOMAIN inbox : k < l /\ inbox[k] = <<x>> /\ inbox[l] = <<y>>
  <2>1. PICK k, l \in DOMAIN r : k < l /\ r[k] = <<x>> /\ r[l] = <<y>>
    BY <1>13
  <2>2. k + 1 < l + 1
    BY <1>6, <2>1
  <2> QED
    BY <1>7, <2>1, <2>2
<1>14. Told' \subseteq Told
  <2>1. Told' = Range(s) \cup UNION {MsgIds(r[k]) : k \in DOMAIN r}
    BY <1>3, <1>4 DEF Told, MsgIds
  <2>2. \A k \in DOMAIN r : MsgIds(r[k]) \subseteq Told
    BY <1>7 DEF Told
  <2>3. Range(s) \subseteq Told
    BY <1>2, <1>10 DEF Told
  <2> QED
    BY <2>1, <2>2, <2>3
<1>15. \A y : Coming(y)' <=> \E k \in DOMAIN r : r[k] = <<y>>
  BY <1>3 DEF Coming
<1>16. \A y : Coming(y)' => Coming(y)
  BY <1>11, <1>15 DEF Coming
<1>17. \A y : Coming(y) => Coming(y)' \/ inbox[1] = <<y>>
  BY <1>12, <1>15
<1>18. \A y : Coming(y)' => \E l \in DOMAIN inbox : 1 < l /\ inbox[l] = <<y>>
  BY <1>11, <1>15
<1> QED
  BY <1>2, <1>3, <1>4, <1>7, <1>9, <1>10, <1>13, <1>14, <1>16, <1>17, <1>18

\* The list after a message: what it had is still there when it is in the
\* ring, and nothing gets in front of it that was not on its way there.
LEMMA ReadShows ==
    ASSUME Types, FeedInv, ShowInv, Room, Receive, NEW x \in Range(ring)
    PROVE  /\ \A y \in Ids : Ahead(x, y)' => Ahead(x, y)
           /\ Listed(x) => x \in missed \cup Recording \/ x \in Range(Base)' \/ Coming(x)'
<1>t. inbox # <<>> /\ dash # "off"
  BY DEF Receive
<1>1. PICK m \in Lists \cup News : m = inbox[1] /\ 1 \in DOMAIN inbox
  BY ReadFacts
<1>2. PICK s : s = shown' /\ s = Shown(m) /\ Base' = s
  BY <1>1, ReadFacts
<1>3. ASSUME NEW y, Ahead(x, y)'
      PROVE  /\ y # x
             /\ \/ \E i, j \in DOMAIN s : i < j /\ s[i] = y /\ s[j] = x
                \/ x \in Range(s) /\ \E l \in DOMAIN inbox : 1 < l /\ inbox[l] = <<y>>
                \/ \E k, l \in DOMAIN inbox : k < l /\ inbox[k] = <<x>> /\ inbox[l] = <<y>>
  <2>1. y # x
    BY <1>3 DEF Ahead
  <2>2. CASE \E i, j \in DOMAIN s : i < j /\ s[i] = y /\ s[j] = x
    BY <2>1, <2>2
  <2>3. CASE x \in Range(s) /\ Coming(y)'
    BY <2>1, <2>3, ReadFacts
  <2>4. CASE \E k, l \in DOMAIN inbox' : k < l /\ inbox'[k] = <<x>> /\ inbox'[l] = <<y>>
    BY <2>1, <2>4, ReadFacts
  <2> QED
    BY <1>2, <1>3, <2>2, <2>3, <2>4 DEF Ahead
<1>4. CASE m \in Lists
  <2>1. Base = m[2]
    BY <1>t, <1>1, <1>4 DEF Base
  <2>2. Len(m[2]) <= RingCap
    BY <1>1, <1>4 DEF ShowInv, RoomInv
  <2>3. s = Base
    BY <1>2, <1>4, <2>1, <2>2, SnapShown
  <2>4. ASSUME NEW y, Ahead(x, y)' PROVE Ahead(x, y)
    BY <1>3, <2>3, <2>4 DEF Ahead, Coming
  <2>5. Coming(x) => Coming(x)'
    <3>1. m # <<x>>
      <4>1. Len(m) = 2 /\ Len(<<x>>) = 1
        BY <1>4, MsgFacts
      <4> QED
        BY <4>1
    <3> QED
      BY <1>1, <3>1, ReadFacts
  <2> QED
    BY <1>2, <2>3, <2>4, <2>5 DEF Listed
<1>5. CASE m \in News
  <2>1. PICK e \in Ids : m = <<e>> /\ inbox[1] = <<e>>
    BY <1>1, <1>5 DEF News
  <2>2. Base = shown
    <3>1. m \notin Lists
      BY <1>5, MsgFacts
    <3> QED
      BY <1>1, <3>1 DEF Base
  <2>3. Coming(e)
    BY <1>1, <2>1 DEF Coming
  <2>e. \A z : <<e>> = <<z>> => e = z
    <3>1. ASSUME NEW z, <<e>> = <<z>> PROVE e = z
      <4>1. <<e>>[1] = e /\ <<z>>[1] = z
        OBVIOUS
      <4> QED
        BY <3>1, <4>1
    <3> QED
      BY <3>1
  <2>4. CASE e \in Range(shown)
    <3>1. s = Base
      BY <1>2, <2>1, <2>2, <2>4, FrontShown
    <3>2. ASSUME NEW y, Ahead(x, y)' PROVE Ahead(x, y)
      BY <1>3, <3>1, <3>2 DEF Ahead, Coming
    <3>3. Coming(x) => Coming(x)' \/ x \in Range(s)
      BY <2>1, <2>2, <2>4, <2>e, <3>1, ReadFacts
    <3> QED
      BY <1>2, <3>1, <3>2, <3>3 DEF Listed
  <2>5. CASE e \notin Range(shown)
    <3>1. /\ 1 \in DOMAIN s /\ s[1] = e
          /\ \A j \in DOMAIN s : j \in Nat /\ (j = 1 \/ (j > 1 /\ j - 1 \in DOMAIN shown /\ s[j] = shown[j - 1]))
          /\ \A p \in DOMAIN shown : p < MaxShown => p + 1 \in DOMAIN s /\ s[p + 1] = shown[p]
      BY <1>2, <2>1, <2>5, FrontShown
    <3>2. ASSUME NEW y \in Ids, Ahead(x, y)' PROVE Ahead(x, y)
      <4>1. y # x
        BY <1>3, <3>2
      <4>2. CASE \E i, j \in DOMAIN s : i < j /\ s[i] = y /\ s[j] = x
        <5>1. PICK i, j \in DOMAIN s : i < j /\ s[i] = y /\ s[j] = x
          BY <4>2
        <5>2. i \in Nat /\ j \in Nat /\ (i = 1 \/ i > 1)
          BY <3>1
        <5>3. j # 1
          <6>1. ASSUME j = 1 PROVE FALSE
            <7>1. i < 1 /\ (i = 1 \/ i > 1)
              BY <5>1, <5>2, <6>1
            <7> QED
              BY <5>2, <7>1
          <6> QED
            BY <6>1
        <5>4. j - 1 \in DOMAIN shown /\ x = shown[j - 1]
          BY <3>1, <5>1, <5>3
        <5>5. CASE i = 1
          <6>1. y = e /\ x \in Range(Base)
            BY <2>2, <3>1, <5>1, <5>4, <5>5 DEF Range
          <6> QED
            BY <2>3, <4>1, <6>1 DEF Ahead
        <5>6. CASE i # 1
          <6>1. i - 1 \in DOMAIN shown /\ y = shown[i - 1]
            BY <3>1, <5>1, <5>6
          <6>2. i - 1 < j - 1
            BY <5>1, <5>2
          <6> QED
            BY <2>2, <4>1, <5>4, <6>1, <6>2 DEF Ahead
        <5> QED
          BY <5>5, <5>6
      <4>3. CASE x \in Range(s) /\ \E l \in DOMAIN inbox : 1 < l /\ inbox[l] = <<y>>
        <5>1. PICK l \in DOMAIN inbox : 1 < l /\ inbox[l] = <<y>>
          BY <4>3
        <5>2. PICK j \in DOMAIN s : s[j] = x
          BY <4>3 DEF Range
        <5>3. CASE j = 1
          BY <1>1, <2>1, <3>1, <4>1, <5>1, <5>2, <5>3 DEF Ahead
        <5>4. CASE j # 1
          <6>1. x \in Range(Base)
            BY <2>2, <3>1, <5>2, <5>4 DEF Range
          <6>2. Coming(y)
            BY <5>1 DEF Coming
          <6> QED
            BY <4>1, <6>1, <6>2 DEF Ahead
        <5> QED
          BY <5>3, <5>4
      <4>4. CASE \E k, l \in DOMAIN inbox : k < l /\ inbox[k] = <<x>> /\ inbox[l] = <<y>>
        BY <4>1, <4>4 DEF Ahead
      <4> QED
        BY <1>3, <3>2, <4>2, <4>3, <4>4
    <3>3. ASSUME x \in Range(shown) PROVE x \in Range(s)
      <4>1. PICK p \in DOMAIN shown : shown[p] = x
        BY <3>3 DEF Range
      <4>2. LateAt(x) /\ log[x].via \in Goroutines
        BY DEF ShowInv, LateInv, ViaInv
      <4>3. p < MaxShown
        BY <1>t, <2>2, <2>3, <2>5, <4>1, <4>2, FrontFits
      <4>4. p + 1 \in DOMAIN s /\ s[p + 1] = x
        BY <3>1, <4>1, <4>3
      <4> QED
        BY <4>4 DEF Range
    <3>4. Coming(x) => Coming(x)' \/ x \in Range(s)
      <4>1. e \in Range(s)
        BY <3>1 DEF Range
      <4> QED
        BY <2>1, <2>e, <4>1, ReadFacts
    <3> QED
      BY <1>2, <2>2, <3>2, <3>3, <3>4 DEF Listed
  <2> QED
    BY <2>4, <2>5
<1> QED
  BY <1>4, <1>5

\* The dashboard reads a message.
LEMMA ShowReceives ==
    ASSUME Types, FeedInv, ShowInv, Room, Receive
    PROVE  ShowInv'
<1>1. UNCHANGED <<log, rec, ring, stored, missed, dash>>
  BY DEF Receive, dbVars
<1>2. Told' \subseteq Told /\ \A k \in DOMAIN inbox' : inbox'[k] \notin Lists
  BY ReadFacts
<1>k. Kept
  BY <1>1, SameLog
<1>3. LateInv'
  <2>1. ASSUME NEW x \in Range(ring) PROVE LateAt(x)'
    <3>1. \A y : After(x, y)' <=> After(x, y)
      BY <1>1 DEF After
    <3>2. \A y : Pending(x, y)' <=> Pending(x, y)
      BY <1>1 DEF Pending
    <3>3. \A y \in Ids : Ahead(x, y)' => Ahead(x, y)
      BY ReadShows
    <3>4. \A y \in Ids : Late(x, y)' => Late(x, y)
      BY <1>1, <3>1, <3>2, <3>3 DEF Late
    <3> QED
      BY <1>1, <3>4 DEF ShowInv, LateInv, LateAt
  <2> QED
    BY <1>1, <2>1 DEF LateInv
<1>4. FreshInv'
  <2>1. Seen' \subseteq Seen
    BY <1>1, <1>2 DEF Seen
  <2> QED
    BY <1>1, <2>1 DEF ShowInv, FreshInv
<1>5. ViaInv' /\ RoomInv'
  BY <1>1, <1>2 DEF ShowInv, ViaInv, RoomInv
<1>6. ListInv'
  <2>1. Recording' = Recording
    BY <1>1 DEF Recording
  <2>2. ASSUME NEW x \in Range(ring), dash # "off" PROVE Listed(x)'
    <3>1. Listed(x)
      BY <2>2 DEF ShowInv, ListInv
    <3> QED
      BY <1>1, <2>1, <3>1, ReadShows DEF Listed
  <2> QED
    BY <1>1, <2>2 DEF ListInv
<1> QED
  BY <1>3, <1>4, <1>5, <1>6 DEF ShowInv

\* In the beginning the ring is empty and nobody is connected.
LEMMA ShowInit == Init => ShowInv
<1> SUFFICES ASSUME Init PROVE ShowInv
  OBVIOUS
<1>1. ring = <<>> /\ stored = {} /\ dash = "off" /\ inbox = <<>> /\ rec = [g \in Goroutines |-> Idle]
  BY DEF Init
<1>2. Range(ring) = {}
  BY <1>1 DEF Range
<1>3. \A g \in Goroutines : rec[g].at = 0
  BY <1>1 DEF Idle
<1>4. LateInv /\ ViaInv
  BY <1>1, <1>2 DEF LateInv, ViaInv
<1>5. FreshInv
  BY <1>3 DEF FreshInv
<1>6. RoomInv /\ ListInv
  BY <1>1 DEF RoomInv, ListInv
<1> QED
  BY <1>4, <1>5, <1>6 DEF ShowInv

\* Every step, one action at a time.
LEMMA ShowStep ==
    ASSUME Room, Types, FeedInv, ShowInv, [Next]_vars
    PROVE  ShowInv'
<1>1. CASE Agent
  BY <1>1, ShowRest DEF Agent, Members
<1>2. CASE Server
  BY <1>2, ShowSaves, ShowAdds, ShowEmits, ShowCreates, ShowReads, ShowRest, ShowRestarts
     DEF Server, Record
<1>3. CASE Dashboard
  BY <1>3, ShowSnapshot, ShowReceives, ShowDrops, ShowRest DEF Dashboard
<1> QED
  BY <1>1, <1>2, <1>3, ShowRest DEF Next

\* For each event of the ring, the events that are late for it are of distinct
\* goroutines, and what is in the ring is in the list or on its way there:
\* recordEvent runs in the goroutine that received the event
\* (internal/server/events.go:32), one event after the other.
THEOREM ShowInductive == Room => (Spec => [](IInv /\ ShowInv))
<1> SUFFICES ASSUME Room PROVE Spec => [](IInv /\ ShowInv)
  OBVIOUS
<1>1. Init => ShowInv
  BY ShowInit
<1>2. IInv /\ ShowInv /\ [Next]_vars => ShowInv'
  BY ShowStep DEF IInv, FeedInv
<1> QED
  BY <1>1, <1>2, Inductive, PTL DEF Spec

\* A connected dashboard that has read its messages shows the whole ring
\* (live.ts:232), except what is still being recorded and what was broadcast
\* between its snapshot and its registration (ws.go:47), as long as the list
\* has room for the ring and one event of every other goroutine: the ring holds
\* 200 events and the list 500.
THEOREM CompleteCorrect == Room => (Spec => []ShownIsComplete)
<1>1. ShowInv => ShownIsComplete
  <2> SUFFICES ASSUME ShowInv, dash = "live", inbox = <<>>,
                      NEW x \in Range(ring), x \notin missed \cup Recording
               PROVE  x \in Range(shown)
    BY DEF ShownIsComplete
  <2>1. Base = shown /\ ~Coming(x)
    BY DEF Base, Coming
  <2>2. Listed(x)
    BY DEF ShowInv, ListInv
  <2> QED
    BY <2>1, <2>2 DEF Listed
<1> QED
  BY <1>1, ShowInductive, PTL
=============================================================================
