------------------------------ MODULE HubProof ------------------------------
(***************************************************************************)
(* Proofs about the hub, for every set of connections, machines, orgs and  *)
(* goroutines and every buffer size.                                       *)
(***************************************************************************)
EXTENDS Hub, TLAPS

USE ConnsAssumption, ProcsAssumption, BoundsAssumption

-----------------------------------------------------------------------------
(***************************************************************************)
(* Types.                                                                  *)
(***************************************************************************)

\* The frame a call in progress puts into a channel is a frame.
LEMMA FrameType ==
    ASSUME TypeOK, NEW p \in Procs, call[p] # Idle
    PROVE  FrameOf(p) \in Frames
<1>1. call[p] \in Calls
  BY DEF TypeOK
<1>2. CASE call[p].op = "fanout"
  <2>1. call[p].topic \in Topics
    BY <1>1, <1>2 DEF Calls, Idle
  <2>2. sent[p][call[p].topic] \in Nat
    BY <2>1 DEF TypeOK
  <2> QED
    BY <1>2, <2>1, <2>2 DEF FrameOf, Message, Frames
<1>3. CASE call[p].op # "fanout"
  BY <1>3 DEF FrameOf, Message, Frames
<1> QED
  BY <1>2, <1>3

\* What is left of a call is a call.
LEMMA RestType ==
    ASSUME TypeOK, NEW p \in Procs, call[p] # Idle, NEW S \in SUBSET Conns
    PROVE  Rest(p, S) \in Calls
<1>1. \/ call[p] \in [op : {"fanout"}, topic : Topics, pend : SUBSET Conns]
      \/ call[p] \in [op : {"direct"}, topic : {NoTopic}, pend : SUBSET Conns]
  BY DEF TypeOK, Calls
<1> QED
  BY <1>1 DEF Rest, Calls

LEMMA TypeInit == Init => TypeOK
<1> SUFFICES ASSUME Init PROVE TypeOK
  OBVIOUS
<1>1. chan \in [Conns -> Seq(Frames)] /\ \A c \in Conns : Len(chan[c]) <= SendBuffer
  BY DEF Init
<1>2. call \in [Procs -> Calls]
  BY DEF Init, Calls
<1>3. sent \in [Procs -> [Topics -> Nat]] /\ seen \in [Conns -> [Procs -> Nat]]
  BY DEF Init
<1> QED
  BY <1>1, <1>2, <1>3 DEF Init, TypeOK

LEMMA TypeStep == TypeOK /\ [Next]_vars => TypeOK'
<1> SUFFICES ASSUME TypeOK, [Next]_vars PROVE TypeOK'
  OBVIOUS
<1> USE DEF regVars, connVars, histVars, procVars
<1>1. ASSUME NEW c \in Conns, NewClient(c) PROVE TypeOK'
  <2>1. Snapshot \in Frames
    BY DEF Snapshot, Frames
  <2>2. chan' \in [Conns -> Seq(Frames)] /\ \A d \in Conns : Len(chan'[d]) <= SendBuffer
    BY <1>1, <2>1 DEF NewClient, TypeOK
  <2> QED
    BY <1>1, <2>2 DEF NewClient, TypeOK
<1>2. ASSUME NEW c \in Conns, HandToHub(c) PROVE TypeOK'
  BY <1>2 DEF HandToHub, TypeOK
<1>3. ASSUME NEW c \in Conns, StartPumps(c) PROVE TypeOK'
  BY <1>3 DEF StartPumps, TypeOK
<1>4. ASSUME NEW c \in Conns, PeerDrops(c) PROVE TypeOK'
  BY <1>4 DEF PeerDrops, TypeOK
<1>5. ASSUME NEW c \in Conns, ReadFails(c) PROVE TypeOK'
  BY <1>5 DEF ReadFails, TypeOK
<1>6. ASSUME NEW c \in Conns, HandBack(c) PROVE TypeOK'
  BY <1>6 DEF HandBack, TypeOK
<1>7. ASSUME NEW c \in Conns, ReadPumpCloses(c) PROVE TypeOK'
  BY <1>7 DEF ReadPumpCloses, TypeOK
<1>8. ASSUME NEW c \in Conns, WriteFrame(c) PROVE TypeOK'
  <2>1. /\ chan' \in [Conns -> Seq(Frames)]
        /\ \A d \in Conns : Len(chan'[d]) <= SendBuffer
    BY <1>8 DEF WriteFrame, TypeOK
  <2>2. Head(chan[c]) \in Frames
    BY <1>8 DEF WriteFrame, TypeOK
  <2>3. seen' \in [Conns -> [Procs -> Nat]]
    BY <1>8, <2>2 DEF WriteFrame, TypeOK, Frames
  <2>4. greeted' \in [Conns -> BOOLEAN]
    BY <1>8 DEF WriteFrame, TypeOK
  <2> QED
    BY <1>8, <2>1, <2>3, <2>4 DEF WriteFrame, TypeOK
<1>9. ASSUME NEW c \in Conns, WriteFails(c) PROVE TypeOK'
  BY <1>9 DEF WriteFails, TypeOK
<1>10. ASSUME NEW c \in Conns, WriteClose(c) PROVE TypeOK'
  BY <1>10 DEF WriteClose, TypeOK
<1>11. CASE HubRegister
  <2>1. hub.conn \in Conns
    BY <1>11 DEF HubRegister, TypeOK, Select
  <2>2. TopicOf(hub.conn) \in Topics
    BY <2>1 DEF TopicOf, Topics
  <2>3. [p \in Procs |-> sent[p][TopicOf(hub.conn)]] \in [Procs -> Nat]
    BY <2>2 DEF TypeOK
  <2> QED
    BY <1>11, <2>1, <2>3 DEF HubRegister, TypeOK
<1>12. CASE HubUnregister
  <2>1. hub \in [at : {"register", "unregister", "callback"}, conn : Conns]
    BY <1>12 DEF HubUnregister, Unregister, TypeOK, Select
  <2>2. hub' \in [at : {"register", "unregister", "callback"}, conn : Conns]
    BY <1>12, <2>1 DEF HubUnregister, Unregister
  <2>3. chanClosed' \in [Conns -> BOOLEAN]
    BY <1>12 DEF HubUnregister, Unregister, TypeOK
  <2> QED
    BY <1>12, <2>2, <2>3 DEF HubUnregister, Unregister, TypeOK
<1>13. CASE HubCallbackReturns
  BY <1>13 DEF HubCallbackReturns, TypeOK
<1>14. ASSUME NEW p \in Procs, NEW o \in Orgs, NEW r \in Roles, FanOut(p, o, r)
       PROVE  TypeOK'
  <2>1. <<o, r>> \in Topics
    BY DEF Topics
  <2>2. sent' \in [Procs -> [Topics -> Nat]]
    BY <1>14, <2>1 DEF FanOut, FanOutTo, TypeOK
  <2>3. call' \in [Procs -> Calls]
    BY <1>14, <2>1 DEF FanOut, FanOutTo, TypeOK, Calls
  <2> QED
    BY <1>14, <2>2, <2>3 DEF FanOut, FanOutTo, TypeOK
<1>15. ASSUME NEW p \in Procs, NEW m \in Machines, SendToAgent(p, m) PROVE TypeOK'
  <2>1. call' \in [Procs -> Calls]
    BY <1>15 DEF SendToAgent, TypeOK, Calls
  <2> QED
    BY <1>15, <2>1 DEF SendToAgent, TypeOK
<1>16. ASSUME NEW p \in Procs, NEW c \in Conns, Deliver(p, c) PROVE TypeOK'
  <2>1. call[p] # Idle
    BY <1>16 DEF Deliver, Idle
  <2>2. CASE chanClosed[c]
    <3>1. call' \in [Procs -> Calls]
      BY <1>16, <2>2 DEF Deliver, TypeOK, Calls
    <3> QED
      BY <1>16, <2>2, <3>1 DEF Deliver, TypeOK
  <2>3. CASE ~chanClosed[c]
    <3>1. call[p].pend \ {c} \in SUBSET Conns
      <4>1. call[p] \in Calls
        BY DEF TypeOK
      <4> QED
        BY <2>1, <4>1 DEF Calls
    <3>2. call' \in [Procs -> Calls]
      <4>1. Rest(p, call[p].pend \ {c}) \in Calls
        BY <2>1, <3>1, RestType
      <4>2. call' = [call EXCEPT ![p] = Rest(p, call[p].pend \ {c})]
        BY <1>16, <2>3 DEF Deliver
      <4> QED
        BY <4>1, <4>2 DEF TypeOK
    <3>3. /\ chan' \in [Conns -> Seq(Frames)]
          /\ \A d \in Conns : Len(chan'[d]) <= SendBuffer
          /\ sock' \in [Conns -> {"none", "open", "closed"}]
      <4>1. FrameOf(p) \in Frames
        BY <2>1, FrameType
      <4>2. Enqueue(c, FrameOf(p))
        BY <1>16, <2>3 DEF Deliver
      <4>3. chan[c] \in Seq(Frames) /\ SendBuffer \in Nat
        BY DEF TypeOK
      <4>4. CASE Len(chan[c]) < SendBuffer
        <5>1. chan' = [chan EXCEPT ![c] = Append(chan[c], FrameOf(p))] /\ sock' = sock
          BY <4>2, <4>4 DEF Enqueue
        <5>2. /\ Append(chan[c], FrameOf(p)) \in Seq(Frames)
              /\ Len(Append(chan[c], FrameOf(p))) <= SendBuffer
          BY <4>1, <4>3, <4>4
        <5> QED
          BY <5>1, <5>2 DEF TypeOK
      <4>5. CASE ~(Len(chan[c]) < SendBuffer)
        BY <4>2, <4>5 DEF Enqueue, TypeOK
      <4> QED
        BY <4>4, <4>5
    <3> QED
      BY <1>16, <2>3, <3>2, <3>3 DEF Deliver, TypeOK
  <2> QED
    BY <2>2, <2>3
<1>17. CASE UNCHANGED vars
  BY <1>17 DEF vars, TypeOK
<1> QED
  BY <1>1, <1>2, <1>3, <1>4, <1>5, <1>6, <1>7, <1>8, <1>9, <1>10, <1>11, <1>12,
     <1>13, <1>14, <1>15, <1>16, <1>17 DEF Next, ConnStep, HubStep, ProcStep

\* Every variable keeps its type and every channel its capacity, for the
\* whole life of every connection (client.go:16, sendBuffer).
THEOREM TypeCorrect == Spec => []TypeOK
<1> QED
  BY TypeInit, TypeStep, PTL DEF Spec

-----------------------------------------------------------------------------
(***************************************************************************)
(* Routing and fan-out.                                                    *)
(*                                                                         *)
(* RouteIsNewest is not inductive: an unregister keeps it only because the *)
(* client whose route it is belongs to that machine (RouteOwner).          *)
(* FanOutIsSafe is not inductive: a client in the map must have an open    *)
(* channel, so no client may come back to the map after Run has closed its *)
(* channel (Lifecycle).                                                    *)
(***************************************************************************)

\* The last agent registered for a machine is an agent of that machine.
RouteOwner ==
    \A m \in Machines : newest[m] # NoConn =>
        newest[m] \in Conns /\ Role[newest[m]] = "agent" /\ MachineOf[newest[m]] = m

\* The channel of a client is open while it is in the map, and before: only
\* Run closes it, when it takes the client out.
Lifecycle ==
    /\ \A c \in clients : stage[c] \in {"handed", "done"} /\ ~chanClosed[c]
    /\ \A c \in Conns : stage[c] \in {"none", "created"} => ~chanClosed[c]
    /\ hub.at = "register" => /\ stage[hub.conn] \in {"handed", "done"}
                              /\ ~chanClosed[hub.conn]

RoutingInv == TypeOK /\ RouteOwner /\ RouteIsNewest /\ Lifecycle /\ FanOutIsSafe

\* The steps that touch neither the maps nor a channel's end nor a call.
LEMMA RoutingFrame ==
    ASSUME RoutingInv, TypeOK', UNCHANGED <<clients, agentsByID, newest, chanClosed, call>>,
           hub'.at = "register" => hub'.conn \in Conns /\ ~chanClosed[hub'.conn]
                                   /\ stage'[hub'.conn] \in {"handed", "done"},
           \A c \in Conns : stage[c] \in {"handed", "done"} => stage'[c] \in {"handed", "done"},
           \A c \in Conns : stage'[c] \in {"none", "created"} => stage[c] \in {"none", "created"}
    PROVE  RoutingInv'
<1>1. RouteOwner' /\ RouteIsNewest'
  BY DEF RoutingInv, RouteOwner, RouteIsNewest
<1>2. Lifecycle'
  BY DEF RoutingInv, Lifecycle, TypeOK
<1>3. FanOutIsSafe'
  BY DEF RoutingInv, FanOutIsSafe
<1> QED
  BY <1>1, <1>2, <1>3 DEF RoutingInv

LEMMA RoutingInit == Init => RoutingInv
<1> SUFFICES ASSUME Init PROVE RoutingInv
  OBVIOUS
<1>1. TypeOK
  BY TypeInit
<1>2. RouteOwner /\ RouteIsNewest
  BY DEF Init, RouteOwner, RouteIsNewest
<1>3. Lifecycle
  BY DEF Init, Lifecycle, Select
<1>4. FanOutIsSafe
  BY DEF Init, FanOutIsSafe, Idle
<1> QED
  BY <1>1, <1>2, <1>3, <1>4 DEF RoutingInv

LEMMA RoutingStep == RoutingInv /\ [Next]_vars => RoutingInv'
<1> SUFFICES ASSUME RoutingInv, [Next]_vars PROVE RoutingInv'
  OBVIOUS
<1> USE DEF regVars, connVars, histVars, procVars
<1>t. TypeOK /\ TypeOK'
  BY TypeStep DEF RoutingInv
<1>1. ASSUME NEW c \in Conns, NewClient(c) PROVE RoutingInv'
  BY <1>1, <1>t, RoutingFrame DEF NewClient, RoutingInv, Lifecycle, TypeOK, Select
<1>2. ASSUME NEW c \in Conns, HandToHub(c) PROVE RoutingInv'
  BY <1>2, <1>t, RoutingFrame DEF HandToHub, RoutingInv, Lifecycle, TypeOK
<1>3. ASSUME NEW c \in Conns, StartPumps(c) PROVE RoutingInv'
  BY <1>3, <1>t, RoutingFrame DEF StartPumps, RoutingInv, Lifecycle, TypeOK, Select
<1>4. ASSUME NEW c \in Conns,
             \/ PeerDrops(c) \/ ReadFails(c) \/ ReadPumpCloses(c)
             \/ WriteFrame(c) \/ WriteFails(c) \/ WriteClose(c)
      PROVE  RoutingInv'
  <2>1. UNCHANGED <<clients, agentsByID, newest, chanClosed, call, hub, stage>>
    BY <1>4 DEF PeerDrops, ReadFails, ReadPumpCloses, WriteFrame, WriteFails, WriteClose
  <2>2. hub.at = "register" => /\ hub.conn \in Conns
                               /\ stage[hub.conn] \in {"handed", "done"}
                               /\ ~chanClosed[hub.conn]
    BY <1>t DEF RoutingInv, Lifecycle, TypeOK, Select
  <2> QED
    BY <1>t, <2>1, <2>2, RoutingFrame
<1>5. ASSUME NEW c \in Conns, HandBack(c) PROVE RoutingInv'
  BY <1>5, <1>t, RoutingFrame DEF HandBack
<1>6. CASE HubRegister
  <2>1. hub.conn \in Conns /\ hub' = Select
    BY <1>6, <1>t DEF HubRegister, TypeOK, Select
  <2>2. RouteOwner'
    BY <1>6, <1>t, <2>1 DEF HubRegister, RoutingInv, RouteOwner, TypeOK
  <2>3. RouteIsNewest'
    BY <1>6, <1>t, <2>1 DEF HubRegister, RoutingInv, RouteOwner, RouteIsNewest, TypeOK
  <2>4. Lifecycle'
    BY <1>6, <1>t, <2>1 DEF HubRegister, RoutingInv, Lifecycle, Select
  <2>5. FanOutIsSafe'
    BY <1>6 DEF HubRegister, RoutingInv, FanOutIsSafe
  <2> QED
    BY <1>t, <2>2, <2>3, <2>4, <2>5 DEF RoutingInv
<1>7. CASE HubUnregister
  <2>1. hub.conn \in Conns /\ hub'.at = "callback"
    BY <1>7, <1>t DEF HubUnregister, Unregister, TypeOK, Select
  <2>2. RouteOwner'
    BY <1>7 DEF HubUnregister, Unregister, RoutingInv, RouteOwner
  <2>3. RouteIsNewest'
    BY <1>7, <1>t, <2>1
       DEF HubUnregister, Unregister, RoutingInv, RouteOwner, RouteIsNewest, TypeOK
  <2>4. Lifecycle'
    <3>1. /\ clients' = clients \ {hub.conn}
          /\ stage' = stage
          /\ chanClosed' = [chanClosed EXCEPT ![hub.conn] = chanClosed[hub.conn] \/ hub.conn \in clients]
      BY <1>7 DEF HubUnregister, Unregister
    <3>2. \A c \in Conns : c # hub.conn => chanClosed'[c] = chanClosed[c]
      BY <1>t, <3>1 DEF TypeOK
    <3>3. hub.conn \notin clients => chanClosed'[hub.conn] = chanClosed[hub.conn]
      BY <1>t, <2>1, <3>1 DEF TypeOK
    <3>4. \A c \in clients' : stage'[c] \in {"handed", "done"} /\ ~chanClosed'[c]
      BY <1>t, <3>1, <3>2 DEF RoutingInv, Lifecycle, TypeOK
    <3>5. \A c \in Conns : stage'[c] \in {"none", "created"} => ~chanClosed'[c]
      BY <1>t, <3>1, <3>2, <3>3 DEF RoutingInv, Lifecycle, TypeOK
    <3> QED
      BY <2>1, <3>4, <3>5 DEF Lifecycle
  <2>5. FanOutIsSafe'
    BY <1>7 DEF HubUnregister, Unregister, Reading, FanOutIsSafe
  <2> QED
    BY <1>t, <2>2, <2>3, <2>4, <2>5 DEF RoutingInv
<1>8. CASE HubCallbackReturns
  BY <1>8, <1>t, RoutingFrame DEF HubCallbackReturns, Select
<1>9. ASSUME NEW p \in Procs, call' = [call EXCEPT ![p] = call'[p]],
             UNCHANGED <<clients, agentsByID, newest, chanClosed, hub, stage>>,
             call'[p].op = "fanout" => call'[p].pend \subseteq clients
      PROVE  RoutingInv'
  <2>1. RouteOwner' /\ RouteIsNewest' /\ Lifecycle'
    BY <1>9 DEF RoutingInv, RouteOwner, RouteIsNewest, Lifecycle
  <2>2. FanOutIsSafe'
    <3> SUFFICES ASSUME NEW q \in Procs, call'[q].op = "fanout"
                 PROVE  call'[q].pend \subseteq clients /\ \A c \in call'[q].pend : ~chanClosed[c]
      BY <1>9 DEF FanOutIsSafe
    <3>1. CASE q = p
      BY <1>9, <3>1 DEF RoutingInv, Lifecycle
    <3>2. CASE q # p
      <4>1. call'[q] = call[q]
        BY <1>9, <1>t, <3>2 DEF TypeOK
      <4> QED
        BY <4>1 DEF RoutingInv, FanOutIsSafe
    <3> QED
      BY <3>1, <3>2
  <2> QED
    BY <1>t, <2>1, <2>2 DEF RoutingInv
<1>10. ASSUME NEW p \in Procs, NEW o \in Orgs, NEW r \in Roles, FanOut(p, o, r)
       PROVE  RoutingInv'
  BY <1>9, <1>10, <1>t DEF FanOut, FanOutTo, Idle, TypeOK
<1>11. ASSUME NEW p \in Procs, NEW m \in Machines, SendToAgent(p, m) PROVE RoutingInv'
  BY <1>9, <1>11, <1>t DEF SendToAgent, TypeOK
<1>12. ASSUME NEW p \in Procs, NEW c \in Conns, Deliver(p, c) PROVE RoutingInv'
  <2>1. \/ call' = [call EXCEPT ![p] = Idle]
        \/ call' = [call EXCEPT ![p] = Rest(p, call[p].pend \ {c})]
    BY <1>12 DEF Deliver
  <2>2. call' = [call EXCEPT ![p] = call'[p]]
    BY <1>t, <2>1 DEF TypeOK
  <2>3. ASSUME call'[p].op = "fanout" PROVE call'[p].pend \subseteq clients
    <3>1. call'[p] = [call[p] EXCEPT !.pend = call[p].pend \ {c}]
      BY <1>t, <2>1, <2>3 DEF Idle, Rest, TypeOK
    <3>2. call[p].op = "fanout"
      BY <1>t, <2>3, <3>1 DEF TypeOK, Calls, Idle
    <3>3. call[p].pend \subseteq clients
      BY <3>2 DEF RoutingInv, FanOutIsSafe
    <3>4. call[p] \in [op : {"fanout"}, topic : Topics, pend : SUBSET Conns]
      BY <1>t, <3>2 DEF TypeOK, Calls, Idle
    <3> QED
      BY <3>1, <3>3, <3>4
  <2> QED
    BY <1>9, <1>12, <2>2, <2>3 DEF Deliver
<1>13. CASE UNCHANGED vars
  BY <1>13 DEF vars, RoutingInv, TypeOK, RouteOwner, RouteIsNewest, Lifecycle, FanOutIsSafe
<1> QED
  BY <1>1, <1>2, <1>3, <1>4, <1>5, <1>6, <1>7, <1>8, <1>10, <1>11, <1>12, <1>13
     DEF Next, ConnStep, HubStep, ProcStep

\* A machine is routed to the last agent that registered for it, exactly while
\* that agent is a client (hub.go:60-83), for any number of overlapping
\* connections of any number of machines.
THEOREM RouteCorrect == Spec => []RouteIsNewest
<1> QED
  BY RoutingInit, RoutingStep, PTL DEF Spec, RoutingInv

\* No broadcast ever sends on a closed channel (hub.go:88-96, 111-122),
\* whichever goroutines broadcast and whichever clients leave.
THEOREM FanOutCorrect == Spec => []FanOutIsSafe
<1> QED
  BY RoutingInit, RoutingStep, PTL DEF Spec, RoutingInv

-----------------------------------------------------------------------------
(***************************************************************************)
(* The stream of a client.                                                 *)
(*                                                                         *)
(* NoGap and NothingMissing are not inductive: what a channel holds must   *)
(* be known whole. For every goroutine p there is a number top such that   *)
(* the channel of an open connection holds exactly the messages of p after *)
(* the last one written and up to top, in order; top is the last one       *)
(* enqueued while the connection is a client, and stays where it is when   *)
(* the connection has been taken out of the map.                           *)
(***************************************************************************)

\* A connection has an empty channel until handleWS creates its client, and no
\* broadcast until Run registers it; and it is registered once.
FreshInv ==
    /\ \A c \in Conns :
          /\ stage[c] = "none" => chan[c] = <<>> /\ ~greeted[c]
          /\ c \notin clients /\ ~chanClosed[c] => \A i \in DOMAIN chan[c] : chan[c][i].n = 0
    /\ hub.at = "register" => hub.conn \notin clients

\* A call addresses connections that have been handed to the hub, and a
\* broadcast those of its topic.
CallInv ==
    \A p \in Procs : \A c \in call[p].pend :
        /\ stage[c] \in {"handed", "done"}
        /\ call[p].op = "fanout" => call[p].topic = TopicOf(c)

\* The snapshot is the first frame, and there is one.
SnapshotInv ==
    \A c \in Conns : Role[c] = "dashboard" /\ stage[c] # "none" =>
        /\ ~greeted[c] => chan[c] # <<>> /\ Head(chan[c]) = Snapshot
        /\ \A i \in DOMAIN chan[c] : chan[c][i] = Snapshot => i = 1 /\ ~greeted[c]

\* The frames of a broadcast in a channel are in the order they were sent.
Ordered(c) ==
    /\ \A i \in DOMAIN chan[c] : chan[c][i].n > 0 => chan[c][i].from \in Procs
    /\ \A i, j \in DOMAIN chan[c] :
          i < j /\ chan[c][i].n > 0 /\ chan[c][j].n > 0 /\ chan[c][i].from = chan[c][j].from
              => chan[c][i].n < chan[c][j].n

\* The channel holds the messages of p after the last one written, up to top.
Stream(c, p, top) ==
    /\ seen[c][p] <= top /\ top <= sent[p][TopicOf(c)]
    /\ c \in clients => top = LastEnqueued(c, p)
    /\ \A n \in Nat : seen[c][p] < n /\ n <= top =>
          \E i \in DOMAIN chan[c] : chan[c][i] = Message(p, TopicOf(c), n)
    /\ \A i \in DOMAIN chan[c] : chan[c][i].n > 0 /\ chan[c][i].from = p =>
          /\ chan[c][i].to = TopicOf(c)
          /\ seen[c][p] < chan[c][i].n /\ chan[c][i].n <= top

StreamInv ==
    /\ \A c \in Conns, p \in Procs : seen[c][p] <= sent[p][TopicOf(c)]
    /\ \A c \in Conns : sock[c] = "open" =>
          Ordered(c) /\ \A p \in Procs : \E top \in Nat : Stream(c, p, top)

FeedInv == RoutingInv /\ FreshInv /\ CallInv /\ SnapshotInv /\ StreamInv

LEMMA AppendFacts ==
    ASSUME NEW q \in Seq(Frames), NEW f \in Frames
    PROVE  /\ Len(q) \in Nat /\ DOMAIN q = 1 .. Len(q) /\ DOMAIN Append(q, f) = 1 .. (Len(q) + 1)
           /\ Append(q, f)[Len(q) + 1] = f
           /\ \A i \in 1 .. Len(q) : Append(q, f)[i] = q[i]
           /\ Append(q, f) # <<>> /\ (q # <<>> => Head(Append(q, f)) = Head(q))
  OBVIOUS

LEMMA TailFacts ==
    ASSUME NEW q \in Seq(Frames), q # <<>>
    PROVE  /\ Len(q) \in Nat \ {0} /\ DOMAIN q = 1 .. Len(q)
           /\ Head(q) = q[1] /\ Head(q) \in Frames
           /\ DOMAIN Tail(q) = 1 .. (Len(q) - 1)
           /\ \A i \in 1 .. (Len(q) - 1) : Tail(q)[i] = q[i + 1]
  OBVIOUS

LEMMA FrameFacts ==
    ASSUME TypeOK, NEW c \in Conns
    PROVE  /\ chan[c] \in Seq(Frames)
           /\ TopicOf(c) \in Topics
           /\ \A i \in DOMAIN chan[c] : chan[c][i] \in Frames /\ chan[c][i].n \in Nat
           /\ \A p \in Procs : seen[c][p] \in Nat /\ sent[p][TopicOf(c)] \in Nat
<1>1. chan[c] \in Seq(Frames)
  BY DEF TypeOK
<1>2. \A i \in DOMAIN chan[c] : chan[c][i] \in Frames
  BY <1>1
<1>3. \A f \in Frames : f.n \in Nat
  BY DEF Frames
<1>4. TopicOf(c) \in Topics
  BY DEF TopicOf, Topics
<1>5. \A p \in Procs : seen[c][p] \in Nat /\ sent[p][TopicOf(c)] \in Nat
  BY <1>4 DEF TypeOK
<1> QED
  BY <1>1, <1>2, <1>3, <1>4, <1>5

LEMMA FeedInit == Init => FeedInv
<1> SUFFICES ASSUME Init PROVE FeedInv
  OBVIOUS
<1>1. RoutingInv
  BY RoutingInit
<1>2. FreshInv /\ CallInv /\ SnapshotInv
  BY DEF Init, FreshInv, CallInv, SnapshotInv, Idle, Select
<1>3. StreamInv
  <2>1. ASSUME NEW c \in Conns, NEW p \in Procs PROVE seen[c][p] <= sent[p][TopicOf(c)]
    BY DEF Init, TopicOf, Topics
  <2> QED
    BY <2>1 DEF Init, StreamInv
<1> QED
  BY <1>1, <1>2, <1>3 DEF FeedInv

\* What holds of a client's stream goes on holding while neither its channel
\* nor what was written to it changes.
LEMMA StreamKept ==
    ASSUME NEW c \in Conns, NEW p \in Procs, NEW top \in Nat, Stream(c, p, top),
           chan'[c] = chan[c], seen'[c] = seen[c],
           top <= sent'[p][TopicOf(c)],
           c \in clients' => c \in clients /\ LastEnqueued(c, p)' = LastEnqueued(c, p)
    PROVE  Stream(c, p, top)'
  BY DEF Stream, TopicOf

LEMMA OrderKept ==
    ASSUME NEW c \in Conns, Ordered(c), chan'[c] = chan[c] PROVE Ordered(c)'
  BY DEF Ordered

\* Nothing is sent, enqueued or written.
LEMMA StreamFrame ==
    ASSUME FeedInv, UNCHANGED <<chan, seen, sent>>,
           \A c \in Conns : sock'[c] = "open" => sock[c] = "open",
           \A c \in Conns, p \in Procs : sock'[c] = "open" /\ c \in clients' =>
               c \in clients /\ LastEnqueued(c, p)' = LastEnqueued(c, p)
    PROVE  StreamInv'
<1>1. ASSUME NEW c \in Conns, sock'[c] = "open", NEW p \in Procs
      PROVE  \E top \in Nat : Stream(c, p, top)'
  <2>1. PICK top \in Nat : Stream(c, p, top)
    BY <1>1 DEF FeedInv, StreamInv
  <2> QED
    BY <1>1, <2>1, StreamKept DEF Stream
<1>2. ASSUME NEW c \in Conns, sock'[c] = "open" PROVE Ordered(c)'
  BY <1>2, OrderKept DEF FeedInv, StreamInv
<1>3. ASSUME NEW c \in Conns, NEW p \in Procs PROVE seen'[c][p] <= sent'[p][TopicOf(c)]
  BY DEF FeedInv, StreamInv
<1> QED
  BY <1>1, <1>2, <1>3 DEF StreamInv, TopicOf

\* Where a step leaves the channels, the maps and the calls alone.
LEMMA QuietFrame ==
    ASSUME FeedInv, UNCHANGED <<chan, seen, sent, greeted, clients, chanClosed, call>>,
           \A c \in Conns : stage'[c] # stage[c] => stage[c] # "none" /\ stage'[c] \in {"handed", "done"},
           \A c \in Conns : sock'[c] = "open" => sock[c] = "open",
           hub'.at = "register" => hub'.conn \notin clients
    PROVE  FreshInv' /\ CallInv' /\ SnapshotInv' /\ StreamInv'
<1>0. \A p \in Procs : call[p].pend \subseteq Conns
  <2>1. \A p \in Procs : call[p] \in Calls
    BY DEF FeedInv, RoutingInv, TypeOK
  <2> QED
    BY <2>1 DEF Calls, Idle
<1>1. FreshInv'
  BY DEF FeedInv, FreshInv
<1>2. CallInv'
  BY <1>0 DEF FeedInv, CallInv, TopicOf
<1>3. SnapshotInv'
  BY DEF FeedInv, SnapshotInv
<1>4. \A c \in Conns, p \in Procs : LastEnqueued(c, p)' = LastEnqueued(c, p)
  BY DEF LastEnqueued, TopicOf
<1>5. StreamInv'
  BY <1>4, StreamFrame
<1> QED
  BY <1>1, <1>2, <1>3, <1>5

LEMMA PendType ==
    ASSUME TypeOK, NEW p \in Procs
    PROVE  call[p].pend \subseteq Conns
<1>1. call[p] \in Calls
  BY DEF TypeOK
<1> QED
  BY <1>1 DEF Calls, Idle

\* NewClient starts with the snapshot, or with nothing.
LEMMA FeedNewClient ==
    ASSUME FeedInv, NEW c \in Conns, NewClient(c)
    PROVE  FreshInv' /\ CallInv' /\ SnapshotInv' /\ StreamInv'
<1> USE DEF regVars, histVars, procVars
<1>t. TypeOK /\ Lifecycle
  BY DEF FeedInv, RoutingInv
<1>1. /\ stage[c] = "none" /\ stage'[c] = "created" /\ sock'[c] = "open"
      /\ chan'[c] = IF Role[c] = "dashboard" THEN <<Snapshot>> ELSE <<>>
      /\ \A d \in Conns \ {c} : stage'[d] = stage[d] /\ sock'[d] = sock[d] /\ chan'[d] = chan[d]
      /\ UNCHANGED <<clients, chanClosed, hub, seen, greeted, call, sent>>
  BY <1>t DEF NewClient, TypeOK
<1>2. c \notin clients /\ ~chanClosed[c] /\ ~greeted[c]
  BY <1>1, <1>t DEF Lifecycle, FeedInv, FreshInv
<1>3. \A i \in DOMAIN chan'[c] : i = 1 /\ chan'[c][i] = Snapshot /\ chan'[c][i].n = 0
  BY <1>1 DEF Snapshot
<1>4. FreshInv'
  <2>1. ASSUME NEW d \in Conns
        PROVE  /\ stage'[d] = "none" => chan'[d] = <<>> /\ ~greeted'[d]
               /\ d \notin clients' /\ ~chanClosed'[d] => \A i \in DOMAIN chan'[d] : chan'[d][i].n = 0
    <3>1. CASE d = c
      BY <1>1, <1>3, <3>1
    <3>2. CASE d # c
      <4>1. /\ stage'[d] = stage[d] /\ chan'[d] = chan[d] /\ clients' = clients
            /\ greeted'[d] = greeted[d] /\ chanClosed'[d] = chanClosed[d]
        BY <1>1, <3>2
      <4>2. /\ stage[d] = "none" => chan[d] = <<>> /\ ~greeted[d]
            /\ d \notin clients /\ ~chanClosed[d] => \A i \in DOMAIN chan[d] : chan[d][i].n = 0
        BY DEF FeedInv, FreshInv
      <4> QED
        BY <4>1, <4>2
    <3> QED
      BY <3>1, <3>2
  <2>2. hub'.at = "register" => hub'.conn \notin clients'
    BY <1>1 DEF FeedInv, FreshInv
  <2> QED
    BY <2>1, <2>2 DEF FreshInv
<1>5. CallInv'
  <2>1. \A p \in Procs : c \notin call[p].pend
    BY <1>1 DEF FeedInv, CallInv
  <2> QED
    BY <1>1, <1>t, <2>1, PendType DEF FeedInv, CallInv, TopicOf
<1>6. SnapshotInv'
  <2>1. ASSUME NEW d \in Conns, Role[d] = "dashboard", stage'[d] # "none"
        PROVE  /\ ~greeted'[d] => chan'[d] # <<>> /\ Head(chan'[d]) = Snapshot
               /\ \A i \in DOMAIN chan'[d] : chan'[d][i] = Snapshot => i = 1 /\ ~greeted'[d]
    <3>1. CASE d = c
      <4>1. chan'[c] = <<Snapshot>> /\ ~greeted'[c]
        BY <1>1, <1>2, <2>1, <3>1
      <4> QED
        BY <1>3, <3>1, <4>1
    <3>2. CASE d # c
      BY <1>1, <2>1, <3>2 DEF FeedInv, SnapshotInv
    <3> QED
      BY <3>1, <3>2
  <2> QED
    BY <2>1 DEF SnapshotInv
<1>7. StreamInv'
  <2>1. ASSUME NEW d \in Conns, NEW p \in Procs PROVE seen'[d][p] <= sent'[p][TopicOf(d)]
    BY <1>1 DEF FeedInv, StreamInv
  <2>2. ASSUME NEW d \in Conns, sock'[d] = "open"
        PROVE  Ordered(d)' /\ \A p \in Procs : \E top \in Nat : Stream(d, p, top)'
    <3>1. CASE d = c
      <4>1. Ordered(c)'
        BY <1>3 DEF Ordered
      <4>3. \A p \in Procs : \E top \in Nat : Stream(c, p, top)'
        <5>1. ASSUME NEW p \in Procs PROVE \E top \in Nat : Stream(c, p, top)'
          <6>1. PICK n \in Nat : n = seen[c][p]
            BY <1>t, FrameFacts
          <6>2. Stream(c, p, n)'
            BY <1>1, <1>2, <1>3, <6>1, <2>1, <1>t, FrameFacts DEF Stream, TopicOf
          <6> QED
            BY <6>2
        <5> QED
          BY <5>1
      <4> QED
        BY <3>1, <4>1, <4>3
    <3>2. CASE d # c
      <4>1. chan'[d] = chan[d] /\ seen'[d] = seen[d] /\ sock[d] = "open"
        BY <1>1, <2>2, <3>2
      <4>2. ASSUME NEW p \in Procs PROVE \E top \in Nat : Stream(d, p, top)'
        <5>1. PICK top \in Nat : Stream(d, p, top)
          BY <4>1 DEF FeedInv, StreamInv
        <5>2. LastEnqueued(d, p)' = LastEnqueued(d, p)
          BY <1>1 DEF LastEnqueued, TopicOf
        <5>3. Stream(d, p, top)'
          BY <1>1, <4>1, <5>1, <5>2, StreamKept DEF Stream
        <5> QED
          BY <5>3
      <4> QED
        BY <4>1, <4>2, OrderKept DEF FeedInv, StreamInv
    <3> QED
      BY <3>1, <3>2
  <2> QED
    BY <2>1, <2>2 DEF StreamInv, TopicOf
<1> QED
  BY <1>4, <1>5, <1>6, <1>7

\* A connection whose channel the step does not touch.
LEMMA StreamOther ==
    ASSUME FeedInv, TypeOK', NEW d \in Conns, sock[d] = "open",
           chan'[d] = chan[d], seen'[d] = seen[d],
           \A p \in Procs : /\ sent[p][TopicOf(d)] <= sent'[p][TopicOf(d)]
                            /\ d \in clients' => /\ d \in clients
                                                 /\ LastEnqueued(d, p)' = LastEnqueued(d, p)
    PROVE  Ordered(d)' /\ \A p \in Procs : \E top \in Nat : Stream(d, p, top)'
<1>1. ASSUME NEW p \in Procs PROVE \E top \in Nat : Stream(d, p, top)'
  <2>1. PICK top \in Nat : Stream(d, p, top)
    BY DEF FeedInv, StreamInv
  <2>2. sent[p][TopicOf(d)] \in Nat /\ sent'[p][TopicOf(d)] \in Nat
    BY DEF FeedInv, RoutingInv, TypeOK, TopicOf, Topics
  <2>3. top <= sent'[p][TopicOf(d)]
    BY <2>1, <2>2 DEF Stream
  <2>4. Stream(d, p, top)'
    BY <2>1, <2>3, StreamKept
  <2> QED
    BY <2>4
<1>2. Ordered(d)'
  BY OrderKept DEF FeedInv, StreamInv
<1> QED
  BY <1>1, <1>2

\* The register case of Run: the stream starts after what was last sent.
LEMMA FeedRegister ==
    ASSUME FeedInv, TypeOK', HubRegister
    PROVE  FreshInv' /\ CallInv' /\ SnapshotInv' /\ StreamInv'
<1> USE DEF connVars, procVars
<1>t. TypeOK /\ Lifecycle
  BY DEF FeedInv, RoutingInv
<1>c. PICK c \in Conns : c = hub.conn
  BY <1>t DEF HubRegister, TypeOK, Select
<1>1. /\ c \in Conns /\ c \notin clients /\ ~chanClosed[c] /\ stage[c] # "none"
      /\ hub.at = "register"
  BY <1>t, <1>c DEF HubRegister, Lifecycle, FeedInv, FreshInv
<1>2. /\ clients' = clients \cup {c} /\ hub' = Select
      /\ seen'[c] = [p \in Procs |-> sent[p][TopicOf(c)]]
      /\ \A d \in Conns \ {c} : seen'[d] = seen[d]
      /\ UNCHANGED <<stage, sock, chan, chanClosed, greeted, call, sent>>
  BY <1>1, <1>c, <1>t DEF HubRegister, TypeOK
<1>3. \A p \in Procs : call[p].op # "fanout"
  BY DEF HubRegister, Reading
<1>4. FreshInv'
  <2>1. ASSUME NEW d \in Conns
        PROVE  /\ stage[d] = "none" => chan[d] = <<>> /\ ~greeted[d]
               /\ d \notin clients /\ ~chanClosed[d] => \A i \in DOMAIN chan[d] : chan[d][i].n = 0
    BY DEF FeedInv, FreshInv
  <2> QED
    BY <1>2, <2>1 DEF FreshInv, Select
<1>5. CallInv'
  BY <1>2 DEF FeedInv, CallInv, TopicOf
<1>6. SnapshotInv'
  BY <1>2 DEF FeedInv, SnapshotInv
<1>7. ASSUME NEW d \in Conns, NEW p \in Procs
      PROVE  /\ LastEnqueued(d, p) = sent[p][TopicOf(d)]
             /\ LastEnqueued(d, p)' = sent[p][TopicOf(d)]
  BY <1>2, <1>3 DEF LastEnqueued, TopicOf
<1>8. ASSUME NEW d \in Conns, NEW p \in Procs PROVE seen'[d][p] <= sent'[p][TopicOf(d)]
  <2>1. sent[p][TopicOf(d)] \in Nat
    BY <1>t, FrameFacts
  <2>2. CASE d = c
    BY <1>2, <2>1, <2>2
  <2>3. CASE d # c
    BY <1>2, <2>3 DEF FeedInv, StreamInv
  <2> QED
    BY <2>2, <2>3
<1>9. ASSUME NEW d \in Conns, sock'[d] = "open"
      PROVE  Ordered(d)' /\ \A p \in Procs : \E top \in Nat : Stream(d, p, top)'
  <2>1. CASE d = c
    <3>1. \A i \in DOMAIN chan'[c] : chan'[c][i].n = 0
      BY <1>1, <1>2 DEF FeedInv, FreshInv
    <3>2. Ordered(c)'
      BY <3>1 DEF Ordered
    <3>3. ASSUME NEW p \in Procs PROVE \E top \in Nat : Stream(c, p, top)'
      <4>1. PICK n \in Nat : n = sent[p][TopicOf(c)]
        BY <1>t, <1>1, FrameFacts
      <4>2. seen'[c][p] = n /\ sent'[p][TopicOf(c)] = n /\ LastEnqueued(c, p)' = n
        BY <1>1, <1>2, <1>7, <4>1
      <4>3. Stream(c, p, n)'
        BY <3>1, <4>1, <4>2 DEF Stream, TopicOf
      <4> QED
        BY <4>3
    <3> QED
      BY <2>1, <3>2, <3>3
  <2>2. CASE d # c
    <3>1. /\ chan'[d] = chan[d] /\ seen'[d] = seen[d] /\ sock[d] = "open"
          /\ d \in clients' => d \in clients
      BY <1>2, <1>9, <2>2
    <3>2. \A p \in Procs : sent[p][TopicOf(d)] <= sent'[p][TopicOf(d)]
      BY <1>2, <1>t, FrameFacts
    <3> QED
      BY <1>7, <3>1, <3>2, StreamOther
  <2> QED
    BY <2>1, <2>2
<1>10. StreamInv'
  BY <1>8, <1>9 DEF StreamInv, TopicOf
<1> QED
  BY <1>4, <1>5, <1>6, <1>10

\* A broadcast starts: every client of its topic has it to come.
LEMMA FeedFanOut ==
    ASSUME FeedInv, TypeOK', NEW p \in Procs, NEW o \in Orgs, NEW r \in Roles, FanOut(p, o, r)
    PROVE  FreshInv' /\ CallInv' /\ SnapshotInv' /\ StreamInv'
<1> USE DEF regVars, connVars, histVars
<1> DEFINE to == {c \in clients : Role[c] = r /\ OrgOf[c] = o}
<1>t. TypeOK /\ Lifecycle
  BY DEF FeedInv, RoutingInv
<1>1. /\ call[p] = Idle
      /\ call'[p] = IF to = {} THEN Idle ELSE [op |-> "fanout", topic |-> <<o, r>>, pend |-> to]
      /\ \A q \in Procs \ {p} : call'[q] = call[q] /\ sent'[q] = sent[q]
      /\ UNCHANGED <<clients, hub, stage, sock, chan, chanClosed, seen, greeted>>
  BY <1>t DEF FanOut, FanOutTo, TypeOK
<1>2. /\ <<o, r>> \in Topics /\ sent'[p][<<o, r>>] = sent[p][<<o, r>>] + 1
      /\ \A t \in Topics \ {<<o, r>>} : sent'[p][t] = sent[p][t]
  BY <1>t DEF FanOut, FanOutTo, TypeOK, Topics
<1>3. \A c \in clients : c \in to <=> TopicOf(c) = <<o, r>>
  BY DEF TopicOf
<1>4. to \subseteq clients /\ clients \subseteq Conns
  BY <1>t DEF TypeOK
<1>f. Idle.op = "idle" /\ Idle.pend = {}
  BY DEF Idle
<1> HIDE DEF to
<1>5. FreshInv'
  BY <1>1 DEF FeedInv, FreshInv
<1>6. CallInv'
  <2>1. ASSUME NEW q \in Procs, NEW c \in call'[q].pend
        PROVE  /\ stage'[c] \in {"handed", "done"}
               /\ call'[q].op = "fanout" => call'[q].topic = TopicOf(c)
    <3>1. CASE q = p
      <4>1. c \in to /\ call'[p].topic = <<o, r>>
        BY <1>1, <1>f, <2>1, <3>1
      <4> QED
        BY <1>1, <1>t, <1>3, <1>4, <3>1, <4>1 DEF Lifecycle
    <3>2. CASE q # p
      BY <1>1, <2>1, <3>2 DEF FeedInv, CallInv
    <3> QED
      BY <3>1, <3>2
  <2> QED
    BY <2>1 DEF CallInv, TopicOf
<1>7. SnapshotInv'
  BY <1>1 DEF FeedInv, SnapshotInv
<1>8. ASSUME NEW d \in Conns, NEW q \in Procs
      PROVE  /\ sent[q][TopicOf(d)] <= sent'[q][TopicOf(d)] /\ sent[q][TopicOf(d)] \in Nat
             /\ sent'[q][TopicOf(d)] \in Nat
             /\ d \in clients => LastEnqueued(d, q)' = LastEnqueued(d, q)
  <2>1. TopicOf(d) \in Topics /\ sent[q][TopicOf(d)] \in Nat
    BY <1>t, FrameFacts
  <2>2. CASE q # p
    BY <1>1, <2>1, <2>2 DEF LastEnqueued, TopicOf
  <2>3. CASE q = p
    <3>1. LastEnqueued(d, p) = sent[p][TopicOf(d)]
      BY <1>1, <1>f DEF LastEnqueued
    <3>2. CASE TopicOf(d) = <<o, r>>
      <4>1. d \in clients => d \in to /\ call'[p].op = "fanout" /\ d \in call'[p].pend
        BY <1>1, <1>3, <3>2
      <4>2. sent'[p][TopicOf(d)] = sent[p][TopicOf(d)] + 1
        BY <1>2, <3>2
      <4>3. d \in clients => LastEnqueued(d, p)' = sent'[p][TopicOf(d)] - 1
        BY <4>1 DEF LastEnqueued, TopicOf
      <4> QED
        BY <2>1, <2>3, <3>1, <4>2, <4>3
    <3>3. CASE TopicOf(d) # <<o, r>>
      <4>1. d \in clients => d \notin call'[p].pend
        BY <1>1, <1>3, <1>f, <3>3
      <4>2. sent'[p][TopicOf(d)] = sent[p][TopicOf(d)]
        BY <1>2, <2>1, <3>3
      <4>3. d \in clients => LastEnqueued(d, p)' = sent'[p][TopicOf(d)]
        BY <4>1 DEF LastEnqueued, TopicOf
      <4> QED
        BY <2>1, <2>3, <3>1, <4>2, <4>3
    <3> QED
      BY <3>2, <3>3
  <2> QED
    BY <2>2, <2>3
<1>9. ASSUME NEW d \in Conns, sock'[d] = "open"
      PROVE  Ordered(d)' /\ \A q \in Procs : \E top \in Nat : Stream(d, q, top)'
  BY <1>1, <1>8, <1>9, StreamOther
<1>10. ASSUME NEW d \in Conns, NEW q \in Procs PROVE seen'[d][q] <= sent'[q][TopicOf(d)]
  <2>1. seen[d][q] \in Nat /\ seen[d][q] <= sent[q][TopicOf(d)]
    BY <1>t, FrameFacts DEF FeedInv, StreamInv
  <2> QED
    BY <1>1, <1>8, <2>1
<1>11. StreamInv'
  BY <1>9, <1>10 DEF StreamInv, TopicOf
<1> QED
  BY <1>5, <1>6, <1>7, <1>11

\* A frame of goroutine p is appended to the channel of c.
LEMMA StreamAppend ==
    ASSUME FeedInv, NEW c \in Conns, NEW p \in Procs, NEW f \in Frames, sock[c] = "open",
           chan'[c] = Append(chan[c], f), seen'[c] = seen[c], sent' = sent, clients' = clients,
           f.n > 0 => /\ f = Message(p, TopicOf(c), LastEnqueued(c, p) + 1)
                      /\ c \in clients /\ LastEnqueued(c, p)' = LastEnqueued(c, p) + 1
                      /\ f.n <= sent[p][TopicOf(c)],
           \A q \in Procs : q # p \/ f.n = 0 => LastEnqueued(c, q)' = LastEnqueued(c, q)
    PROVE  Ordered(c)' /\ \A q \in Procs : \E top \in Nat : Stream(c, q, top)'
<1>t. TypeOK
  BY DEF FeedInv, RoutingInv
<1>1. /\ Len(chan[c]) \in Nat /\ DOMAIN chan[c] = 1 .. Len(chan[c])
      /\ DOMAIN chan'[c] = 1 .. (Len(chan[c]) + 1)
      /\ chan'[c][Len(chan[c]) + 1] = f
      /\ \A i \in DOMAIN chan[c] : i \in DOMAIN chan'[c] /\ chan'[c][i] = chan[c][i]
      /\ \A i \in DOMAIN chan'[c] : i \in DOMAIN chan[c] \/ i = Len(chan[c]) + 1
  BY <1>t, FrameFacts, AppendFacts
<1>2. Ordered(c) /\ \A q \in Procs : \E top \in Nat : Stream(c, q, top)
  BY DEF FeedInv, StreamInv
<1>3. \A i \in DOMAIN chan[c] : chan[c][i] \in Frames /\ chan[c][i].n \in Nat
  BY <1>t, FrameFacts
<1>4. f.n \in Nat /\ (f.n > 0 => f.from = p)
  BY DEF Frames, Message
<1>5. ASSUME NEW q \in Procs, q # p \/ f.n = 0 PROVE \E top \in Nat : Stream(c, q, top)'
  <2>1. PICK top \in Nat : Stream(c, q, top)
    BY <1>2
  <2>2. ASSUME NEW n \in Nat, seen[c][q] < n, n <= top
        PROVE  \E i \in DOMAIN chan'[c] : chan'[c][i] = Message(q, TopicOf(c), n)
    <3>1. PICK i \in DOMAIN chan[c] : chan[c][i] = Message(q, TopicOf(c), n)
      BY <2>1, <2>2 DEF Stream
    <3> QED
      BY <1>1, <3>1
  <2>3. ASSUME NEW i \in DOMAIN chan'[c], chan'[c][i].n > 0, chan'[c][i].from = q
        PROVE  /\ chan'[c][i].to = TopicOf(c)
               /\ seen[c][q] < chan'[c][i].n /\ chan'[c][i].n <= top
    <3>1. i # Len(chan[c]) + 1
      BY <1>1, <1>4, <1>5, <2>3
    <3>2. i \in DOMAIN chan[c] /\ chan'[c][i] = chan[c][i]
      BY <1>1, <3>1
    <3> QED
      BY <2>1, <2>3, <3>2 DEF Stream
  <2>4. /\ seen[c][q] <= top /\ top <= sent[q][TopicOf(c)]
        /\ c \in clients => top = LastEnqueued(c, q)
    BY <2>1 DEF Stream
  <2>5. LastEnqueued(c, q)' = LastEnqueued(c, q)
    BY <1>5
  <2>6. Stream(c, q, top)'
    BY <2>2, <2>3, <2>4, <2>5 DEF Stream, TopicOf
  <2> QED
    BY <2>6
<1>6. ASSUME f.n > 0 PROVE \E top \in Nat : Stream(c, p, top)'
  <2>1. PICK top \in Nat : Stream(c, p, top)
    BY <1>2
  <2>2. /\ top = LastEnqueued(c, p) /\ f = Message(p, TopicOf(c), top + 1) /\ f.n = top + 1
        /\ f.to = TopicOf(c)
    BY <1>6, <2>1 DEF Stream, Message
  <2>3. seen[c][p] \in Nat /\ seen[c][p] <= top
    BY <1>t, <2>1, FrameFacts DEF Stream
  <2>4. ASSUME NEW n \in Nat, seen[c][p] < n, n <= top + 1
        PROVE  \E i \in DOMAIN chan'[c] : chan'[c][i] = Message(p, TopicOf(c), n)
    <3>1. CASE n = top + 1
      BY <1>1, <2>2, <3>1
    <3>2. CASE n # top + 1
      <4>1. n <= top
        BY <2>4, <3>2
      <4>2. PICK i \in DOMAIN chan[c] : chan[c][i] = Message(p, TopicOf(c), n)
        BY <2>1, <2>4, <4>1 DEF Stream
      <4> QED
        BY <1>1, <4>2
    <3> QED
      BY <3>1, <3>2
  <2>5. ASSUME NEW i \in DOMAIN chan'[c], chan'[c][i].n > 0, chan'[c][i].from = p
        PROVE  /\ chan'[c][i].to = TopicOf(c)
               /\ seen[c][p] < chan'[c][i].n /\ chan'[c][i].n <= top + 1
    <3>1. CASE i = Len(chan[c]) + 1
      BY <1>1, <2>2, <2>3, <3>1
    <3>2. CASE i \in DOMAIN chan[c]
      BY <1>1, <1>3, <2>1, <2>5, <3>2 DEF Stream
    <3> QED
      BY <1>1, <3>1, <3>2
  <2>6. PICK t \in Nat : t = top + 1
    OBVIOUS
  <2>7. seen[c][p] <= t /\ t <= sent[p][TopicOf(c)] /\ LastEnqueued(c, p)' = t
    BY <1>6, <2>2, <2>3, <2>6
  <2>8. Stream(c, p, t)'
    BY <2>4, <2>5, <2>6, <2>7 DEF Stream, TopicOf
  <2> QED
    BY <2>8
<1>7. Ordered(c)'
  <2>1. ASSUME NEW i \in DOMAIN chan'[c], chan'[c][i].n > 0 PROVE chan'[c][i].from \in Procs
    BY <1>1, <1>2, <1>4, <2>1 DEF Ordered
  <2>2. ASSUME NEW i \in DOMAIN chan'[c], NEW j \in DOMAIN chan'[c], i < j,
               chan'[c][i].n > 0, chan'[c][j].n > 0, chan'[c][i].from = chan'[c][j].from
        PROVE  chan'[c][i].n < chan'[c][j].n
    <3>1. i \in DOMAIN chan[c] /\ chan'[c][i] = chan[c][i]
      BY <1>1, <2>2
    <3>2. CASE j \in DOMAIN chan[c]
      BY <1>1, <1>2, <2>2, <3>1, <3>2 DEF Ordered
    <3>3. CASE j = Len(chan[c]) + 1
      <4>1. chan'[c][j] = f /\ f.n > 0 /\ chan[c][i].from = p /\ chan[c][i].n \in Nat
        BY <1>1, <1>3, <1>4, <2>2, <3>1, <3>3
      <4>2. PICK top \in Nat : Stream(c, p, top)
        BY <1>2
      <4>3. top = LastEnqueued(c, p) /\ f.n = top + 1
        BY <4>1, <4>2 DEF Stream, Message
      <4>4. chan[c][i].n <= top
        BY <2>2, <3>1, <4>1, <4>2 DEF Stream
      <4> QED
        BY <3>1, <4>1, <4>3, <4>4
    <3> QED
      BY <1>1, <3>2, <3>3
  <2> QED
    BY <2>1, <2>2 DEF Ordered
<1> QED
  BY <1>4, <1>5, <1>6, <1>7

\* One enqueue of a call.
LEMMA FeedDeliver ==
    ASSUME FeedInv, TypeOK', NEW p \in Procs, NEW c \in Conns, Deliver(p, c)
    PROVE  FreshInv' /\ CallInv' /\ SnapshotInv' /\ StreamInv'
<1> USE DEF regVars, histVars
<1>t. TypeOK /\ FanOutIsSafe
  BY DEF FeedInv, RoutingInv
<1>c. /\ c \in call[p].pend /\ UNCHANGED <<clients, hub, stage, chanClosed, seen, greeted, sent>>
      /\ \A q \in Procs \ {p} : call'[q] = call[q]
      /\ call'[p] = Idle \/ call'[p] = Rest(p, call[p].pend \ {c})
      /\ chanClosed[c] => call'[p] = Idle /\ UNCHANGED <<chan, sock>>
      /\ ~chanClosed[c] => Enqueue(c, FrameOf(p)) /\ call'[p] = Rest(p, call[p].pend \ {c})
  BY <1>t DEF Deliver, TypeOK
<1>f. Idle.op = "idle" /\ Idle.pend = {}
  BY DEF Idle
<1>n. call[p] # Idle
  BY <1>c, <1>f
<1>o. \/ call[p] \in [op : {"fanout"}, topic : Topics, pend : SUBSET Conns]
      \/ call[p] \in [op : {"direct"}, topic : {NoTopic}, pend : SUBSET Conns]
  BY <1>t, <1>n DEF TypeOK, Calls
<1>r. /\ call'[p].pend \subseteq call[p].pend \ {c}
      /\ call'[p].op = "fanout" => call[p].op = "fanout" /\ call'[p].topic = call[p].topic
      /\ ~chanClosed[c] => /\ call'[p].pend = call[p].pend \ {c}
                           /\ call'[p].pend # {} => call'[p].op = call[p].op
  BY <1>c, <1>f, <1>o DEF Rest
<1>1. CallInv'
  <2>1. ASSUME NEW q \in Procs, NEW d \in call'[q].pend
        PROVE  /\ stage[d] \in {"handed", "done"}
               /\ call'[q].op = "fanout" => call'[q].topic = TopicOf(d)
    <3>1. CASE q = p
      BY <1>r, <2>1, <3>1 DEF FeedInv, CallInv
    <3>2. CASE q # p
      BY <1>c, <2>1, <3>2 DEF FeedInv, CallInv
    <3> QED
      BY <3>1, <3>2
  <2> QED
    BY <1>c, <2>1 DEF CallInv, TopicOf
<1>s. stage[c] \in {"handed", "done"} /\ (call[p].op = "fanout" => /\ call[p].topic = TopicOf(c)
                                                                  /\ c \in clients /\ ~chanClosed[c])
  BY <1>c, <1>t DEF FeedInv, CallInv, FanOutIsSafe
<1>e. ASSUME NEW d \in Conns, NEW q \in Procs, d # c \/ q # p \/ call[p].op # "fanout"
      PROVE  LastEnqueued(d, q)' = LastEnqueued(d, q)
  <2>1. CASE q # p
    BY <1>c, <2>1 DEF LastEnqueued, TopicOf
  <2>2. CASE q = p /\ call[p].op # "fanout"
    BY <1>c, <1>r, <2>2 DEF LastEnqueued, TopicOf
  <2>3. CASE q = p /\ call[p].op = "fanout" /\ d # c
    <3>1. call'[p].op = "fanout" /\ d \in call'[p].pend <=> d \in call[p].pend
      BY <1>r, <1>s, <2>3
    <3> QED
      BY <1>c, <2>3, <3>1 DEF LastEnqueued, TopicOf
  <2> QED
    BY <1>e, <2>1, <2>2, <2>3
<1>b. ASSUME NEW d \in Conns, NEW q \in Procs
      PROVE  seen'[d][q] <= sent'[q][TopicOf(d)]
  BY <1>c DEF FeedInv, StreamInv
<1>2. CASE UNCHANGED chan /\ (\A d \in Conns : sock'[d] = "open" => sock[d] = "open"
                                                 /\ (d = c => call[p].op # "fanout"))
  <2>1. FreshInv' /\ SnapshotInv'
    BY <1>c, <1>2 DEF FeedInv, FreshInv, SnapshotInv
  <2>2. StreamInv'
    BY <1>c, <1>2, <1>e, StreamFrame
  <2> QED
    BY <1>1, <2>1, <2>2
<1>3. CASE chan' = [chan EXCEPT ![c] = Append(chan[c], FrameOf(p))] /\ UNCHANGED sock
  <2>1. PICK f \in Frames : f = FrameOf(p)
    BY <1>n, <1>t, FrameType
  <2>2. chan'[c] = Append(chan[c], f) /\ \A d \in Conns \ {c} : chan'[d] = chan[d]
    BY <1>3, <1>t, <2>1 DEF TypeOK
  <2>3. /\ f # Snapshot /\ f.n \in Nat
        /\ call[p].op = "fanout" => f = Message(p, TopicOf(c), sent[p][TopicOf(c)])
        /\ call[p].op # "fanout" => f.n = 0
    BY <1>s, <2>1 DEF FrameOf, Message, Snapshot, Frames
  <2>4. /\ Len(chan[c]) \in Nat /\ DOMAIN chan[c] = 1 .. Len(chan[c])
        /\ DOMAIN chan'[c] = 1 .. (Len(chan[c]) + 1)
        /\ chan'[c][Len(chan[c]) + 1] = f
        /\ \A i \in DOMAIN chan[c] : chan'[c][i] = chan[c][i]
        /\ chan'[c] # <<>> /\ (chan[c] # <<>> => Head(chan'[c]) = Head(chan[c]))
    BY <1>t, <2>2, FrameFacts, AppendFacts
  <2>5. FreshInv'
    <3>1. ASSUME NEW d \in Conns
          PROVE  /\ stage'[d] = "none" => chan'[d] = <<>> /\ ~greeted'[d]
                 /\ d \notin clients' /\ ~chanClosed'[d] => \A i \in DOMAIN chan'[d] : chan'[d][i].n = 0
      <4>1. /\ stage[d] = "none" => chan[d] = <<>> /\ ~greeted[d]
            /\ d \notin clients /\ ~chanClosed[d] => \A i \in DOMAIN chan[d] : chan[d][i].n = 0
        BY DEF FeedInv, FreshInv
      <4>2. CASE d # c
        BY <1>c, <2>2, <4>1, <4>2
      <4>3. CASE d = c
        <5>1. ASSUME c \notin clients, ~chanClosed[c], NEW i \in DOMAIN chan'[c] PROVE chan'[c][i].n = 0
          <6>1. f.n = 0 /\ \A j \in DOMAIN chan[c] : chan[c][j].n = 0
            BY <1>s, <2>3, <4>1, <4>3, <5>1
          <6>2. CASE i = Len(chan[c]) + 1
            BY <2>4, <6>1, <6>2
          <6>3. CASE i \in DOMAIN chan[c]
            BY <2>4, <6>1, <6>3
          <6> QED
            BY <2>4, <6>2, <6>3
        <5> QED
          BY <1>c, <1>s, <4>3, <5>1
      <4> QED
        BY <4>2, <4>3
    <3>2. hub'.at = "register" => hub'.conn \notin clients'
      BY <1>c DEF FeedInv, FreshInv
    <3> QED
      BY <3>1, <3>2 DEF FreshInv
  <2>6. SnapshotInv'
    <3>1. ASSUME NEW d \in Conns, Role[d] = "dashboard", stage[d] # "none"
          PROVE  /\ ~greeted[d] => chan'[d] # <<>> /\ Head(chan'[d]) = Snapshot
                 /\ \A i \in DOMAIN chan'[d] : chan'[d][i] = Snapshot => i = 1 /\ ~greeted[d]
      <4>1. /\ ~greeted[d] => chan[d] # <<>> /\ Head(chan[d]) = Snapshot
            /\ \A i \in DOMAIN chan[d] : chan[d][i] = Snapshot => i = 1 /\ ~greeted[d]
        BY <3>1 DEF FeedInv, SnapshotInv
      <4>2. CASE d # c
        BY <2>2, <4>1, <4>2
      <4>3. CASE d = c
        <5>1. ASSUME NEW i \in DOMAIN chan'[c], chan'[c][i] = Snapshot
              PROVE  i \in DOMAIN chan[c] /\ chan[c][i] = Snapshot
          BY <2>3, <2>4, <5>1
        <5>2. ~greeted[c] => chan'[c] # <<>> /\ Head(chan'[c]) = Snapshot
          BY <2>4, <4>1, <4>3
        <5> QED
          BY <4>1, <4>3, <5>1, <5>2
      <4> QED
        BY <4>2, <4>3
    <3> QED
      BY <1>c, <3>1 DEF SnapshotInv
  <2>7. ASSUME NEW d \in Conns, sock'[d] = "open"
        PROVE  Ordered(d)' /\ \A q \in Procs : \E top \in Nat : Stream(d, q, top)'
    <3>1. CASE d # c
      <4>1. \A q \in Procs : sent[q][TopicOf(d)] <= sent'[q][TopicOf(d)]
        BY <1>c, <1>t, FrameFacts
      <4> QED
        BY <1>3, <1>c, <1>e, <2>2, <2>7, <3>1, <4>1, StreamOther
    <3>2. CASE d = c /\ call[p].op = "fanout"
      <4>1. sent[p][TopicOf(c)] \in Nat
        BY <1>t, FrameFacts
      <4>2. LastEnqueued(c, p) = sent[p][TopicOf(c)] - 1
        BY <1>c, <3>2 DEF LastEnqueued
      <4>3. LastEnqueued(c, p)' = sent[p][TopicOf(c)]
        BY <1>c, <1>r DEF LastEnqueued, TopicOf
      <4>4. f = Message(p, TopicOf(c), LastEnqueued(c, p) + 1) /\ f.n = sent[p][TopicOf(c)]
        BY <2>3, <3>2, <4>1, <4>2 DEF Message
      <4>5. LastEnqueued(c, p)' = LastEnqueued(c, p) + 1
        BY <4>1, <4>2, <4>3
      <4>6. f.n # 0
        <5>1. PICK top \in Nat : Stream(c, p, top)
          BY <1>3, <2>7, <3>2 DEF FeedInv, StreamInv
        <5> QED
          BY <1>s, <3>2, <4>1, <4>2, <4>4, <5>1 DEF Stream
      <4>7. \A q \in Procs : q # p \/ f.n = 0 => LastEnqueued(c, q)' = LastEnqueued(c, q)
        BY <1>e, <4>6
      <4> QED
        BY <1>3, <1>c, <1>s, <2>2, <2>7, <3>2, <4>1, <4>4, <4>5, <4>7, StreamAppend
    <3>3. CASE d = c /\ call[p].op # "fanout"
      <4>1. f.n = 0 /\ \A q \in Procs : LastEnqueued(c, q)' = LastEnqueued(c, q)
        BY <1>e, <2>3, <3>3
      <4>2. ~(f.n > 0)
        BY <4>1
      <4>3. sock[c] = "open" /\ seen'[c] = seen[c] /\ sent' = sent /\ clients' = clients
        BY <1>3, <1>c, <2>7, <3>3
      <4> QED
        BY <2>2, <3>3, <4>1, <4>2, <4>3, StreamAppend
    <3> QED
      BY <3>1, <3>2, <3>3
  <2>8. StreamInv'
    BY <1>b, <2>7 DEF StreamInv, TopicOf
  <2> QED
    BY <1>1, <2>5, <2>6, <2>8
<1>4. CASE chanClosed[c]
  BY <1>2, <1>4, <1>c, <1>s
<1>5. CASE ~chanClosed[c] /\ ~(Len(chan[c]) < SendBuffer)
  <2>1. sock' = [sock EXCEPT ![c] = "closed"] /\ UNCHANGED chan
    BY <1>5, <1>c DEF Enqueue
  <2>2. \A d \in Conns : sock'[d] = "open" => sock[d] = "open" /\ d # c
    BY <1>t, <2>1 DEF TypeOK
  <2> QED
    BY <1>2, <2>1, <2>2
<1>6. CASE ~chanClosed[c] /\ Len(chan[c]) < SendBuffer
  BY <1>3, <1>6, <1>c DEF Enqueue
<1> QED
  BY <1>4, <1>5, <1>6

\* The write pump takes the first frame: it is the next one of its goroutine.
LEMMA StreamHead ==
    ASSUME FeedInv, NEW c \in Conns, chan[c] # <<>>, sock[c] = "open", Head(chan[c]).n > 0
    PROVE  /\ c \in clients \/ chanClosed[c]
           /\ Head(chan[c]).from \in Procs
           /\ Head(chan[c]).n = seen[c][Head(chan[c]).from] + 1
           /\ Head(chan[c]).n <= sent[Head(chan[c]).from][TopicOf(c)]
<1>t. TypeOK
  BY DEF FeedInv, RoutingInv
<1>1. /\ Len(chan[c]) \in Nat \ {0} /\ DOMAIN chan[c] = 1 .. Len(chan[c]) /\ Head(chan[c]) = chan[c][1]
      /\ 1 \in DOMAIN chan[c]
  BY <1>t, FrameFacts, TailFacts
<1>2. chan[c][1].n \in Nat /\ chan[c][1].n > 0
  BY <1>1, <1>t, FrameFacts
<1>3. c \in clients \/ chanClosed[c]
  BY <1>1, <1>2 DEF FeedInv, FreshInv
<1>4. Ordered(c)
  BY DEF FeedInv, StreamInv
<1>5. PICK p \in Procs : p = chan[c][1].from
  BY <1>1, <1>2, <1>4 DEF Ordered
<1>6. PICK top \in Nat : Stream(c, p, top)
  BY DEF FeedInv, StreamInv
<1>7. seen[c][p] \in Nat /\ sent[p][TopicOf(c)] \in Nat
  BY <1>t, FrameFacts
<1>8. /\ seen[c][p] < chan[c][1].n /\ chan[c][1].n <= top
      /\ top <= sent[p][TopicOf(c)]
  BY <1>1, <1>2, <1>5, <1>6 DEF Stream
<1>9. chan[c][1].n = seen[c][p] + 1
  <2> SUFFICES ASSUME chan[c][1].n # seen[c][p] + 1 PROVE FALSE
    OBVIOUS
  <2>1. PICK n \in Nat : n = seen[c][p] + 1
    BY <1>7
  <2>2. seen[c][p] < n /\ n <= top /\ n < chan[c][1].n
    BY <1>2, <1>7, <1>8, <2>1
  <2>3. PICK i \in DOMAIN chan[c] : chan[c][i] = Message(p, TopicOf(c), n)
    BY <1>6, <2>2 DEF Stream
  <2>4. chan[c][i].n = n /\ chan[c][i].from = p /\ n > 0
    BY <1>7, <2>1, <2>3 DEF Message
  <2>5. i # 1
    BY <2>2, <2>4
  <2>6. 1 < i
    BY <1>1, <2>5
  <2>7. chan[c][1].n < chan[c][i].n
    BY <1>1, <1>2, <1>4, <1>5, <2>4, <2>6 DEF Ordered
  <2> QED
    BY <1>2, <2>2, <2>4, <2>7
<1> QED
  BY <1>1, <1>3, <1>5, <1>7, <1>8, <1>9, <1>2

\* The first frame goes; what is written of a goroutine it is not of stays.
LEMMA StreamTail ==
    ASSUME FeedInv, NEW c \in Conns, chan[c] # <<>>, sock[c] = "open",
           chan'[c] = Tail(chan[c]), NEW q \in Procs,
           \/ Head(chan[c]).n = 0 /\ seen'[c][q] = seen[c][q]
           \/ Head(chan[c]).from # q /\ seen'[c][q] = seen[c][q]
           \/ Head(chan[c]).n > 0 /\ Head(chan[c]).from = q /\ seen'[c][q] = Head(chan[c]).n,
           sent' = sent, clients' = clients, call' = call
    PROVE  \E top \in Nat : Stream(c, q, top)'
<1>t. TypeOK
  BY DEF FeedInv, RoutingInv
<1>1. /\ Len(chan[c]) \in Nat \ {0} /\ DOMAIN chan[c] = 1 .. Len(chan[c]) /\ Head(chan[c]) = chan[c][1]
      /\ DOMAIN chan'[c] = 1 .. (Len(chan[c]) - 1)
      /\ \A i \in DOMAIN chan'[c] : chan'[c][i] = chan[c][i + 1]
  BY <1>t, FrameFacts, TailFacts
<1>2. /\ 1 \in DOMAIN chan[c]
      /\ \A i \in DOMAIN chan'[c] : i + 1 \in DOMAIN chan[c] /\ 1 < i + 1
      /\ \A i \in DOMAIN chan[c] : i # 1 => /\ i - 1 \in DOMAIN chan'[c]
                                            /\ chan'[c][i - 1] = chan[c][i]
  BY <1>1
<1>3. \A i \in DOMAIN chan[c] : chan[c][i].n \in Nat
  BY <1>t, FrameFacts
<1>4. PICK top \in Nat : Stream(c, q, top)
  BY DEF FeedInv, StreamInv
<1>5. seen[c][q] \in Nat /\ Ordered(c) /\ sent[q][TopicOf(c)] \in Nat
  BY <1>t, FrameFacts DEF FeedInv, StreamInv
<1>6. LastEnqueued(c, q)' = LastEnqueued(c, q)
  BY DEF LastEnqueued, TopicOf
<1>7. /\ seen[c][q] <= top /\ top <= sent[q][TopicOf(c)]
      /\ c \in clients => top = LastEnqueued(c, q)
  BY <1>4 DEF Stream
<1>8. seen[c][q] <= seen'[c][q] /\ seen'[c][q] <= top
  <2>1. CASE seen'[c][q] = seen[c][q]
    BY <1>5, <1>7, <2>1
  <2>2. CASE Head(chan[c]).n > 0 /\ Head(chan[c]).from = q /\ seen'[c][q] = Head(chan[c]).n
    <3>1. seen[c][q] < chan[c][1].n /\ chan[c][1].n <= top
      BY <1>1, <1>2, <1>4, <2>2 DEF Stream
    <3> QED
      BY <1>1, <1>2, <1>3, <1>5, <2>2, <3>1
  <2> QED
    BY <2>1, <2>2
<1>9. seen'[c][q] \in Nat
  BY <1>1, <1>2, <1>3, <1>5
<1>10. ASSUME NEW n \in Nat, seen'[c][q] < n, n <= top
       PROVE  \E i \in DOMAIN chan'[c] : chan'[c][i] = Message(q, TopicOf(c), n)
  <2>1. seen[c][q] < n
    BY <1>5, <1>8, <1>9, <1>10
  <2>2. PICK i \in DOMAIN chan[c] : chan[c][i] = Message(q, TopicOf(c), n)
    BY <1>4, <1>10, <2>1 DEF Stream
  <2>3. chan[c][i].n = n /\ chan[c][i].from = q /\ n > 0
    BY <1>5, <2>1, <2>2 DEF Message
  <2>4. i # 1
    BY <1>1, <1>9, <1>10, <2>3
  <2> QED
    BY <1>2, <2>2, <2>4
<1>11. ASSUME NEW i \in DOMAIN chan'[c], chan'[c][i].n > 0, chan'[c][i].from = q
       PROVE  /\ chan'[c][i].to = TopicOf(c)
              /\ seen'[c][q] < chan'[c][i].n /\ chan'[c][i].n <= top
  <2>1. PICK j \in DOMAIN chan[c] : j = i + 1 /\ chan'[c][i] = chan[c][j] /\ 1 < j
    BY <1>1, <1>2
  <2>2. /\ chan[c][j].to = TopicOf(c)
        /\ seen[c][q] < chan[c][j].n /\ chan[c][j].n <= top
    BY <1>4, <1>11, <2>1 DEF Stream
  <2>3. CASE seen'[c][q] = seen[c][q]
    BY <2>1, <2>2, <2>3
  <2>4. CASE Head(chan[c]).n > 0 /\ Head(chan[c]).from = q /\ seen'[c][q] = Head(chan[c]).n
    <3>0. /\ 1 \in DOMAIN chan[c] /\ 1 < j /\ chan[c][1].n > 0 /\ chan[c][j].n > 0
          /\ chan[c][1].from = chan[c][j].from
      BY <1>1, <1>2, <1>11, <2>1, <2>4
    <3>1. chan[c][1].n < chan[c][j].n
      BY <1>5, <3>0 DEF Ordered
    <3> QED
      BY <1>1, <2>1, <2>2, <2>4, <3>1
  <2> QED
    BY <2>3, <2>4
<1>12. Stream(c, q, top)'
  BY <1>6, <1>7, <1>8, <1>10, <1>11 DEF Stream, TopicOf
<1> QED
  BY <1>12

LEMMA OrderTail ==
    ASSUME NEW c \in Conns, chan[c] \in Seq(Frames), chan[c] # <<>>, Ordered(c), chan'[c] = Tail(chan[c])
    PROVE  Ordered(c)'
<1>1. /\ Len(chan[c]) \in Nat \ {0} /\ DOMAIN chan[c] = 1 .. Len(chan[c])
      /\ DOMAIN chan'[c] = 1 .. (Len(chan[c]) - 1)
      /\ \A i \in DOMAIN chan'[c] : chan'[c][i] = chan[c][i + 1] /\ i + 1 \in DOMAIN chan[c]
  BY TailFacts
<1>2. ASSUME NEW i \in DOMAIN chan'[c], chan'[c][i].n > 0 PROVE chan'[c][i].from \in Procs
  BY <1>1, <1>2 DEF Ordered
<1>3. ASSUME NEW i \in DOMAIN chan'[c], NEW j \in DOMAIN chan'[c], i < j,
             chan'[c][i].n > 0, chan'[c][j].n > 0, chan'[c][i].from = chan'[c][j].from
      PROVE  chan'[c][i].n < chan'[c][j].n
  <2>1. PICK k \in DOMAIN chan[c] : k = i + 1 /\ chan'[c][i] = chan[c][k]
    BY <1>1
  <2>2. PICK l \in DOMAIN chan[c] : l = j + 1 /\ chan'[c][j] = chan[c][l]
    BY <1>1
  <2>3. k < l
    BY <1>1, <1>3, <2>1, <2>2
  <2> QED
    BY <1>3, <2>1, <2>2, <2>3 DEF Ordered
<1> QED
  BY <1>2, <1>3 DEF Ordered

\* A frame is written.
LEMMA FeedWrite ==
    ASSUME FeedInv, TypeOK', NEW c \in Conns, WriteFrame(c)
    PROVE  FreshInv' /\ CallInv' /\ SnapshotInv' /\ StreamInv'
<1> USE DEF regVars, procVars
<1>t. TypeOK
  BY DEF FeedInv, RoutingInv
<1>1. /\ chan[c] # <<>> /\ sock[c] = "open" /\ chan'[c] = Tail(chan[c])
      /\ greeted'[c] = (greeted[c] \/ Head(chan[c]) = Snapshot)
      /\ \A d \in Conns \ {c} : chan'[d] = chan[d] /\ greeted'[d] = greeted[d]
      /\ UNCHANGED <<clients, hub, stage, sock, chanClosed, call, sent>>
  BY <1>t DEF WriteFrame, TypeOK
<1>2. /\ Len(chan[c]) \in Nat \ {0} /\ DOMAIN chan[c] = 1 .. Len(chan[c]) /\ Head(chan[c]) = chan[c][1]
      /\ DOMAIN chan'[c] = 1 .. (Len(chan[c]) - 1)
      /\ \A i \in DOMAIN chan'[c] : chan'[c][i] = chan[c][i + 1] /\ i + 1 \in DOMAIN chan[c] /\ i + 1 # 1
      /\ Head(chan[c]) \in Frames
  BY <1>1, <1>t, FrameFacts, TailFacts
<1>3. PICK f \in Frames : f = Head(chan[c])
  BY <1>2
<1>n. f.n \in Nat
  BY DEF Frames
<1>4. stage[c] # "none"
  BY <1>1 DEF FeedInv, FreshInv
<1>5. /\ \A d \in Conns \ {c} : seen'[d] = seen[d]
      /\ \A q \in Procs : \/ f.n = 0 /\ seen'[c][q] = seen[c][q]
                          \/ f.from # q /\ seen'[c][q] = seen[c][q]
                          \/ f.n > 0 /\ f.from = q /\ seen'[c][q] = f.n
  <2>1. CASE f.n = 0
    BY <1>3, <2>1 DEF WriteFrame
  <2>2. CASE f.n > 0
    <3>1. f.from \in Procs
      BY <1>1, <1>3, <2>2, StreamHead
    <3>2. seen' = [seen EXCEPT ![c][f.from] = f.n]
      BY <1>3, <2>2 DEF WriteFrame
    <3>3. seen \in [Conns -> [Procs -> Nat]]
      BY <1>t DEF TypeOK
    <3> QED
      BY <2>2, <3>1, <3>2, <3>3
  <2> QED
    BY <1>n, <2>1, <2>2
<1>6. FreshInv'
  <2>1. ASSUME NEW d \in Conns
        PROVE  /\ stage'[d] = "none" => chan'[d] = <<>> /\ ~greeted'[d]
               /\ d \notin clients' /\ ~chanClosed'[d] => \A i \in DOMAIN chan'[d] : chan'[d][i].n = 0
    <3>1. /\ stage[d] = "none" => chan[d] = <<>> /\ ~greeted[d]
          /\ d \notin clients /\ ~chanClosed[d] => \A i \in DOMAIN chan[d] : chan[d][i].n = 0
      BY DEF FeedInv, FreshInv
    <3>2. CASE d # c
      BY <1>1, <3>1, <3>2
    <3>3. CASE d = c
      <4>1. d \notin clients /\ ~chanClosed[d] => \A i \in DOMAIN chan'[d] : chan'[d][i].n = 0
        BY <1>2, <3>1, <3>3
      <4> QED
        BY <1>1, <1>4, <3>3, <4>1
    <3> QED
      BY <3>2, <3>3
  <2>2. hub'.at = "register" => hub'.conn \notin clients'
    BY <1>1 DEF FeedInv, FreshInv
  <2> QED
    BY <2>1, <2>2 DEF FreshInv
<1>7. CallInv'
  BY <1>1 DEF FeedInv, CallInv, TopicOf
<1>8. SnapshotInv'
  <2>1. ASSUME NEW d \in Conns, Role[d] = "dashboard", stage[d] # "none"
        PROVE  /\ ~greeted'[d] => chan'[d] # <<>> /\ Head(chan'[d]) = Snapshot
               /\ \A i \in DOMAIN chan'[d] : chan'[d][i] = Snapshot => i = 1 /\ ~greeted'[d]
    <3>1. /\ ~greeted[d] => chan[d] # <<>> /\ Head(chan[d]) = Snapshot
          /\ \A i \in DOMAIN chan[d] : chan[d][i] = Snapshot => i = 1 /\ ~greeted[d]
      BY <2>1 DEF FeedInv, SnapshotInv
    <3>2. CASE d # c
      BY <1>1, <3>1, <3>2
    <3>3. CASE d = c
      <4>1. greeted'[c]
        BY <1>1, <3>1, <3>3
      <4>2. \A i \in DOMAIN chan'[c] : chan'[c][i] # Snapshot
        BY <1>2, <3>1, <3>3
      <4> QED
        BY <3>3, <4>1, <4>2
    <3> QED
      BY <3>2, <3>3
  <2> QED
    BY <1>1, <2>1 DEF SnapshotInv
<1>9. ASSUME NEW d \in Conns, NEW q \in Procs PROVE seen'[d][q] <= sent'[q][TopicOf(d)]
  <2>1. seen[d][q] <= sent[q][TopicOf(d)]
    BY DEF FeedInv, StreamInv
  <2>2. CASE d # c \/ f.n = 0 \/ f.from # q
    BY <1>1, <1>5, <2>1, <2>2
  <2>3. CASE d = c /\ f.n > 0 /\ f.from = q
    <3>1. f.n <= sent[q][TopicOf(c)]
      BY <1>1, <1>3, <2>3, StreamHead
    <3> QED
      BY <1>1, <1>5, <2>3, <3>1
  <2> QED
    BY <1>n, <2>2, <2>3
<1>10. ASSUME NEW d \in Conns, sock'[d] = "open"
       PROVE  Ordered(d)' /\ \A q \in Procs : \E top \in Nat : Stream(d, q, top)'
  <2>1. CASE d = c
    <3>1. Ordered(c)'
      BY <1>1, <1>t, FrameFacts, OrderTail DEF FeedInv, StreamInv
    <3>2. ASSUME NEW q \in Procs PROVE \E top \in Nat : Stream(c, q, top)'
      BY <1>1, <1>3, <1>5, StreamTail
    <3> QED
      BY <2>1, <3>1, <3>2
  <2>2. CASE d # c
    <3>1. \A q \in Procs : /\ LastEnqueued(d, q)' = LastEnqueued(d, q)
                           /\ sent[q][TopicOf(d)] <= sent'[q][TopicOf(d)]
      BY <1>1, <1>t, FrameFacts DEF LastEnqueued, TopicOf
    <3>2. sock[d] = "open" /\ chan'[d] = chan[d] /\ seen'[d] = seen[d] /\ clients' = clients
      BY <1>1, <1>5, <1>10, <2>2
    <3> QED
      BY <3>1, <3>2, StreamOther
  <2> QED
    BY <2>1, <2>2
<1>11. StreamInv'
  BY <1>9, <1>10 DEF StreamInv, TopicOf
<1> QED
  BY <1>6, <1>7, <1>8, <1>11

\* The unregister case of Run: nothing more is enqueued.
LEMMA FeedUnregister ==
    ASSUME FeedInv, HubUnregister
    PROVE  FreshInv' /\ CallInv' /\ SnapshotInv' /\ StreamInv'
<1> USE DEF histVars, procVars
<1>t. TypeOK
  BY DEF FeedInv, RoutingInv
<1>c. PICK c \in Conns : c = hub.conn
  BY <1>t DEF HubUnregister, Unregister, TypeOK, Select
<1>1. /\ clients' = clients \ {c} /\ hub'.at = "callback"
      /\ chanClosed'[c] = (chanClosed[c] \/ c \in clients)
      /\ \A d \in Conns \ {c} : chanClosed'[d] = chanClosed[d]
      /\ UNCHANGED <<stage, sock, chan, seen, greeted, call, sent>>
  BY <1>c, <1>t DEF HubUnregister, Unregister, TypeOK, Select
<1>2. FreshInv'
  <2>1. ASSUME NEW d \in Conns
        PROVE  /\ stage[d] = "none" => chan[d] = <<>> /\ ~greeted[d]
               /\ d \notin clients' /\ ~chanClosed'[d] => \A i \in DOMAIN chan[d] : chan[d][i].n = 0
    <3>1. d \notin clients' /\ ~chanClosed'[d] => d \notin clients /\ ~chanClosed[d]
      BY <1>1
    <3> QED
      BY <3>1 DEF FeedInv, FreshInv
  <2> QED
    BY <1>1, <2>1 DEF FreshInv
<1>3. CallInv'
  BY <1>1 DEF FeedInv, CallInv, TopicOf
<1>4. SnapshotInv'
  BY <1>1 DEF FeedInv, SnapshotInv
<1>5. \A d \in Conns, p \in Procs : LastEnqueued(d, p)' = LastEnqueued(d, p)
  BY <1>1 DEF LastEnqueued, TopicOf
<1>6. StreamInv'
  BY <1>1, <1>5, StreamFrame
<1> QED
  BY <1>2, <1>3, <1>4, <1>6

\* SendToAgent: the agent it found is one the hub has been handed.
LEMMA FeedSend ==
    ASSUME FeedInv, NEW p \in Procs, NEW m \in Machines, SendToAgent(p, m)
    PROVE  FreshInv' /\ CallInv' /\ SnapshotInv' /\ StreamInv'
<1> USE DEF regVars, connVars, histVars
<1>t. TypeOK /\ Lifecycle /\ RouteIsNewest
  BY DEF FeedInv, RoutingInv
<1>1. /\ agentsByID[m] # NoConn /\ call[p] = Idle
      /\ call'[p] = [op |-> "direct", topic |-> NoTopic, pend |-> {agentsByID[m]}]
      /\ \A q \in Procs \ {p} : call'[q] = call[q]
      /\ UNCHANGED <<clients, hub, stage, sock, chan, chanClosed, seen, greeted, sent>>
  BY <1>t DEF SendToAgent, TypeOK
<1>2. agentsByID[m] \in clients
  BY <1>1, <1>t DEF RouteIsNewest
<1>3. FreshInv'
  BY <1>1 DEF FeedInv, FreshInv
<1>4. CallInv'
  <2>1. ASSUME NEW q \in Procs, NEW d \in call'[q].pend
        PROVE  /\ stage[d] \in {"handed", "done"}
               /\ call'[q].op = "fanout" => call'[q].topic = TopicOf(d)
    <3>1. CASE q = p
      <4>1. d \in clients /\ call'[q].op = "direct"
        BY <1>1, <1>2, <2>1, <3>1
      <4> QED
        BY <1>t, <4>1 DEF Lifecycle
    <3>2. CASE q # p
      BY <1>1, <2>1, <3>2 DEF FeedInv, CallInv
    <3> QED
      BY <3>1, <3>2
  <2> QED
    BY <1>1, <2>1 DEF CallInv, TopicOf
<1>5. SnapshotInv'
  BY <1>1 DEF FeedInv, SnapshotInv
<1>6. ASSUME NEW d \in Conns, NEW q \in Procs PROVE LastEnqueued(d, q)' = LastEnqueued(d, q)
  <2>1. CASE q = p
    <3>1. call[p].op # "fanout" /\ call'[p].op # "fanout"
      BY <1>1 DEF Idle
    <3> QED
      BY <1>1, <2>1, <3>1 DEF LastEnqueued, TopicOf
  <2>2. CASE q # p
    BY <1>1, <2>2 DEF LastEnqueued, TopicOf
  <2> QED
    BY <2>1, <2>2
<1>7. StreamInv'
  BY <1>1, <1>6, StreamFrame
<1> QED
  BY <1>3, <1>4, <1>5, <1>7

LEMMA FeedStep == FeedInv /\ [Next]_vars => FeedInv'
<1> SUFFICES ASSUME FeedInv, [Next]_vars PROVE FeedInv'
  OBVIOUS
<1> DEFINE Parts == FreshInv /\ CallInv /\ SnapshotInv /\ StreamInv
<1> USE DEF regVars, connVars, histVars, procVars
<1>r. RoutingInv' /\ TypeOK' /\ TypeOK /\ Lifecycle
  BY RoutingStep DEF FeedInv, RoutingInv
<1>q. hub.at = "register" => hub.conn \notin clients
  BY DEF FeedInv, FreshInv
<1>1. ASSUME NEW c \in Conns, NewClient(c) PROVE Parts'
  BY <1>1, FeedNewClient
<1>2. ASSUME NEW c \in Conns, HandToHub(c) PROVE Parts'
  <2>1. c \notin clients
    BY <1>2, <1>r DEF HandToHub, Lifecycle
  <2>2. \A d \in Conns : stage'[d] # stage[d] => stage[d] # "none" /\ stage'[d] \in {"handed", "done"}
    BY <1>2, <1>r DEF HandToHub, TypeOK
  <2>3. hub'.conn = c
    BY <1>2 DEF HandToHub
  <2> QED
    BY <1>2, <2>1, <2>2, <2>3, QuietFrame DEF HandToHub
<1>3. ASSUME NEW c \in Conns, StartPumps(c) PROVE Parts'
  <2>1. \A d \in Conns : stage'[d] # stage[d] => stage[d] # "none" /\ stage'[d] \in {"handed", "done"}
    BY <1>3, <1>r DEF StartPumps, TypeOK
  <2> QED
    BY <1>3, <1>q, <2>1, QuietFrame DEF StartPumps
<1>4. ASSUME NEW c \in Conns,
             \/ PeerDrops(c) \/ ReadPumpCloses(c) \/ WriteFails(c) \/ WriteClose(c)
      PROVE  Parts'
  <2>1. sock' = [sock EXCEPT ![c] = "closed"]
    BY <1>4 DEF PeerDrops, ReadPumpCloses, WriteFails, WriteClose
  <2>2. \A d \in Conns : sock'[d] = "open" => sock[d] = "open"
    BY <1>r, <2>1 DEF TypeOK
  <2>3. UNCHANGED <<chan, seen, sent, greeted, clients, chanClosed, call, stage, hub>>
    BY <1>4 DEF PeerDrops, ReadPumpCloses, WriteFails, WriteClose
  <2> QED
    BY <1>q, <2>2, <2>3, QuietFrame
<1>5. ASSUME NEW c \in Conns, ReadFails(c) PROVE Parts'
  BY <1>5, <1>q, QuietFrame DEF ReadFails
<1>6. ASSUME NEW c \in Conns, HandBack(c) PROVE Parts'
  <2>1. hub'.at = "unregister"
    BY <1>6 DEF HandBack
  <2> QED
    BY <1>6, <2>1, QuietFrame DEF HandBack
<1>7. ASSUME NEW c \in Conns, WriteFrame(c) PROVE Parts'
  BY <1>7, <1>r, FeedWrite
<1>8. ASSUME HubRegister PROVE Parts'
  BY <1>8, <1>r, FeedRegister
<1>9. ASSUME HubUnregister PROVE Parts'
  BY <1>9, FeedUnregister
<1>10. ASSUME HubCallbackReturns PROVE Parts'
  <2>1. hub'.at = "select"
    BY <1>10 DEF HubCallbackReturns, Select
  <2> QED
    BY <1>10, <2>1, QuietFrame DEF HubCallbackReturns
<1>11. ASSUME NEW p \in Procs, NEW o \in Orgs, NEW r \in Roles, FanOut(p, o, r) PROVE Parts'
  BY <1>11, <1>r, FeedFanOut
<1>12. ASSUME NEW p \in Procs, NEW m \in Machines, SendToAgent(p, m) PROVE Parts'
  BY <1>12, FeedSend
<1>13. ASSUME NEW p \in Procs, NEW c \in Conns, Deliver(p, c) PROVE Parts'
  BY <1>13, <1>r, FeedDeliver
<1>14. ASSUME UNCHANGED vars PROVE Parts'
  BY <1>14, <1>q, QuietFrame DEF vars
<1>15. Parts'
  BY <1>1, <1>2, <1>3, <1>4, <1>5, <1>6, <1>7, <1>8, <1>9, <1>10, <1>11, <1>12, <1>13, <1>14
     DEF Next, ConnStep, HubStep, ProcStep
<1> QED
  BY <1>15, <1>r DEF FeedInv

\* The invariant above holds of every behaviour of the hub.
THEOREM FeedInductive == Spec => []FeedInv
<1> QED
  BY FeedInit, FeedStep, PTL DEF Spec

\* A dashboard is written nothing before its snapshot, and the snapshot only
\* once (ws.go:44-58), whoever broadcasts while it connects.
THEOREM SnapshotCorrect == Spec => []SnapshotFirst
<1>1. FeedInv => SnapshotFirst
  <2> SUFFICES ASSUME FeedInv, NEW c \in Conns, Role[c] = "dashboard", stage[c] # "none"
               PROVE  IF greeted[c] THEN \A i \in DOMAIN chan[c] : chan[c][i] # Snapshot
                      ELSE chan[c] # <<>> /\ Head(chan[c]) = Snapshot
    BY DEF SnapshotFirst
  <2> QED
    BY DEF FeedInv, SnapshotInv
<1> QED
  BY <1>1, FeedInductive, PTL

\* On an open connection the waiting frames are of the client's topic and go on
\* without a gap, goroutine by goroutine, from what was written (client.go:41-49),
\* for every buffer size and any number of broadcasting goroutines.
THEOREM NoGapCorrect == Spec => []NoGap
<1>1. FeedInv => NoGap
  <2> SUFFICES ASSUME FeedInv, NEW c \in Conns, sock[c] = "open", NEW i \in DOMAIN chan[c],
                      chan[c][i].n > 0
               PROVE  /\ chan[c][i].to = TopicOf(c)
                      /\ \/ chan[c][i].n = seen[c][chan[c][i].from] + 1
                         \/ \E j \in 1 .. i - 1 :
                               chan[c][j] = Message(chan[c][i].from, chan[c][i].to, chan[c][i].n - 1)
    BY DEF NoGap
  <2>t. TypeOK /\ Ordered(c)
    BY DEF FeedInv, RoutingInv, StreamInv
  <2>1. PICK p \in Procs : p = chan[c][i].from
    BY <2>t DEF Ordered
  <2>2. PICK top \in Nat : Stream(c, p, top)
    BY DEF FeedInv, StreamInv
  <2>3. seen[c][p] \in Nat /\ chan[c][i].n \in Nat /\ DOMAIN chan[c] = 1 .. Len(chan[c])
        /\ Len(chan[c]) \in Nat
    BY <2>t, FrameFacts
  <2>4. chan[c][i].to = TopicOf(c) /\ seen[c][p] < chan[c][i].n /\ chan[c][i].n <= top
    BY <2>1, <2>2 DEF Stream
  <2>5. CASE chan[c][i].n # seen[c][p] + 1
    <3>0. PICK k \in Nat, s \in Nat : k = chan[c][i].n /\ s = seen[c][p]
      BY <2>3
    <3>1. PICK n \in Nat : n = chan[c][i].n - 1
      BY <2>3
    <3>2. seen[c][p] < n /\ n <= top /\ n < chan[c][i].n /\ n > 0
      <4>1. s < k /\ k <= top /\ k # s + 1 /\ n = k - 1
        BY <2>4, <2>5, <3>0, <3>1
      <4>2. s < n /\ n <= top /\ n < k /\ n > 0
        BY <4>1
      <4> QED
        BY <3>0, <4>2
    <3>3. PICK j \in DOMAIN chan[c] : chan[c][j] = Message(p, TopicOf(c), n)
      BY <2>2, <3>2 DEF Stream
    <3>4. chan[c][j].n = n /\ chan[c][j].from = p
      BY <3>3 DEF Message
    <3>5. ~(i < j)
      <4> SUFFICES ASSUME i < j PROVE FALSE
        OBVIOUS
      <4>1. chan[c][i].n < chan[c][j].n
        BY <2>t, <2>1, <3>2, <3>4 DEF Ordered
      <4> QED
        BY <2>3, <3>2, <3>4, <4>1
    <3>6. i # j
      BY <2>3, <3>2, <3>4
    <3>7. j \in 1 .. i - 1
      BY <2>3, <3>5, <3>6
    <3> QED
      BY <2>1, <2>4, <3>1, <3>3, <3>7
  <2> QED
    BY <2>1, <2>4, <2>5
<1> QED
  BY <1>1, FeedInductive, PTL

\* A registered client on an open connection has, written or waiting, all that
\* was sent to its topic since it registered (hub.go:91-95).
THEOREM NothingMissingCorrect == Spec => []NothingMissing
<1>1. FeedInv => NothingMissing
  <2> SUFFICES ASSUME FeedInv, NEW c \in clients, NEW p \in Procs, sock[c] = "open"
               PROVE  \/ seen[c][p] = LastEnqueued(c, p)
                      \/ \E i \in DOMAIN chan[c] :
                            chan[c][i] = Message(p, TopicOf(c), LastEnqueued(c, p))
    BY DEF NothingMissing
  <2>t. TypeOK
    BY DEF FeedInv, RoutingInv
  <2>1. c \in Conns
    BY <2>t DEF TypeOK
  <2>2. PICK top \in Nat : Stream(c, p, top)
    BY <2>1 DEF FeedInv, StreamInv
  <2>3. top = LastEnqueued(c, p) /\ seen[c][p] <= top /\ seen[c][p] \in Nat
    BY <2>1, <2>2, <2>t, FrameFacts DEF Stream
  <2>4. CASE seen[c][p] # top
    <3>1. seen[c][p] < top /\ top <= top
      BY <2>3, <2>4
    <3>2. PICK i \in DOMAIN chan[c] : chan[c][i] = Message(p, TopicOf(c), top)
      BY <2>2, <3>1 DEF Stream
    <3> QED
      BY <2>3, <3>2
  <2> QED
    BY <2>3, <2>4
<1> QED
  BY <1>1, FeedInductive, PTL

-----------------------------------------------------------------------------
(***************************************************************************)
(* The refinement. A connection is "none" until it is registered, "live"   *)
(* while its socket is open and "ended" after.                             *)
(***************************************************************************)

Subscription(c) ==
    IF c \notin clients /\ ~chanClosed[c] THEN "none"
    ELSE IF sock[c] = "open" THEN "live" ELSE "ended"

LEMMA FeedStateIs ==
    /\ FeedState  = [c \in Conns |-> Subscription(c)]
    /\ FeedState' = [c \in Conns |-> Subscription(c)']
<1>1. FeedState = [c \in Conns |-> Subscription(c)]
  BY DEF FeedState, Subscription
<1>2. FeedState' = [c \in Conns |-> Subscription(c)']
  BY DEF FeedState, Subscription
<1> QED
  BY <1>1, <1>2

\* Nothing happens to the feed.
LEMMA FeedStutters ==
    ASSUME UNCHANGED <<sent, seen>>, \A c \in Conns : Subscription(c)' = Subscription(c)
    PROVE  UNCHANGED Feed!vars
<1>1. FeedState' = FeedState
  BY FeedStateIs
<1> QED
  BY <1>1 DEF Feed!vars

\* The socket of a connection closes.
LEMMA FeedEnds ==
    ASSUME TypeOK, NEW c \in Conns, sock' = [sock EXCEPT ![c] = "closed"],
           UNCHANGED <<clients, chanClosed, sent, seen>>
    PROVE  [Feed!Next]_(Feed!vars)
<1>1. sock'[c] = "closed" /\ \A d \in Conns \ {c} : sock'[d] = sock[d]
  BY DEF TypeOK
<1>2. \A d \in Conns \ {c} : Subscription(d)' = Subscription(d)
  BY <1>1 DEF Subscription
<1>3. CASE Subscription(c) = "live"
  <2>1. Subscription(c)' = "ended"
    BY <1>1, <1>3 DEF Subscription
  <2>2. FeedState' = [FeedState EXCEPT ![c] = "ended"]
    BY <1>2, <2>1, FeedStateIs
  <2>3. FeedState[c] = "live"
    BY <1>3, FeedStateIs
  <2>4. Feed!End(c)
    BY <2>2, <2>3 DEF Feed!End
  <2> QED
    BY <2>4 DEF Feed!Next
<1>4. CASE Subscription(c) # "live"
  <2>1. Subscription(c)' = Subscription(c)
    BY <1>1, <1>4 DEF Subscription
  <2> QED
    BY <1>2, <2>1, FeedStutters
<1> QED
  BY <1>3, <1>4

\* The register case of Run subscribes the connection.
LEMMA FeedSubscribes ==
    ASSUME FeedInv, HubRegister
    PROVE  Feed!Next
<1> USE DEF connVars, procVars
<1>t. TypeOK /\ Lifecycle
  BY DEF FeedInv, RoutingInv
<1>c. PICK c \in Conns : c = hub.conn
  BY <1>t DEF HubRegister, TypeOK, Select
<1>1. c \notin clients /\ ~chanClosed[c]
  BY <1>t, <1>c DEF HubRegister, Lifecycle, FeedInv, FreshInv
<1>2. /\ clients' = clients \cup {c} /\ UNCHANGED <<sock, chanClosed, sent>>
      /\ seen' = [seen EXCEPT ![c] = [p \in Procs |-> sent[p][TopicOf(c)]]]
  BY <1>c DEF HubRegister
<1>3. Subscription(c) = "none" /\ Subscription(c)' \in {"live", "ended"}
  BY <1>1, <1>2 DEF Subscription
<1>4. \A d \in Conns \ {c} : Subscription(d)' = Subscription(d)
  BY <1>2 DEF Subscription
<1>5. PICK s \in {"live", "ended"} : s = Subscription(c)'
  BY <1>3
<1>6. FeedState' = [FeedState EXCEPT ![c] = s] /\ FeedState[c] = "none"
  BY <1>3, <1>4, <1>5, FeedStateIs
<1>7. Feed!Subscribe(c)
  BY <1>2, <1>6 DEF Feed!Subscribe
<1> QED
  BY <1>7 DEF Feed!Next

\* A broadcast that is written is read by a live subscriber, in order.
LEMMA FeedReads ==
    ASSUME FeedInv, NEW c \in Conns, WriteFrame(c)
    PROVE  [Feed!Next]_(Feed!vars)
<1> USE DEF regVars, procVars
<1>t. TypeOK
  BY DEF FeedInv, RoutingInv
<1>1. chan[c] # <<>> /\ sock[c] = "open" /\ UNCHANGED <<clients, chanClosed, sock, sent>>
  BY DEF WriteFrame
<1>2. \A d \in Conns : Subscription(d)' = Subscription(d)
  BY <1>1 DEF Subscription
<1>3. PICK f : f = Head(chan[c])
  OBVIOUS
<1>4. CASE f.n = 0
  BY <1>1, <1>2, <1>3, <1>4, FeedStutters DEF WriteFrame
<1>5. CASE f.n > 0
  <2>1. /\ c \in clients \/ chanClosed[c]
        /\ f.from \in Procs /\ f.n = seen[c][f.from] + 1 /\ f.n <= sent[f.from][TopicOf(c)]
    BY <1>1, <1>3, <1>5, StreamHead
  <2>2. PICK p \in Procs : p = f.from
    BY <2>1
  <2>3. seen[c][p] \in Nat /\ sent[p][TopicOf(c)] \in Nat
    BY <1>t, FrameFacts
  <2>4. seen[c][p] < sent[p][TopicOf(c)]
    BY <2>1, <2>2, <2>3
  <2>5. seen' = [seen EXCEPT ![c][p] = seen[c][p] + 1]
    <3>1. f.n # 0
      BY <1>5
    <3>2. seen' = [seen EXCEPT ![c][f.from] = f.n]
      BY <1>3, <3>1 DEF WriteFrame
    <3>3. f.from = p /\ f.n = seen[c][p] + 1
      BY <2>1, <2>2
    <3> QED
      BY <3>2, <3>3
  <2>6. FeedState' = FeedState /\ FeedState[c] = "live"
    BY <1>1, <1>2, <2>1, FeedStateIs DEF Subscription
  <2>7. Feed!Read(c, p)
    BY <1>1, <2>4, <2>5, <2>6 DEF Feed!Read
  <2> QED
    BY <2>7 DEF Feed!Next
<1>6. f.n \in Nat
  BY <1>1, <1>3, <1>t, FrameFacts, TailFacts DEF Frames
<1> QED
  BY <1>4, <1>5, <1>6

LEMMA FeedRefines ==
    ASSUME FeedInv, [Next]_vars
    PROVE  [Feed!Next]_(Feed!vars)
<1> USE DEF regVars, connVars, histVars, procVars
<1>t. TypeOK /\ Lifecycle
  BY DEF FeedInv, RoutingInv
<1>1. ASSUME NEW c \in Conns, NewClient(c) PROVE [Feed!Next]_(Feed!vars)
  <2>1. /\ UNCHANGED <<clients, chanClosed, sent, seen>> /\ stage[c] = "none"
        /\ \A d \in Conns \ {c} : sock'[d] = sock[d]
    BY <1>1, <1>t DEF NewClient, TypeOK
  <2>2. c \notin clients /\ ~chanClosed[c]
    BY <1>t, <2>1 DEF Lifecycle
  <2>3. \A d \in Conns : Subscription(d)' = Subscription(d)
    BY <2>1, <2>2 DEF Subscription
  <2> QED
    BY <2>1, <2>3, FeedStutters
<1>2. ASSUME UNCHANGED <<clients, chanClosed, sock, sent, seen>> PROVE [Feed!Next]_(Feed!vars)
  BY <1>2, FeedStutters DEF Subscription
<1>3. ASSUME NEW c \in Conns,
             \/ HandToHub(c) \/ StartPumps(c) \/ ReadFails(c) \/ HandBack(c)
      PROVE  [Feed!Next]_(Feed!vars)
  BY <1>2, <1>3 DEF HandToHub, StartPumps, ReadFails, HandBack
<1>4. ASSUME NEW c \in Conns,
             \/ PeerDrops(c) \/ ReadPumpCloses(c) \/ WriteFails(c) \/ WriteClose(c)
      PROVE  [Feed!Next]_(Feed!vars)
  <2>1. /\ sock' = [sock EXCEPT ![c] = "closed"]
        /\ UNCHANGED <<clients, chanClosed, sent, seen>>
    BY <1>4 DEF PeerDrops, ReadPumpCloses, WriteFails, WriteClose
  <2> QED
    BY <1>t, <2>1, FeedEnds
<1>5. ASSUME NEW c \in Conns, WriteFrame(c) PROVE [Feed!Next]_(Feed!vars)
  BY <1>5, FeedReads
<1>6. ASSUME HubRegister PROVE [Feed!Next]_(Feed!vars)
  BY <1>6, FeedSubscribes
<1>7. ASSUME HubUnregister PROVE [Feed!Next]_(Feed!vars)
  <2>c. PICK c \in Conns : c = hub.conn
    BY <1>7, <1>t DEF HubUnregister, Unregister, TypeOK, Select
  <2>1. /\ clients' = clients \ {c} /\ UNCHANGED <<sock, sent, seen>>
        /\ chanClosed'[c] = (chanClosed[c] \/ c \in clients)
        /\ \A d \in Conns \ {c} : chanClosed'[d] = chanClosed[d]
    BY <1>7, <1>t, <2>c DEF HubUnregister, Unregister, TypeOK
  <2>2. \A d \in Conns : Subscription(d)' = Subscription(d)
    BY <2>1 DEF Subscription
  <2> QED
    BY <2>1, <2>2, FeedStutters
<1>8. ASSUME HubCallbackReturns PROVE [Feed!Next]_(Feed!vars)
  BY <1>2, <1>8 DEF HubCallbackReturns
<1>9. ASSUME NEW p \in Procs, NEW o \in Orgs, NEW r \in Roles, FanOut(p, o, r)
      PROVE  [Feed!Next]_(Feed!vars)
  <2>1. <<o, r>> \in Topics
    BY DEF Topics
  <2>2. /\ sent' = [sent EXCEPT ![p][<<o, r>>] = @ + 1]
        /\ UNCHANGED <<clients, chanClosed, sock, seen>>
    BY <1>9 DEF FanOut, FanOutTo
  <2>3. FeedState' = FeedState
    BY <2>2, FeedStateIs DEF Subscription
  <2>4. Feed!Publish(p, <<o, r>>)
    BY <2>2, <2>3 DEF Feed!Publish
  <2> QED
    BY <2>1, <2>4 DEF Feed!Next
<1>10. ASSUME NEW p \in Procs, NEW m \in Machines, SendToAgent(p, m) PROVE [Feed!Next]_(Feed!vars)
  BY <1>2, <1>10 DEF SendToAgent
<1>11. ASSUME NEW p \in Procs, NEW c \in Conns, Deliver(p, c) PROVE [Feed!Next]_(Feed!vars)
  <2>1. /\ UNCHANGED <<clients, chanClosed, sent, seen>>
        /\ UNCHANGED sock \/ sock' = [sock EXCEPT ![c] = "closed"]
    BY <1>11 DEF Deliver, Enqueue
  <2> QED
    BY <1>2, <1>t, <2>1, FeedEnds
<1>12. CASE UNCHANGED vars
  BY <1>2, <1>12 DEF vars
<1> QED
  BY <1>1, <1>3, <1>4, <1>5, <1>6, <1>7, <1>8, <1>9, <1>10, <1>11, <1>12
     DEF Next, ConnStep, HubStep, ProcStep

\* The hub implements the lossless feed per org of OrgFeed: each client reads,
\* goroutine by goroutine, a contiguous piece of what is sent to its topic from
\* its registration until its socket closes, and nothing after (hub.go, client.go).
THEOREM FeedCorrect == Spec => ImplementsFeed
<1>1. Init => Feed!Init
  <2> SUFFICES ASSUME Init PROVE Feed!Init
    OBVIOUS
  <2>1. \A c \in Conns : Subscription(c) = "none"
    BY DEF Init, Subscription
  <2>2. FeedState = [c \in Conns |-> "none"]
    BY <2>1, FeedStateIs
  <2> QED
    BY <2>2 DEF Init, Feed!Init
<1>2. FeedInv /\ [Next]_vars => [Feed!Next]_(Feed!vars)
  BY FeedRefines
<1> QED
  BY <1>1, <1>2, FeedInductive, PTL DEF Spec, ImplementsFeed, Feed!Spec
=============================================================================
