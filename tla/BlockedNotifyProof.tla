------------------------ MODULE BlockedNotifyProof ------------------------
(***************************************************************************)
(* Proofs about the notifier of blocked sessions, for every set of         *)
(* sessions, orgs and devices, every threshold and every lag of the loop.  *)
(***************************************************************************)
EXTENDS BlockedNotify, TLAPS

USE NotifyAssumption

LEMMA LaterType ==
    ASSUME NEW t \in 0 .. Threshold, NEW d \in Nat
    PROVE  /\ Later(t, d) \in 0 .. Threshold /\ t <= Later(t, d)
           /\ t = Threshold => Later(t, d) = Threshold
  BY DEF Later

LEMMA LaterMonotone ==
    ASSUME NEW t \in 0 .. Threshold, NEW u \in 0 .. Threshold, t <= u, NEW d \in Nat
    PROVE  Later(t, d) <= Later(u, d)
  BY DEF Later

-----------------------------------------------------------------------------
(***************************************************************************)
(* Types.                                                                  *)
(***************************************************************************)

LEMMA TypeInit == Init => TypeOK
  BY DEF Init, TypeOK, Statuses, NotHeld

\* What reconcile leaves of the tracker.
LEMMA ReconcileFacts ==
    ASSUME TypeOK, NEW o \in Orgs, Reconcile(o)
    PROVE  /\ toNotify = {} /\ o \in todo /\ todo' = todo \ {o}
           /\ DOMAIN since' = BlockedIn(o) /\ BlockedIn(o) \subseteq Sessions
           /\ \A s \in DOMAIN since' : since'[s] \in 0 .. Threshold
           /\ \A s \in DOMAIN since' : since'[s] = IF s \in DOMAIN since THEN since[s] ELSE 0
           /\ notified' = (notified \cap BlockedIn(o)) \cup Due(o)
           /\ toNotify' = Due(o) /\ Due(o) \subseteq BlockedIn(o) \ notified
           /\ \A s \in Due(o) : since'[s] >= Threshold
           /\ UNCHANGED <<status, seen, subs, expired, held, told>>
<1> USE DEF history
<1>1. /\ toNotify = {} /\ o \in todo /\ todo' = todo \ {o} /\ since' = SinceIn(o)
      /\ notified' = (notified \cap BlockedIn(o)) \cup Due(o) /\ toNotify' = Due(o)
      /\ UNCHANGED <<status, seen, subs, expired, held, told>>
  BY DEF Reconcile, ReconcileWith
<1>2. BlockedIn(o) \subseteq Sessions
  BY DEF BlockedIn
<1>3. /\ DOMAIN since' = BlockedIn(o)
      /\ \A s \in BlockedIn(o) : since'[s] = IF s \in DOMAIN since THEN since[s] ELSE 0
  BY <1>1 DEF SinceIn
<1>4. \A s \in BlockedIn(o) : since'[s] \in 0 .. Threshold
  BY <1>3 DEF TypeOK
<1>5. Due(o) \subseteq BlockedIn(o) \ notified /\ \A s \in Due(o) : since'[s] >= Threshold
  BY <1>1 DEF Due
<1> QED
  BY <1>1, <1>2, <1>3, <1>4, <1>5

\* What a tick leaves of the tracker and the history.
LEMMA TickFacts ==
    ASSUME TypeOK, NEW d \in 1 .. MaxLag, Tick(d)
    PROVE  /\ todo = {} /\ toNotify = {} /\ todo' = Listed /\ seen' = status
           /\ DOMAIN since' = DOMAIN since
           /\ \A s \in DOMAIN since : since'[s] = Later(since[s], d)
           /\ \A s \in Sessions :
                 /\ status[s] # "blocked" => held'[s] = NotHeld /\ told'[s] = 0
                 /\ status[s] = "blocked" => /\ told'[s] = told[s]
                                             /\ held[s] = NotHeld => held'[s] = 0
                                             /\ held[s] # NotHeld => held'[s] = Later(held[s], d)
           /\ held' \in [Sessions -> 0 .. NotHeld] /\ told' \in [Sessions -> 0 .. 2]
           /\ UNCHANGED <<status, notified, toNotify, subs, expired>>
<1>d. d \in Nat
  OBVIOUS
<1>1. /\ todo = {} /\ toNotify = {} /\ todo' = Listed /\ seen' = status
      /\ UNCHANGED <<status, notified, toNotify, subs, expired>>
  BY DEF Tick
<1>2. DOMAIN since' = DOMAIN since /\ \A s \in DOMAIN since : since'[s] = Later(since[s], d)
  BY DEF Tick
<1>3. told' = [s \in Sessions |-> IF status[s] = "blocked" THEN told[s] ELSE 0]
  BY DEF Tick
<1>4. /\ DOMAIN held' = Sessions
      /\ \A s \in Sessions :
            /\ status[s] # "blocked" => held'[s] = NotHeld
            /\ status[s] = "blocked" => /\ held[s] = NotHeld => held'[s] = 0
                                        /\ held[s] # NotHeld => held'[s] = Later(held[s], d)
      /\ held' = [s \in Sessions |-> held'[s]]
  BY DEF Tick
<1>5. ASSUME NEW s \in Sessions PROVE held'[s] \in 0 .. NotHeld
  <2>1. held[s] \in 0 .. NotHeld
    BY DEF TypeOK
  <2>2. CASE held'[s] = Later(held[s], d) /\ held[s] # NotHeld
    <3>1. held[s] \in 0 .. Threshold
      BY <2>1, <2>2 DEF NotHeld
    <3>2. Later(held[s], d) \in 0 .. Threshold
      BY <1>d, <3>1, LaterType
    <3> QED
      BY <2>2, <3>2 DEF NotHeld
  <2>3. CASE held'[s] \in {0, NotHeld}
    BY <2>3 DEF NotHeld
  <2> QED
    BY <1>4, <2>2, <2>3
<1>6. told' \in [Sessions -> 0 .. 2]
  BY <1>3 DEF TypeOK
<1> QED
  BY <1>1, <1>2, <1>3, <1>4, <1>5, <1>6

LEMMA TypeStep == TypeOK /\ [Next]_vars => TypeOK'
<1> SUFFICES ASSUME TypeOK, [Next]_vars PROVE TypeOK'
  OBVIOUS
<1> USE DEF tracker, scan, history
<1>1. ASSUME NEW d \in 1 .. MaxLag, Tick(d) PROVE TypeOK'
  <2>1. Listed \subseteq Orgs
    BY DEF Listed
  <2>2. \A s \in DOMAIN since : Later(since[s], d) \in 0 .. Threshold
    <3>1. d \in Nat
      OBVIOUS
    <3> QED
      BY <3>1, LaterType DEF TypeOK
  <2> QED
    BY <1>1, <2>1, <2>2, TickFacts DEF TypeOK
<1>2. ASSUME NEW o \in Orgs, Reconcile(o) PROVE TypeOK'
  BY <1>2, ReconcileFacts DEF TypeOK
<1>3. ASSUME NEW s \in Sessions, NotifyBlocked(s) PROVE TypeOK'
  <2>1. told' \in [Sessions -> 0 .. 2]
    BY <1>3 DEF NotifyBlocked, TypeOK
  <2>2. subs' \in [Devices -> Orgs \cup {NoOrg}]
    BY <1>3 DEF NotifyBlocked, TypeOK
  <2> QED
    BY <1>3, <2>1, <2>2 DEF NotifyBlocked, TypeOK
<1>4. ASSUME NEW s \in Sessions, NEW st \in Statuses, SetStatus(s, st) PROVE TypeOK'
  BY <1>4 DEF SetStatus, TypeOK
<1>5. ASSUME NEW d \in Devices, NEW o \in Orgs, Subscribe(d, o) PROVE TypeOK'
  BY <1>5 DEF Subscribe, TypeOK
<1>6. ASSUME NEW d \in Devices, Unsubscribe(d) PROVE TypeOK'
  BY <1>6 DEF Unsubscribe, TypeOK
<1>7. ASSUME NEW d \in Devices, Expire(d) PROVE TypeOK'
  BY <1>7 DEF Expire, TypeOK
<1>8. CASE UNCHANGED vars
  BY <1>8 DEF vars, TypeOK
<1> QED
  BY <1>1, <1>2, <1>3, <1>4, <1>5, <1>6, <1>7, <1>8 DEF Next, LoopStep

\* Every variable keeps its type and a notified session is always one that is
\* being timed (blocked_notify.go:29-75), for any number of orgs.
THEOREM NotifyTypes == Spec => []TypeOK
<1> QED
  BY TypeInit, TypeStep, PTL DEF Spec

-----------------------------------------------------------------------------
(***************************************************************************)
(* Once per episode. The tracker is shared by all orgs and reconcile drops *)
(* every session that is not of the org in hand, so the statement needs    *)
(* the sessions to be of one org (notify_two_orgs shows what happens       *)
(* otherwise). Then a session that was told, or is about to be, is found   *)
(* blocked and keeps its mark, and a session with the mark is not due.     *)
(***************************************************************************)

\* A deployment where one org has all the sessions.
OneOrg == \A s, t \in Sessions : OrgOf[s] = OrgOf[t]

MarkInv ==
    /\ todo \subseteq {OrgOf[s] : s \in Sessions}
    /\ \A s \in Sessions :
          /\ told[s] <= 1
          /\ s \in toNotify => told[s] = 0
          /\ told[s] > 0 \/ s \in toNotify => s \in notified /\ seen[s] = "blocked"

LEMMA MarkInit == Init => MarkInv
  BY DEF Init, MarkInv

LEMMA MarkStep ==
    ASSUME OneOrg, TypeOK, MarkInv, [Next]_vars
    PROVE  MarkInv'
<1> USE DEF tracker, scan, history
<1>t. \A s \in Sessions : told[s] \in 0 .. 2
  BY DEF TypeOK
<1>1. ASSUME NEW d \in 1 .. MaxLag, Tick(d) PROVE MarkInv'
  <2>1. Listed \subseteq {OrgOf[s] : s \in Sessions}
    BY DEF Listed
  <2>2. ASSUME NEW s \in Sessions
        PROVE  /\ told'[s] <= 1
               /\ s \in toNotify' => told'[s] = 0
               /\ told'[s] > 0 \/ s \in toNotify' => s \in notified' /\ seen'[s] = "blocked"
    <3>1. told[s] <= 1 /\ (told[s] > 0 => s \in notified)
      BY DEF MarkInv
    <3>2. toNotify' = {} /\ seen' = status /\ notified' = notified
      BY <1>1, TickFacts
    <3>3. CASE status[s] = "blocked"
      <4>1. told'[s] = told[s]
        BY <1>1, <3>3, TickFacts
      <4> QED
        BY <3>1, <3>2, <3>3, <4>1
    <3>4. CASE status[s] # "blocked"
      <4>1. told'[s] = 0
        BY <1>1, <3>4, TickFacts
      <4> QED
        BY <3>2, <4>1
    <3> QED
      BY <3>3, <3>4
  <2> QED
    BY <1>1, <2>1, <2>2, TickFacts DEF MarkInv
<1>2. ASSUME NEW o \in Orgs, Reconcile(o) PROVE MarkInv'
  <2>1. \A s \in Sessions : OrgOf[s] = o
    BY <1>2, ReconcileFacts DEF MarkInv, OneOrg
  <2>2. \A s \in Sessions : s \in BlockedIn(o) <=> seen[s] = "blocked"
    BY <2>1 DEF BlockedIn
  <2>3. ASSUME NEW s \in Sessions
        PROVE  /\ told[s] <= 1
               /\ s \in Due(o) => told[s] = 0
               /\ told[s] > 0 \/ s \in Due(o) => s \in notified' /\ seen[s] = "blocked"
    <3>1. told[s] <= 1 /\ (told[s] > 0 => s \in notified /\ seen[s] = "blocked")
      BY DEF MarkInv
    <3>2. s \in Due(o) => s \notin notified /\ s \in notified' /\ seen[s] = "blocked"
      BY <1>2, <2>2, ReconcileFacts
    <3>3. told[s] > 0 => s \in notified'
      BY <1>2, <2>2, <3>1, ReconcileFacts
    <3>4. s \in Due(o) => ~(told[s] > 0)
      BY <3>1, <3>2
    <3>5. told[s] \in Nat
      BY <1>t
    <3> QED
      BY <3>1, <3>2, <3>3, <3>4, <3>5
  <2>4. /\ todo' \subseteq todo /\ toNotify' = Due(o) /\ UNCHANGED <<seen, told>>
    BY <1>2, ReconcileFacts
  <2> QED
    BY <2>3, <2>4 DEF MarkInv
<1>3. ASSUME NEW s \in Sessions, NotifyBlocked(s) PROVE MarkInv'
  <2>1. /\ s \in toNotify /\ toNotify' = toNotify \ {s} /\ UNCHANGED <<todo, seen, notified>>
    BY <1>3 DEF NotifyBlocked
  <2>2. told[s] = 0 /\ s \in notified /\ seen[s] = "blocked"
    BY <2>1 DEF MarkInv
  <2>3. told'[s] = 1 /\ \A t \in Sessions \ {s} : told'[t] = told[t]
    BY <1>3, <2>2 DEF NotifyBlocked, TypeOK
  <2> QED
    BY <2>1, <2>2, <2>3 DEF MarkInv
<1>4. ASSUME UNCHANGED <<todo, seen, notified, toNotify, told>> PROVE MarkInv'
  BY <1>4 DEF MarkInv
<1>5. ASSUME \/ \E s \in Sessions, st \in Statuses : SetStatus(s, st)
             \/ \E d \in Devices : Unsubscribe(d) \/ Expire(d) \/ \E o \in Orgs : Subscribe(d, o)
             \/ UNCHANGED vars
      PROVE  MarkInv'
  BY <1>4, <1>5 DEF SetStatus, Unsubscribe, Expire, Subscribe, vars
<1> QED
  BY <1>1, <1>2, <1>3, <1>5 DEF Next, LoopStep

\* "Each session is notified once per blocked episode" (docs/DEPLOYMENT.md:252)
\* is true of blocked_notify.go:29-75 where one org has all the sessions, however
\* many there are and however late the loop scans.
THEOREM OnceCorrect ==
    ASSUME OneOrg
    PROVE  Spec => []OncePerEpisode
<1>1. Init => TypeOK /\ MarkInv
  BY TypeInit, MarkInit
<1>2. TypeOK /\ MarkInv /\ [Next]_vars => (TypeOK /\ MarkInv)'
  BY TypeStep, MarkStep
<1>3. MarkInv => OncePerEpisode
  BY DEF MarkInv, OncePerEpisode
<1> QED
  BY <1>1, <1>2, <1>3, PTL DEF Spec

-----------------------------------------------------------------------------
(***************************************************************************)
(* Never early. A tick that finds no session at all reconciles no org, and *)
(* the tracker goes on timing an episode that is over: the statement needs *)
(* a session that is always listed. Then whatever is still timed when a    *)
(* scan is over was found blocked by that scan, and is timed for no longer *)
(* than it has been found blocked. The number of orgs does not matter.     *)
(***************************************************************************)

TimeInv ==
    /\ \A s \in Pinned : status[s] # "gone"
    /\ \A s \in Sessions : held[s] # NotHeld <=> seen[s] = "blocked"
    /\ \A s \in DOMAIN since : \/ seen[s] = "blocked" /\ since[s] <= held[s]
                               \/ seen[s] # "blocked" /\ todo # {}
    /\ NeverEarly

LEMMA TimeInit == Init => TimeInv
  BY DEF Init, TimeInv, NeverEarly

LEMMA TimeStep ==
    ASSUME Pinned # {}, TypeOK, TimeInv, [Next]_vars
    PROVE  TimeInv'
<1> USE DEF tracker, scan, history
<1>t. /\ \A s \in Sessions : held[s] \in 0 .. NotHeld /\ told[s] \in 0 .. 2
      /\ \A s \in DOMAIN since : s \in Sessions /\ since[s] \in 0 .. Threshold
      /\ \A s \in Sessions : held[s] # NotHeld => held[s] \in 0 .. Threshold
      /\ NotHeld # 0 /\ NotHeld \notin 0 .. Threshold
  BY DEF TypeOK, NotHeld
<1>1. ASSUME NEW d \in 1 .. MaxLag, Tick(d) PROVE TimeInv'
  <2>d. d \in Nat
    OBVIOUS
  <2>1. Listed # {}
    <3>1. PICK s \in Pinned : TRUE
      OBVIOUS
    <3>2. s \in Sessions /\ status[s] # "gone"
      BY DEF TimeInv
    <3> QED
      BY <3>2 DEF Listed
  <2>2. ASSUME NEW s \in Sessions PROVE held'[s] # NotHeld <=> seen'[s] = "blocked"
    <3>1. CASE status[s] # "blocked"
      BY <1>1, <3>1, TickFacts
    <3>2. CASE status[s] = "blocked" /\ held[s] = NotHeld
      BY <1>1, <1>t, <3>2, TickFacts
    <3>3. CASE status[s] = "blocked" /\ held[s] # NotHeld
      <4>1. held'[s] \in 0 .. Threshold
        <5>1. held[s] \in 0 .. Threshold /\ held'[s] = Later(held[s], d)
          BY <1>1, <1>t, <3>3, TickFacts
        <5> QED
          BY <2>d, <5>1, LaterType
      <4> QED
        BY <1>1, <1>t, <3>3, <4>1, TickFacts
    <3> QED
      BY <3>1, <3>2, <3>3
  <2>3. ASSUME NEW s \in DOMAIN since'
        PROVE  \/ seen'[s] = "blocked" /\ since'[s] <= held'[s]
               \/ seen'[s] # "blocked" /\ todo' # {}
    <3>1. s \in DOMAIN since /\ s \in Sessions /\ since[s] \in 0 .. Threshold
      BY <1>1, <1>t, <2>3, TickFacts
    <3>2. seen[s] = "blocked" /\ since[s] <= held[s]
      BY <1>1, <3>1, TickFacts DEF TimeInv
    <3>3. held[s] # NotHeld /\ held[s] \in 0 .. Threshold
      BY <1>t, <3>1, <3>2 DEF TimeInv
    <3>4. Later(since[s], d) <= Later(held[s], d)
      BY <3>1, <3>2, <3>3, LaterMonotone
    <3>5. CASE status[s] = "blocked"
      BY <1>1, <3>1, <3>3, <3>4, <3>5, TickFacts
    <3>6. CASE status[s] # "blocked"
      BY <1>1, <2>1, <3>6, TickFacts
    <3> QED
      BY <3>5, <3>6
  <2>4. ASSUME NEW s \in Sessions, told'[s] > 0 \/ s \in toNotify' PROVE held'[s] = Threshold
    <3>1. s \notin toNotify' /\ told'[s] > 0
      BY <1>1, <2>4, TickFacts
    <3>2. status[s] = "blocked" /\ told[s] > 0
      BY <1>1, <3>1, TickFacts
    <3>3. held[s] = Threshold /\ Threshold # NotHeld
      BY <1>t, <3>2 DEF TimeInv, NeverEarly
    <3>4. held'[s] = Later(Threshold, d)
      BY <1>1, <3>2, <3>3, TickFacts
    <3> QED
      BY <2>d, <3>4, LaterType
  <2>5. \A s \in Pinned : status'[s] # "gone"
    BY <1>1, TickFacts DEF TimeInv
  <2> QED
    BY <2>2, <2>3, <2>4, <2>5 DEF TimeInv, NeverEarly
<1>2. ASSUME NEW o \in Orgs, Reconcile(o) PROVE TimeInv'
  <2>1. ASSUME NEW s \in DOMAIN since' PROVE seen'[s] = "blocked" /\ since'[s] <= held'[s]
    <3>1. s \in Sessions /\ seen[s] = "blocked"
      <4>1. s \in BlockedIn(o)
        BY <1>2, <2>1, ReconcileFacts
      <4> QED
        BY <4>1 DEF BlockedIn
    <3>2. held[s] \in 0 .. Threshold
      BY <1>t, <3>1 DEF TimeInv
    <3>3. CASE s \in DOMAIN since
      BY <1>2, <2>1, <3>1, <3>3, ReconcileFacts DEF TimeInv
    <3>4. CASE s \notin DOMAIN since
      BY <1>2, <2>1, <3>1, <3>2, <3>4, ReconcileFacts
    <3> QED
      BY <3>3, <3>4
  <2>2. ASSUME NEW s \in Sessions, s \in toNotify' PROVE held'[s] = Threshold
    <3>1. s \in DOMAIN since' /\ since'[s] >= Threshold /\ since'[s] \in 0 .. Threshold
      BY <1>2, <2>2, ReconcileFacts
    <3>2. since'[s] <= held[s] /\ seen[s] = "blocked"
      BY <1>2, <2>1, <3>1, ReconcileFacts
    <3>3. held[s] \in 0 .. Threshold
      BY <1>t, <3>2 DEF TimeInv
    <3> QED
      BY <1>2, <3>1, <3>2, <3>3, ReconcileFacts
  <2>3. UNCHANGED <<status, seen, held, told>>
    BY <1>2, ReconcileFacts
  <2>4. NeverEarly'
    BY <2>2, <2>3 DEF TimeInv, NeverEarly
  <2> QED
    BY <2>1, <2>3, <2>4 DEF TimeInv
<1>3. ASSUME NEW s \in Sessions, NotifyBlocked(s) PROVE TimeInv'
  <2>1. /\ s \in toNotify /\ toNotify' \subseteq toNotify
        /\ UNCHANGED <<status, since, todo, seen, held>>
        /\ \A t \in Sessions \ {s} : told'[t] = told[t]
    BY <1>3 DEF NotifyBlocked, TypeOK
  <2>2. NeverEarly'
    BY <2>1 DEF TimeInv, NeverEarly
  <2> QED
    BY <2>1, <2>2 DEF TimeInv
<1>4. ASSUME NEW s \in Sessions, NEW st \in Statuses, SetStatus(s, st) PROVE TimeInv'
  <2>1. \A t \in Pinned : status'[t] # "gone"
    BY <1>4 DEF SetStatus, TimeInv, TypeOK
  <2> QED
    BY <1>4, <2>1 DEF SetStatus, TimeInv, NeverEarly
<1>5. ASSUME UNCHANGED <<status, since, todo, seen, held, told, toNotify>> PROVE TimeInv'
  BY <1>5 DEF TimeInv, NeverEarly
<1>6. ASSUME \/ \E d \in Devices : Unsubscribe(d) \/ Expire(d) \/ \E o \in Orgs : Subscribe(d, o)
             \/ UNCHANGED vars
      PROVE  TimeInv'
  BY <1>5, <1>6 DEF Unsubscribe, Expire, Subscribe, vars
<1> QED
  BY <1>1, <1>2, <1>3, <1>4, <1>6 DEF Next, LoopStep

\* No notification before the scans have found the session blocked for the whole
\* threshold (docs/DEPLOYMENT.md:231, blocked_notify.go:60-70), for any number of
\* orgs, as long as some session is listed at every tick.
THEOREM NeverEarlyCorrect ==
    ASSUME Pinned # {}
    PROVE  Spec => []NeverEarly
<1>1. Init => TypeOK /\ TimeInv
  BY TypeInit, TimeInit
<1>2. TypeOK /\ TimeInv /\ [Next]_vars => (TypeOK /\ TimeInv)'
  BY TypeStep, TimeStep
<1>3. TimeInv => NeverEarly
  BY DEF TimeInv
<1> QED
  BY <1>1, <1>2, <1>3, PTL DEF Spec
=============================================================================
