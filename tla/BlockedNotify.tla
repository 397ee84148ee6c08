--------------------------- MODULE BlockedNotify ---------------------------
(***************************************************************************)
(* The notifier of blocked sessions: internal/server/blocked_notify.go,    *)
(* and AllSessions of internal/state/manager.go, which it scans.           *)
(*                                                                         *)
(* Every tick the loop copies the sessions of every org, and reconciles    *)
(* one tracker with one org after the other, in map order; sessions change *)
(* meanwhile, and a notification takes as long as the push service takes.  *)
(* Time is kept as the time since an instant, up to Threshold: the code    *)
(* only ever asks whether the threshold has passed.                        *)
(***************************************************************************)
EXTENDS Naturals, FiniteSets

CONSTANTS
    Sessions, Orgs,
    OrgOf,       \* OrgOf[s]: the org of a session
    Pinned,      \* sessions that never end
    Devices,     \* push subscriptions a browser may make
    NoOrg,       \* of a device without a subscription
    Threshold,   \* BlockedNotifySeconds, in ticker periods, rounded up
    MaxLag       \* bound: periods between two scans

ASSUME NotifyAssumption ==
    /\ OrgOf \in [Sessions -> Orgs]
    /\ Pinned \subseteq Sessions
    /\ NoOrg \notin Orgs
    /\ Threshold \in Nat \ {0} /\ MaxLag \in Nat \ {0}

Statuses == {"gone", "running", "blocked"}

VARIABLES
    status,     \* the session in the live index; "gone": not listed
    since,      \* blockedTracker.since, as time passed; its domain is tracked
    notified,   \* blockedTracker.notified
    todo,       \* orgs of this tick's scan that are still to be reconciled
    seen,       \* the copies AllSessions returned
    toNotify,   \* what reconcile returned and is not notified yet
    subs,       \* push_subscriptions: the org a device is subscribed for
    expired,    \* devices the push service has forgotten
    held,       \* history: for how long every scan has found s blocked
    told        \* history: notifications since then, up to 2

tracker == <<since, notified>>
scan == <<todo, seen, toNotify>>
history == <<held, told>>
vars == <<status, since, notified, todo, seen, toNotify, subs, expired, held, told>>

NotHeld == Threshold + 1
Later(t, d) == IF t + d < Threshold THEN t + d ELSE Threshold

Init ==
    /\ status = [s \in Sessions |-> "running"]
    /\ since = [s \in {} |-> 0]
    /\ notified = {}
    /\ todo = {}
    /\ seen = [s \in Sessions |-> "gone"]
    /\ toNotify = {}
    /\ subs = [d \in Devices |-> NoOrg]
    /\ expired = {}
    /\ held = [s \in Sessions |-> NotHeld]
    /\ told = [s \in Sessions |-> 0]

-----------------------------------------------------------------------------
\* UpsertSession, RemoveSession and RemoveMachineSessions.
SetStatus(s, st) ==
    /\ st # status[s]
    /\ s \in Pinned => st # "gone"
    /\ status' = [status EXCEPT ![s] = st]
    /\ UNCHANGED <<tracker, scan, subs, expired, history>>

\* SavePushSubscription: a device that subscribes again moves to the new org.
Subscribe(d, o) ==
    /\ d \notin expired
    /\ subs' = [subs EXCEPT ![d] = o]
    /\ UNCHANGED <<status, tracker, scan, expired, history>>

\* DeletePushSubscription, on the user's demand.
Unsubscribe(d) ==
    /\ subs' = [subs EXCEPT ![d] = NoOrg]
    /\ UNCHANGED <<status, tracker, scan, expired, history>>

\* The push service forgets a device.
Expire(d) ==
    /\ d \notin expired
    /\ expired' = expired \cup {d}
    /\ UNCHANGED <<status, tracker, scan, subs, history>>

\* Orgs AllSessions returns: it leaves out an org without sessions.
Listed == {OrgOf[s] : s \in {t \in Sessions : status[t] # "gone"}}

\* The ticker fires, d periods after the last scan, and the sessions are copied.
Tick(d) ==
    /\ todo = {} /\ toNotify = {}
    /\ todo' = Listed
    /\ seen' = status
    /\ since' = [s \in DOMAIN since |-> Later(since[s], d)]
    /\ held' = [s \in Sessions |-> IF status[s] # "blocked" THEN NotHeld
                                  ELSE IF held[s] = NotHeld THEN 0
                                  ELSE Later(held[s], d)]
    /\ told' = [s \in Sessions |-> IF status[s] = "blocked" THEN told[s] ELSE 0]
    /\ UNCHANGED <<status, notified, toNotify, subs, expired>>

\* The sessions of an org that the scan found blocked.
BlockedIn(o) == {s \in Sessions : OrgOf[s] = o /\ seen[s] = "blocked"}

\* blockedTracker.since when the threshold is compared.
SinceIn(o) == [s \in BlockedIn(o) |-> IF s \in DOMAIN since THEN since[s] ELSE 0]

ReconcileWith(o, newSince, newNotified, due) ==
    /\ toNotify = {}
    /\ o \in todo
    /\ todo' = todo \ {o}
    /\ since' = newSince
    /\ notified' = newNotified
    /\ toNotify' = due
    /\ UNCHANGED <<status, seen, subs, expired, history>>

Due(o) == {s \in BlockedIn(o) \ notified : SinceIn(o)[s] >= Threshold}

\* Mutant: the session is not marked as notified.
Reconcile_NoMark(o) == ReconcileWith(o, SinceIn(o), notified \cap BlockedIn(o), Due(o))

\* Mutant: an unblocked session keeps its mark.
Reconcile_KeepMark(o) == ReconcileWith(o, SinceIn(o), notified \cup Due(o), Due(o))

\* Mutant: an unblocked session keeps the instant it was first blocked.
Reconcile_KeepSince(o) ==
    ReconcileWith(o, [s \in DOMAIN since \cup BlockedIn(o) |->
                        IF s \in DOMAIN since THEN since[s] ELSE 0],
                  (notified \cap BlockedIn(o)) \cup Due(o), Due(o))

\* blockedTracker.reconcile for one org: a session of the list that is not
\* blocked, and every tracked session that is not in the list, is dropped from
\* both maps; what is left is the blocked sessions of this org.
Reconcile(o) ==
    ReconcileWith(o, SinceIn(o), (notified \cap BlockedIn(o)) \cup Due(o), Due(o))

\* notifyBlocked: a device the push service has forgotten loses its row; when
\* the subscriptions cannot be listed nothing is sent. Nothing is retried.
NotifyBlocked(s) ==
    /\ s \in toNotify
    /\ toNotify' = toNotify \ {s}
    /\ told' = [told EXCEPT ![s] = IF @ < 2 THEN @ + 1 ELSE @]
    /\ \/ subs' = [d \in Devices |-> IF d \in expired /\ subs[d] = OrgOf[s]
                                     THEN NoOrg ELSE subs[d]]
       \/ UNCHANGED subs
    /\ UNCHANGED <<status, tracker, todo, seen, expired, held>>

-----------------------------------------------------------------------------
LoopStep ==
    \/ \E d \in 1 .. MaxLag : Tick(d)
    \/ \E o \in Orgs : Reconcile(o)
    \/ \E s \in Sessions : NotifyBlocked(s)

Next ==
    \/ LoopStep
    \/ \E s \in Sessions, st \in Statuses : SetStatus(s, st)
    \/ \E d \in Devices : Unsubscribe(d) \/ Expire(d) \/ \E o \in Orgs : Subscribe(d, o)

Spec == Init /\ [][Next]_vars

\* The loop runs for ever; a push returns.
FairSpec == Spec /\ WF_vars(LoopStep)

-----------------------------------------------------------------------------
\* Every variable has its type, and the two maps of the tracker agree: a
\* session that has been notified is one whose episode is being timed.
TypeOK ==
    /\ status \in [Sessions -> Statuses] /\ seen \in [Sessions -> Statuses]
    /\ DOMAIN since \subseteq Sessions
    /\ \A s \in DOMAIN since : since[s] \in 0 .. Threshold
    /\ notified \subseteq DOMAIN since
    /\ todo \subseteq Orgs
    /\ toNotify \subseteq Sessions
    /\ subs \in [Devices -> Orgs \cup {NoOrg}] /\ expired \subseteq Devices
    /\ held \in [Sessions -> 0 .. NotHeld]
    /\ told \in [Sessions -> 0 .. 2]

\* "Each session is notified once per blocked episode" (docs/DEPLOYMENT.md:252):
\* as long as every scan finds it blocked it is not notified twice.
OncePerEpisode == \A s \in Sessions : told[s] <= 1

\* "When a session stays blocked longer than MC_BLOCKED_NOTIFY_SECONDS"
\* (docs/DEPLOYMENT.md:231): no notification before the session has been found
\* blocked for that long, whatever it was before.
NeverEarly ==
    \A s \in Sessions : told[s] > 0 \/ s \in toNotify => held[s] = Threshold

\* ...and one that stays blocked is notified (blocked_notify.go:66).
EventuallyTold ==
    \A s \in Sessions : <>[](status[s] = "blocked") => <>[](told[s] > 0)
=============================================================================
