------------------------------ MODULE OrgFeed ------------------------------
(***************************************************************************)
(* What the hub promises its clients, without locks, channels or pumps.    *)
(* A topic is the clients of one role in one org. Each goroutine numbers   *)
(* what it sends to a topic; a subscriber of the topic reads, per          *)
(* goroutine, exactly the messages after the one that was last when it     *)
(* subscribed, one by one, until its subscription ends for good. Messages  *)
(* of different goroutines may reach two subscribers in different orders.  *)
(***************************************************************************)
EXTENDS Naturals

CONSTANTS Conns, Procs, Topics, TopicOf(_)

VARIABLES
    state,   \* a connection is "none", "live" or "ended"
    sent,    \* messages each goroutine has sent to each topic
    seen     \* last message of each goroutine a connection has read

vars == <<state, sent, seen>>

Init ==
    /\ state = [c \in Conns |-> "none"]
    /\ sent = [p \in Procs |-> [t \in Topics |-> 0]]
    /\ seen = [c \in Conns |-> [p \in Procs |-> 0]]

Publish(p, t) ==
    /\ sent' = [sent EXCEPT ![p][t] = @ + 1]
    /\ UNCHANGED <<state, seen>>

\* A connection may be dead already when it is subscribed.
Subscribe(c) ==
    /\ state[c] = "none"
    /\ \E s \in {"live", "ended"} : state' = [state EXCEPT ![c] = s]
    /\ seen' = [seen EXCEPT ![c] = [p \in Procs |-> sent[p][TopicOf(c)]]]
    /\ UNCHANGED sent

Read(c, p) ==
    /\ state[c] = "live"
    /\ seen[c][p] < sent[p][TopicOf(c)]
    /\ seen' = [seen EXCEPT ![c][p] = @ + 1]
    /\ UNCHANGED <<state, sent>>

End(c) ==
    /\ state[c] = "live"
    /\ state' = [state EXCEPT ![c] = "ended"]
    /\ UNCHANGED <<sent, seen>>

Next ==
    \/ \E p \in Procs, t \in Topics : Publish(p, t)
    \/ \E c \in Conns : Subscribe(c) \/ End(c)
    \/ \E c \in Conns, p \in Procs : Read(c, p)

Spec == Init /\ [][Next]_vars
=============================================================================
