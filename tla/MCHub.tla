------------------------------- MODULE MCHub -------------------------------
(***************************************************************************)
(* Instances of Hub for TLC. The two agent connections are of one machine: *)
(* a reconnect whose first connection has not been unregistered yet. The   *)
(* dashboard is of the same org; another org is one nobody is connected    *)
(* for, whose messages must reach nobody.                                  *)
(***************************************************************************)
EXTENDS Hub

CONSTANTS d1, m1, o1

MCRole == [c \in Conns |-> IF c = d1 THEN "dashboard" ELSE "agent"]
MCOrgOf == [c \in Conns |-> o1]
MCMachineOf == [c \in Conns |-> IF c = d1 THEN NoMachine ELSE m1]

\* How often each goroutine broadcasts to dashboards and to agents.
MCBothOnce == [r \in Roles |-> 1]
MCDashTwice == [r \in Roles |-> IF r = "dashboard" THEN 2 ELSE 0]
=============================================================================
