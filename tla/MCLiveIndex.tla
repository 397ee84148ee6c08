---------------------------- MODULE MCLiveIndex ----------------------------
(***************************************************************************)
(* Instances of LiveIndex for TLC: one machine, two connection slots for   *)
(* its agent.                                                              *)
(***************************************************************************)
EXTENDS LiveIndex, TLC

CONSTANT m1

MCMachineOf == [s \in Sessions |-> m1]
MCSlotSymmetry == Permutations(Conns)
MCAgentOf == [c \in Conns |-> m1]

\* Safety: what may happen to the agent and its machine, with overlapping
\* connections; to an open dashboard; to one that is seeded over REST.
MCSafety ==
    {{"network", "overlap", "delete"},
     {"agent", "server", "browser", "dashboard"},
     {"rest", "browser", "dashboard"}}

MCRestart == {{"overlap", "agent", "server"}}
=============================================================================
