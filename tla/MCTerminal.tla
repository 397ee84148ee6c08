----------------------------- MODULE MCTerminal -----------------------------
(***************************************************************************)
(* Instances of Terminal for TLC. Dashboards are interchangeable, and so   *)
(* are the streams of the agent.                                           *)
(***************************************************************************)
EXTENDS Terminal, TLC

\* Bound: a behaviour is followed until both a failure and an overlap happened.
MCBound == overlap = {} \/ faults = 0

MCSymmetry == Permutations(Browsers) \cup Permutations(Streams)
=============================================================================
