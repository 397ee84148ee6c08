----------------------------- MODULE MCTimeline -----------------------------
(***************************************************************************)
(* Instances of Timeline for TLC.                                          *)
(***************************************************************************)
EXTENDS Timeline

Perms == Permutations(Conns)

MCPlans ==
    {{"dash", "prune"}, {"dash", "files"}, {"dash", "server"},
     {"server", "commands"}, {"agent", "commands"}, {"network", "commands"},
     {"db", "files"}, {"db", "commands"}}
=============================================================================
