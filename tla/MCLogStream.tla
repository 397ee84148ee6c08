---------------------------- MODULE MCLogStream ----------------------------
(***************************************************************************)
(* Instances of LogStream for TLC.                                         *)
(***************************************************************************)
EXTENDS LogStream

MCPlans == {{"page","refuse","prune"},{"page","drops"},{"network"},{"rotate","delete"},
            {"agent","older"},{"poll"}}
=============================================================================
