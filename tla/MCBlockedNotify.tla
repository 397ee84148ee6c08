-------------------------- MODULE MCBlockedNotify --------------------------
(***************************************************************************)
(* Instances of BlockedNotify for TLC: s1 and s2 share the org o1, s3 is   *)
(* the only session of o2.                                                 *)
(***************************************************************************)
EXTENDS BlockedNotify

CONSTANTS s1, s2, s3, o1, o2

MCOrgOf == [s \in Sessions |-> IF s = s3 THEN o2 ELSE o1]
=============================================================================
