---------------------------- MODULE MCEnrollment ----------------------------
(***************************************************************************)
(* Instances of Enrollment for TLC: a token of each of two orgs.           *)
(***************************************************************************)
EXTENDS Enrollment, TLC

CONSTANTS t1, t2, o1, o2

MCTokenOrg == [t \in Tokens |-> IF t = t1 THEN o1 ELSE o2]

\* With requests that overlap only what OneKeyPerToken says is promised, and a
\* store that may fail includes the behaviours of one that does not.
MCModes == {d \in AllModes : d.overlap => d.serial /\ d.fails}
MCReqSymmetry == Permutations(Reqs)
=============================================================================
