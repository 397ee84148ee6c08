----------------------------- MODULE MCTenancy -----------------------------
(***************************************************************************)
(* Instances of Tenancy for TLC.                                           *)
(***************************************************************************)
EXTENDS Tenancy, TLC

\* ADMIN_EMAIL and the default org are told apart; ids and requests are not.
MCSymmetry == Permutations(Ids) \cup Permutations(Reqs)
=============================================================================
