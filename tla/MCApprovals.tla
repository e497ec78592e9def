---------------------------- MODULE MCApprovals ----------------------------
(***************************************************************************)
(* Approvals on small instances.                                           *)
(***************************************************************************)
EXTENDS Approvals, TLC

\* Submissions are interchangeable: each may want any approval.
SubSymmetry == Permutations(Subs)
=============================================================================
