----------------------------- MODULE MCJobQueue -----------------------------
(***************************************************************************)
(* The execution queue on small instances.                                 *)
(***************************************************************************)
EXTENDS JobQueueProperties, TLC

\* Workers are interchangeable threads.
WorkerSymmetry == Permutations(Workers)
=============================================================================
