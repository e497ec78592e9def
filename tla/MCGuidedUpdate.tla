--------------------------- MODULE MCGuidedUpdate ---------------------------
(***************************************************************************)
(* GuidedUpdate on small instances.                                        *)
(***************************************************************************)
EXTENDS GuidedUpdate, TLC

\* Requests are numbered.
FourRequests  == 1..4
ThreeRequests == 1..3
=============================================================================
