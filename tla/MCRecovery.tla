----------------------------- MODULE MCRecovery -----------------------------
(***************************************************************************)
(* Recovery on small instances: jobs, plans and needs.                     *)
(***************************************************************************)
EXTENDS Recovery, TLC

CONSTANT r1

ThreeJobs == 1..3
FourJobs  == 1..4

\* Steps of a plan: initial access with and without a password, and the rest.
Password == [access |-> TRUE, password |-> TRUE]
Settings == [access |-> TRUE, password |-> FALSE]
Rest     == [access |-> FALSE, password |-> FALSE]

OnePassword == <<Password>>
OneStep     == <<Rest>>
TwoAlike    == <<Rest, Rest>>
TwoAndTwo   == <<Settings, Settings, Rest, Rest>>

\* Two runs on different endpoints share a node.
SharedNode ==
  [r \in Runs |-> IF r = r1 THEN {"endpoint 1", "node"} ELSE {"endpoint 2", "node"}]
AllResources == {"endpoint 1", "endpoint 2", "node"}
EndpointOne  == {{"endpoint 1"}}

\* Coordinators and collectors are interchangeable threads.
ThreadSymmetry == Permutations(Threads) \cup Permutations(Collectors)
=============================================================================
