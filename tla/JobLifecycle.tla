---------------------------- MODULE JobLifecycle ----------------------------
(***************************************************************************)
(* What the execution queue promises of each job, workers, processes and   *)
(* files left out: an accepted job waits, is executed at most once, ends   *)
(* once and stays ended until its record is forgotten.                     *)
(***************************************************************************)
CONSTANT Jobs
VARIABLE phase

Phase == {"outside", "waiting", "executing", "ended", "gone"}

In(P) == {j \in Jobs : phase[j] \in P}

Init == phase = [j \in Jobs |-> "outside"]

\* A job joins the queue; the bound on recorded jobs may push others out.
Accept(j) ==
  /\ j \in In({"outside"})
  /\ \E pushed \in SUBSET In({"waiting", "executing", "ended"}) :
       phase' = [k \in Jobs |-> IF k = j THEN "waiting"
                                ELSE IF k \in pushed THEN "gone" ELSE phase[k]]

Begin(j) ==
  /\ j \in In({"waiting"})
  /\ phase' = [phase EXCEPT ![j] = "executing"]

\* One job completes or is cancelled, or a restart ends every unfinished one.
End(S) ==
  /\ S \subseteq In({"waiting", "executing"})
  /\ phase' = [k \in Jobs |-> IF k \in S THEN "ended" ELSE phase[k]]

Forget(j) ==
  /\ j \in In({"ended"})
  /\ phase' = [phase EXCEPT ![j] = "gone"]

Next ==
  \/ \E j \in Jobs : Accept(j) \/ Begin(j) \/ Forget(j)
  \/ \E S \in SUBSET In({"waiting", "executing"}) : End(S)

Spec == Init /\ [][Next]_phase
=============================================================================
