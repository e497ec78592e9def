------------------------- MODULE JobQueueProperties -------------------------
(***************************************************************************)
(* What the execution queue of JobQueue promises.                          *)
(***************************************************************************)
EXTENDS JobQueue

\* No job is handed to a worker twice: not by two workers, not after it was
\* cancelled while queued, not after a restart (_worker_loop marks the job in
\* the critical section that chose it; recovery never queues a job again).
SingleExecution ==
  /\ \A j \in Jobs : runs[j] <= 1
  /\ \A w, v \in Workers : w # v /\ cur[w] # NoJob => cur[w] # cur[v]

\* A recorded job that reached a terminal status keeps it as long as it is
\* recorded, whatever late completions, cancels and restarts follow.
TerminalIsFinal ==
  [][\A j \in Jobs : j \in kept \cap kept' /\ status[j] \in Terminal
                       => status'[j] = status[j]]_vars

\* While a database restore rewrites the store, no worker runs a recorded job
\* and none is about to (the flag is raised before active_count takes the job
\* lock, and workers look at the flag inside that lock).
RestoreExcludesWork ==
  restore = "restoring" =>
    \A w \in Workers : cur[w] # NoJob => cur[w] \notin kept

\* A job reported as ended by its worker has no process left running; only an
\* interrupted one may, because a restart does not chase its processes.
ReportedMeansStopped ==
  \A j \in InStatus(Terminal \ {"interrupted"}) : proc[j] # "alive"

\* The report agrees with how the process ended: a process killed by cancel
\* is never reported as a failure or a success, one killed by the timer or
\* ended with an error never as a success.  A success is that of a process
\* that ended well, or of a job that never had one (a standalone FCA request,
\* a plan with nothing to execute).
ReportIsTruthful ==
  \A j \in InStatus(Terminal) :
    /\ exit[j] = "cancelled" => status[j] \in {"cancelled", "interrupted"}
    /\ status[j] = "success" => exit[j] = "clean" \/ proc[j] = "none"

\* The progress a client sees never goes back, whatever the order in which
\* cancel, the worker's milestones and the output of the process advance it.
ProgressNeverRegresses ==
  [][\A j \in kept \cap kept' : percent'[j] >= percent[j]]_vars

\* Every accepted job ends, is dropped from the file or is deleted, unless a
\* worker hangs because a reader thread died.
EveryJobEnds ==
  \A j \in Jobs :
    j \in InStatus({"queued"} \cup Running) ~>
      \/ j \notin InStatus({"queued"} \cup Running)
      \/ \E w \in Workers : pc[w] = "hung"

\* A job whose cancellation was accepted ends.
CancelTakesEffect ==
  \A j \in Jobs : j \in InStatus({"cancelling"}) ~> j \notin InStatus({"cancelling"})

-----------------------------------------------------------------------------
(* The queue implements JobLifecycle: a job's phase as clients see it. *)

PhaseOf(j) ==
  CASE status[j] \in {"new", "submitting", "refused"} -> "outside"
    [] j \notin kept /\ status[j] \notin {"new", "submitting", "refused"} -> "gone"
    [] j \in InStatus({"queued"}) -> "waiting"
    [] j \in InStatus(Running) -> "executing"
    [] j \in InStatus(Terminal) -> "ended"

Lifecycle == INSTANCE JobLifecycle WITH phase <- [j \in Jobs |-> PhaseOf(j)]

\* Every behaviour of the queue is one of the at-most-once executor: a job
\* waits, is executed once, ends for good and is then forgotten; only the
\* bound on the file forgets it earlier.
ImplementsLifecycle == Lifecycle!Spec
=============================================================================
