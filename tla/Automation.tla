----------------------------- MODULE Automation -----------------------------
(***************************************************************************)
(* The automation that goes past the execution queue, in one process:      *)
(* schedules and pipelines, which share the execution history, parallel    *)
(* runs, and the desk of cluster operations.  What clients, operators and  *)
(* the outside world may still do is a budget that bounds the model: one   *)
(* number per kind of event, chosen from Budgets at the start.  What the   *)
(* system does by itself is not bounded.                                   *)
(***************************************************************************)
EXTENDS Schedules, Pipelines, ParallelRuns, Operations

CONSTANT Budgets        \* sets of functions from kinds of event to numbers

Events == {"schedule", "fire", "pipeline", "file", "clear", "run",
           "record", "readback", "refresh", "review",
           "jobs", "recovery", "time", "maintenance", "restart"}

\* An execution that writes to the history is a firing or a pipeline run.
ASSUME AutomationAssumption ==
  /\ Budgets \subseteq [Events -> Nat]
  /\ Firings \cup PipelineRuns \subseteq Recorders

VARIABLE budget

vars == <<scheduleVars, pipelineVars, historyVars, parallelVars, operationsVars, budget>>

Spend(event) ==
  /\ budget[event] > 0
  /\ budget' = [budget EXCEPT ![event] = @ - 1]

Init ==
  /\ budget \in Budgets
  /\ SchedulesInit /\ PipelinesInit /\ HistoryInit /\ ParallelInit /\ OperationsInit
  /\ budget["schedule"] = 0 => backed
  /\ budget["file"] = 0 => files = [x \in Files |-> NoFile]

AutomationEvent ==
  \/ Spend("schedule") /\ ScheduleRequest
       /\ UNCHANGED <<pipelineVars, historyVars, parallelVars, operationsVars>>
  \/ Spend("fire") /\ ScheduleFires
       /\ UNCHANGED <<pipelineVars, historyVars, parallelVars, operationsVars>>
  \/ Spend("pipeline") /\ PipelineRequest
       /\ UNCHANGED <<scheduleVars, historyVars, parallelVars, operationsVars>>
  \/ Spend("file") /\ FileChange
       /\ UNCHANGED <<scheduleVars, historyVars, parallelVars, operationsVars>>
  \/ Spend("clear") /\ ClearHistory
       /\ UNCHANGED <<scheduleVars, pipelineVars, parallelVars, operationsVars>>
  \/ Spend("run") /\ ParallelRequest
       /\ UNCHANGED <<scheduleVars, pipelineVars, historyVars, operationsVars>>

DeskEvent ==
  /\ \/ Spend("record") /\ \E u \in Users, c \in Clusters, b \in Baselines : RecordCluster(u, c, b)
     \/ Spend("readback") /\ \E c \in Clusters : BeginReadback(c)
     \/ Spend("refresh") /\ \E u \in Users : BeginRefresh(u)
     \/ Spend("review") /\ \E u \in Users, i \in Items, status \in Reviews : Review(u, i, status)
     \/ Spend("jobs") /\ JobsChange
     \/ Spend("recovery") /\ RecoveryChanges
     \/ Spend("time") /\ TimePasses
     \/ Spend("maintenance") /\ MaintenanceTurns
  /\ UNCHANGED <<scheduleVars, pipelineVars, historyVars, parallelVars>>

\* The server is killed and started again: every thread is gone, what is stored stays.
Restart ==
  /\ Spend("restart")
  /\ SchedulesRestart /\ PipelinesRestart /\ HistoryRestart /\ ParallelRestart /\ OperationsRestart

\* The threads of the server go on.
SchedulesGoOn ==
  /\ \/ ScheduleStep /\ UNCHANGED historyVars
     \/ \E f \in Firings : RecordFiring(f)
  /\ UNCHANGED <<pipelineVars, parallelVars, operationsVars, budget>>
PipelinesGoOn ==
  /\ \/ PipelineStep /\ UNCHANGED historyVars
     \/ \E p \in PipelineRuns : RecordPipeline(p)
  /\ UNCHANGED <<scheduleVars, parallelVars, operationsVars, budget>>
RunsGoOn ==
  ParallelStep /\ UNCHANGED <<scheduleVars, pipelineVars, historyVars, operationsVars, budget>>
DeskGoesOn ==
  OperationsStep /\ UNCHANGED <<scheduleVars, pipelineVars, historyVars, parallelVars, budget>>

Next ==
  \/ AutomationEvent \/ DeskEvent \/ Restart
  \/ SchedulesGoOn \/ PipelinesGoOn \/ RunsGoOn \/ DeskGoesOn

\* A process ends or is killed at its time limit and a thread that can go on does;
\* nothing is asked of clients, operators, triggers or restarts.
Spec == Init /\ [][Next]_vars /\ WF_vars(RunsGoOn)

(***************************************************************************)
(* Properties over several components.                                     *)
(***************************************************************************)
TypeOK ==
  /\ SchedulesTypeOK /\ PipelinesTypeOK /\ HistoryTypeOK /\ ParallelTypeOK /\ OperationsTypeOK
  /\ \A event \in Events : budget[event] \in Nat

\* The executions that came to their end with a status the server knows.
Finished ==
  {f \in Firings : firings[f].at = "ended" /\ firings[f].status # "error"}
    \cup {p \in PipelineRuns : pipes[p].at = "ended"}

\* An execution that came to its end is in the history, whether it was refused,
\* failed or succeeded, unless it was cleared, pushed out by newer ones, or written
\* while another execution was between its read and its write of the list.
RecordsKept == Finished \subseteq EntriesOf(history) \cup excused
=============================================================================
