------------------------------ MODULE JobQueue ------------------------------
(***************************************************************************)
(* ExecutionJobManager of server.py: the durable execution queue.          *)
(*                                                                         *)
(* Request threads submit, cancel and delete jobs; worker threads take the *)
(* oldest queued job and run it; a timer kills a process that overruns; an *)
(* administrator locks the queue for a database restore; the service may   *)
(* die and come back at any point.  Every operation that the code performs *)
(* while it holds the manager's lock is one action here; where the code    *)
(* lets go of the lock (between the two maintenance checks of submit,      *)
(* before the kill of cancel, everywhere in a runner) a step ends and the  *)
(* others may interleave.                                                  *)
(*                                                                         *)
(* Two runners are modelled.  A job in StepJobs is a post-foundation plan: *)
(* a series of subprocess.run calls.  Every other job is one framework     *)
(* process started by Popen, registered for cancellation and watched by a  *)
(* timer.  Either may end without a process: a request that the worker     *)
(* makes itself, a plan with nothing to execute.                           *)
(***************************************************************************)
EXTENDS Naturals, FiniteSets

CONSTANTS
  Jobs,            \* every submission that will ever be attempted
  StepJobs,        \* those run as post-foundation steps
  Workers,         \* worker threads (ZTF_EXEC_WORKERS)
  NoJob,           \* a worker that runs nothing
  MaxKept,         \* records _save_jobs retains (1000 in the code)
  MaxSteps,        \* bound: steps of a post-foundation plan
  Milestones,      \* progress percentages that output may suggest
  Garbled,         \* BOOLEAN: output may hold bytes the reader cannot decode
  MaxRestarts,     \* bound: service restarts in one behaviour
  MaxMaintenance   \* bound: restarts and restores, past which no restore begins

ASSUME JobAssumption ==
  /\ IsFiniteSet(Jobs)
  /\ NoJob \notin Jobs
  /\ StepJobs \subseteq Jobs
  /\ Garbled \in BOOLEAN
  /\ Milestones \subseteq 0..90
  /\ MaxKept \in Nat \ {0}
  /\ MaxSteps \in Nat \ {0}
  /\ MaxRestarts \in Nat
  /\ MaxMaintenance \in Nat

VARIABLES
  \* jobs.json
  kept,         \* the jobs that have a record in the file
  status,       \* a job's status; outside kept, the last one it had
  percent,      \* its progress.percent
  stamp,        \* its createdAt, 0 before it is taken
  place,        \* its rank in insertion order, 0 before it is inserted
  \* the manager's memory and the operating system
  active,       \* _active: jobs with a registered process
  proc,         \* the process of a job
  exit,         \* how that process ended
  killers,      \* cancel requests that hold a process and have yet to kill it
  pc,           \* what each worker is doing
  cur,          \* the job it runs
  result,       \* the status it is about to report
  left,         \* steps of its plan that follow the present one
  \* _MAINTENANCE and the restore request
  restore,      \* "idle", "checking" or "restoring"
  \* history, for the properties and the bounds
  runs,         \* times a job has been handed to a worker
  restarts, maintenances

fileVars == <<kept, status, percent, stamp, place>>
procVars == <<active, proc, exit, killers>>
workVars == <<pc, cur, result, left>>
histVars == <<runs, restarts, maintenances>>
vars     == <<fileVars, procVars, workVars, restore, histVars>>

-----------------------------------------------------------------------------
Terminal == {"success", "failed", "cancelled", "interrupted"}
Running  == {"running", "cancelling"}
Status   == {"new", "submitting", "refused", "queued"} \cup Running \cup Terminal

Step  == {"idle", "prepare", "launched", "streaming", "hung", "stepping",
          "exited", "finalize", "report"}
Exit  == {"none", "clean", "error", "cancelled", "timeout"}

TypeOK ==
  /\ kept \subseteq Jobs
  /\ status \in [Jobs -> Status]
  /\ percent \in [Jobs -> 0..100]
  /\ stamp \in [Jobs -> Nat]
  /\ place \in [Jobs -> Nat]
  /\ active \subseteq Jobs
  /\ proc \in [Jobs -> {"none", "alive", "dead"}]
  /\ exit \in [Jobs -> Exit]
  /\ killers \subseteq Jobs
  /\ pc \in [Workers -> Step]
  /\ cur \in [Workers -> Jobs \cup {NoJob}]
  /\ result \in [Workers -> Terminal \cup {"none"}]
  /\ left \in [Workers -> Nat]
  /\ restore \in {"idle", "checking", "restoring"}
  /\ runs \in [Jobs -> Nat]
  /\ restarts \in Nat
  /\ maintenances \in Nat

\* _maintenance_active(): the flag is up from _enter_maintenance to _exit_maintenance.
Maintenance == restore # "idle"

InStatus(S) == {j \in kept : status[j] \in S}

\* _next_queued_job: sorted by createdAt, first.
Oldest(j) ==
  /\ j \in InStatus({"queued"})
  /\ \A k \in InStatus({"queued"}) : stamp[j] <= stamp[k]


\* _save_jobs writes jobs[:1000]; the list is newest first by insertion.
Saved(S, at) == {j \in S : Cardinality({k \in S : at[k] > at[j]}) < MaxKept}

\* Faulty variant of Progress: the percentage is simply overwritten.
ProgressOverwritten(j, p) == p

\* Faulty variant of Progress: percentages are added up.
ProgressAdded(j, p) == percent[j] + p

\* _set_progress: a percentage never falls while the job is not terminal.
Progress(j, p) == IF p < percent[j] /\ status[j] \notin Terminal THEN percent[j] ELSE p

\* The record of j, if it still has one, with its percentage advanced to p.
Advance(j, p) ==
  percent' = IF j \in kept THEN [percent EXCEPT ![j] = Progress(j, p)] ELSE percent

\* Ranks given out so far, for createdAt and for insertion.
Next1(f) == 1 + Cardinality({j \in Jobs : f[j] > 0})

-----------------------------------------------------------------------------
Init ==
  /\ kept = {}
  /\ status = [j \in Jobs |-> "new"]
  /\ percent = [j \in Jobs |-> 0]
  /\ stamp = [j \in Jobs |-> 0]
  /\ place = [j \in Jobs |-> 0]
  /\ active = {}
  /\ proc = [j \in Jobs |-> "none"]
  /\ exit = [j \in Jobs |-> "none"]
  /\ killers = {}
  /\ pc = [w \in Workers |-> "idle"]
  /\ cur = [w \in Workers |-> NoJob]
  /\ result = [w \in Workers |-> "none"]
  /\ left = [w \in Workers |-> 0]
  /\ restore = "idle"
  /\ runs = [j \in Jobs |-> 0]
  /\ restarts = 0
  /\ maintenances = 0

-----------------------------------------------------------------------------
(* Request threads *)

\* submit, before the lock: the first maintenance check and createdAt.
Prepare(j) ==
  /\ status[j] = "new"
  /\ ~Maintenance
  /\ status' = [status EXCEPT ![j] = "submitting"]
  /\ stamp' = [stamp EXCEPT ![j] = Next1(stamp)]
  /\ UNCHANGED <<kept, percent, place, procVars, workVars, restore, histVars>>

\* submit, under the lock: the second check, insert(0) and the truncating save.
Enqueue(j) ==
  /\ status[j] = "submitting"
  /\ ~Maintenance
  /\ place' = [place EXCEPT ![j] = Next1(place)]
  /\ kept' = Saved(kept \cup {j}, place')
  /\ status' = [status EXCEPT ![j] = "queued"]
  /\ UNCHANGED <<percent, stamp, procVars, workVars, restore, histVars>>

\* submit, under the lock, when maintenance began between the two checks.
Refuse(j) ==
  /\ status[j] = "submitting"
  /\ Maintenance
  /\ status' = [status EXCEPT ![j] = "refused"]
  /\ UNCHANGED <<kept, percent, stamp, place, procVars, workVars, restore, histVars>>

\* cancel of a job no worker has taken: terminal at once.
CancelQueued(j) ==
  /\ j \in InStatus({"queued"})
  /\ status' = [status EXCEPT ![j] = "cancelled"]
  /\ percent' = [percent EXCEPT ![j] = 100]
  /\ UNCHANGED <<kept, stamp, place, procVars, workVars, restore, histVars>>

\* Faulty variant of CancelRunning: the terminal early return is missing.
CancelAnyTaken(j) ==
  /\ j \in kept /\ status[j] # "queued"
  /\ status' = [status EXCEPT ![j] = "cancelling"]
  /\ UNCHANGED <<kept, percent, stamp, place, procVars, workVars, restore, histVars>>

\* cancel of a job a worker has: marked, and its process, if one is
\* registered at that moment, remembered for the kill after the lock.
CancelRunning(j) ==
  /\ j \in InStatus(Running)
  /\ status' = [status EXCEPT ![j] = "cancelling"]
  /\ Advance(j, IF percent[j] > 90 THEN percent[j] ELSE 90)
  /\ killers' = IF j \in active THEN killers \cup {j} ELSE killers
  /\ UNCHANGED <<kept, stamp, place, active, proc, exit, workVars, restore, histVars>>

\* cancel, after the lock: proc.kill() if the process has not ended.
CancelKill(j) ==
  /\ j \in killers
  /\ killers' = killers \ {j}
  /\ IF proc[j] = "alive"
       THEN /\ proc' = [proc EXCEPT ![j] = "dead"]
            /\ exit' = [exit EXCEPT ![j] = "cancelled"]
       ELSE UNCHANGED <<proc, exit>>
  /\ UNCHANGED <<fileVars, active, workVars, restore, histVars>>

\* delete: only a terminal record leaves the file.
Delete(j) ==
  /\ j \in InStatus(Terminal)
  /\ kept' = kept \ {j}
  /\ UNCHANGED <<status, percent, stamp, place, procVars, workVars, restore, histVars>>

-----------------------------------------------------------------------------
(* Worker threads *)

\* _worker_loop and _mark_running: choice and mark in one critical section.
Take(w, j) ==
  /\ pc[w] = "idle"
  /\ ~Maintenance
  /\ Oldest(j)
  /\ status' = [status EXCEPT ![j] = "running"]
  /\ Advance(j, 10)
  /\ runs' = [runs EXCEPT ![j] = @ + 1]
  /\ pc' = [pc EXCEPT ![w] = "prepare"]
  /\ cur' = [cur EXCEPT ![w] = j]
  /\ UNCHANGED <<kept, stamp, place, procVars, result, left, restore, restarts, maintenances>>

Goto(w, s) == pc' = [pc EXCEPT ![w] = s]

\* _run_job, any early return before its work begins: bad configuration,
\* missing acknowledgement, incompatible framework.
Reject(w) ==
  /\ pc[w] = "prepare"
  /\ result' = [result EXCEPT ![w] = "failed"]
  /\ Goto(w, "finalize")
  /\ UNCHANGED <<fileVars, procVars, cur, left, restore, histVars>>

\* _run_job without a process, whatever the job's status: a standalone FCA
\* request is made by the worker's own thread and succeeds or fails; a plan
\* fails its validation, or has no step to execute and succeeds.
RunInline(w) ==
  LET j == cur[w] IN
  /\ pc[w] = "prepare"
  /\ Advance(j, IF j \in StepJobs THEN 50 ELSE 45)
  /\ \E r \in {"success", "failed"} : result' = [result EXCEPT ![w] = r]
  /\ Goto(w, "finalize")
  /\ UNCHANGED <<kept, status, stamp, place, procVars, cur, left, restore, histVars>>

Spawn(j) ==
  /\ proc' = [proc EXCEPT ![j] = "alive"]
  /\ exit' = [exit EXCEPT ![j] = "none"]

\* Popen (or the first subprocess.run); the 'start' event sets 30 percent.
\* The job's status is not consulted.
Launch(w) ==
  LET j == cur[w] IN
  /\ pc[w] = "prepare"
  /\ Spawn(j)
  /\ Advance(j, 30)
  /\ IF j \in StepJobs
       THEN Goto(w, "stepping") /\ \E n \in 1..MaxSteps : left' = [left EXCEPT ![w] = n - 1]
       ELSE Goto(w, "launched") /\ UNCHANGED left
  /\ UNCHANGED <<kept, status, stamp, place, active, killers, cur, result, restore, histVars>>

\* The process becomes visible to cancel and stop; the timer is started.
Register(w) ==
  LET j == cur[w] IN
  /\ pc[w] = "launched"
  /\ active' = active \cup {j}
  /\ Advance(j, 50)
  /\ Goto(w, "streaming")
  /\ UNCHANGED <<kept, status, stamp, place, proc, exit, killers, cur, result, left, restore, histVars>>

\* A line of output that matches one of OUTPUT_MILESTONES.
Output(w, p) ==
  /\ pc[w] = "streaming"
  /\ Advance(cur[w], p)
  /\ UNCHANGED <<kept, status, stamp, place, procVars, workVars, restore, histVars>>

\* A reader thread dies on bytes it cannot decode and never queues its end
\* marker: the worker waits for it for ever, whatever the process does.
ReaderDies(w) ==
  /\ Garbled
  /\ pc[w] = "streaming"
  /\ Goto(w, "hung")
  /\ UNCHANGED <<fileVars, procVars, cur, result, left, restore, histVars>>

\* Faulty variant of Drained: the end of output is taken for the end of the
\* process.
DrainedWithoutWait(w) ==
  /\ pc[w] = "streaming"
  /\ Goto(w, "exited")
  /\ UNCHANGED <<fileVars, procVars, cur, result, left, restore, histVars>>

\* Both streams closed and proc.wait() returned.
Drained(w) ==
  /\ pc[w] = "streaming"
  /\ proc[cur[w]] = "dead"
  /\ Goto(w, "exited")
  /\ UNCHANGED <<fileVars, procVars, cur, result, left, restore, histVars>>

\* Faulty variant of Outcome: only the exit of the process is looked at.
OutcomeOfExit(j) == IF exit[j] = "clean" THEN "success" ELSE "failed"

\* _ztf_process_status over the record as it is read after the wait.
Outcome(j) ==
  IF j \in kept /\ status[j] = "cancelling" THEN "cancelled"
  ELSE IF exit[j] = "clean" THEN "success" ELSE "failed"

Judge(w) ==
  /\ pc[w] = "exited"
  /\ result' = [result EXCEPT ![w] = Outcome(cur[w])]
  /\ Goto(w, "finalize")
  /\ UNCHANGED <<fileVars, procVars, cur, left, restore, histVars>>

\* A post-foundation step ended well and another one follows.
NextStep(w) ==
  LET j == cur[w] IN
  /\ pc[w] = "stepping"
  /\ proc[j] = "dead" /\ exit[j] = "clean" /\ left[w] > 0
  /\ left' = [left EXCEPT ![w] = @ - 1]
  /\ Spawn(j)
  /\ Advance(j, 50)
  /\ UNCHANGED <<kept, status, stamp, place, active, killers, pc, cur, result, restore, histVars>>

\* The last step ended, or one failed; the job's status is not consulted.
LastStep(w) ==
  LET j == cur[w] IN
  /\ pc[w] = "stepping"
  /\ proc[j] = "dead"
  /\ exit[j] = "clean" => left[w] = 0
  /\ result' = [result EXCEPT ![w] = IF exit[j] = "clean" THEN "success" ELSE "failed"]
  /\ Goto(w, "finalize")
  /\ UNCHANGED <<fileVars, procVars, cur, left, restore, histVars>>

\* finally: the timer is cancelled and the process forgotten.
Finalize(w) ==
  /\ pc[w] = "finalize"
  /\ active' = active \ {cur[w]}
  /\ Goto(w, "report")
  /\ UNCHANGED <<fileVars, proc, exit, killers, cur, result, left, restore, histVars>>

\* _complete: the result is written without looking at the present status;
\* a record that is gone is left gone.
Complete(w) ==
  LET j == cur[w] IN
  /\ pc[w] = "report"
  /\ IF j \in kept
       THEN /\ status' = [status EXCEPT ![j] = result[w]]
            /\ percent' = [percent EXCEPT ![j] = 100]
       ELSE UNCHANGED <<status, percent>>
  /\ Goto(w, "idle")
  /\ cur' = [cur EXCEPT ![w] = NoJob]
  /\ result' = [result EXCEPT ![w] = "none"]
  /\ left' = [left EXCEPT ![w] = 0]
  /\ UNCHANGED <<kept, stamp, place, procVars, restore, histVars>>

-----------------------------------------------------------------------------
(* Processes, timers and the service itself *)

\* The framework process ends by itself; "error" stands for a non-zero exit
\* and for failure evidence in the output of a zero exit.
ProcessExit(j) ==
  /\ proc[j] = "alive"
  /\ proc' = [proc EXCEPT ![j] = "dead"]
  /\ exit' \in {[exit EXCEPT ![j] = e] : e \in {"clean", "error"}}
  /\ UNCHANGED <<fileVars, active, killers, workVars, restore, histVars>>

\* Faulty variant of Timeout: no timer watches a framework process.
TimeoutOfSteps(w) ==
  /\ pc[w] = "stepping"
  /\ proc[cur[w]] = "alive"
  /\ proc' = [proc EXCEPT ![cur[w]] = "dead"]
  /\ exit' = [exit EXCEPT ![cur[w]] = "timeout"]
  /\ UNCHANGED <<fileVars, active, killers, workVars, restore, histVars>>

\* _timeout_kill, or TimeoutExpired of subprocess.run.
Timeout(w) ==
  LET j == cur[w] IN
  /\ pc[w] \in {"streaming", "hung", "stepping"}
  /\ proc[j] = "alive"
  /\ proc' = [proc EXCEPT ![j] = "dead"]
  /\ exit' = [exit EXCEPT ![j] = "timeout"]
  /\ UNCHANGED <<fileVars, active, killers, workVars, restore, histVars>>

\* restore_database_backup: _enter_maintenance.
EnterMaintenance ==
  /\ restore = "idle"
  /\ restarts + maintenances < MaxMaintenance
  /\ restore' = "checking"
  /\ maintenances' = maintenances + 1
  /\ UNCHANGED <<fileVars, procVars, workVars, runs, restarts>>

\* Faulty variant of ActiveCount: a job being cancelled counts as stopped.
CountRunningOnly == Cardinality(InStatus({"running"}))

\* active_count()
ActiveCount == Cardinality(InStatus(Running))

\* The restore goes on only when nothing is active; the count is taken under
\* the job lock, after the flag is up.
CheckActive ==
  /\ restore = "checking"
  /\ restore' = IF ActiveCount = 0 THEN "restoring" ELSE "idle"
  /\ UNCHANGED <<fileVars, procVars, workVars, histVars>>

\* A restore that fails and is rolled back: _exit_maintenance.
ExitMaintenance ==
  /\ restore = "restoring"
  /\ restore' = "idle"
  /\ UNCHANGED <<fileVars, procVars, workVars, histVars>>

\* Faulty variant of Recovered: unfinished jobs are queued again.
RecoveredByRequeue(j) ==
  IF j \in InStatus({"queued"} \cup Running) THEN "queued"
  ELSE IF status[j] = "submitting" THEN "refused" ELSE status[j]

\* _recover_interrupted_jobs: what a restart makes of a job's status; a
\* submission that was not yet inserted is lost.
Recovered(j) ==
  IF j \in InStatus({"queued"} \cup Running) THEN "interrupted"
  ELSE IF status[j] = "submitting" THEN "refused" ELSE status[j]

\* The service dies and starts again.  Threads, timers, in-flight requests
\* and the maintenance flag are lost; a framework process may outlive it.
\* _recover_interrupted_jobs runs before any worker starts.
Restart ==
  /\ restarts < MaxRestarts
  /\ restarts' = restarts + 1
  /\ status' = [j \in Jobs |-> Recovered(j)]
  /\ percent' = [j \in Jobs |-> IF Recovered(j) = "interrupted" THEN 100 ELSE percent[j]]
  /\ \E survivors \in SUBSET {j \in Jobs : proc[j] = "alive"} :
       proc' = [j \in Jobs |-> IF proc[j] = "alive" /\ j \notin survivors
                               THEN "dead" ELSE proc[j]]
  /\ active' = {}
  /\ killers' = {}
  /\ pc' = [w \in Workers |-> "idle"]
  /\ cur' = [w \in Workers |-> NoJob]
  /\ result' = [w \in Workers |-> "none"]
  /\ left' = [w \in Workers |-> 0]
  /\ restore' = "idle"
  /\ UNCHANGED <<kept, stamp, place, exit, runs, maintenances>>

-----------------------------------------------------------------------------
Request(j) ==
  \/ Prepare(j) \/ Enqueue(j) \/ Refuse(j)
  \/ CancelQueued(j) \/ CancelRunning(j) \/ CancelKill(j) \/ Delete(j)

\* What the worker's own thread does with its job, and its timer.
Thread(w) ==
  \/ Launch(w) \/ Register(w) \/ Drained(w) \/ Judge(w)
  \/ NextStep(w) \/ LastStep(w) \/ Finalize(w) \/ Complete(w)
Work(w) == (\E j \in Jobs : Take(w, j)) \/ Thread(w) \/ Timeout(w)

Next ==
  \/ \E j \in Jobs : Request(j) \/ ProcessExit(j)
  \/ \E w \in Workers : Work(w) \/ Reject(w) \/ RunInline(w) \/ ReaderDies(w)
                        \/ \E p \in Milestones : Output(w, p)
  \/ EnterMaintenance \/ CheckActive \/ ExitMaintenance
  \/ Restart

\* Threads that can run do run, and a timer that is set goes off.  Nothing is
\* assumed of users, of output, or of a process ending by itself.
Fairness ==
  /\ \A w \in Workers :
       WF_vars(\E j \in Jobs : Take(w, j)) /\ WF_vars(Thread(w)) /\ WF_vars(Timeout(w))
  /\ WF_vars(CheckActive) /\ WF_vars(ExitMaintenance)
  /\ \A j \in Jobs : WF_vars(CancelKill(j))

Spec     == Init /\ [][Next]_vars
FairSpec == Spec /\ Fairness
=============================================================================
