--------------------------- MODULE JobQueueProofs ---------------------------
(***************************************************************************)
(* Proofs, for any number of jobs and workers and any bound on the file,   *)
(* of the safety properties of the execution queue.                        *)
(*                                                                         *)
(* The argument: a worker's job is always one whose status is running or   *)
(* cancelling (Ownership), so the choice of a queued job can never pick a  *)
(* job some worker has; a process is alive only for a job that is running, *)
(* cancelling or was interrupted (Processes), so what a worker reports     *)
(* after its process ended stays true; a job that never had a process has  *)
(* none when it is reported either.                                        *)
(***************************************************************************)
EXTENDS JobQueueProperties, FiniteSetTheorems, TLAPS

NotAccepted == {"new", "submitting", "refused"}

\* Who has a job, and what that says of its status and of how often it ran.
Ownership ==
  /\ \A w \in Workers : cur[w] # NoJob => status[cur[w]] \in Running
  /\ \A w, v \in Workers : w # v /\ cur[w] # NoJob => cur[w] # cur[v]
  /\ \A j \in Jobs : runs[j] <= 1
  /\ \A j \in Jobs : status[j] \in NotAccepted \cup {"queued"} => runs[j] = 0
  /\ \A j \in kept : status[j] \notin NotAccepted

\* What the state of a process says of the job that started it.
Processes ==
  /\ \A j \in Jobs : proc[j] = "alive" => status[j] \in Running \cup {"interrupted"}
  /\ \A j \in Jobs : status[j] \in NotAccepted \cup {"queued"} =>
       proc[j] = "none" /\ exit[j] = "none"
  /\ \A j \in Jobs : exit[j] = "cancelled" =>
       j \notin StepJobs /\ status[j] \in {"cancelling", "cancelled", "interrupted"}
  /\ \A j \in Jobs : status[j] = "success" => exit[j] = "clean" \/ proc[j] = "none"
  /\ \A j \in active \cup killers : j \notin StepJobs
  /\ \A j \in killers : status[j] \in {"cancelling"} \cup Terminal

\* What the step of a worker says of the process of its job.
Reports ==
  \A w \in Workers : cur[w] # NoJob =>
    /\ pc[w] = "prepare" => proc[cur[w]] = "none" /\ exit[cur[w]] = "none"
    /\ pc[w] = "stepping" => cur[w] \in StepJobs
    /\ pc[w] \in {"launched", "streaming", "hung"} => cur[w] \notin StepJobs
    /\ pc[w] \in {"exited", "finalize", "report"} => proc[cur[w]] # "alive"
    /\ pc[w] \in {"finalize", "report"} =>
         /\ cur[w] \in kept /\ exit[cur[w]] = "cancelled" => result[w] = "cancelled"
         /\ result[w] = "success" => exit[cur[w]] = "clean" \/ proc[cur[w]] = "none"

-----------------------------------------------------------------------------
\* The type invariant does not stand alone: the report of a worker must be
\* ready when it is written, and a busy worker must have a job.
Typed ==
  /\ TypeOK
  /\ \A w \in Workers : pc[w] = "idle" <=> cur[w] = NoJob
  /\ \A w \in Workers : pc[w] \in {"finalize", "report"} => result[w] # "none"

\* Every variable keeps its type.
THEOREM Typing == Spec => []Typed
<1> USE JobAssumption
<1>1. Init => Typed
  BY DEF Init, Typed, TypeOK, Status, Step, Exit, Terminal, Running
<1>2. Typed /\ [Next]_vars => Typed'
  <2> SUFFICES ASSUME Typed, [Next]_vars PROVE Typed'
    OBVIOUS
  <2> USE DEF Typed, TypeOK, Status, Step, Exit, Terminal, Running, procVars, fileVars, workVars, histVars
  <2>1. \A f \in [Jobs -> Nat] : Next1(f) \in Nat
    <3> SUFFICES ASSUME NEW f \in [Jobs -> Nat] PROVE Next1(f) \in Nat
      OBVIOUS
    <3>1. IsFiniteSet({j \in Jobs : f[j] > 0})
      BY FS_Subset
    <3> QED
      BY <3>1, FS_CardinalityType DEF Next1
  <2>2. \A j \in Jobs \cup {NoJob}, p \in 0..100 : Advance(j, p) => percent' \in [Jobs -> 0..100]
    BY DEF Advance, Progress
  <2>15. \A w \in Workers : cur[w] \in Jobs \cup {NoJob}
    OBVIOUS
  <2>3. ASSUME NEW j \in Jobs, Request(j) PROVE Typed'
    <3>1. CASE Prepare(j) BY <3>1, <2>1 DEF Prepare
    <3>2. CASE Enqueue(j)
      BY <3>2, <2>1 DEF Enqueue, Saved
    <3>3. CASE Refuse(j) BY <3>3 DEF Refuse
    <3>4. CASE CancelQueued(j) BY <3>4 DEF CancelQueued
    <3>5. CASE CancelRunning(j)
      <4>1. percent' \in [Jobs -> 0..100]
        <5> DEFINE p == IF percent[j] > 90 THEN percent[j] ELSE 90
        <5>1. p \in 0..100 OBVIOUS
        <5>2. Advance(j, p) BY <3>5 DEF CancelRunning
        <5> HIDE DEF Typed, TypeOK
        <5> QED BY <5>1, <5>2, <2>2
      <4> QED BY <3>5, <4>1 DEF CancelRunning
    <3>6. CASE CancelKill(j) BY <3>6 DEF CancelKill
    <3>7. CASE Delete(j) BY <3>7 DEF Delete
    <3> QED BY <2>3, <3>1, <3>2, <3>3, <3>4, <3>5, <3>6, <3>7 DEF Request
  <2>4. ASSUME NEW j \in Jobs, ProcessExit(j) PROVE Typed'
    BY <2>4 DEF ProcessExit
  <2>5. ASSUME NEW w \in Workers, Work(w) PROVE Typed'
    <3>1. ASSUME NEW j \in Jobs, Take(w, j) PROVE Typed'
      <4>1. percent' \in [Jobs -> 0..100]
        <5>1. Advance(j, 10) BY <3>1 DEF Take
        <5>2. j \in Jobs \cup {NoJob} /\ 10 \in 0..100 OBVIOUS
        <5> HIDE DEF Typed, TypeOK
        <5> QED BY <5>1, <5>2, <2>2
      <4>2. /\ status' = [status EXCEPT ![j] = "running"] /\ pc' = [pc EXCEPT ![w] = "prepare"]
            /\ cur' = [cur EXCEPT ![w] = j] /\ runs' = [runs EXCEPT ![j] = @ + 1]
            /\ UNCHANGED <<kept, stamp, place, active, proc, exit, killers, result, left,
                          restore, restarts, maintenances>>
        BY <3>1 DEF Take
      <4> QED BY <4>1, <4>2
    <3>2. CASE Launch(w)
      <4>1. percent' \in [Jobs -> 0..100]
        <5>1. Advance(cur[w], 30) BY <3>2 DEF Launch
        <5> HIDE DEF Typed, TypeOK
        <5>2. cur[w] \in Jobs \cup {NoJob} /\ 30 \in 0..100 BY <2>15
        <5> QED BY <5>1, <5>2, <2>2
      <4>2. left' \in [Workers -> Nat] BY <3>2 DEF Launch, Goto
      <4>3. cur[w] \in Jobs BY <3>2 DEF Launch
      <4>4. proc' \in [Jobs -> {"none", "alive", "dead"}] /\ exit' \in [Jobs -> Exit]
        BY <3>2, <4>3 DEF Launch, Spawn
      <4>5. pc' = [pc EXCEPT ![w] = "stepping"] \/ pc' = [pc EXCEPT ![w] = "launched"]
        BY <3>2 DEF Launch, Goto
      <4> QED BY <3>2, <4>1, <4>2, <4>3, <4>4, <4>5 DEF Launch
    <3>3. CASE Register(w)
      <4>1. percent' \in [Jobs -> 0..100]
        <5>1. Advance(cur[w], 50) BY <3>3 DEF Register
        <5> HIDE DEF Typed, TypeOK
        <5>2. cur[w] \in Jobs \cup {NoJob} /\ 50 \in 0..100 BY <2>15
        <5> QED BY <5>1, <5>2, <2>2
      <4> QED BY <3>3, <4>1 DEF Register, Goto
    <3>4. CASE Drained(w) BY <3>4 DEF Drained, Goto
    <3>5. CASE Judge(w) BY <3>5 DEF Judge, Goto, Outcome
    <3>6. CASE NextStep(w)
      <4>1. percent' \in [Jobs -> 0..100]
        <5>1. Advance(cur[w], 50) BY <3>6 DEF NextStep
        <5> HIDE DEF Typed, TypeOK
        <5>2. cur[w] \in Jobs \cup {NoJob} /\ 50 \in 0..100 BY <2>15
        <5> QED BY <5>1, <5>2, <2>2
      <4>2. left' \in [Workers -> Nat] BY <3>6 DEF NextStep
      <4> QED BY <3>6, <4>1, <4>2 DEF NextStep, Spawn
    <3>7. CASE LastStep(w) BY <3>7 DEF LastStep, Goto
    <3>8. CASE Finalize(w) BY <3>8 DEF Finalize, Goto
    <3>9. CASE Complete(w)
      <4>1. result[w] # "none" => status' \in [Jobs -> Status]
        BY <3>9 DEF Complete
      <4> QED BY <3>9, <4>1 DEF Complete, Goto
    <3>10. CASE Timeout(w) BY <3>10 DEF Timeout
    <3> QED
      BY <2>5, <3>1, <3>2, <3>3, <3>4, <3>5, <3>6, <3>7, <3>8, <3>9, <3>10 DEF Work, Thread
  <2>6. ASSUME NEW w \in Workers, Reject(w) PROVE Typed'
    BY <2>6 DEF Reject, Goto
  <2>7. ASSUME NEW w \in Workers, ReaderDies(w) PROVE Typed'
    BY <2>7 DEF ReaderDies, Goto
  <2>8. ASSUME NEW w \in Workers, NEW p \in Milestones, Output(w, p) PROVE Typed'
    <3>1. percent' \in [Jobs -> 0..100]
      <4>1. Advance(cur[w], p) BY <2>8 DEF Output
      <4>2. p \in 0..100 BY JobAssumption
      <4>3. cur[w] \in Jobs \cup {NoJob} BY <2>15
      <4> HIDE DEF Typed, TypeOK
      <4> QED BY <4>1, <4>2, <4>3, <2>2
    <3> QED BY <2>8, <3>1 DEF Output
  <2>9. CASE EnterMaintenance BY <2>9 DEF EnterMaintenance
  <2>10. CASE CheckActive BY <2>10 DEF CheckActive
  <2>11. CASE ExitMaintenance BY <2>11 DEF ExitMaintenance
  <2>12. CASE Restart BY <2>12 DEF Restart, Recovered, InStatus
  <2>13. CASE UNCHANGED vars BY <2>13 DEF vars
  <2>14. ASSUME NEW w \in Workers, RunInline(w) PROVE Typed'
    <3>1. percent' \in [Jobs -> 0..100]
      <4> DEFINE p == IF cur[w] \in StepJobs THEN 50 ELSE 45
      <4>1. p \in 0..100 OBVIOUS
      <4>2. Advance(cur[w], p) BY <2>14 DEF RunInline
      <4> HIDE DEF Typed, TypeOK
      <4> QED BY <4>1, <4>2, <2>2, <2>15
    <3> QED BY <2>14, <3>1 DEF RunInline, Goto
  <2> QED
    BY <2>3, <2>4, <2>5, <2>6, <2>7, <2>8, <2>9, <2>10, <2>11, <2>12, <2>13, <2>14 DEF Next
<1> QED BY <1>1, <1>2, PTL DEF Spec

\* The type invariant that the runs check, for every value of the constants.
THEOREM TypeOKHolds == Spec => []TypeOK
<1>1. Typed => TypeOK
  BY DEF Typed
<1> QED BY <1>1, Typing, PTL

-----------------------------------------------------------------------------
\* A worker's job is running or being cancelled, has no other worker, and no
\* job is ever handed out twice.
THEOREM OwnershipHolds == Spec => []Ownership
<1> USE JobAssumption DEF NotAccepted
<1>1. Init => Ownership
  BY DEF Init, Ownership, Running
<1>2. Typed /\ Ownership /\ [Next]_vars => Ownership'
  <2> SUFFICES ASSUME Typed, Ownership, [Next]_vars PROVE Ownership'
    OBVIOUS
  <2> USE DEF Typed, TypeOK, Ownership, Status, Running, Terminal, Step,
              fileVars, workVars, histVars
  <2>1. ASSUME NEW j \in Jobs, Request(j) PROVE Ownership'
    <3>1. CASE Prepare(j) BY <3>1 DEF Prepare
    <3>2. CASE Enqueue(j) BY <3>2 DEF Enqueue, Saved
    <3>3. CASE Refuse(j) BY <3>3 DEF Refuse
    <3>4. CASE CancelQueued(j) BY <3>4 DEF CancelQueued, InStatus
    <3>5. CASE CancelRunning(j) BY <3>5 DEF CancelRunning, InStatus
    <3>6. CASE CancelKill(j) BY <3>6 DEF CancelKill
    <3>7. CASE Delete(j) BY <3>7 DEF Delete
    <3> QED BY <2>1, <3>1, <3>2, <3>3, <3>4, <3>5, <3>6, <3>7 DEF Request
  <2>2. ASSUME NEW j \in Jobs, ProcessExit(j) PROVE Ownership'
    BY <2>2 DEF ProcessExit
  <2>3. ASSUME NEW w \in Workers, Work(w) PROVE Ownership'
    <3>1. ASSUME NEW j \in Jobs, Take(w, j) PROVE Ownership'
      BY <3>1 DEF Take, Oldest, InStatus
    <3>2. CASE Launch(w) BY <3>2 DEF Launch, Goto
    <3>3. CASE Register(w) BY <3>3 DEF Register, Goto
    <3>4. CASE Drained(w) BY <3>4 DEF Drained, Goto
    <3>5. CASE Judge(w) BY <3>5 DEF Judge, Goto
    <3>6. CASE NextStep(w) BY <3>6 DEF NextStep
    <3>7. CASE LastStep(w) BY <3>7 DEF LastStep, Goto
    <3>8. CASE Finalize(w) BY <3>8 DEF Finalize, Goto
    <3>9. CASE Complete(w) BY <3>9 DEF Complete, Goto
    <3>10. CASE Timeout(w) BY <3>10 DEF Timeout
    <3> QED
      BY <2>3, <3>1, <3>2, <3>3, <3>4, <3>5, <3>6, <3>7, <3>8, <3>9, <3>10 DEF Work, Thread
  <2>4. ASSUME NEW w \in Workers, Reject(w) PROVE Ownership'
    BY <2>4 DEF Reject, Goto
  <2>5. ASSUME NEW w \in Workers, ReaderDies(w) PROVE Ownership'
    BY <2>5 DEF ReaderDies, Goto
  <2>6. ASSUME NEW w \in Workers, NEW p \in Milestones, Output(w, p) PROVE Ownership'
    BY <2>6 DEF Output
  <2>7. CASE EnterMaintenance BY <2>7 DEF EnterMaintenance
  <2>8. CASE CheckActive BY <2>8 DEF CheckActive
  <2>9. CASE ExitMaintenance BY <2>9 DEF ExitMaintenance
  <2>10. CASE Restart BY <2>10 DEF Restart, Recovered, InStatus
  <2>11. CASE UNCHANGED vars BY <2>11 DEF vars
  <2>12. ASSUME NEW w \in Workers, RunInline(w) PROVE Ownership'
    BY <2>12 DEF RunInline, Goto
  <2> QED
    BY <2>1, <2>2, <2>3, <2>4, <2>5, <2>6, <2>7, <2>8, <2>9, <2>10, <2>11, <2>12 DEF Next
<1> QED BY <1>1, <1>2, Typing, PTL DEF Spec

\* No job is handed to a worker twice, whatever is cancelled or restarted.
THEOREM SingleExecutionHolds == Spec => []SingleExecution
<1>1. Ownership => SingleExecution
  BY DEF Ownership, SingleExecution
<1> QED BY <1>1, OwnershipHolds, PTL

-----------------------------------------------------------------------------
\* A process is alive only for a job that is running, being cancelled or was
\* interrupted, and a report that is ready agrees with how the process ended.
THEOREM ProcessesHold == Spec => [](Processes /\ Reports)
<1> USE JobAssumption DEF NotAccepted
<1>1. Init => Processes /\ Reports
  BY DEF Init, Processes, Reports, Running
<1>2. Typed /\ Ownership /\ Processes /\ Reports /\ [Next]_vars => (Processes /\ Reports)'
  <2> SUFFICES ASSUME Typed, Ownership, Processes, Reports, [Next]_vars
               PROVE (Processes /\ Reports)'
    OBVIOUS
  <2> USE DEF Typed, TypeOK, Status, Running, Terminal, Step, Exit, Ownership, Processes, Reports,
              fileVars, procVars, workVars, histVars
  <2>1. ASSUME NEW j \in Jobs, Request(j) PROVE (Processes /\ Reports)'
    <3>1. CASE Prepare(j) BY <3>1 DEF Prepare
    <3>2. CASE Enqueue(j) BY <3>2 DEF Enqueue, Saved
    <3>3. CASE Refuse(j) BY <3>3 DEF Refuse
    <3>4. CASE CancelQueued(j) BY <3>4 DEF CancelQueued, InStatus
    <3>5. CASE CancelRunning(j) BY <3>5 DEF CancelRunning, InStatus
    <3>6. CASE CancelKill(j) BY <3>6 DEF CancelKill
    <3>7. CASE Delete(j) BY <3>7 DEF Delete, InStatus
    <3> QED BY <2>1, <3>1, <3>2, <3>3, <3>4, <3>5, <3>6, <3>7 DEF Request
  <2>2. ASSUME NEW j \in Jobs, ProcessExit(j) PROVE (Processes /\ Reports)'
    BY <2>2 DEF ProcessExit
  <2>3. ASSUME NEW w \in Workers, Work(w) PROVE (Processes /\ Reports)'
    <3>1. ASSUME NEW j \in Jobs, Take(w, j) PROVE (Processes /\ Reports)'
      BY <3>1 DEF Take, Oldest, InStatus
    <3>2. CASE Launch(w) BY <3>2 DEF Launch, Goto, Spawn
    <3>3. CASE Register(w) BY <3>3 DEF Register, Goto
    <3>4. CASE Drained(w) BY <3>4 DEF Drained, Goto
    <3>5. CASE Judge(w) BY <3>5 DEF Judge, Goto, Outcome
    <3>6. CASE NextStep(w) BY <3>6 DEF NextStep, Spawn
    <3>7. CASE LastStep(w) BY <3>7 DEF LastStep, Goto
    <3>8. CASE Finalize(w) BY <3>8 DEF Finalize, Goto
    <3>9. CASE Complete(w)
      <4>1. cur[w] \in Jobs /\ result[w] \in Terminal /\ proc[cur[w]] # "alive"
        BY <3>9 DEF Complete
      <4>2. CASE cur[w] \in kept
        <5>1. status' = [status EXCEPT ![cur[w]] = result[w]]
          BY <3>9, <4>2 DEF Complete
        <5>2. result[w] = "success" => exit[cur[w]] = "clean" \/ proc[cur[w]] = "none"
          BY <3>9, <4>1 DEF Complete
        <5>3. exit[cur[w]] = "cancelled" => result[w] = "cancelled"
          BY <3>9, <4>1, <4>2 DEF Complete
        <5>4. UNCHANGED procVars BY <3>9 DEF Complete
        <5>5. Processes' BY <4>1, <5>1, <5>2, <5>3, <5>4
        <5>6. Reports' BY <3>9, <4>1, <5>4 DEF Complete, Goto
        <5> QED BY <5>5, <5>6
      <4>3. CASE cur[w] \notin kept
        BY <3>9, <4>3 DEF Complete, Goto
      <4> QED BY <4>2, <4>3
    <3>10. CASE Timeout(w) BY <3>10 DEF Timeout
    <3> QED
      BY <2>3, <3>1, <3>2, <3>3, <3>4, <3>5, <3>6, <3>7, <3>8, <3>9, <3>10 DEF Work, Thread
  <2>4. ASSUME NEW w \in Workers, Reject(w) PROVE (Processes /\ Reports)'
    BY <2>4 DEF Reject, Goto
  <2>5. ASSUME NEW w \in Workers, ReaderDies(w) PROVE (Processes /\ Reports)'
    BY <2>5 DEF ReaderDies, Goto
  <2>6. ASSUME NEW w \in Workers, NEW p \in Milestones, Output(w, p) PROVE (Processes /\ Reports)'
    BY <2>6 DEF Output
  <2>7. CASE EnterMaintenance BY <2>7 DEF EnterMaintenance
  <2>8. CASE CheckActive BY <2>8 DEF CheckActive
  <2>9. CASE ExitMaintenance BY <2>9 DEF ExitMaintenance
  <2>10. CASE Restart BY <2>10 DEF Restart, Recovered, InStatus
  <2>11. CASE UNCHANGED vars BY <2>11 DEF vars
  <2>12. ASSUME NEW w \in Workers, RunInline(w) PROVE (Processes /\ Reports)'
    BY <2>12 DEF RunInline, Goto
  <2> QED
    BY <2>1, <2>2, <2>3, <2>4, <2>5, <2>6, <2>7, <2>8, <2>9, <2>10, <2>11, <2>12 DEF Next
<1> QED BY <1>1, <1>2, Typing, OwnershipHolds, PTL DEF Spec

\* A job whose worker reported its end has no live process.
THEOREM ReportedMeansStoppedHolds == Spec => []ReportedMeansStopped
<1>1. Typed /\ Processes => ReportedMeansStopped
  BY DEF Typed, TypeOK, Processes, ReportedMeansStopped, InStatus, Terminal, Running
<1> QED BY <1>1, Typing, ProcessesHold, PTL

\* What is reported of a job agrees with how its process ended, if it had one.
THEOREM ReportIsTruthfulHolds == Spec => []ReportIsTruthful
<1>1. Typed /\ Processes => ReportIsTruthful
  BY JobAssumption DEF Typed, TypeOK, Processes, ReportIsTruthful, InStatus, Terminal, Running
<1> QED BY <1>1, Typing, ProcessesHold, PTL

-----------------------------------------------------------------------------
\* The count of active jobs is zero only when none is running or cancelling.
LEMMA NoneActive ==
  ASSUME Typed, ActiveCount = 0
  PROVE  InStatus(Running) = {}
<1>1. IsFiniteSet(InStatus(Running))
  BY JobAssumption, FS_Subset DEF Typed, TypeOK, InStatus
<1> QED BY <1>1, FS_EmptySet DEF ActiveCount

\* While a restore rewrites the store no worker has a recorded job: a worker
\* that had one when the flag rose was counted, and none takes one later.
THEOREM RestoreExcludesWorkHolds == Spec => []RestoreExcludesWork
<1> USE JobAssumption
<1>1. Init => RestoreExcludesWork
  BY DEF Init, RestoreExcludesWork
<1>2. Typed /\ Ownership /\ RestoreExcludesWork /\ [Next]_vars => RestoreExcludesWork'
  <2> SUFFICES ASSUME Typed, Ownership, RestoreExcludesWork, [Next]_vars
               PROVE RestoreExcludesWork'
    OBVIOUS
  <2> USE DEF Typed, TypeOK, Status, Running, Terminal, Step, Ownership,
              RestoreExcludesWork, fileVars, procVars, workVars, histVars
  <2>0. ActiveCount = 0 => \A w \in Workers : cur[w] # NoJob => cur[w] \notin kept
    BY NoneActive DEF InStatus
  <2>1. ASSUME NEW j \in Jobs, Request(j) PROVE RestoreExcludesWork'
    <3>1. CASE Prepare(j) BY <3>1 DEF Prepare
    <3>2. CASE Enqueue(j) BY <3>2 DEF Enqueue, Saved, Maintenance
    <3>3. CASE Refuse(j) BY <3>3 DEF Refuse
    <3>4. CASE CancelQueued(j) BY <3>4 DEF CancelQueued
    <3>5. CASE CancelRunning(j) BY <3>5 DEF CancelRunning
    <3>6. CASE CancelKill(j) BY <3>6 DEF CancelKill
    <3>7. CASE Delete(j) BY <3>7 DEF Delete
    <3> QED BY <2>1, <3>1, <3>2, <3>3, <3>4, <3>5, <3>6, <3>7 DEF Request
  <2>2. ASSUME NEW j \in Jobs, ProcessExit(j) PROVE RestoreExcludesWork'
    BY <2>2 DEF ProcessExit
  <2>3. ASSUME NEW w \in Workers, Work(w) PROVE RestoreExcludesWork'
    <3>1. ASSUME NEW j \in Jobs, Take(w, j) PROVE RestoreExcludesWork'
      BY <3>1 DEF Take, Maintenance, Oldest, InStatus
    <3>2. CASE Launch(w) BY <3>2 DEF Launch, Goto
    <3>3. CASE Register(w) BY <3>3 DEF Register, Goto
    <3>4. CASE Drained(w) BY <3>4 DEF Drained, Goto
    <3>5. CASE Judge(w) BY <3>5 DEF Judge, Goto
    <3>6. CASE NextStep(w) BY <3>6 DEF NextStep
    <3>7. CASE LastStep(w) BY <3>7 DEF LastStep, Goto
    <3>8. CASE Finalize(w) BY <3>8 DEF Finalize, Goto
    <3>9. CASE Complete(w) BY <3>9 DEF Complete, Goto
    <3>10. CASE Timeout(w) BY <3>10 DEF Timeout
    <3> QED
      BY <2>3, <3>1, <3>2, <3>3, <3>4, <3>5, <3>6, <3>7, <3>8, <3>9, <3>10 DEF Work, Thread
  <2>4. ASSUME NEW w \in Workers, Reject(w) PROVE RestoreExcludesWork'
    BY <2>4 DEF Reject, Goto
  <2>5. ASSUME NEW w \in Workers, ReaderDies(w) PROVE RestoreExcludesWork'
    BY <2>5 DEF ReaderDies, Goto
  <2>6. ASSUME NEW w \in Workers, NEW p \in Milestones, Output(w, p) PROVE RestoreExcludesWork'
    BY <2>6 DEF Output
  <2>7. CASE EnterMaintenance BY <2>7 DEF EnterMaintenance
  <2>8. CASE CheckActive BY <2>8, <2>0 DEF CheckActive
  <2>9. CASE ExitMaintenance BY <2>9 DEF ExitMaintenance
  <2>10. CASE Restart BY <2>10 DEF Restart
  <2>11. CASE UNCHANGED vars BY <2>11 DEF vars
  <2>12. ASSUME NEW w \in Workers, RunInline(w) PROVE RestoreExcludesWork'
    BY <2>12 DEF RunInline, Goto
  <2> QED
    BY <2>1, <2>2, <2>3, <2>4, <2>5, <2>6, <2>7, <2>8, <2>9, <2>10, <2>11, <2>12 DEF Next
<1> QED BY <1>1, <1>2, Typing, OwnershipHolds, PTL DEF Spec

\* A terminal status is never left: only _complete writes without a look at
\* the present status, and it writes for a job that is still running.
THEOREM TerminalIsFinalHolds == Spec => TerminalIsFinal
<1> USE JobAssumption DEF NotAccepted
<1> DEFINE Final == \A j \in Jobs : j \in kept \cap kept' /\ status[j] \in Terminal
                                      => status'[j] = status[j]
<1>1. Typed /\ Ownership /\ [Next]_vars => Final
  <2> SUFFICES ASSUME Typed, Ownership, [Next]_vars PROVE Final
    OBVIOUS
  <2> USE DEF Typed, TypeOK, Status, Running, Terminal, Step, Ownership,
              fileVars, procVars, workVars, histVars
  <2>1. ASSUME NEW j \in Jobs, Request(j) PROVE Final
    <3>1. CASE Prepare(j) BY <3>1 DEF Prepare
    <3>2. CASE Enqueue(j) BY <3>2 DEF Enqueue, Saved
    <3>3. CASE Refuse(j) BY <3>3 DEF Refuse
    <3>4. CASE CancelQueued(j) BY <3>4 DEF CancelQueued, InStatus
    <3>5. CASE CancelRunning(j) BY <3>5 DEF CancelRunning, InStatus
    <3>6. CASE CancelKill(j) BY <3>6 DEF CancelKill
    <3>7. CASE Delete(j) BY <3>7 DEF Delete, InStatus
    <3> QED BY <2>1, <3>1, <3>2, <3>3, <3>4, <3>5, <3>6, <3>7 DEF Request
  <2>2. ASSUME NEW j \in Jobs, ProcessExit(j) PROVE Final
    BY <2>2 DEF ProcessExit
  <2>3. ASSUME NEW w \in Workers, Work(w) PROVE Final
    <3>1. ASSUME NEW j \in Jobs, Take(w, j) PROVE Final
      BY <3>1 DEF Take, Oldest, InStatus
    <3>2. CASE Launch(w) BY <3>2 DEF Launch, Goto
    <3>3. CASE Register(w) BY <3>3 DEF Register, Goto
    <3>4. CASE Drained(w) BY <3>4 DEF Drained, Goto
    <3>5. CASE Judge(w) BY <3>5 DEF Judge, Goto
    <3>6. CASE NextStep(w) BY <3>6 DEF NextStep
    <3>7. CASE LastStep(w) BY <3>7 DEF LastStep, Goto
    <3>8. CASE Finalize(w) BY <3>8 DEF Finalize, Goto
    <3>9. CASE Complete(w) BY <3>9 DEF Complete, Goto
    <3>10. CASE Timeout(w) BY <3>10 DEF Timeout
    <3> QED
      BY <2>3, <3>1, <3>2, <3>3, <3>4, <3>5, <3>6, <3>7, <3>8, <3>9, <3>10 DEF Work, Thread
  <2>4. ASSUME NEW w \in Workers, Reject(w) PROVE Final
    BY <2>4 DEF Reject, Goto
  <2>5. ASSUME NEW w \in Workers, ReaderDies(w) PROVE Final
    BY <2>5 DEF ReaderDies, Goto
  <2>6. ASSUME NEW w \in Workers, NEW p \in Milestones, Output(w, p) PROVE Final
    BY <2>6 DEF Output
  <2>7. CASE EnterMaintenance BY <2>7 DEF EnterMaintenance
  <2>8. CASE CheckActive BY <2>8 DEF CheckActive
  <2>9. CASE ExitMaintenance BY <2>9 DEF ExitMaintenance
  <2>10. CASE Restart BY <2>10 DEF Restart, Recovered, InStatus
  <2>11. CASE UNCHANGED vars BY <2>11 DEF vars
  <2>12. ASSUME NEW w \in Workers, RunInline(w) PROVE Final
    BY <2>12 DEF RunInline, Goto
  <2> QED
    BY <2>1, <2>2, <2>3, <2>4, <2>5, <2>6, <2>7, <2>8, <2>9, <2>10, <2>11, <2>12 DEF Next
<1> QED BY <1>1, Typing, OwnershipHolds, PTL DEF Spec, TerminalIsFinal

\* The percentage of a recorded job never falls.
THEOREM ProgressNeverRegressesHolds == Spec => ProgressNeverRegresses
<1> USE JobAssumption DEF NotAccepted
<1> DEFINE Monotone == \A j \in kept \cap kept' : percent'[j] >= percent[j]
<1>1. Typed /\ Ownership /\ [Next]_vars => Monotone
  <2> SUFFICES ASSUME Typed, Ownership, [Next]_vars PROVE Monotone
    OBVIOUS
  <2>1. \A j \in kept : percent[j] \in Nat /\ percent[j] <= 100
    BY DEF Typed, TypeOK
  <2>2. CASE percent' = percent
    BY <2>1, <2>2
  <2>3. ASSUME NEW k, NEW p \in Nat, status[k] \notin Terminal, Advance(k, p) PROVE Monotone
    BY <2>1, <2>3 DEF Advance, Progress, Typed, TypeOK
  <2>4. \A w \in Workers : pc[w] # "idle" => status[cur[w]] \notin Terminal
    BY DEF Typed, Ownership, Running, Terminal
  <2>5. ASSUME NEW j \in Jobs, percent' = [percent EXCEPT ![j] = 100] PROVE Monotone
    BY <2>1, <2>5 DEF Typed, TypeOK
  <2>6. ASSUME NEW j \in Jobs, Request(j) PROVE Monotone
    <3>1. CASE CancelRunning(j)
      <4> DEFINE p == IF percent[j] > 90 THEN percent[j] ELSE 90
      <4>1. p \in Nat /\ status[j] \notin Terminal
        BY <2>1, <3>1 DEF CancelRunning, InStatus, Running, Terminal
      <4>2. Advance(j, p) BY <3>1 DEF CancelRunning
      <4> QED BY <4>1, <4>2, <2>3
    <3>2. CASE CancelQueued(j) BY <3>2, <2>5 DEF CancelQueued
    <3>3. CASE percent' = percent BY <3>3, <2>2
    <3> QED BY <2>6, <3>1, <3>2, <3>3
            DEF Request, Prepare, Enqueue, Refuse, CancelKill, Delete, fileVars
  <2>7. ASSUME NEW w \in Workers, Work(w) PROVE Monotone
    <3>1. ASSUME NEW j \in Jobs, Take(w, j) PROVE Monotone
      <4>1. Advance(j, 10) /\ status[j] \notin Terminal
        BY <3>1 DEF Take, Oldest, InStatus, Terminal
      <4> QED BY <4>1, <2>3
    <3>2. CASE Launch(w) BY <3>2, <2>3, <2>4 DEF Launch
    <3>3. CASE Register(w) BY <3>3, <2>3, <2>4 DEF Register
    <3>4. CASE NextStep(w) BY <3>4, <2>3, <2>4 DEF NextStep
    <3>5. CASE Complete(w)
      <4>1. percent' = percent \/ \E j \in Jobs : percent' = [percent EXCEPT ![j] = 100]
        BY <3>5 DEF Complete, Typed, TypeOK
      <4> QED BY <4>1, <2>2, <2>5
    <3>6. CASE percent' = percent BY <3>6, <2>2
    <3> QED BY <2>7, <3>1, <3>2, <3>3, <3>4, <3>5, <3>6
            DEF Work, Thread, Drained, Judge, LastStep, Finalize, Timeout, fileVars
  <2>8. ASSUME NEW w \in Workers, NEW p \in Milestones, Output(w, p) PROVE Monotone
    BY <2>8, <2>3, <2>4 DEF Output
  <2>9. CASE Restart
    BY <2>1, <2>9 DEF Restart, Typed, TypeOK
  <2>10. ASSUME NEW w \in Workers, RunInline(w) PROVE Monotone
    <3> DEFINE p == IF cur[w] \in StepJobs THEN 50 ELSE 45
    <3>1. p \in Nat /\ status[cur[w]] \notin Terminal
      BY <2>10, <2>4 DEF RunInline
    <3>2. Advance(cur[w], p) BY <2>10 DEF RunInline
    <3> QED BY <3>1, <3>2, <2>3
  <2> QED
    BY <2>2, <2>6, <2>7, <2>8, <2>9, <2>10 DEF Next, Reject, ReaderDies, ProcessExit,
       EnterMaintenance, CheckActive, ExitMaintenance, fileVars, vars
<1> QED BY <1>1, Typing, OwnershipHolds, PTL DEF Spec, ProgressNeverRegresses
-----------------------------------------------------------------------------
\* Insertion ranks grow with every submission, so a record that was just
\* inserted is the newest and the truncating save keeps it.
Ranks ==
  /\ \A j \in Jobs : place[j] = 0 <=> status[j] \in NotAccepted
  /\ \A j \in Jobs : place[j] <= Cardinality({k \in Jobs : place[k] > 0})

\* The rank given to a new record is above that of every other one.
LEMMA NextRank ==
  ASSUME NEW f \in [Jobs -> Nat], NEW j \in Jobs, f[j] = 0,
         \A k \in Jobs : f[k] <= Cardinality({i \in Jobs : f[i] > 0}),
         NEW g, g = [f EXCEPT ![j] = Next1(f)]
  PROVE  /\ g \in [Jobs -> Nat]
         /\ g[j] > 0
         /\ \A k \in Jobs : k # j => g[k] = f[k] /\ g[k] < g[j]
         /\ \A k \in Jobs : g[k] <= Cardinality({i \in Jobs : g[i] > 0})
<1> DEFINE R == {i \in Jobs : f[i] > 0}
<1> DEFINE c == Cardinality(R)
<1>1. IsFiniteSet(R)
  BY JobAssumption, FS_Subset
<1>2. c \in Nat
  BY <1>1, FS_CardinalityType
<1>3. Next1(f) = 1 + c
  BY DEF Next1
<1>4. j \notin R
  OBVIOUS
<1>5. Cardinality(R \cup {j}) = c + 1
  BY <1>1, <1>4, FS_AddElement
<1>6. \A k \in Jobs : f[k] \in Nat /\ f[k] <= c
  OBVIOUS
<1>7. g \in [Jobs -> Nat] /\ g[j] = 1 + c /\ \A k \in Jobs : k # j => g[k] = f[k]
  <2> HIDE DEF c
  <2> QED BY <1>2, <1>3
<1>8. {i \in Jobs : g[i] > 0} = R \cup {j}
  <2> HIDE DEF c
  <2> QED BY <1>2, <1>7
<1> HIDE DEF R
<1>9. Cardinality({i \in Jobs : g[i] > 0}) = c + 1
  BY <1>5, <1>8
<1> HIDE DEF c
<1> QED BY <1>2, <1>6, <1>7, <1>9

\* A submission that was accepted is in the file.
LEMMA NewestIsSaved ==
  ASSUME Typed, Ownership, Ranks, NEW j \in Jobs, Enqueue(j)
  PROVE  j \in kept' /\ kept' \subseteq kept \cup {j}
<1>1. place[j] = 0 /\ place' = [place EXCEPT ![j] = Next1(place)]
  BY DEF Enqueue, Ranks, NotAccepted
<1>2. \A k \in kept \cup {j} : ~(place'[k] > place'[j])
  <2>1. place \in [Jobs -> Nat] /\ kept \subseteq Jobs
    BY DEF Typed, TypeOK
  <2>2. /\ place' \in [Jobs -> Nat]
        /\ \A k \in Jobs : k # j => place'[k] < place'[j]
    BY <1>1, <2>1, NextRank DEF Ranks
  <2> QED BY <2>1, <2>2
<1>3. {k \in kept \cup {j} : place'[k] > place'[j]} = {}
  BY <1>2
<1>4. Cardinality({k \in kept \cup {j} : place'[k] > place'[j]}) < MaxKept
  BY <1>3, FS_EmptySet, JobAssumption
<1> QED BY <1>4 DEF Enqueue, Saved

\* Ranks are given in order and only to accepted submissions.
THEOREM RanksHold == Spec => []Ranks
<1> USE JobAssumption DEF NotAccepted
<1>1. Init => Ranks
  <2> SUFFICES ASSUME Init PROVE Ranks
    OBVIOUS
  <2>1. {k \in Jobs : place[k] > 0} = {} BY DEF Init
  <2>2. Cardinality({k \in Jobs : place[k] > 0}) = 0 BY <2>1, FS_EmptySet
  <2> QED BY <2>2 DEF Init, Ranks
<1>2. Typed /\ Ownership /\ Ranks /\ [Next]_vars => Ranks'
  <2> SUFFICES ASSUME Typed, Ownership, Ranks, [Next]_vars PROVE Ranks'
    OBVIOUS
  <2>1. ASSUME UNCHANGED place,
               \A j \in Jobs : status'[j] \in NotAccepted <=> status[j] \in NotAccepted
        PROVE  Ranks'
    BY <2>1 DEF Ranks
  <2>2. \A w \in Workers : pc[w] # "idle" => cur[w] \in Jobs /\ status[cur[w]] \in Running
    BY DEF Typed, TypeOK, Ownership
  <2>3. ASSUME NEW j \in Jobs, Request(j) PROVE Ranks'
    <3>1. CASE Enqueue(j)
      <4>1. place[j] = 0 /\ place' = [place EXCEPT ![j] = Next1(place)]
        BY <3>1 DEF Enqueue, Ranks
      <4>2. /\ place'[j] > 0
            /\ \A k \in Jobs : k # j => place'[k] = place[k]
            /\ \A k \in Jobs : place'[k] <= Cardinality({i \in Jobs : place'[i] > 0})
        BY <4>1, NextRank DEF Ranks, Typed, TypeOK
      <4>3. status' = [status EXCEPT ![j] = "queued"]
        BY <3>1 DEF Enqueue
      <4>4. \A k \in Jobs : place'[k] = 0 <=> status'[k] \in NotAccepted
        BY <4>1, <4>2, <4>3 DEF Ranks, Typed, TypeOK
      <4> QED BY <4>2, <4>4 DEF Ranks
    <3>2. CASE Prepare(j) \/ Refuse(j) \/ CancelQueued(j) \/ CancelRunning(j)
      BY <3>2, <2>1 DEF Prepare, Refuse, CancelQueued, CancelRunning, InStatus, Running,
                        Typed, TypeOK
    <3>3. CASE CancelKill(j) \/ Delete(j)
      BY <3>3, <2>1 DEF CancelKill, Delete, fileVars
    <3> QED BY <2>3, <3>1, <3>2, <3>3 DEF Request
  <2>4. ASSUME NEW w \in Workers, Work(w) PROVE Ranks'
    <3>1. ASSUME NEW j \in Jobs, Take(w, j) PROVE Ranks'
      BY <3>1, <2>1 DEF Take, Oldest, InStatus, Typed, TypeOK
    <3>2. CASE Complete(w)
      <4>1. cur[w] \in Jobs /\ status[cur[w]] \in Running
        BY <3>2, <2>2 DEF Complete
      <4>2. result[w] \in Terminal
        BY <3>2 DEF Complete, Typed, TypeOK
      <4> QED BY <3>2, <4>1, <4>2, <2>1 DEF Complete, Running, Terminal, Typed, TypeOK
    <3>3. CASE UNCHANGED <<status, place>>
      BY <3>3, <2>1
    <3> QED BY <2>4, <3>1, <3>2, <3>3
            DEF Work, Thread, Launch, Register, Drained, Judge, NextStep, LastStep, Finalize, Timeout, fileVars
  <2>5. CASE Restart
    BY <2>5, <2>1 DEF Restart, Recovered, InStatus, Running, Typed, TypeOK
  <2>6. CASE UNCHANGED <<status, place>>
    BY <2>6, <2>1
  <2> QED
    BY <2>3, <2>4, <2>5, <2>6 DEF Next, Reject, RunInline, ReaderDies, Output, ProcessExit,
       EnterMaintenance, CheckActive, ExitMaintenance, fileVars, vars
<1> QED BY <1>1, <1>2, Typing, OwnershipHolds, PTL DEF Spec

-----------------------------------------------------------------------------
\* The phases, one equivalence per kind of job.
PhaseTable ==
  \A j \in Jobs :
    /\ PhaseOf(j) = "outside" <=> status[j] \in NotAccepted
    /\ PhaseOf(j) = "gone" <=> status[j] \notin NotAccepted /\ j \notin kept
    /\ PhaseOf(j) = "waiting" <=> j \in kept /\ status[j] = "queued"
    /\ PhaseOf(j) = "executing" <=> j \in kept /\ status[j] \in Running
    /\ PhaseOf(j) = "ended" <=> j \in kept /\ status[j] \in Terminal
    /\ PhaseOf(j) \in {"outside", "gone", "waiting", "executing", "ended"}

\* The table covers every status a job can have.
LEMMA Phases == Typed /\ Ownership => PhaseTable
<1> SUFFICES ASSUME Typed, Ownership, NEW j \in Jobs
             PROVE  /\ PhaseOf(j) = "outside" <=> status[j] \in NotAccepted
                    /\ PhaseOf(j) = "gone" <=> status[j] \notin NotAccepted /\ j \notin kept
                    /\ PhaseOf(j) = "waiting" <=> j \in kept /\ status[j] = "queued"
                    /\ PhaseOf(j) = "executing" <=> j \in kept /\ status[j] \in Running
                    /\ PhaseOf(j) = "ended" <=> j \in kept /\ status[j] \in Terminal
                    /\ PhaseOf(j) \in {"outside", "gone", "waiting", "executing", "ended"}
  BY DEF PhaseTable
<1>1. status[j] \in Status /\ (j \in kept => status[j] \notin NotAccepted)
  BY DEF Typed, TypeOK, Ownership
<1>2. \A S : j \in InStatus(S) <=> j \in kept /\ status[j] \in S
  BY DEF Typed, TypeOK, InStatus
<1> USE DEF NotAccepted, Status, Running, Terminal
<1>3. CASE status[j] \in NotAccepted BY <1>1, <1>2, <1>3 DEF PhaseOf
<1>4. CASE status[j] \notin NotAccepted /\ j \notin kept BY <1>1, <1>2, <1>4 DEF PhaseOf
<1>5. CASE j \in kept /\ status[j] = "queued"
  <2>1. PhaseOf(j) = "waiting" BY <1>2, <1>5 DEF PhaseOf
  <2> QED BY <1>5, <2>1
<1>6. CASE j \in kept /\ status[j] \in Running BY <1>1, <1>2, <1>6 DEF PhaseOf
<1>7. CASE j \in kept /\ status[j] \in Terminal BY <1>1, <1>2, <1>7 DEF PhaseOf
<1> QED BY <1>1, <1>3, <1>4, <1>5, <1>6, <1>7

\* Every behaviour of the queue is a behaviour of the at-most-once executor:
\* each step of the queue is one of its steps or leaves every phase alone.
THEOREM LifecycleImplemented == Spec => ImplementsLifecycle
<1> DEFINE phase == [j \in Jobs |-> PhaseOf(j)]
<1>1. Init => Lifecycle!Init
  <2> SUFFICES ASSUME Init PROVE Lifecycle!Init
    OBVIOUS
  <2>1. \A j \in Jobs : status[j] = "new" BY DEF Init
  <2>2. \A S : \A j \in Jobs : j \notin InStatus(S) BY DEF Init, InStatus
  <2>3. \A j \in Jobs : PhaseOf(j) = "outside"
    <3> SUFFICES ASSUME NEW j \in Jobs PROVE PhaseOf(j) = "outside"
      OBVIOUS
    <3> QED BY <2>1, <2>2 DEF PhaseOf
  <2> QED BY <2>3 DEF Lifecycle!Init
<1>2. Typed' /\ Ownership' => PhaseTable'
  BY Phases, PTL
<1>3. /\ Typed /\ Ownership /\ Ranks
      /\ Typed' /\ Ownership'
      /\ [Next]_vars
      => [Lifecycle!Next]_phase
  <2> SUFFICES ASSUME Typed, Ownership, Ranks, Typed', Ownership', [Next]_vars
               PROVE  Lifecycle!Next \/ phase' = phase
    OBVIOUS
  <2>1. PhaseTable /\ PhaseTable'
    BY <1>2, Phases
  <2>2. ASSUME NEW j \in Jobs, j \in kept' <=> j \in kept,
               status'[j] = status[j] \/ {status[j], status'[j]} \subseteq Running
                                      \/ {status[j], status'[j]} \subseteq NotAccepted
        PROVE  PhaseOf(j)' = PhaseOf(j)
    BY <2>1, <2>2 DEF PhaseTable, NotAccepted, Running
  <2>3. ASSUME UNCHANGED <<kept, status>> PROVE phase' = phase
    BY <2>2, <2>3
  <2>4. ASSUME NEW j \in InStatus({"queued"} \cup Running), NEW r \in Terminal,
               kept' = kept, status' = [status EXCEPT ![j] = r]
        PROVE  Lifecycle!Next
    <3>1. j \in kept /\ j \in Jobs /\ status[j] \in {"queued"} \cup Running
      BY DEF InStatus, Typed, TypeOK
    <3>2. {j} \in SUBSET Lifecycle!In({"waiting", "executing"})
      BY <2>1, <3>1 DEF Lifecycle!In, PhaseTable
    <3>3. \A k \in Jobs \ {j} : PhaseOf(k)' = PhaseOf(k)
      BY <2>2, <2>4 DEF Typed, TypeOK
    <3>4. PhaseOf(j)' = "ended"
      BY <2>1, <2>4, <3>1 DEF PhaseTable, Typed, TypeOK
    <3>5. phase' = [k \in Jobs |-> IF k \in {j} THEN "ended" ELSE phase[k]]
      BY <3>3, <3>4
    <3> QED BY <3>2, <3>5 DEF Lifecycle!Next, Lifecycle!End
  <2>5. ASSUME NEW j \in Jobs, Request(j) PROVE Lifecycle!Next \/ phase' = phase
    <3>1. CASE Enqueue(j)
      <4> DEFINE pushed == kept \ kept'
      <4>1. j \in kept' /\ kept' \subseteq kept \cup {j}
        BY <3>1, NewestIsSaved
      <4>2. j \in Lifecycle!In({"outside"})
        BY <3>1, <2>1 DEF Enqueue, Lifecycle!In, PhaseTable, NotAccepted
      <4>3. pushed \in SUBSET Lifecycle!In({"waiting", "executing", "ended"})
        BY <2>1 DEF Lifecycle!In, PhaseTable, Typed, TypeOK, Ownership
      <4>4. status' = [status EXCEPT ![j] = "queued"]
        BY <3>1 DEF Enqueue
      <4>5. PhaseOf(j)' = "waiting"
        BY <4>1, <4>4, <2>1 DEF PhaseTable, Typed, TypeOK
      <4>6. \A k \in Jobs \ {j} : k \notin pushed => PhaseOf(k)' = PhaseOf(k)
        BY <2>2, <4>1, <4>4 DEF Typed, TypeOK
      <4>7. \A k \in pushed : k # j /\ PhaseOf(k)' = "gone"
        BY <4>1, <4>4, <2>1 DEF PhaseTable, Typed, TypeOK, Ownership
      <4>8. phase' = [k \in Jobs |-> IF k = j THEN "waiting"
                                     ELSE IF k \in pushed THEN "gone" ELSE phase[k]]
        BY <4>5, <4>6, <4>7
      <4> QED BY <4>2, <4>3, <4>8 DEF Lifecycle!Next, Lifecycle!Accept
    <3>2. CASE Prepare(j) \/ Refuse(j) \/ CancelRunning(j)
      <4>1. \A k \in Jobs : PhaseOf(k)' = PhaseOf(k)
        BY <3>2, <2>2 DEF Prepare, Refuse, CancelRunning, InStatus, NotAccepted, Running,
                          Typed, TypeOK
      <4> QED BY <4>1
    <3>3. CASE CancelQueued(j)
      <4>1. j \in InStatus({"queued"} \cup Running) /\ kept' = kept
        BY <3>3 DEF CancelQueued, InStatus
      <4>2. status' = [status EXCEPT ![j] = "cancelled"] /\ "cancelled" \in Terminal
        BY <3>3 DEF CancelQueued, Terminal
      <4> QED BY <4>1, <4>2, <2>4
    <3>4. CASE CancelKill(j)
      BY <3>4, <2>3 DEF CancelKill, fileVars
    <3>5. CASE Delete(j)
      <4>1. j \in Lifecycle!In({"ended"})
        BY <3>5, <2>1 DEF Delete, Lifecycle!In, InStatus, PhaseTable
      <4>2. \A k \in Jobs \ {j} : PhaseOf(k)' = PhaseOf(k)
        BY <3>5, <2>2 DEF Delete
      <4>3. PhaseOf(j)' = "gone"
        BY <3>5, <2>1 DEF Delete, PhaseTable, InStatus, Ownership
      <4>4. phase' = [phase EXCEPT ![j] = "gone"]
        BY <4>2, <4>3
      <4> QED BY <4>1, <4>4 DEF Lifecycle!Next, Lifecycle!Forget
    <3> QED BY <2>5, <3>1, <3>2, <3>3, <3>4, <3>5 DEF Request
  <2>6. ASSUME NEW w \in Workers, Work(w) PROVE Lifecycle!Next \/ phase' = phase
    <3>1. ASSUME NEW j \in Jobs, Take(w, j) PROVE Lifecycle!Next
      <4>1. j \in kept /\ status[j] = "queued" /\ kept' = kept
            /\ status' = [status EXCEPT ![j] = "running"]
        BY <3>1 DEF Take, Oldest, InStatus
      <4>2. j \in Lifecycle!In({"waiting"})
        BY <4>1, <2>1 DEF Lifecycle!In, PhaseTable
      <4>3. \A k \in Jobs \ {j} : PhaseOf(k)' = PhaseOf(k)
        BY <4>1, <2>2 DEF Typed, TypeOK
      <4>4. PhaseOf(j)' = "executing"
        BY <4>1, <2>1 DEF PhaseTable, Running, Typed, TypeOK
      <4>5. phase' = [phase EXCEPT ![j] = "executing"]
        BY <4>3, <4>4
      <4> QED BY <4>2, <4>5 DEF Lifecycle!Next, Lifecycle!Begin
    <3>2. CASE Complete(w)
      <4>1. cur[w] \in Jobs /\ status[cur[w]] \in Running /\ result[w] \in Terminal
        BY <3>2 DEF Complete, Typed, TypeOK, Ownership
      <4>2. CASE cur[w] \in kept
        <5>1. kept' = kept /\ status' = [status EXCEPT ![cur[w]] = result[w]]
          BY <3>2, <4>2 DEF Complete
        <5>2. cur[w] \in InStatus({"queued"} \cup Running)
          BY <4>1, <4>2 DEF InStatus
        <5> QED BY <4>1, <5>1, <5>2, <2>4
      <4>3. CASE cur[w] \notin kept
        BY <3>2, <4>3, <2>3 DEF Complete
      <4> QED BY <4>2, <4>3
    <3>3. CASE UNCHANGED <<kept, status>>
      BY <3>3, <2>3
    <3> QED BY <2>6, <3>1, <3>2, <3>3
            DEF Work, Thread, Launch, Register, Drained, Judge, NextStep, LastStep, Finalize, Timeout,
                fileVars
  <2>7. CASE Restart
    <3> DEFINE S == InStatus({"queued"} \cup Running)
    <3>1. kept' = kept /\ \A j \in Jobs : status'[j] = Recovered(j)
      BY <2>7 DEF Restart
    <3>3. \A j \in S : status'[j] \in Terminal
      BY <3>1 DEF Recovered, Terminal, InStatus, Typed, TypeOK
    <3>4. \A j \in S : PhaseOf(j)' = "ended"
      BY <2>1, <3>1, <3>3 DEF PhaseTable, InStatus, Typed, TypeOK
    <3>5. \A j \in Jobs \ S : PhaseOf(j)' = PhaseOf(j)
      BY <3>1, <2>2 DEF Recovered, NotAccepted
    <3>6. S \in SUBSET Lifecycle!In({"waiting", "executing"})
      BY <2>1 DEF Lifecycle!In, PhaseTable, InStatus, Typed, TypeOK
    <3>7. phase' = [j \in Jobs |-> IF j \in S THEN "ended" ELSE phase[j]]
      BY <3>4, <3>5
    <3> QED BY <3>6, <3>7 DEF Lifecycle!Next, Lifecycle!End
  <2>8. CASE UNCHANGED <<kept, status>>
    BY <2>8, <2>3
  <2> QED
    BY <2>5, <2>6, <2>7, <2>8 DEF Next, Reject, RunInline, ReaderDies, Output, ProcessExit,
       EnterMaintenance, CheckActive, ExitMaintenance, fileVars, vars
<1> QED BY <1>1, <1>3, Typing, OwnershipHolds, RanksHold, PTL
        DEF Spec, ImplementsLifecycle, Lifecycle!Spec
=============================================================================
