--------------------------- MODULE RecoveryProofs ---------------------------
(***************************************************************************)
(* Proofs, for any number of runs, jobs and threads and any plan, that     *)
(* deployments exclude each other, that the runs implement Ownership, that *)
(* a password change is submitted once, and that the recorded steps are    *)
(* done by jobs of their own and the rest follows the initial access.      *)
(*                                                                         *)
(* Exclusion: only Deploy, its variants and SubmitManual make a run open   *)
(* or a deployment active, each under Guard; every other step leaves the   *)
(* open runs open or over and the active deployments fewer (Tame).         *)
(*                                                                         *)
(* The password: before a run is resumed it has one coordinator at most,   *)
(* and what that submitted is recorded before it goes on (Single); after,  *)
(* no password change is pending (Replayable), as a resume asks for that,  *)
(* and recorded steps only become more.                                    *)
(*                                                                         *)
(* The steps: jobs keep their run and step and stay succeeded, and what is *)
(* recorded stays recorded (StepPersists), so a run whose initial access   *)
(* is done keeps it (Gated). A job a coordinator holds is its own and not  *)
(* recorded (Linked), so each is recorded once. Before a run is resumed    *)
(* its coordinator is at the step after the recorded ones (InTurn), which  *)
(* keeps the recorded ones in the order of the plan (InPlanOrder); after,  *)
(* coordinators overlap, and what keeps a step behind the initial access   *)
(* is that it is of another kind (Gated), or that it would change the      *)
(* password again (Ordered). A later access step has neither (Overtaken).  *)
(***************************************************************************)
EXTENDS Recovery, TLAPS, WellFoundedInduction

\* A run that is over.
Over == {"accepted", "closed"}

\* A deployment that is queued or running.
ActiveDeployment(j) == job[j].kind \in Deployments /\ Active(j)

\* A deployment job works on what its run needs.
WellFormed ==
  \A j \in Jobs : job[j].kind = "deploy" => job[j].run \in Runs /\ job[j].needs = Needs[job[j].run]

-----------------------------------------------------------------------------
(* Types *)

LEMMA IdleTypes ==
  /\ NoJob \in JobRecords /\ NoThread \in ThreadRecords /\ NoCollector \in CollectorRecords
  /\ \A r \in Runs, a \in BOOLEAN : Coordinator(r, a) \in ThreadRecords
  /\ \A c \in Collectors, r \in Runs, n \in Nat, p \in {"begin", "reading"} :
       [pc |-> p, run |-> r, since |-> n] \in CollectorRecords
BY DEF NoJob, NoThread, NoCollector, Coordinator, JobRecords, ThreadRecords, CollectorRecords

\* What Queue puts into the table is a job.
LEMMA QueueType ==
  ASSUME job \in [Jobs -> JobRecords], NEW j \in Jobs, NEW k \in {"deploy", "manual", "step", "direct"},
         NEW r \in Runs \cup {None}, NEW i \in Nat, NEW S \in SUBSET Resources, Queue(j, k, r, i, S)
  PROVE  job' \in [Jobs -> JobRecords]
<1>1. [kind |-> k, run |-> r, step |-> i, needs |-> S, status |-> "queued"] \in JobRecords
  BY DEF JobRecords
<1> QED BY <1>1 DEF Queue

\* A new status leaves a job one.
LEMMA StatusType ==
  ASSUME NEW x \in JobRecords, NEW s \in {"none", "queued", "running"} \cup Terminal
  PROVE  [x EXCEPT !.status = s] \in JobRecords
BY DEF JobRecords

\* Every variable keeps its type.
THEOREM TypeOKHolds == Spec => []TypeOK
<1> USE RecoveryAssumption DEF TypeOK
<1>1. Init => TypeOK
  BY IdleTypes DEF Init, Statuses
<1>2. TypeOK /\ [Next]_vars => TypeOK'
  <2> SUFFICES ASSUME TypeOK, [Next]_vars PROVE TypeOK'
    OBVIOUS
  <2> USE DEF Other, Fault, store
  <2>1. ASSUME NEW r \in Runs, Deploying(r) PROVE TypeOK'
    <3>1. CASE Prepare(r) BY <3>1 DEF Prepare, Statuses
    <3>2. CASE ClosePrepared(r) BY <3>2 DEF ClosePrepared, Statuses
    <3>3. CASE DeployRefused(r) BY <3>3 DEF DeployRefused, Statuses, Open
    <3>4. CASE Refresh(r) BY <3>4 DEF Refresh, Refreshed, Statuses, Open
    <3>5. ASSUME NEW j \in Jobs, Deploy(r, j) PROVE TypeOK'
      <4>1. job' \in [Jobs -> JobRecords]
        BY <3>5, QueueType DEF Deploy
      <4> QED BY <3>5, <4>1 DEF Deploy, Statuses, Open
    <3>6. ASSUME NEW j \in Jobs, DeployUnlinked(r, j) PROVE TypeOK'
      <4>1. job' \in [Jobs -> JobRecords]
        BY <3>6, QueueType DEF DeployUnlinked
      <4> QED BY <3>6, <4>1 DEF DeployUnlinked, Statuses, Open
    <3>7. ASSUME NEW j \in Jobs, DeployUnsaved(r, j) PROVE TypeOK'
      <4>1. job' \in [Jobs -> JobRecords]
        BY <3>7, QueueType DEF DeployUnsaved
      <4> QED BY <3>7, <4>1 DEF DeployUnsaved, Statuses, Open
    <3> QED BY <2>1, <3>1, <3>2, <3>3, <3>4, <3>5, <3>6, <3>7 DEF Deploying
  <2>2. ASSUME NEW r \in Runs, Operator(r) PROVE TypeOK'
    <3>1. CASE AttestHealth(r) BY <3>1 DEF AttestHealth, Healthy, Statuses, Open
    <3>2. CASE Accept(r) BY <3>2 DEF Accept, Statuses
    <3>3. CASE Reconcile(r) BY <3>3 DEF Reconcile, Statuses
    <3>4. CASE Resume(r)
      <4>1. mayResume' \in [Runs -> BOOLEAN]
        BY <3>4, Zenon DEF Resume
      <4> QED BY <3>4, <4>1 DEF Resume, Statuses, Open
    <3>5. CASE Stop(r)
      <4>1. job' \in [Jobs -> JobRecords]
        BY <3>5, StatusType DEF Stop, Terminal
      <4> QED BY <3>5, <4>1 DEF Stop, Statuses, Open
    <3>6. ASSUME NEW c \in Collectors, AskHealth(r, c) PROVE TypeOK'
      BY <3>6, IdleTypes DEF AskHealth
    <3>7. ASSUME NEW t \in Threads, StartBootstrap(r, t) PROVE TypeOK'
      BY <3>7, IdleTypes DEF StartBootstrap, Statuses, Open
    <3>8. ASSUME NEW t \in Threads, StartConfiguration(r, t) PROVE TypeOK'
      BY <3>8, IdleTypes DEF StartConfiguration, Statuses, Open
    <3>9. ASSUME NEW j \in Jobs, LinkStep(r, j) PROVE TypeOK'
      <4>1. [index |-> Len(steps[r]) + 1, job |-> j] \in StepRecords
        BY DEF StepRecords
      <4> QED BY <3>9, <4>1 DEF LinkStep, Statuses, Open
    <3> QED BY <2>2, <3>1, <3>2, <3>3, <3>4, <3>5, <3>6, <3>7, <3>8, <3>9 DEF Operator
  <2>3. CASE \E r \in Runs : EvidenceAges(r) BY <2>3 DEF EvidenceAges
  <2>4. ASSUME NEW t \in Threads, Coordinate(t) PROVE TypeOK'
    <3> USE DEF Run
    <3>a. ASSUME thread[t].pc # "idle"
           PROVE /\ thread[t] \in [pc : {"top", "wait", "seen", "raised"}, run : Runs, access : BOOLEAN,
                                   job : Jobs \cup {None}, step : Nat, ok : BOOLEAN]
                 /\ thread[t].run \in Runs /\ thread[t].access \in BOOLEAN /\ thread[t].step \in Nat
                 /\ thread[t].job \in Jobs \cup {None}
                 /\ thread[t].pc \in {"wait", "seen"} => thread[t].job \in Jobs
      BY <3>a DEF ThreadRecords, NoThread
    <3>b. ASSUME thread[t].pc # "idle", Become(t, "raised")
           PROVE thread' \in [Threads -> ThreadRecords]
      <4>1. [thread[t] EXCEPT !.pc = "raised"] \in ThreadRecords
        BY <3>a, <3>b DEF ThreadRecords
      <4> QED BY <3>b, <4>1 DEF Become
    <3>1. CASE Leave(t) BY <3>1, IdleTypes DEF Leave
    <3>2. CASE Finish(t)
      <4>1. collector' \in [Collectors -> CollectorRecords]
        <5>1. ASSUME NEW c \in Collectors,
                     collector' = [collector EXCEPT ![c] = [pc |-> "begin", run |-> thread[t].run, since |-> 0]]
              PROVE  collector' \in [Collectors -> CollectorRecords]
          <6>1. [pc |-> "begin", run |-> thread[t].run, since |-> 0] \in CollectorRecords
            BY <3>a, <3>2 DEF Finish, CollectorRecords
          <6> QED BY <5>1, <6>1
        <5> QED BY <3>2, <5>1 DEF Finish
      <4>2. thread' \in [Threads -> ThreadRecords] /\ status' \in [Runs -> Statuses]
        BY <3>2, IdleTypes DEF Finish, Statuses, Open
      <4> QED BY <3>2, <4>1, <4>2 DEF Finish
    <3>3. CASE StepRefused(t) BY <3>3, <3>b DEF StepRefused
    <3>4. CASE SeeJob(t)
      <4>1. Succeeded(thread[t].job) \in BOOLEAN
        BY DEF Succeeded
      <4>2. [thread[t] EXCEPT !.pc = "seen", !.ok = Succeeded(thread[t].job)] \in ThreadRecords
        BY <3>4, <4>1, <3>a DEF SeeJob, ThreadRecords
      <4>3. thread' \in [Threads -> ThreadRecords]
        BY <3>4, <4>2 DEF SeeJob
      <4> QED BY <3>4, <4>3 DEF SeeJob
    <3>5. CASE Record(t)
      <4>1. thread' \in [Threads -> ThreadRecords]
        BY <3>5, <3>a, IdleTypes DEF Record
      <4>2. [index |-> thread[t].step, job |-> thread[t].job] \in StepRecords
        BY <3>5, <3>a DEF Record, StepRecords, Succeeded
      <4>3. steps' \in [Runs -> Seq(StepRecords)]
        BY <3>5, <3>a, <4>2 DEF Record
      <4> QED BY <3>5, <4>1, <4>3 DEF Record
    <3>6. CASE StepFailed(t) BY <3>6, <3>b DEF StepFailed
    <3>7. CASE RecordUnsaved(t) BY <3>7, <3>b DEF RecordUnsaved
    <3>8. CASE Handler(t) BY <3>8, IdleTypes DEF Handler, Statuses, Open
    <3>9. ASSUME NEW j \in Jobs, SubmitStep(t, j) PROVE TypeOK'
      <4>1. Ahead(t) \in Nat
        BY <3>9, <3>a DEF SubmitStep, HasStep, Ahead
      <4>2. job' \in [Jobs -> JobRecords]
        BY <3>9, <3>a, <4>1, QueueType DEF SubmitStep, HasStep
      <4>3. [thread[t] EXCEPT !.pc = "wait", !.job = j, !.step = Ahead(t)] \in ThreadRecords
        BY <3>9, <3>a, <4>1 DEF SubmitStep, HasStep, ThreadRecords
      <4>4. thread' \in [Threads -> ThreadRecords]
        BY <3>9, <4>3 DEF SubmitStep
      <4> QED BY <3>9, <4>2, <4>4 DEF SubmitStep
    <3>10. ASSUME NEW j \in Jobs, SubmitUnsaved(t, j) PROVE TypeOK'
      <4>1. Ahead(t) \in Nat
        BY <3>10, <3>a DEF SubmitUnsaved, HasStep, Ahead
      <4>2. job' \in [Jobs -> JobRecords]
        BY <3>10, <3>a, <4>1, QueueType DEF SubmitUnsaved, HasStep
      <4>3. thread' \in [Threads -> ThreadRecords]
        BY <3>10, <3>b DEF SubmitUnsaved, HasStep
      <4> QED BY <3>10, <4>2, <4>3 DEF SubmitUnsaved
    <3> QED BY <2>4, <3>1, <3>2, <3>3, <3>4, <3>5, <3>6, <3>7, <3>8, <3>9, <3>10 DEF Coordinate
  <2>5. ASSUME NEW c \in Collectors, Collect(c) PROVE TypeOK'
    <3>1. CASE CollectBegins(c)
      <4>1. collector[c].run \in Runs /\ collector[c] \in [pc : {"begin", "reading"}, run : Runs, since : Nat]
        BY <3>1 DEF CollectBegins, CollectorRecords, NoCollector
      <4>2. [collector[c] EXCEPT !.pc = "reading", !.since = resumes[collector[c].run]] \in CollectorRecords
        BY <4>1 DEF CollectorRecords
      <4>3. \/ collector' = [collector EXCEPT ![c] = [collector[c] EXCEPT !.pc = "reading",
                                                                      !.since = resumes[collector[c].run]]]
            \/ collector' = [collector EXCEPT ![c] = NoCollector]
        BY <3>1 DEF CollectBegins
      <4>4. collector' \in [Collectors -> CollectorRecords]
        BY <4>2, <4>3, IdleTypes
      <4>5. status' \in [Runs -> Statuses]
        BY <3>1, <4>1 DEF CollectBegins, Statuses, Open
      <4>6. collection' \in [Runs -> Collectors \cup {None}] /\ evidence' \in [Runs -> {"none", "fresh", "old"}]
        <5>1. CASE Readable(collector[c].run)
          <6>1. /\ collection' = [collection EXCEPT ![collector[c].run] = c]
                /\ evidence' = [evidence EXCEPT ![collector[c].run] = "none"]
            BY <3>1, <5>1 DEF CollectBegins
          <6> QED BY <4>1, <6>1
        <5>2. CASE ~Readable(collector[c].run)
          BY <3>1, <5>2 DEF CollectBegins
        <5> QED BY <5>1, <5>2
      <4> QED BY <3>1, <4>4, <4>5, <4>6 DEF CollectBegins
    <3>2. CASE CollectEnds(c)
      <4>1. collector[c].since \in Nat
        BY <3>2 DEF CollectEnds, CollectorRecords, NoCollector
      <4> QED BY <3>2, <4>1, IdleTypes DEF CollectEnds, Healthy, Statuses, Open
    <3> QED BY <2>5, <3>1, <3>2 DEF Collect
  <2>6. ASSUME NEW j \in Jobs, QueueStep(j) PROVE TypeOK'
    <3>1. ASSUME NEW s \in {"running", "success", "ended"}, SetJob(j, s) PROVE TypeOK'
      <4>1. [job[j] EXCEPT !.status = s] \in JobRecords
        BY StatusType DEF Terminal
      <4> QED BY <3>1, <4>1 DEF SetJob
    <3>2. ASSUME NEW S \in ManualNeeds, SubmitManual(j, S) PROVE TypeOK'
      <4>1. job' \in [Jobs -> JobRecords]
        BY <3>2, QueueType DEF SubmitManual
      <4> QED BY <3>2, <4>1 DEF SubmitManual
    <3>3. ASSUME NEW r \in Runs, NEW i \in 1..Len(Plan), SubmitDirect(j, r, i) PROVE TypeOK'
      <4>1. i \in Nat
        OBVIOUS
      <4>2. job' \in [Jobs -> JobRecords]
        BY <3>3, <4>1, QueueType DEF SubmitDirect
      <4> QED BY <3>3, <4>2 DEF SubmitDirect
    <3> QED BY <2>6, <3>1, <3>2, <3>3 DEF QueueStep, JobStarts, JobSucceeds, JobEnds
  <2>7. CASE Crash
    <3>1. job' \in [Jobs -> JobRecords]
      BY <2>7, StatusType DEF Crash, Terminal
    <3> QED BY <2>7, <3>1, IdleTypes DEF Crash, Statuses, Open
  <2>8. CASE UNCHANGED vars BY <2>8 DEF vars
  <2> QED BY <2>1, <2>2, <2>3, <2>4, <2>5, <2>6, <2>7, <2>8 DEF Next
<1> QED BY <1>1, <1>2, PTL DEF Spec

-----------------------------------------------------------------------------
(* Exclusion *)

\* The status of a run stays open, stays over, or is neither and stays so.
Kept ==
  \A r \in Runs : /\ status'[r] \in Open <=> status[r] \in Open
                  /\ status'[r] \in Over <=> status[r] \in Over

\* No deployment becomes active.
Calm ==
  \A j \in Jobs :
    /\ ActiveDeployment(j)' => /\ ActiveDeployment(j)
                               /\ job'[j].run = job[j].run /\ job'[j].needs = job[j].needs
    /\ job'[j].kind = "deploy" => /\ job[j].kind = "deploy"
                                  /\ job'[j].run = job[j].run /\ job'[j].needs = job[j].needs

Tame == Kept /\ Calm

LEMMA SameJobs == job' = job => Calm
BY DEF Calm, ActiveDeployment, Active

LEMMA SameStatus == status' = status => Kept
BY DEF Kept

LEMMA OpenStatus ==
  ASSUME TypeOK, NEW r \in Runs, NEW s \in Open, status[r] \in Open,
         status' = [status EXCEPT ![r] = s]
  PROVE  Kept
BY DEF Kept, TypeOK, Open, Over

\* A job that is not a deployment is queued.
LEMMA QueueCalm ==
  ASSUME TypeOK, NEW j \in Jobs, NEW k \in {"step", "direct"}, NEW r, NEW i, NEW S, Queue(j, k, r, i, S)
  PROVE  Calm
BY DEF Queue, Calm, ActiveDeployment, Active, TypeOK, Deployments

\* The status of a job changes to one that is not active, or it was active.
LEMMA SetJobCalm ==
  ASSUME TypeOK, NEW j \in Jobs, NEW s, Active(j), SetJob(j, s)
  PROVE  Calm
<1>1. ASSUME NEW k \in Jobs
      PROVE  job'[k].kind = job[k].kind /\ job'[k].run = job[k].run /\ job'[k].needs = job[k].needs
             /\ (k # j => job'[k] = job[k])
  <2>1. job[k] \in JobRecords
    BY DEF TypeOK
  <2> QED BY <2>1 DEF SetJob, TypeOK, JobRecords
<1> QED BY <1>1 DEF Calm, ActiveDeployment, Active

\* Jobs end, others stay as they are.
LEMMA EndedCalm ==
  ASSUME TypeOK,
         \A j \in Jobs : job'[j] = job[j] \/ job'[j] = [job[j] EXCEPT !.status = "ended"]
  PROVE  Calm
<1>1. ASSUME NEW j \in Jobs
      PROVE  /\ job'[j].kind = job[j].kind /\ job'[j].run = job[j].run /\ job'[j].needs = job[j].needs
             /\ job'[j] = job[j] \/ job'[j].status = "ended"
  <2>1. job[j] \in JobRecords
    BY DEF TypeOK
  <2> QED BY <2>1 DEF JobRecords
<1> QED BY <1>1 DEF Calm, ActiveDeployment, Active

\* What takes a run over, what ends its ownership, and what submits elsewhere.
Acquires(r) ==
  \/ DeployRefused(r)
  \/ \E j \in Jobs : Deploy(r, j) \/ DeployUnlinked(r, j) \/ DeployUnsaved(r, j)
Releases(r) == Accept(r) \/ Reconcile(r) \/ ClosePrepared(r)
Images(j)   == \E S \in ManualNeeds : SubmitManual(j, S)

\* Every other step is tame.
LEMMA StepTame ==
  ASSUME TypeOK, [Next]_vars
  PROVE  \/ Tame
         \/ \E r \in Runs : Acquires(r) \/ Releases(r)
         \/ \E j \in Jobs : Images(j)
<1> USE DEF store, Other
<1>1. ASSUME NEW r \in Runs, Deploying(r) PROVE Tame \/ Acquires(r) \/ Releases(r)
  <2>1. CASE Prepare(r)
    <3>1. Kept BY <2>1 DEF Prepare, Kept, TypeOK, Open, Over
    <3> QED BY <2>1, <3>1, SameJobs DEF Prepare, Tame
  <2>2. CASE Refresh(r)
    <3>1. status[r] \in Open /\ Refreshed(r) \in Open
      BY <2>2 DEF Refresh, Refreshed, Open
    <3> QED BY <2>2, <3>1, SameJobs, OpenStatus DEF Refresh, Tame
  <2> QED BY <1>1, <2>1, <2>2 DEF Deploying, Acquires, Releases
<1>2. ASSUME NEW r \in Runs, Operator(r) PROVE Tame \/ Releases(r)
  <2>1. ASSUME Readable(r) PROVE status[r] \in Open
    BY <2>1 DEF Readable, Refreshed, Open
  <2>2. CASE AttestHealth(r)
    BY <2>2, <2>1, SameJobs, OpenStatus DEF AttestHealth, Healthy, Tame, Open
  <2>3. CASE Resume(r)
    <3>1. status[r] \in Open
      BY <2>3 DEF Resume, Quiet
    <3>2. \E s \in Open : status' = [status EXCEPT ![r] = s]
      BY <2>3 DEF Resume, Open
    <3> QED BY <2>3, <3>1, <3>2, SameJobs, OpenStatus DEF Resume, Tame
  <2>4. CASE Stop(r)
    <3>1. Kept
      BY <2>4, OpenStatus DEF Stop, Open
    <3>2. Calm
      BY <2>4, EndedCalm DEF Stop
    <3> QED BY <3>1, <3>2 DEF Tame
  <2>5. ASSUME NEW c \in Collectors, AskHealth(r, c) PROVE Tame
    BY <2>5, SameJobs, SameStatus DEF AskHealth, Tame
  <2>6. ASSUME NEW t \in Threads, StartBootstrap(r, t) PROVE Tame
    <3>1. status[r] \in Open
      BY <2>6 DEF StartBootstrap, Refreshed, Open
    <3> QED BY <2>6, <3>1, SameJobs, OpenStatus DEF StartBootstrap, Tame, Open
  <2>7. ASSUME NEW t \in Threads, StartConfiguration(r, t) PROVE Tame
    BY <2>7, SameJobs, OpenStatus DEF StartConfiguration, Tame, Open
  <2>8. ASSUME NEW j \in Jobs, LinkStep(r, j) PROVE Tame
    <3>1. \E s \in Open : status' = [status EXCEPT ![r] = s]
      BY <2>8 DEF LinkStep, Open
    <3> QED BY <2>8, <3>1, SameJobs, OpenStatus DEF LinkStep, Tame, Open
  <2> QED BY <1>2, <2>2, <2>3, <2>4, <2>5, <2>6, <2>7, <2>8 DEF Operator, Releases
<1>3. ASSUME NEW r \in Runs, EvidenceAges(r) PROVE Tame
  BY <1>3, SameJobs, SameStatus DEF EvidenceAges, Tame
<1>4. ASSUME NEW t \in Threads, Coordinate(t) PROVE Tame
  <2> USE DEF Become
  <2>1. ASSUME NEW s \in Open, Mine(t), thread[t].pc # "idle", status' = [status EXCEPT ![Run(t)] = s]
        PROVE  Kept
    <3>1. Run(t) \in Runs
      BY <2>1 DEF Run, TypeOK, ThreadRecords, NoThread
    <3>2. status[Run(t)] \in Open
      BY <2>1 DEF Mine, Phase, Open
    <3> QED BY <2>1, <3>1, <3>2, OpenStatus
  <2>2. CASE Finish(t)
    <3>1. \E s \in Open : status' = [status EXCEPT ![Run(t)] = s]
      BY <2>2 DEF Finish, Open
    <3> QED BY <2>2, <2>1, <3>1, SameJobs DEF Finish, Tame
  <2>3. CASE Handler(t)
    <3>1. Kept
      BY <2>3 DEF Handler, Kept, TypeOK, Open, Over
    <3> QED BY <2>3, <3>1, SameJobs DEF Handler, Tame
  <2>4. ASSUME NEW j \in Jobs, SubmitStep(t, j) PROVE Tame
    BY <2>4, QueueCalm, SameStatus DEF SubmitStep, Tame
  <2>5. ASSUME NEW j \in Jobs, SubmitUnsaved(t, j) PROVE Tame
    BY <2>5, QueueCalm, SameStatus DEF SubmitUnsaved, Tame
  <2>6. CASE Leave(t) \/ StepRefused(t) \/ SeeJob(t) \/ Record(t) \/ StepFailed(t) \/ RecordUnsaved(t)
    BY <2>6, SameJobs, SameStatus
    DEF Leave, StepRefused, SeeJob, Record, StepFailed, RecordUnsaved, Tame
  <2> QED BY <1>4, <2>2, <2>3, <2>4, <2>5, <2>6 DEF Coordinate
<1>5. ASSUME NEW c \in Collectors, Collect(c) PROVE Tame
  <2>1. job' = job
    BY <1>5 DEF Collect, CollectBegins, CollectEnds
  <2>2. \/ status' = status
        \/ \E s \in Open : status[collector[c].run] \in Open
                           /\ status' = [status EXCEPT ![collector[c].run] = s]
    BY <1>5 DEF Collect, CollectBegins, CollectEnds, Healthy, Readable, Refreshed, Open
  <2>3. collector[c].pc # "idle" => collector[c].run \in Runs
    BY DEF TypeOK, CollectorRecords, NoCollector
  <2>4. collector[c].pc # "idle"
    BY <1>5 DEF Collect, CollectBegins, CollectEnds
  <2> QED BY <2>1, <2>2, <2>3, <2>4, SameJobs, SameStatus, OpenStatus DEF Tame
<1>6. ASSUME NEW j \in Jobs, QueueStep(j) PROVE Tame \/ Images(j)
  <2>1. CASE JobStarts(j) \/ JobSucceeds(j) \/ JobEnds(j)
    BY <2>1, SetJobCalm, SameStatus DEF JobStarts, JobSucceeds, JobEnds, Active, SetJob, Tame
  <2>2. ASSUME NEW r \in Runs, NEW i \in 1..Len(Plan), SubmitDirect(j, r, i) PROVE Tame
    BY <2>2, QueueCalm, SameStatus DEF SubmitDirect, Tame
  <2> QED BY <1>6, <2>1, <2>2 DEF QueueStep, Images
<1>7. CASE Crash
  <2>1. Kept
    BY <1>7 DEF Crash, Kept, Open, Over
  <2>2. Calm
    BY <1>7, EndedCalm DEF Crash
  <2> QED BY <2>1, <2>2 DEF Tame
<1>8. CASE UNCHANGED vars
  BY <1>8, SameJobs, SameStatus DEF vars, Tame
<1> QED BY <1>1, <1>2, <1>3, <1>4, <1>5, <1>6, <1>7, <1>8 DEF Next

\* Open runs need nothing in common.
Disjoint ==
  \A r, q \in Runs : r # q /\ status[r] \in Open /\ status[q] \in Open => Needs[r] \cap Needs[q] = {}

Exclusion == WellFormed /\ Disjoint /\ DeploymentExclusive

\* The deployment of a run is queued after MayDeploy.
LEMMA DeployKeepsExclusion ==
  ASSUME TypeOK, Exclusion, NEW r \in Runs, NEW j \in Jobs, NEW s \in Open, MayDeploy(r),
         Queue(j, "deploy", r, 0, Needs[r]), status' = [status EXCEPT ![r] = s]
  PROVE  Exclusion'
<1>1. /\ job'[j].kind = "deploy" /\ job'[j].run = r /\ job'[j].needs = Needs[r]
      /\ \A k \in Jobs \ {j} : job'[k] = job[k]
  BY DEF Queue, TypeOK
<1>2. \A q \in Runs \ {r} : status'[q] = status[q]
  BY DEF TypeOK
<1>3. WellFormed'
  BY <1>1 DEF Exclusion, WellFormed
<1>4. Disjoint'
  BY <1>2 DEF Exclusion, Disjoint, MayDeploy, Guard
<1>5. \A k \in Jobs \ {j} : job'[k].kind \in Deployments /\ Active(k)' => job[k].needs \cap Needs[r] = {}
  BY <1>1 DEF MayDeploy, Guard, Active
<1>6. DeploymentExclusive'
  <2>1. ASSUME NEW a \in Jobs, NEW b \in Jobs, a # b,
               job'[a].kind \in Deployments, job'[b].kind \in Deployments, Active(a)', Active(b)'
        PROVE  job'[a].needs \cap job'[b].needs = {}
    <3>1. CASE a # j /\ b # j
      BY <2>1, <3>1, <1>1 DEF Exclusion, DeploymentExclusive, Active
    <3>2. CASE a = j
      BY <2>1, <3>2, <1>1, <1>5
    <3>3. CASE b = j
      BY <2>1, <3>3, <1>1, <1>5
    <3> QED BY <3>1, <3>2, <3>3
  <2>2. ASSUME NEW q \in Runs, NEW k \in Jobs, status'[q] \in Open, job'[k].kind \in Deployments,
               Active(k)', job'[k].needs \cap Needs[q] # {}
        PROVE  job'[k].run = q
    <3>1. CASE k = j
      BY <2>2, <3>1, <1>1, <1>2 DEF MayDeploy, Guard
    <3>2. CASE k # j /\ q # r
      BY <2>2, <3>2, <1>1, <1>2 DEF Exclusion, DeploymentExclusive, Active
    <3>3. CASE k # j /\ q = r
      BY <2>2, <3>3, <1>1, <1>5
    <3> QED BY <3>1, <3>2, <3>3
  <2> QED BY <2>1, <2>2 DEF DeploymentExclusive
<1> QED BY <1>3, <1>4, <1>6 DEF Exclusion

\* A tame step opens no run and activates no deployment.
LEMMA TameKeepsExclusion ==
  ASSUME Exclusion, Tame
  PROVE  Exclusion'
<1>1. WellFormed'
  BY DEF Exclusion, WellFormed, Tame, Calm
<1>2. Disjoint'
  BY DEF Exclusion, Disjoint, Tame, Kept
<1>3. DeploymentExclusive'
  <2>1. \A j \in Jobs : job'[j].kind \in Deployments /\ Active(j)' =>
          /\ job[j].kind \in Deployments /\ Active(j)
          /\ job'[j].run = job[j].run /\ job'[j].needs = job[j].needs
    BY DEF Tame, Calm, ActiveDeployment
  <2> QED BY <2>1 DEF Exclusion, DeploymentExclusive, Tame, Kept
<1> QED BY <1>1, <1>2, <1>3 DEF Exclusion

LEMMA StepKeepsExclusion == TypeOK /\ Exclusion /\ [Next]_vars => Exclusion'
<1> SUFFICES ASSUME TypeOK, Exclusion, [Next]_vars PROVE Exclusion'
  OBVIOUS
<1> USE DEF store, Other
<1>1. ASSUME NEW r \in Runs, Acquires(r) PROVE Exclusion'
  <2>1. CASE DeployRefused(r)
    <3>1. job' = job /\ status' = [status EXCEPT ![r] = "needs_reconciliation"] /\ MayDeploy(r)
      BY <2>1 DEF DeployRefused
    <3>2. \A q \in Runs \ {r} : status'[q] = status[q]
      BY <3>1 DEF TypeOK
    <3>3. WellFormed'
      BY <3>1 DEF Exclusion, WellFormed
    <3>4. Disjoint'
      BY <3>1, <3>2 DEF Exclusion, Disjoint, MayDeploy, Guard
    <3>5. DeploymentExclusive'
      BY <3>1, <3>2 DEF Exclusion, DeploymentExclusive, MayDeploy, Guard, Active
    <3> QED BY <3>3, <3>4, <3>5 DEF Exclusion
  <2>2. ASSUME NEW j \in Jobs, Deploy(r, j) \/ DeployUnlinked(r, j) \/ DeployUnsaved(r, j)
        PROVE  Exclusion'
    <3>1. /\ MayDeploy(r) /\ Queue(j, "deploy", r, 0, Needs[r])
          /\ \E s \in Open : status' = [status EXCEPT ![r] = s]
      BY <2>2 DEF Deploy, DeployUnlinked, DeployUnsaved, Open
    <3> QED BY <3>1, DeployKeepsExclusion
  <2> QED BY <1>1, <2>1, <2>2 DEF Acquires
<1>2. ASSUME NEW r \in Runs, Releases(r) PROVE Exclusion'
  <2>1. job' = job /\ \E s \in Over : status' = [status EXCEPT ![r] = s]
    BY <1>2 DEF Releases, Accept, Reconcile, ClosePrepared, Over
  <2>2. \A q \in Runs : status'[q] \in Open => status[q] \in Open
    BY <2>1 DEF TypeOK, Over, Open
  <2> QED BY <2>1, <2>2 DEF Exclusion, WellFormed, Disjoint, DeploymentExclusive, Active
<1>3. ASSUME NEW j \in Jobs, Images(j) PROVE Exclusion'
  <2>1. PICK S \in ManualNeeds : SubmitManual(j, S)
    BY <1>3 DEF Images
  <2>2. /\ job'[j].kind = "manual" /\ job'[j].needs = S /\ \A k \in Jobs \ {j} : job'[k] = job[k]
        /\ status' = status
    BY <2>1 DEF SubmitManual, Queue, TypeOK
  <2>3. Guard(S, None)
    BY <2>1 DEF SubmitManual
  <2>4. WellFormed' /\ Disjoint'
    BY <2>2 DEF Exclusion, WellFormed, Disjoint
  <2>5. ASSUME NEW a \in Jobs, NEW b \in Jobs, a # b,
               job'[a].kind \in Deployments, job'[b].kind \in Deployments, Active(a)', Active(b)'
        PROVE  job'[a].needs \cap job'[b].needs = {}
    <3>1. CASE a # j /\ b # j
      BY <2>5, <3>1, <2>2 DEF Exclusion, DeploymentExclusive, Active
    <3>2. CASE a = j
      BY <2>5, <3>2, <2>2, <2>3 DEF Guard, Active
    <3>3. CASE b = j
      BY <2>5, <3>3, <2>2, <2>3 DEF Guard, Active
    <3> QED BY <3>1, <3>2, <3>3
  <2>6. ASSUME NEW q \in Runs, NEW k \in Jobs, status'[q] \in Open, job'[k].kind \in Deployments,
               Active(k)', job'[k].needs \cap Needs[q] # {}
        PROVE  job'[k].run = q
    <3>1. CASE k = j
      BY <2>6, <3>1, <2>2, <2>3, RecoveryAssumption DEF Guard
    <3>2. CASE k # j
      BY <2>6, <3>2, <2>2 DEF Exclusion, DeploymentExclusive, Active
    <3> QED BY <3>1, <3>2
  <2>7. DeploymentExclusive'
    BY <2>5, <2>6 DEF DeploymentExclusive
  <2> QED BY <2>4, <2>7 DEF Exclusion
<1> QED BY <1>1, <1>2, <1>3, StepTame, TameKeepsExclusion

\* Nothing is ever imaged by two deployments, nor while another run owns it.
THEOREM DeploymentExclusiveHolds == Spec => []DeploymentExclusive
<1>1. Init => Exclusion
  BY DEF Init, Exclusion, WellFormed, Disjoint, DeploymentExclusive, NoJob, Open, Deployments, Active
<1>2. Exclusion => DeploymentExclusive
  BY DEF Exclusion
<1> QED BY <1>1, <1>2, StepKeepsExclusion, TypeOKHolds, PTL DEF Spec

-----------------------------------------------------------------------------
(* Ownership *)

\* The state of Ownership, as Recovery implements it.
Owners   == {r \in Runs : status[r] \in Open}
OverRuns == {r \in Runs : status[r] \in Over}
Imaging  == UNION {job[j].needs : j \in {k \in Jobs : job[k].kind \in Deployments /\ Active(k)}}

LEMMA ImagingOf ==
  \A x : x \in Imaging <=> \E j \in Jobs : ActiveDeployment(j) /\ x \in job[j].needs
BY DEF Imaging, ActiveDeployment

LEMMA ImagingTyped == TypeOK => Imaging \subseteq Resources
<1> SUFFICES ASSUME TypeOK PROVE Imaging \subseteq Resources
  OBVIOUS
<1>1. \A j \in Jobs : job[j].needs \subseteq Resources
  BY DEF TypeOK, JobRecords
<1> QED BY <1>1, ImagingOf

\* A queued deployment adds what it needs to what is imaged.
LEMMA QueueImages ==
  ASSUME TypeOK, NEW j \in Jobs, NEW k \in Deployments, NEW r, NEW S, Queue(j, k, r, 0, S)
  PROVE  Imaging' = Imaging \cup S
<1>1. /\ job'[j].kind = k /\ job'[j].needs = S /\ job'[j].status = "queued"
      /\ \A i \in Jobs \ {j} : job'[i] = job[i]
  BY DEF Queue, TypeOK
<1>2. ~ActiveDeployment(j)
  BY DEF Queue, NoJob, ActiveDeployment, Active
<1>3. ActiveDeployment(j)'
  BY <1>1 DEF ActiveDeployment, Active
<1>4. \A i \in Jobs \ {j} : ActiveDeployment(i)' <=> ActiveDeployment(i)
  BY <1>1 DEF ActiveDeployment, Active
<1>5. \A x : x \in Imaging' <=> \E i \in Jobs : ActiveDeployment(i)' /\ x \in job'[i].needs
  BY ImagingOf DEF Imaging, ActiveDeployment
<1>6. \A x : x \in Imaging' <=> x \in Imaging \/ x \in S
  BY <1>1, <1>2, <1>3, <1>4, <1>5, ImagingOf
<1> QED BY <1>6

\* MayDeploy is what Ownership asks of a run that acquires.
LEMMA MayAcquire ==
  ASSUME TypeOK, NEW r \in Runs, MayDeploy(r)
  PROVE  /\ r \notin Owners \cup OverRuns
         /\ Needs[r] \cap Imaging = {}
         /\ \A q \in Owners : Needs[r] \cap Needs[q] = {}
<1>1. status[r] = "prepared"
  BY DEF MayDeploy
<1>2. Needs[r] \cap Imaging = {}
  BY ImagingOf DEF MayDeploy, Guard, ActiveDeployment
<1> QED BY <1>1, <1>2 DEF Owners, OverRuns, Open, Over, MayDeploy, Guard

LEMMA StepImplements ==
  TypeOK /\ [Next]_vars => [Ownership!Next]_<<Owners, OverRuns, Imaging>>
<1> SUFFICES ASSUME TypeOK, [Next]_vars PROVE [Ownership!Next]_<<Owners, OverRuns, Imaging>>
  OBVIOUS
<1> USE DEF store, Other
<1>1. CASE Tame
  <2>1. Owners' = Owners /\ OverRuns' = OverRuns
    BY <1>1 DEF Tame, Kept, Owners, OverRuns
  <2>2. Imaging' \subseteq Imaging
    <3>1. \A x : x \in Imaging' <=> \E i \in Jobs : ActiveDeployment(i)' /\ x \in job'[i].needs
      BY ImagingOf DEF Imaging, ActiveDeployment
    <3> QED BY <1>1, <3>1, ImagingOf DEF Tame, Calm
  <2>3. PICK S \in SUBSET Resources : S = Imaging \ Imaging'
    BY ImagingTyped
  <2>4. Imaging' = Imaging \ S
    BY <2>2, <2>3
  <2>5. Ownership!Finish(S)
    BY <2>1, <2>4 DEF Ownership!Finish, Owners, OverRuns, Over, Imaging
  <2> QED BY <2>5 DEF Ownership!Next
<1>2. ASSUME NEW r \in Runs, Acquires(r) PROVE Ownership!Next
  <2>1. MayDeploy(r) /\ \E s \in Open : status' = [status EXCEPT ![r] = s]
    BY <1>2 DEF Acquires, Deploy, DeployRefused, DeployUnlinked, DeployUnsaved, Open
  <2>2. Imaging' \in {Imaging, Imaging \cup Needs[r]}
    <3>1. CASE DeployRefused(r)
      BY <3>1 DEF DeployRefused, Imaging, Active
    <3>2. ASSUME NEW j \in Jobs, Queue(j, "deploy", r, 0, Needs[r]) PROVE Imaging' = Imaging \cup Needs[r]
      BY <3>2, QueueImages DEF Deployments
    <3> QED BY <1>2, <3>1, <3>2 DEF Acquires, Deploy, DeployUnlinked, DeployUnsaved
  <2>3. Owners' = Owners \cup {r} /\ OverRuns' = OverRuns
    BY <2>1 DEF MayDeploy, Owners, OverRuns, Open, Over, TypeOK
  <2>4. Ownership!Acquire(r)
    BY <2>1, <2>2, <2>3, MayAcquire DEF Ownership!Acquire, Ownership!Free, Owners, OverRuns, Over, Imaging
  <2> QED BY <2>4 DEF Ownership!Next
<1>3. ASSUME NEW r \in Runs, Releases(r) PROVE Ownership!Next
  <2>1. job' = job /\ \E s \in Over : status' = [status EXCEPT ![r] = s]
    BY <1>3 DEF Releases, Accept, Reconcile, ClosePrepared, Over
  <2>2. Imaging' = Imaging
    BY <2>1 DEF Imaging, Active
  <2>3. Owners' = Owners \ {r} /\ OverRuns' = OverRuns \cup {r}
    BY <2>1 DEF Owners, OverRuns, Open, Over, TypeOK
  <2>4. CASE r \in Owners
    <3>1. Ownership!Release(r)
      BY <2>2, <2>3, <2>4 DEF Ownership!Release, Owners, OverRuns, Over, Imaging
    <3> QED BY <3>1 DEF Ownership!Next
  <2>5. CASE r \notin Owners
    <3>1. Ownership!Abandon(r)
      BY <2>2, <2>3, <2>5 DEF Ownership!Abandon, Owners, OverRuns, Over, Imaging
    <3> QED BY <3>1 DEF Ownership!Next
  <2> QED BY <2>4, <2>5
<1>4. ASSUME NEW j \in Jobs, Images(j) PROVE Ownership!Next
  <2>1. PICK S \in ManualNeeds : SubmitManual(j, S)
    BY <1>4 DEF Images
  <2>2. Imaging' = Imaging \cup S
    BY <2>1, QueueImages DEF SubmitManual, Deployments
  <2>3. Owners' = Owners /\ OverRuns' = OverRuns
    BY <2>1 DEF SubmitManual, Owners, OverRuns
  <2>4. S \cap Imaging = {} /\ \A q \in Owners : S \cap Needs[q] = {}
    <3>1. \A q \in Owners : q \in Runs \ {None}
      BY RecoveryAssumption DEF Owners
    <3> QED BY <2>1, <3>1, ImagingOf DEF SubmitManual, Guard, Owners, ActiveDeployment
  <2>5. Ownership!Image(S)
    BY <2>2, <2>3, <2>4 DEF Ownership!Image, Ownership!Free, Owners, OverRuns, Over, Imaging
  <2> QED BY <2>5, RecoveryAssumption DEF Ownership!Next
<1> QED BY <1>1, <1>2, <1>3, <1>4, StepTame

\* The recovery runs implement Ownership.
THEOREM OwnershipImplemented == Spec => OwnershipHolds
<1>1. Init => Ownership!Init
  BY DEF Init, Ownership!Init, Open, NoJob, Deployments
<1>2. TypeOK /\ [Next]_vars =>
        [Ownership!Next]_<<{r \in Runs : status[r] \in Open},
                           {r \in Runs : status[r] \in {"accepted", "closed"}},
                           UNION {job[j].needs : j \in {k \in Jobs : job[k].kind \in Deployments /\ Active(k)}}>>
  BY StepImplements DEF Owners, OverRuns, Over, Imaging
<1> QED BY <1>1, <1>2, TypeOKHolds, PTL DEF Spec, OwnershipHolds, Ownership!Spec

-----------------------------------------------------------------------------
(* Passwords *)

\* Before a run is taken over by a coordinator, and after one has finished.
Resting == {"none", "prepared", "submitting", "deploying", "awaiting_bootstrap", "awaiting_health",
            "ready", "awaiting_acceptance"}
Coordinating == {"bootstrapping", "configuring"}

\* Every step a coordinator ever submitted for r is among the first n.
Within(r, n) == \A j \in Jobs : job[j].kind = "step" /\ job[j].run = r => job[j].step <= n

\* A run that was never resumed has one coordinator at most, and that has
\* submitted one step at most that is not recorded.
Single(r) ==
  /\ status[r] \in Resting =>
       /\ \A t \in Threads : thread[t].run # r
       /\ Within(r, Len(steps[r]))
  /\ status[r] \in Coordinating =>
       /\ \A t, u \in Threads : thread[t].run = r /\ thread[u].run = r => t = u
       /\ \A t \in Threads : thread[t].run = r =>
            /\ thread[t].pc = "top" => Within(r, Len(steps[r]))
            /\ thread[t].pc \in {"wait", "seen"} => Within(r, Len(steps[r]) + 1)

\* A run that was resumed has no password change ahead.
RunInv(r) ==
  /\ resumes[r] = 0 => Single(r)
  /\ resumes[r] > 0 => Replayable(r)

Passwords == PasswordOnce /\ \A r \in Runs : RunInv(r)

\* No step is submitted.
NoNewStep ==
  \A j \in Jobs : job'[j].kind = "step" =>
    job[j].kind = "step" /\ job'[j].run = job[j].run /\ job'[j].step = job[j].step

\* A step of the system that does run q no harm: its coordinators only leave or
\* go on, none is added, and nothing is submitted for it.
Harmless(q) ==
  /\ resumes'[q] = resumes[q]
  /\ Len(steps'[q]) >= Len(steps[q])
  /\ status'[q] \in Resting => status[q] \in Resting
  /\ status'[q] \in Coordinating => status[q] \in Coordinating
  /\ \A j \in Jobs : job'[j].kind = "step" /\ job'[j].run = q =>
       job[j].kind = "step" /\ job[j].run = q /\ job'[j].step = job[j].step
  /\ \A t \in Threads : thread'[t].run = q =>
       /\ thread[t].run = q
       /\ thread'[t].pc = "top" => thread[t].pc = "top"
       /\ thread'[t].pc \in {"wait", "seen"} => thread[t].pc \in {"wait", "seen"}

LEMMA HarmlessKeeps ==
  ASSUME TypeOK, TypeOK', NEW q \in Runs, RunInv(q), Harmless(q)
  PROVE  RunInv(q)'
<1>1. Len(steps[q]) \in Nat /\ Len(steps'[q]) \in Nat /\ Len(steps'[q]) >= Len(steps[q])
  BY DEF TypeOK, Harmless
<1>2. \A j \in Jobs : job[j].step \in Nat
  BY DEF TypeOK, JobRecords, NoJob
<1>3. ASSUME NEW n \in Nat, NEW k \in Nat, n <= k, Within(q, n) PROVE Within(q, k)'
  BY <1>2, <1>3 DEF Within, Harmless
<1>4. ASSUME Single(q) PROVE Single(q)'
  <2>1. Within(q, Len(steps[q])) => Within(q, Len(steps[q]))'
    BY <1>1, <1>3
  <2>2. Within(q, Len(steps[q]) + 1) => Within(q, Len(steps[q]) + 1)'
    BY <1>1, <1>3
  <2> QED BY <1>4, <2>1, <2>2 DEF Single, Harmless
<1>5. ASSUME Replayable(q) PROVE Replayable(q)'
  BY <1>1, <1>5 DEF Replayable
<1> QED BY <1>4, <1>5 DEF RunInv, Harmless

LEMMA NoNewStepKeepsOnce ==
  ASSUME PasswordOnce, NoNewStep
  PROVE  PasswordOnce'
BY DEF PasswordOnce, NoNewStep

LEMMA SameJobsNoStep == job' = job => NoNewStep
BY DEF NoNewStep

LEMMA QueueNoStep ==
  ASSUME TypeOK, NEW j \in Jobs, NEW k \in {"deploy", "manual", "direct"}, NEW r, NEW i, NEW S,
         Queue(j, k, r, i, S)
  PROVE  NoNewStep
BY DEF Queue, NoNewStep, TypeOK

LEMMA SetJobNoStep ==
  ASSUME TypeOK, NEW j \in Jobs, NEW s, SetJob(j, s)
  PROVE  NoNewStep
<1>1. ASSUME NEW k \in Jobs
      PROVE  job'[k].kind = job[k].kind /\ job'[k].run = job[k].run /\ job'[k].step = job[k].step
  <2>1. job[k] \in JobRecords
    BY DEF TypeOK
  <2> QED BY <2>1 DEF SetJob, TypeOK, JobRecords
<1> QED BY <1>1 DEF NoNewStep

LEMMA EndedNoStep ==
  ASSUME TypeOK,
         \A j \in Jobs : job'[j] = job[j] \/ job'[j] = [job[j] EXCEPT !.status = "ended"]
  PROVE  NoNewStep
<1>1. ASSUME NEW k \in Jobs
      PROVE  job'[k].kind = job[k].kind /\ job'[k].run = job[k].run /\ job'[k].step = job[k].step
  <2>1. job[k] \in JobRecords
    BY DEF TypeOK
  <2> QED BY <2>1 DEF JobRecords
<1> QED BY <1>1 DEF NoNewStep

\* The steps that need a closer look: what starts or ends a coordinator, what
\* it submits and records, and what resumes a run.
Starts(r)  == \E t \in Threads : StartBootstrap(r, t) \/ StartConfiguration(r, t)
Submits(t) == \E j \in Jobs : SubmitStep(t, j) \/ SubmitUnsaved(t, j)

\* The parts of Harmless for all runs at once.
StatusSettles ==
  \A q \in Runs : /\ status'[q] \in Resting => status[q] \in Resting
                  /\ status'[q] \in Coordinating => status[q] \in Coordinating
ThreadsSettle ==
  \A t \in Threads :
    \/ thread'[t] = thread[t]
    \/ thread'[t] = NoThread
    \/ thread'[t].run = thread[t].run /\ thread'[t].pc = "raised"
    \/ thread'[t].run = thread[t].run /\ thread'[t].pc = "seen" /\ thread[t].pc = "wait"
StepsGrow == \A q \in Runs : Len(steps'[q]) >= Len(steps[q])

LEMMA Together ==
  ASSUME NoNewStep, StatusSettles, ThreadsSettle, StepsGrow, resumes' = resumes
  PROVE  NoNewStep /\ \A q \in Runs : Harmless(q)
<1> SUFFICES ASSUME NEW q \in Runs PROVE Harmless(q)
  OBVIOUS
<1>1. \A t \in Threads : thread'[t].run = q =>
        /\ thread[t].run = q
        /\ thread'[t].pc = "top" => thread[t].pc = "top"
        /\ thread'[t].pc \in {"wait", "seen"} => thread[t].pc \in {"wait", "seen"}
  BY RecoveryAssumption DEF ThreadsSettle, NoThread
<1> QED BY <1>1 DEF Harmless, NoNewStep, StatusSettles, StepsGrow

LEMMA SameStore ==
  ASSUME TypeOK
  PROVE  /\ status' = status => StatusSettles
         /\ thread' = thread => ThreadsSettle
         /\ steps' = steps => StepsGrow
<1>1. \A q \in Runs : Len(steps[q]) \in Nat
  BY DEF TypeOK
<1> QED BY <1>1 DEF StatusSettles, ThreadsSettle, StepsGrow

\* The status of a run changes so that no coordinator is taken for another.
LEMMA StatusOf ==
  ASSUME TypeOK, NEW r \in Runs, NEW s, status' = [status EXCEPT ![r] = s],
         s \in Resting => status[r] \in Resting,
         s \in Coordinating => status[r] \in Coordinating
  PROVE  StatusSettles
BY DEF StatusSettles, TypeOK

\* One coordinator leaves, sees its job or raises.
LEMMA ThreadOf ==
  ASSUME TypeOK, NEW t \in Threads,
         \/ thread' = [thread EXCEPT ![t] = NoThread]
         \/ thread' = [thread EXCEPT ![t].pc = "raised"] /\ thread[t].pc # "idle"
         \/ thread[t].pc = "wait" /\ \E ok \in BOOLEAN : thread' = [thread EXCEPT ![t].pc = "seen", ![t].ok = ok]
  PROVE  ThreadsSettle
<1>1. thread[t].pc # "idle" =>
        thread[t] \in [pc : {"top", "wait", "seen", "raised"}, run : Runs, access : BOOLEAN,
                       job : Jobs \cup {None}, step : Nat, ok : BOOLEAN]
  BY DEF TypeOK, ThreadRecords, NoThread
<1>2. CASE thread' = [thread EXCEPT ![t] = NoThread]
  BY <1>2 DEF TypeOK, ThreadsSettle
<1>3. CASE thread' = [thread EXCEPT ![t].pc = "raised"] /\ thread[t].pc # "idle"
  BY <1>1, <1>3 DEF TypeOK, ThreadsSettle
<1>4. ASSUME NEW ok \in BOOLEAN, thread[t].pc = "wait", thread' = [thread EXCEPT ![t].pc = "seen", ![t].ok = ok]
      PROVE  ThreadsSettle
  BY <1>1, <1>4 DEF TypeOK, ThreadsSettle
<1> QED BY <1>2, <1>3, <1>4

LEMMA StepHarmless ==
  ASSUME TypeOK, [Next]_vars
  PROVE  \/ NoNewStep /\ \A q \in Runs : Harmless(q)
         \/ \E r \in Runs : Resume(r) \/ Starts(r)
         \/ \E t \in Threads : Finish(t) \/ Record(t) \/ Submits(t)
<1> DEFINE Safe == NoNewStep /\ \A q \in Runs : Harmless(q)
<1> HIDE DEF Safe
<1> USE DEF store, Other
<1>0. ASSUME NoNewStep, StatusSettles, ThreadsSettle, StepsGrow, resumes' = resumes PROVE Safe
  BY <1>0, Together DEF Safe
<1>1. ASSUME NEW r \in Runs, Deploying(r) PROVE Safe
  <2>1. steps' = steps /\ resumes' = resumes /\ thread' = thread
    BY <1>1
    DEF Deploying, Prepare, ClosePrepared, DeployRefused, Refresh, Deploy, DeployUnlinked, DeployUnsaved
  <2>3. \E s \in Statuses : /\ status' = [status EXCEPT ![r] = s] /\ s \notin Coordinating
                            /\ s \in Resting => status[r] \in Resting
    <3> USE DEF Statuses, Open
    <3>1. CASE Prepare(r) BY <3>1 DEF Prepare, Resting, Coordinating
    <3>2. CASE ClosePrepared(r) BY <3>2 DEF ClosePrepared, Resting, Coordinating
    <3>3. CASE DeployRefused(r) BY <3>3 DEF DeployRefused, Resting, Coordinating
    <3>4. CASE Refresh(r)
      <4>1. /\ Refreshed(r) \in {"needs_reconciliation", "awaiting_bootstrap", "awaiting_health"}
            /\ status[r] = "deploying"
        BY <3>4 DEF Refresh, Refreshed
      <4> QED BY <3>4, <4>1 DEF Refresh, Resting, Coordinating
    <3>5. ASSUME NEW j \in Jobs, Deploy(r, j) \/ DeployUnlinked(r, j) \/ DeployUnsaved(r, j)
          PROVE  \E s \in {"deploying", "needs_reconciliation", "submitting"} :
                   status[r] = "prepared" /\ status' = [status EXCEPT ![r] = s]
      BY <3>5 DEF Deploy, DeployUnlinked, DeployUnsaved, MayDeploy
    <3> QED BY <1>1, <3>1, <3>2, <3>3, <3>4, <3>5 DEF Deploying, Resting, Coordinating
  <2>2. NoNewStep
    <3>1. ASSUME NEW j \in Jobs, Queue(j, "deploy", r, 0, Needs[r]) PROVE NoNewStep
      BY <3>1, QueueNoStep
    <3> QED BY <1>1, <3>1, SameJobsNoStep
        DEF Deploying, Prepare, ClosePrepared, DeployRefused, Refresh, Deploy, DeployUnlinked, DeployUnsaved
  <2>4. StatusSettles
    BY <2>3, StatusOf
  <2> QED BY <2>1, <2>2, <2>4, <1>0, SameStore
<1>2. ASSUME NEW r \in Runs, Operator(r) PROVE Safe \/ Resume(r) \/ Starts(r)
  <2>1. CASE AttestHealth(r)
    <3>1. status[r] \in Resting
      BY <2>1 DEF AttestHealth, Readable, Refreshed, Resting
    <3> QED BY <2>1, <3>1, <1>0, SameStore, StatusOf, SameJobsNoStep
        DEF AttestHealth, Healthy, Resting, Coordinating
  <2>2. CASE Accept(r) \/ Reconcile(r)
    BY <2>2, <1>0, SameStore, StatusOf, SameJobsNoStep DEF Accept, Reconcile, Resting, Coordinating
  <2>3. CASE Stop(r)
    <3>1. NoNewStep
      BY <2>3, EndedNoStep DEF Stop
    <3> QED BY <2>3, <3>1, <1>0, SameStore, StatusOf DEF Stop, Resting, Coordinating
  <2>4. ASSUME NEW c \in Collectors, AskHealth(r, c) PROVE Safe
    BY <2>4, <1>0, SameStore, SameJobsNoStep DEF AskHealth
  <2>5. ASSUME NEW j \in Jobs, LinkStep(r, j) PROVE Safe
    <3>1. StepsGrow
      <4>1. \E x : steps' = [steps EXCEPT ![r] = Append(@, x)]
        BY <2>5 DEF LinkStep
      <4> QED BY <4>1 DEF StepsGrow, TypeOK
    <3>2. StatusSettles
      <4>1. \E s \in {"ready", "awaiting_acceptance"} : status' = [status EXCEPT ![r] = s]
        BY <2>5 DEF LinkStep
      <4> QED BY <2>5, <4>1, StatusOf DEF LinkStep, Resting, Coordinating
    <3> QED BY <2>5, <3>1, <3>2, <1>0, SameStore, SameJobsNoStep DEF LinkStep
  <2> QED BY <1>2, <2>1, <2>2, <2>3, <2>4, <2>5 DEF Operator, Starts
<1>3. ASSUME NEW r \in Runs, EvidenceAges(r) PROVE Safe
  BY <1>3, <1>0, SameStore, SameJobsNoStep DEF EvidenceAges
<1>4. ASSUME NEW t \in Threads, Coordinate(t) PROVE Safe \/ Finish(t) \/ Record(t) \/ Submits(t)
  <2>1. CASE Leave(t)
    BY <2>1, <1>0, SameStore, SameJobsNoStep, ThreadOf DEF Leave
  <2>2. CASE StepRefused(t) \/ StepFailed(t) \/ RecordUnsaved(t)
    <3>1. ThreadsSettle
      BY <2>2, ThreadOf DEF StepRefused, StepFailed, RecordUnsaved, Become
    <3> QED BY <2>2, <3>1, <1>0, SameStore, SameJobsNoStep DEF StepRefused, StepFailed, RecordUnsaved
  <2>3. CASE SeeJob(t)
    <3>1. Succeeded(thread[t].job) \in BOOLEAN
      BY DEF Succeeded
    <3>2. ThreadsSettle
      BY <2>3, <3>1, ThreadOf DEF SeeJob
    <3> QED BY <2>3, <3>2, <1>0, SameStore, SameJobsNoStep DEF SeeJob
  <2>4. CASE Handler(t)
    <3>1. StatusSettles
      BY <2>4 DEF Handler, StatusSettles, TypeOK, Resting, Coordinating
    <3> QED BY <2>4, <3>1, <1>0, SameStore, SameJobsNoStep, ThreadOf DEF Handler
  <2> QED BY <1>4, <2>1, <2>2, <2>3, <2>4 DEF Coordinate, Submits
<1>5. ASSUME NEW c \in Collectors, Collect(c) PROVE Safe
  <2>1. job' = job /\ steps' = steps /\ resumes' = resumes /\ thread' = thread
    BY <1>5 DEF Collect, CollectBegins, CollectEnds
  <2>2. \/ status' = status
        \/ \E s \in {"ready", "awaiting_health"} :
             /\ status[collector[c].run] \in Resting
             /\ status' = [status EXCEPT ![collector[c].run] = s]
    BY <1>5 DEF Collect, CollectBegins, CollectEnds, Healthy, Readable, Refreshed, Resting
  <2>3. collector[c].run \in Runs
    BY <1>5 DEF Collect, CollectBegins, CollectEnds, TypeOK, CollectorRecords, NoCollector
  <2>4. StatusSettles
    BY <2>2, <2>3, SameStore, StatusOf DEF Resting, Coordinating
  <2> QED BY <2>1, <2>4, <1>0, SameStore, SameJobsNoStep
<1>6. ASSUME NEW j \in Jobs, QueueStep(j) PROVE Safe
  <2>1. NoNewStep
    BY <1>6, SetJobNoStep, QueueNoStep
    DEF QueueStep, JobStarts, JobSucceeds, JobEnds, SubmitManual, SubmitDirect
  <2>2. status' = status /\ steps' = steps /\ resumes' = resumes /\ thread' = thread
    BY <1>6 DEF QueueStep, JobStarts, JobSucceeds, JobEnds, SubmitManual, SubmitDirect, SetJob
  <2> QED BY <2>1, <2>2, <1>0, SameStore
<1>7. ASSUME Crash PROVE Safe
  <2>1. NoNewStep
    BY <1>7, EndedNoStep DEF Crash
  <2>2. StatusSettles /\ ThreadsSettle
    BY <1>7 DEF Crash, StatusSettles, ThreadsSettle, Resting, Coordinating
  <2>3. steps' = steps /\ resumes' = resumes
    BY <1>7 DEF Crash
  <2> QED BY <2>1, <2>2, <2>3, <1>0, SameStore
<1>8. ASSUME UNCHANGED vars PROVE Safe
  BY <1>8, <1>0, SameStore, SameJobsNoStep DEF vars
<1> QED BY <1>1, <1>2, <1>3, <1>4, <1>5, <1>6, <1>7, <1>8 DEF Next, Safe

\* A step that concerns run r alone does the others no harm.
LEMMA OthersHarmless ==
  ASSUME TypeOK, NEW r \in Runs, NEW q \in Runs \ {r},
         \A p \in Runs \ {r} :
           resumes'[p] = resumes[p] /\ steps'[p] = steps[p] /\ status'[p] = status[p],
         \A j \in Jobs : job'[j].kind = "step" /\ job'[j].run # r =>
           job[j].kind = "step" /\ job'[j].run = job[j].run /\ job'[j].step = job[j].step,
         \A t \in Threads : thread'[t].run \in Runs \ {r} => thread'[t] = thread[t]
  PROVE  Harmless(q)
<1>1. Len(steps[q]) \in Nat
  BY DEF TypeOK
<1>2. \A t \in Threads : thread'[t].run = q => thread'[t] = thread[t]
  OBVIOUS
<1> QED BY <1>1, <1>2 DEF Harmless

LEMMA ResumeKeeps ==
  ASSUME TypeOK, TypeOK', Passwords, NEW r \in Runs, Resume(r)
  PROVE  Passwords'
<1> USE DEF store, Other
<1>1. /\ job' = job /\ steps' = steps /\ thread' = thread
      /\ resumes' = [resumes EXCEPT ![r] = @ + 1]
      /\ \E s : status' = [status EXCEPT ![r] = s]
      /\ Replayable(r)
  BY DEF Resume
<1>2. PasswordOnce'
  BY <1>1, SameJobsNoStep, NoNewStepKeepsOnce DEF Passwords
<1>3. RunInv(r)'
  BY <1>1 DEF RunInv, Replayable, TypeOK
<1>4. ASSUME NEW q \in Runs \ {r} PROVE RunInv(q)'
  <2>1. Harmless(q)
    BY <1>1, OthersHarmless DEF TypeOK
  <2> QED BY <2>1, HarmlessKeeps DEF Passwords
<1> QED BY <1>2, <1>3, <1>4 DEF Passwords

LEMMA StartsKeeps ==
  ASSUME TypeOK, TypeOK', Passwords, NEW r \in Runs, Starts(r)
  PROVE  Passwords'
<1> USE DEF store, Other
<1>1. PICK t \in Threads : StartBootstrap(r, t) \/ StartConfiguration(r, t)
  BY DEF Starts
<1>2. /\ job' = job /\ steps' = steps /\ resumes' = resumes
      /\ status[r] \in Resting
      /\ \E s \in Coordinating : status' = [status EXCEPT ![r] = s]
      /\ \E a \in BOOLEAN : thread' = [thread EXCEPT ![t] = Coordinator(r, a)]
  BY <1>1 DEF StartBootstrap, StartConfiguration, Refreshed, Resting, Coordinating
<1>3. /\ thread'[t].run = r /\ thread'[t].pc = "top"
      /\ \A u \in Threads \ {t} : thread'[u] = thread[u]
  BY <1>2 DEF TypeOK, Coordinator, NoThread
<1>4. PasswordOnce'
  BY <1>2, SameJobsNoStep, NoNewStepKeepsOnce DEF Passwords
<1>5. RunInv(r)'
  <2>1. status'[r] \in Coordinating /\ status'[r] \notin Resting
    BY <1>2 DEF TypeOK, Coordinating, Resting
  <2>2. ASSUME resumes[r] = 0 PROVE Single(r)'
    <3>1. (\A u \in Threads : thread[u].run # r) /\ Within(r, Len(steps[r]))
      BY <2>2, <1>2 DEF Passwords, RunInv, Single
    <3>2. Within(r, Len(steps[r]))'
      BY <3>1, <1>2 DEF Within
    <3> QED BY <2>1, <3>1, <3>2, <1>3 DEF Single
  <2> QED BY <2>2, <1>2 DEF Passwords, RunInv, Replayable
<1>6. ASSUME NEW q \in Runs \ {r} PROVE RunInv(q)'
  <2>1. Harmless(q)
    BY <1>2, <1>3, OthersHarmless DEF TypeOK
  <2> QED BY <2>1, HarmlessKeeps DEF Passwords
<1> QED BY <1>4, <1>5, <1>6 DEF Passwords

\* What is known of a coordinator t whose run is still its own.
LEMMA Coordinates ==
  ASSUME TypeOK, Passwords, NEW t \in Threads, thread[t].pc # "idle", Mine(t)
  PROVE  /\ Run(t) \in Runs
         /\ status[Run(t)] \in Coordinating
         /\ Len(steps[Run(t)]) \in Nat
         /\ resumes[Run(t)] = 0 =>
              /\ \A u \in Threads : thread[u].run = Run(t) => u = t
              /\ thread[t].pc = "top" => Within(Run(t), Len(steps[Run(t)]))
              /\ thread[t].pc \in {"wait", "seen"} => Within(Run(t), Len(steps[Run(t)]) + 1)
<1>1. Run(t) \in Runs
  BY DEF Run, TypeOK, ThreadRecords, NoThread
<1>2. status[Run(t)] \in Coordinating
  BY DEF Mine, Phase, Coordinating
<1> QED BY <1>1, <1>2 DEF Passwords, RunInv, Single, TypeOK, Run

LEMMA FinishKeeps ==
  ASSUME TypeOK, TypeOK', Passwords, NEW t \in Threads, Finish(t)
  PROVE  Passwords'
<1> USE DEF store, Other
<1>r. PICK r \in Runs : r = Run(t)
  BY Coordinates DEF Finish
<1>1. /\ job' = job /\ steps' = steps /\ resumes' = resumes
      /\ \E s \in Resting : status' = [status EXCEPT ![r] = s]
      /\ thread' = [thread EXCEPT ![t] = NoThread]
      /\ thread[t].pc = "top" /\ Mine(t)
  BY <1>r DEF Finish, Resting
<1>2. /\ resumes[r] = 0 => /\ \A u \in Threads : thread[u].run = r => u = t
                           /\ Within(r, Len(steps[r]))
  BY <1>r, <1>1, Coordinates
<1>3. thread'[t] = NoThread /\ \A u \in Threads \ {t} : thread'[u] = thread[u]
  BY <1>1 DEF TypeOK
<1>4. PasswordOnce'
  BY <1>1, SameJobsNoStep, NoNewStepKeepsOnce DEF Passwords
<1>5. RunInv(r)'
  <2>1. status'[r] \in Resting /\ status'[r] \notin Coordinating
    BY <1>1, <1>2 DEF TypeOK, Coordinating, Resting
  <2>2. ASSUME resumes[r] = 0 PROVE Single(r)'
    <3>1. Within(r, Len(steps[r]))'
      BY <1>1, <1>2, <2>2 DEF Within
    <3>2. \A u \in Threads : thread'[u].run # r
      BY <1>2, <1>3, <2>2, RecoveryAssumption DEF NoThread
    <3> QED BY <2>1, <3>1, <3>2 DEF Single
  <2> QED BY <2>2, <1>1, <1>2 DEF Passwords, RunInv, Replayable
<1>6. ASSUME NEW q \in Runs \ {r} PROVE RunInv(q)'
  <2>1. Harmless(q)
    BY <1>1, <1>2, <1>3, OthersHarmless, RecoveryAssumption DEF TypeOK, NoThread
  <2> QED BY <2>1, HarmlessKeeps DEF Passwords
<1> QED BY <1>4, <1>5, <1>6 DEF Passwords

LEMMA RecordKeeps ==
  ASSUME TypeOK, TypeOK', Passwords, NEW t \in Threads, Record(t)
  PROVE  Passwords'
<1> USE DEF store, Other
<1>r. PICK r \in Runs : r = Run(t)
  BY Coordinates DEF Record
<1>1. /\ job' = job /\ status' = status /\ resumes' = resumes
      /\ \E x : steps' = [steps EXCEPT ![r] = Append(@, x)]
      /\ thread' = [thread EXCEPT ![t] = Coordinator(r, thread[t].access)]
      /\ thread[t].pc = "seen" /\ Mine(t)
  BY <1>r DEF Record
<1>2. /\ Len(steps[r]) \in Nat
      /\ status[r] \in Coordinating
      /\ resumes[r] = 0 => /\ \A u \in Threads : thread[u].run = r => u = t
                           /\ Within(r, Len(steps[r]) + 1)
  BY <1>r, <1>1, Coordinates
<1>3. /\ thread'[t].run = r /\ thread'[t].pc = "top"
      /\ \A u \in Threads \ {t} : thread'[u] = thread[u]
  BY <1>1 DEF TypeOK, Coordinator, NoThread
<1>4. Len(steps'[r]) = Len(steps[r]) + 1
  BY <1>1, <1>2 DEF TypeOK
<1>5. PasswordOnce'
  BY <1>1, SameJobsNoStep, NoNewStepKeepsOnce DEF Passwords
<1>6. RunInv(r)'
  <2>1. ASSUME resumes[r] = 0 PROVE Single(r)'
    <3>1. Within(r, Len(steps[r]))'
      BY <1>1, <1>2, <1>4, <2>1 DEF Within
    <3>2. status'[r] \in Coordinating /\ status'[r] \notin Resting
      BY <1>1, <1>2 DEF Coordinating, Resting
    <3> QED BY <3>1, <3>2, <1>2, <1>3, <2>1 DEF Single
  <2>2. ASSUME Replayable(r) PROVE Replayable(r)'
    BY <1>2, <1>4, <2>2 DEF Replayable
  <2> QED BY <2>1, <2>2, <1>1, <1>2 DEF Passwords, RunInv
<1>7. ASSUME NEW q \in Runs \ {r} PROVE RunInv(q)'
  <2>1. Harmless(q)
    BY <1>1, <1>2, <1>3, OthersHarmless DEF TypeOK
  <2> QED BY <2>1, HarmlessKeeps DEF Passwords
<1> QED BY <1>5, <1>6, <1>7 DEF Passwords

LEMMA SubmitsKeeps ==
  ASSUME TypeOK, TypeOK', Passwords, NEW t \in Threads, Submits(t)
  PROVE  Passwords'
<1> USE DEF store, Other
<1>0. PICK j \in Jobs : SubmitStep(t, j) \/ SubmitUnsaved(t, j)
  BY DEF Submits
<1>r. PICK r \in Runs : r = Run(t)
  BY <1>0, Coordinates DEF SubmitStep, SubmitUnsaved, HasStep
<1>1. /\ Queue(j, "step", r, Ahead(t), {}) /\ HasStep(t)
      /\ status' = status /\ steps' = steps /\ resumes' = resumes
      /\ \/ thread' = [thread EXCEPT ![t].pc = "wait", ![t].job = j, ![t].step = Ahead(t)]
         \/ thread' = [thread EXCEPT ![t].pc = "raised"]
  BY <1>0, <1>r DEF SubmitStep, SubmitUnsaved, Become
<1>2. /\ Len(steps[r]) \in Nat
      /\ status[r] \in Coordinating
      /\ resumes[r] = 0 => /\ \A u \in Threads : thread[u].run = r => u = t
                           /\ Within(r, Len(steps[r]))
  BY <1>r, <1>1, Coordinates DEF HasStep
<1>3. Ahead(t) = Len(steps[r]) + 1 /\ Ahead(t) <= Len(Plan)
  BY <1>1, <1>r DEF Ahead, HasStep
<1>4. thread[t].run = r
  BY <1>r DEF Run
<1>5. /\ job'[j].kind = "step" /\ job'[j].run = r /\ job'[j].step = Len(steps[r]) + 1
      /\ \A k \in Jobs \ {j} : job'[k] = job[k]
  BY <1>1, <1>3 DEF Queue, TypeOK
<1>6. /\ thread'[t].run = r /\ thread'[t].pc \in {"wait", "raised"}
      /\ \A u \in Threads \ {t} : thread'[u] = thread[u]
  <2>1. thread[t] \in [pc : {"top", "wait", "seen", "raised"}, run : Runs, access : BOOLEAN,
                       job : Jobs \cup {None}, step : Nat, ok : BOOLEAN]
    BY <1>1 DEF HasStep, TypeOK, ThreadRecords, NoThread
  <2> QED BY <1>1, <1>4, <2>1 DEF TypeOK
<1>7. PasswordOnce'
  <2>1. ASSUME NEW k \in Jobs \ {j}, job[k].kind = "step", job[k].run = r, job[k].step = Len(steps[r]) + 1,
               Plan[Len(steps[r]) + 1].password
        PROVE  FALSE
    <3>1. CASE resumes[r] = 0
      BY <3>1, <2>1, <1>2 DEF Within
    <3>2. CASE resumes[r] > 0
      BY <3>2, <2>1, <1>2, <1>3 DEF Passwords, RunInv, Replayable
    <3> QED BY <3>1, <3>2, <1>2 DEF TypeOK
  <2> QED BY <2>1, <1>5 DEF Passwords, PasswordOnce
<1>8. RunInv(r)'
  <2>1. ASSUME resumes[r] = 0 PROVE Single(r)'
    <3>1. \A k \in Jobs : job[k].step \in Nat
      BY DEF TypeOK, JobRecords
    <3>2. (Within(r, Len(steps[r]) + 1))'
      BY <1>1, <1>2, <1>5, <2>1, <3>1 DEF Within
    <3>3. status'[r] \in Coordinating /\ status'[r] \notin Resting
      BY <1>1, <1>2 DEF Coordinating, Resting
    <3> QED BY <3>2, <3>3, <1>2, <1>6, <2>1 DEF Single
  <2> QED BY <2>1, <1>1, <1>2 DEF Passwords, RunInv, Replayable
<1>9. ASSUME NEW q \in Runs \ {r} PROVE RunInv(q)'
  <2>1. \A k \in Jobs : job'[k].kind = "step" /\ job'[k].run # r =>
          job[k].kind = "step" /\ job'[k].run = job[k].run /\ job'[k].step = job[k].step
    BY <1>5
  <2>2. \A u \in Threads : thread'[u].run \in Runs \ {r} => thread'[u] = thread[u]
    BY <1>6
  <2>3. Harmless(q)
    BY <1>1, <2>1, <2>2, OthersHarmless
  <2> QED BY <2>3, HarmlessKeeps DEF Passwords
<1> QED BY <1>7, <1>8, <1>9 DEF Passwords

LEMMA StepKeepsPasswords == TypeOK /\ TypeOK' /\ Passwords /\ [Next]_vars => Passwords'
<1> SUFFICES ASSUME TypeOK, TypeOK', Passwords, [Next]_vars PROVE Passwords'
  OBVIOUS
<1>1. CASE NoNewStep /\ \A q \in Runs : Harmless(q)
  BY <1>1, NoNewStepKeepsOnce, HarmlessKeeps DEF Passwords
<1> QED BY <1>1, StepHarmless, ResumeKeeps, StartsKeeps, FinishKeeps, RecordKeeps, SubmitsKeeps

LEMMA PasswordsAlways == Spec => []Passwords
<1>1. Init => Passwords
  <2> SUFFICES ASSUME Init PROVE Passwords
    OBVIOUS
  <2>1. \A j \in Jobs : job[j].kind = "none"
    BY DEF Init, NoJob
  <2>2. \A r \in Runs : Single(r)
    BY <2>1, RecoveryAssumption DEF Init, Single, Within, NoThread, Coordinating
  <2> QED BY <2>1, <2>2 DEF Init, Passwords, PasswordOnce, RunInv
<1> QED BY <1>1, StepKeepsPasswords, TypeOKHolds, PTL DEF Spec

\* A password change is submitted once in the life of a run.
THEOREM PasswordOnceHolds == Spec => []PasswordOnce
<1>1. Passwords => PasswordOnce
  BY DEF Passwords
<1> QED BY <1>1, PasswordsAlways, PTL

-----------------------------------------------------------------------------
(* The length of the initial access *)

\* A set of numbers under a bound has a greatest one.
LEMMA Greatest ==
  ASSUME NEW S, S \subseteq Nat, NEW n \in S, NEW b \in Nat, \A k \in S : k <= b
  PROVE  \E m \in S : \A k \in S : k <= m
<1> DEFINE Below == {ss \in Nat \X Nat : ss[1] < ss[2]}
<1> DEFINE Gaps == {g \in Nat : \E k \in S : g = b - k}
<1>1. IsWellFoundedOn(Below, Nat)
  BY NatLessThanWellFounded DEF OpToRel
<1>2. Gaps \subseteq Nat /\ Gaps # {}
  <2>1. b - n \in Gaps OBVIOUS
  <2> QED BY <2>1
<1>3. PICK g \in Gaps : \A h \in Gaps : <<h, g>> \notin Below
  <2> HIDE DEF Below, Gaps
  <2> QED BY <1>1, <1>2, WFMin
<1>4. PICK m \in S : g = b - m
  BY <1>3
<1>5. ASSUME NEW k \in S PROVE k <= m
  <2>1. b - k \in Gaps /\ b - k \in Nat /\ b - m \in Nat
    BY <1>4
  <2>2. <<b - k, b - m>> \notin Below
    <3> HIDE DEF Below, Gaps
    <3> QED BY <2>1, <1>3, <1>4
  <2>3. ~(b - k < b - m)
    BY <2>1, <2>2
  <2> QED BY <2>3
<1> QED BY <1>5

\* AccessCount is the greatest of AccessPrefixes.
LEMMA AccessCountIs ==
  /\ AccessCount \in AccessPrefixes
  /\ \A k \in AccessPrefixes : k <= AccessCount
  /\ AccessCount \in 0..Len(Plan) /\ Len(Plan) \in Nat
<1>1. Len(Plan) \in Nat
  BY RecoveryAssumption
<1>2. AccessPrefixes \subseteq 0..Len(Plan) /\ 0 \in AccessPrefixes
  BY <1>1 DEF AccessPrefixes
<1>3. \E m \in AccessPrefixes : \A k \in AccessPrefixes : k <= m
  <2>1. AccessPrefixes \subseteq Nat /\ \A k \in AccessPrefixes : k <= Len(Plan)
    BY <1>1, <1>2
  <2> QED BY <1>1, <1>2, <2>1, Greatest
<1> QED BY <1>1, <1>2, <1>3 DEF AccessCount

\* What follows the initial access is an initial access step again: it changes
\* the password a second time.
SecondPassword == AccessCount < Len(Plan) /\ Plan[AccessCount + 1].access

LEMMA SecondPasswordIs ==
  SecondPassword => Plan[AccessCount + 1].password
<1> SUFFICES ASSUME SecondPassword, ~Plan[AccessCount + 1].password PROVE FALSE
  OBVIOUS
<1> DEFINE n == AccessCount
<1>1. n \in Nat /\ n + 1 \in 0..Len(Plan) /\ n \in AccessPrefixes
  BY AccessCountIs DEF SecondPassword
<1>2. \A i \in 1..(n + 1) : i \in 1..n \/ i = n + 1
  BY <1>1
<1>3. n + 1 \in AccessPrefixes
  BY <1>1, <1>2 DEF AccessPrefixes, SecondPassword
<1> QED BY <1>1, <1>3, AccessCountIs

-----------------------------------------------------------------------------
(* What no step undoes *)

\* Jobs stay what they are, and a success one; recorded steps stay recorded.
JobsPersist ==
  \A j \in Jobs :
    /\ job[j].status = "success" => job'[j].status = "success"
    /\ job[j].kind # "none" => /\ job'[j].kind = job[j].kind
                               /\ job'[j].run = job[j].run
                               /\ job'[j].step = job[j].step
StepsPersist ==
  \A r \in Runs : /\ Len(steps[r]) \in Nat /\ Len(steps'[r]) \in Nat
                  /\ Len(steps'[r]) >= Len(steps[r])
                  /\ \A i \in 1..Len(steps[r]) : steps'[r][i] = steps[r][i]

\* The status of jobs that have not succeeded changes, or one is queued.
LEMMA JobsMove ==
  ASSUME TypeOK,
         \/ job' = job
         \/ \E j \in Jobs : \E k, r, i, S : Queue(j, k, r, i, S)
         \/ \A j \in Jobs : \/ job'[j] = job[j]
                            \/ job[j].status # "success" /\ \E s : job'[j] = [job[j] EXCEPT !.status = s]
  PROVE  JobsPersist
<1>1. CASE job' = job
  BY <1>1 DEF JobsPersist
<1>2. ASSUME NEW j \in Jobs, NEW k, NEW r, NEW i, NEW S, Queue(j, k, r, i, S) PROVE JobsPersist
  <2>1. job[j] = NoJob /\ \A n \in Jobs \ {j} : job'[n] = job[n]
    BY <1>2 DEF Queue, TypeOK
  <2> QED BY <2>1 DEF JobsPersist, NoJob
<1>3. ASSUME \A j \in Jobs : \/ job'[j] = job[j]
                             \/ job[j].status # "success" /\ \E s : job'[j] = [job[j] EXCEPT !.status = s]
      PROVE  JobsPersist
  <2>1. ASSUME NEW j \in Jobs, NEW s, job'[j] = [job[j] EXCEPT !.status = s]
        PROVE  job'[j].kind = job[j].kind /\ job'[j].run = job[j].run /\ job'[j].step = job[j].step
    <3>1. job[j] \in JobRecords
      BY DEF TypeOK
    <3> QED BY <3>1, <2>1 DEF JobRecords
  <2> QED BY <1>3, <2>1 DEF JobsPersist
<1> QED BY <1>1, <1>2, <1>3

LEMMA StepsMove ==
  ASSUME TypeOK,
         steps' = steps \/ \E r \in Runs, x \in StepRecords : steps' = [steps EXCEPT ![r] = Append(@, x)]
  PROVE  StepsPersist
<1>1. \A r \in Runs : steps[r] \in Seq(StepRecords) /\ Len(steps[r]) \in Nat
  BY DEF TypeOK
<1>2. CASE steps' = steps
  BY <1>1, <1>2 DEF StepsPersist
<1>3. ASSUME NEW r \in Runs, NEW x \in StepRecords, steps' = [steps EXCEPT ![r] = Append(@, x)]
      PROVE  StepsPersist
  <2>1. steps'[r] = Append(steps[r], x) /\ \A q \in Runs \ {r} : steps'[q] = steps[q]
    BY <1>3 DEF TypeOK
  <2>2. /\ Len(steps'[r]) = Len(steps[r]) + 1
        /\ \A i \in 1..Len(steps[r]) : steps'[r][i] = steps[r][i]
    BY <1>1, <2>1
  <2>3. ASSUME NEW q \in Runs
        PROVE  /\ Len(steps[q]) \in Nat /\ Len(steps'[q]) \in Nat /\ Len(steps'[q]) >= Len(steps[q])
               /\ \A i \in 1..Len(steps[q]) : steps'[q][i] = steps[q][i]
    <3>1. CASE q = r
      BY <1>1, <2>2, <3>1
    <3>2. CASE q # r
      BY <1>1, <2>1, <3>2
    <3> QED BY <3>1, <3>2
  <2> QED BY <2>3 DEF StepsPersist
<1> QED BY <1>2, <1>3

\* The types of a coordinator at work.
LEMMA AtWork ==
  ASSUME TypeOK, NEW t \in Threads, thread[t].pc # "idle"
  PROVE  /\ thread[t] \in [pc : {"top", "wait", "seen", "raised"}, run : Runs, access : BOOLEAN,
                           job : Jobs \cup {None}, step : Nat, ok : BOOLEAN]
         /\ Run(t) \in Runs /\ thread[t].step \in Nat
         /\ thread[t].pc \in {"wait", "seen"} => thread[t].job \in Jobs
BY DEF TypeOK, ThreadRecords, NoThread, Run

\* Steps are recorded by coordinators or linked by operators.
LEMMA StepsChange ==
  ASSUME [Next]_vars
  PROVE  \/ steps' = steps
         \/ \E t \in Threads : Record(t)
         \/ \E r \in Runs, j \in Jobs : LinkStep(r, j)
<1> USE DEF store, Other
<1>1. CASE \E r \in Runs : Deploying(r) \/ Operator(r) \/ EvidenceAges(r)
  BY <1>1
  DEF Deploying, Prepare, ClosePrepared, DeployRefused, Refresh, Deploy, DeployUnlinked, DeployUnsaved,
      Operator, AttestHealth, Accept, Reconcile, Resume, Stop, AskHealth, StartBootstrap,
      StartConfiguration, EvidenceAges
<1>2. CASE \E t \in Threads : Coordinate(t)
  BY <1>2
  DEF Coordinate, Leave, Finish, StepRefused, SeeJob, StepFailed, RecordUnsaved, Handler,
      SubmitStep, SubmitUnsaved
<1>3. CASE \E c \in Collectors : Collect(c)
  BY <1>3 DEF Collect, CollectBegins, CollectEnds
<1>4. CASE \E j \in Jobs : QueueStep(j)
  BY <1>4 DEF QueueStep, JobStarts, JobSucceeds, JobEnds, SetJob, SubmitManual, SubmitDirect
<1> QED BY <1>1, <1>2, <1>3, <1>4 DEF Next, Crash, vars

LEMMA StepPersists ==
  ASSUME TypeOK, [Next]_vars
  PROVE  JobsPersist /\ StepsPersist
<1> USE DEF store, Other
<1>1. JobsPersist
  <2>1. ASSUME NEW r \in Runs, Deploying(r) \/ Operator(r) \/ EvidenceAges(r) PROVE JobsPersist
    <3>1. CASE Stop(r)
      <4>1. \A j \in Jobs : \/ job'[j] = job[j]
                            \/ job[j].status # "success" /\ \E s : job'[j] = [job[j] EXCEPT !.status = s]
        BY <3>1 DEF Stop
      <4> QED BY <4>1, JobsMove
    <3>2. CASE ~Stop(r)
      <4>1. job' = job \/ \E j \in Jobs : \E k, q, i, S : Queue(j, k, q, i, S)
        BY <2>1, <3>2
        DEF Deploying, Prepare, ClosePrepared, DeployRefused, Refresh, Deploy, DeployUnlinked, DeployUnsaved,
            Operator, AttestHealth, Accept, Reconcile, Resume, AskHealth, StartBootstrap, StartConfiguration,
            LinkStep, EvidenceAges
      <4> QED BY <4>1, JobsMove
    <3> QED BY <3>1, <3>2
  <2>2. ASSUME NEW t \in Threads, Coordinate(t) PROVE JobsPersist
    <3>1. job' = job \/ \E j \in Jobs : \E k, q, i, S : Queue(j, k, q, i, S)
      BY <2>2
      DEF Coordinate, Leave, Finish, StepRefused, SeeJob, Record, StepFailed, RecordUnsaved, Handler,
          SubmitStep, SubmitUnsaved
    <3> QED BY <3>1, JobsMove
  <2>3. ASSUME NEW c \in Collectors, Collect(c) PROVE JobsPersist
    BY <2>3, JobsMove DEF Collect, CollectBegins, CollectEnds
  <2>4. ASSUME NEW j \in Jobs, QueueStep(j) PROVE JobsPersist
    <3>1. ASSUME NEW s, job[j].status \in {"queued", "running"}, SetJob(j, s) PROVE JobsPersist
      <4>1. job'[j] = [job[j] EXCEPT !.status = s] /\ \A k \in Jobs \ {j} : job'[k] = job[k]
        BY <3>1 DEF SetJob, TypeOK
      <4>2. ASSUME NEW k \in Jobs
            PROVE  \/ job'[k] = job[k]
                   \/ job[k].status # "success" /\ \E x : job'[k] = [job[k] EXCEPT !.status = x]
        <5>1. CASE k = j
          BY <3>1, <4>1, <5>1, Zenon
        <5>2. CASE k # j
          BY <4>1, <5>2
        <5> QED BY <5>1, <5>2
      <4> QED BY <4>2, JobsMove
    <3>2. ASSUME \E k, q, i, S : Queue(j, k, q, i, S) PROVE JobsPersist
      BY <3>2, JobsMove
    <3> QED BY <2>4, <3>1, <3>2 DEF QueueStep, JobStarts, JobSucceeds, JobEnds, Active, SubmitManual, SubmitDirect
  <2>5. CASE Crash
    <3>1. \A j \in Jobs : \/ job'[j] = job[j]
                          \/ job[j].status # "success" /\ \E s : job'[j] = [job[j] EXCEPT !.status = s]
      BY <2>5 DEF Crash, Active
    <3> QED BY <3>1, JobsMove
  <2>6. CASE UNCHANGED vars
    BY <2>6, JobsMove DEF vars
  <2> QED BY <2>1, <2>2, <2>3, <2>4, <2>5, <2>6 DEF Next
<1>2. StepsPersist
  <2>1. ASSUME NEW r \in Runs, NEW j \in Jobs, LinkStep(r, j) PROVE StepsPersist
    <3>1. [index |-> Len(steps[r]) + 1, job |-> j] \in StepRecords
      BY DEF StepRecords, TypeOK
    <3> QED BY <2>1, <3>1, StepsMove DEF LinkStep
  <2>2. ASSUME NEW t \in Threads, Record(t) PROVE StepsPersist
    <3>1. Run(t) \in Runs /\ [index |-> thread[t].step, job |-> thread[t].job] \in StepRecords
      BY <2>2, AtWork DEF Record, StepRecords
    <3> QED BY <2>2, <3>1, StepsMove DEF Record
  <2>3. CASE steps' = steps
    BY <2>3, StepsMove
  <2> QED BY <2>1, <2>2, <2>3, StepsChange
<1> QED BY <1>1, <1>2

\* Steps that were done in their order stay so.
LEMMA CompletePersists ==
  ASSUME TypeOK, JobsPersist, StepsPersist, NEW r \in Runs, NEW n \in Nat, Complete(r, n)
  PROVE  Complete(r, n)'
<1>1. Len(steps[r]) >= n /\ Len(steps'[r]) >= n
  BY DEF Complete, StepsPersist
<1>2. ASSUME NEW i \in 1..n PROVE (steps[r][i].index = i /\ Succeeded(steps[r][i].job))'
  <2>1. steps[r][i].index = i /\ Succeeded(steps[r][i].job)
    BY DEF Complete
  <2>2. i \in 1..Len(steps[r]) /\ steps'[r][i] = steps[r][i]
    BY <1>1 DEF StepsPersist
  <2>3. steps[r][i].job \in Jobs
    <3>1. steps[r] \in Seq(StepRecords)
      BY DEF TypeOK
    <3>2. steps[r][i] \in StepRecords
      BY <2>2, <3>1
    <3> QED BY <3>2 DEF StepRecords
  <2> QED BY <2>1, <2>2, <2>3 DEF Succeeded, JobsPersist
<1> QED BY <1>1, <1>2 DEF Complete

-----------------------------------------------------------------------------
(* The rest of the configuration *)

\* The initial access of a run is done.
AccessDone(r) == Complete(r, AccessCount)

\* A run is past its health, a readback counts and a coordinator configures only
\* when the initial access is done; and what else was submitted came after it.
Gated ==
  /\ \A r \in Runs : status[r] \in {"ready", "configuring"} => AccessDone(r)
  /\ \A c \in Collectors : collector[c].pc = "reading" => AccessDone(collector[c].run)
  /\ \A t \in Threads : thread[t].pc # "idle" /\ ~thread[t].access => AccessDone(Run(t))
  /\ \A j \in Jobs : job[j].kind = "step" =>
       job[j].run \in Runs /\ (~Plan[job[j].step].access => AccessDone(job[j].run))

LEMMA StatusGated ==
  ASSUME TypeOK, Gated, [Next]_vars, NEW r \in Runs, status'[r] \in {"ready", "configuring"}
  PROVE  AccessDone(r)
<1> USE DEF store, Other, AccessDone
<1>0. status[r] \in {"ready", "configuring"} => AccessDone(r)
  BY DEF Gated
<1>1. ASSUME NEW q \in Runs, Deploying(q) \/ EvidenceAges(q) PROVE AccessDone(r)
  <2>1. Refreshed(q) \in {status[q], "needs_reconciliation", "awaiting_bootstrap", "awaiting_health"}
    BY DEF Refreshed
  <2>2. status' = status \/ \E s : /\ status' = [status EXCEPT ![q] = s]
                                   /\ s \in {"ready", "configuring"} => s = status[q]
    BY <1>1, <2>1
    DEF Deploying, Prepare, ClosePrepared, DeployRefused, Refresh, Deploy, DeployUnlinked, DeployUnsaved,
        EvidenceAges
  <2> QED BY <2>2, <1>0 DEF TypeOK
<1>2. ASSUME NEW q \in Runs, Operator(q) PROVE AccessDone(r)
  <2>1. CASE AttestHealth(q) \/ \E t \in Threads : StartConfiguration(q, t)
    BY <2>1, <1>0 DEF AttestHealth, Healthy, Readable, StartConfiguration, TypeOK
  <2>2. CASE \E j \in Jobs : LinkStep(q, j)
    BY <2>2, <1>0 DEF LinkStep, TypeOK
  <2>3. CASE Accept(q) \/ Reconcile(q) \/ Resume(q) \/ Stop(q) \/ \E t \in Threads : StartBootstrap(q, t)
    BY <2>3, <1>0 DEF Accept, Reconcile, Resume, Stop, StartBootstrap, TypeOK
  <2>4. CASE \E c \in Collectors : AskHealth(q, c)
    BY <2>4, <1>0 DEF AskHealth
  <2> QED BY <1>2, <2>1, <2>2, <2>3, <2>4 DEF Operator
<1>3. ASSUME NEW t \in Threads, Coordinate(t) PROVE AccessDone(r)
  <2>1. status' = status \/ \E s \in {"awaiting_health", "awaiting_acceptance", "needs_reconciliation"} :
                               status' = [status EXCEPT ![Run(t)] = s]
    BY <1>3
    DEF Coordinate, Leave, Finish, StepRefused, SeeJob, Record, StepFailed, RecordUnsaved, Handler,
        SubmitStep, SubmitUnsaved, TypeOK
  <2> QED BY <2>1, <1>0 DEF TypeOK
<1>4. ASSUME NEW c \in Collectors, Collect(c) PROVE AccessDone(r)
  <2>1. CASE CollectBegins(c)
    BY <2>1, <1>0 DEF CollectBegins, TypeOK
  <2>2. CASE CollectEnds(c)
    <3>1. AccessDone(collector[c].run)
      BY <2>2 DEF CollectEnds, Gated
    <3> QED BY <2>2, <3>1, <1>0 DEF CollectEnds, Healthy, TypeOK
  <2> QED BY <1>4, <2>1, <2>2 DEF Collect
<1>5. ASSUME NEW j \in Jobs, QueueStep(j) PROVE AccessDone(r)
  BY <1>5, <1>0 DEF QueueStep, JobStarts, JobSucceeds, JobEnds, SetJob, SubmitManual, SubmitDirect
<1>6. CASE Crash
  BY <1>6, <1>0 DEF Crash
<1> QED BY <1>0, <1>1, <1>2, <1>3, <1>4, <1>5, <1>6 DEF Next, vars

LEMMA CollectorGated ==
  ASSUME TypeOK, Gated, [Next]_vars, NEW c \in Collectors, collector'[c].pc = "reading"
  PROVE  collector'[c].run \in Runs /\ AccessDone(collector'[c].run)
<1> USE DEF store, Other, AccessDone
<1>0. collector[c].pc = "reading" => collector[c].run \in Runs /\ AccessDone(collector[c].run)
  BY DEF Gated, TypeOK, CollectorRecords, NoCollector
<1>1. ASSUME NEW d \in Collectors, NEW x, x.pc # "reading", collector' = [collector EXCEPT ![d] = x]
      PROVE  collector'[c] = collector[c]
  BY <1>1 DEF TypeOK
<1>2. ASSUME NEW r \in Runs, Deploying(r) \/ Operator(r) \/ EvidenceAges(r) PROVE collector'[c] = collector[c]
  <2>1. CASE \E d \in Collectors : AskHealth(r, d)
    BY <2>1, <1>1 DEF AskHealth
  <2>2. CASE ~\E d \in Collectors : AskHealth(r, d)
    BY <1>2, <2>2
    DEF Deploying, Prepare, ClosePrepared, DeployRefused, Refresh, Deploy, DeployUnlinked, DeployUnsaved,
        Operator, AttestHealth, Accept, Reconcile, Resume, Stop, StartBootstrap, StartConfiguration,
        LinkStep, EvidenceAges
  <2> QED BY <2>1, <2>2
<1>3. ASSUME NEW t \in Threads, Coordinate(t) PROVE collector'[c] = collector[c]
  <2>1. CASE Finish(t)
    BY <2>1, <1>1 DEF Finish
  <2>2. CASE ~Finish(t)
    BY <1>3, <2>2
    DEF Coordinate, Leave, StepRefused, SeeJob, Record, StepFailed, RecordUnsaved, Handler,
        SubmitStep, SubmitUnsaved
  <2> QED BY <2>1, <2>2
<1>4. ASSUME NEW d \in Collectors, Collect(d)
      PROVE  \/ collector'[c] = collector[c]
             \/ collector'[c].run \in Runs /\ AccessDone(collector'[c].run)
  <2>1. CASE collector' = [collector EXCEPT ![d] = NoCollector]
    BY <2>1, <1>1 DEF NoCollector
  <2>2. CASE CollectBegins(d) /\ Readable(collector[d].run)
    <3>1. collector[d].run \in Runs /\ collector[d] \in [pc : {"begin", "reading"}, run : Runs, since : Nat]
      BY <2>2 DEF CollectBegins, TypeOK, CollectorRecords, NoCollector
    <3>2. collector' = [collector EXCEPT ![d] = [@ EXCEPT !.pc = "reading", !.since = resumes[collector[d].run]]]
      BY <2>2 DEF CollectBegins
    <3>3. c = d => collector'[c].run = collector[d].run
      BY <3>1, <3>2 DEF TypeOK
    <3>4. c # d => collector'[c] = collector[c]
      BY <3>2 DEF TypeOK
    <3> QED BY <2>2, <3>1, <3>3, <3>4 DEF Readable
  <2> QED BY <1>4, <2>1, <2>2 DEF Collect, CollectBegins, CollectEnds
<1>5. ASSUME NEW j \in Jobs, QueueStep(j) PROVE collector'[c] = collector[c]
  BY <1>5 DEF QueueStep, JobStarts, JobSucceeds, JobEnds, SetJob, SubmitManual, SubmitDirect
<1>6. CASE Crash
  BY <1>6 DEF Crash, NoCollector
<1>7. CASE UNCHANGED vars
  BY <1>0, <1>7 DEF vars
<1> QED BY <1>0, <1>2, <1>3, <1>4, <1>5, <1>6, <1>7 DEF Next

\* A coordinator that goes on keeps its run and its phase.
GoesOn(t) ==
  /\ thread[t].pc # "idle"
  /\ thread'[t].run = thread[t].run /\ thread'[t].access = thread[t].access

LEMMA ThreadGoesOn ==
  ASSUME TypeOK, NEW t \in Threads, NEW u \in Threads, thread'[u].pc # "idle",
         thread[t].pc # "idle",
         \/ thread' = [thread EXCEPT ![t] = NoThread]
         \/ thread' = [thread EXCEPT ![t] = Coordinator(Run(t), thread[t].access)]
         \/ \E p \in {"raised"} : Become(t, p)
         \/ \E ok \in BOOLEAN : thread' = [thread EXCEPT ![t].pc = "seen", ![t].ok = ok]
         \/ \E j \in Jobs, i \in Nat : thread' = [thread EXCEPT ![t].pc = "wait", ![t].job = j, ![t].step = i]
  PROVE  GoesOn(u) \/ thread'[u] = thread[u]
<1> DEFINE Rec == [pc : {"top", "wait", "seen", "raised"}, run : Runs, access : BOOLEAN,
                   job : Jobs \cup {None}, step : Nat, ok : BOOLEAN]
<1>1. thread[t] \in Rec
  BY AtWork
<1>2. CASE u # t
  BY <1>2 DEF TypeOK, Become
<1>3. CASE u = t
  <2>1. CASE thread' = [thread EXCEPT ![t] = NoThread]
    BY <2>1, <1>3 DEF TypeOK, NoThread
  <2>2. CASE thread' = [thread EXCEPT ![t] = Coordinator(Run(t), thread[t].access)]
    BY <2>2, <1>3 DEF TypeOK, Coordinator, NoThread, GoesOn, Run
  <2>3. CASE Become(t, "raised")
    BY <2>3, <1>1, <1>3 DEF TypeOK, GoesOn, Become
  <2>4. CASE \E ok \in BOOLEAN : thread' = [thread EXCEPT ![t].pc = "seen", ![t].ok = ok]
    BY <2>4, <1>1, <1>3 DEF TypeOK, GoesOn
  <2>5. ASSUME NEW j \in Jobs, NEW i \in Nat,
               thread' = [thread EXCEPT ![t].pc = "wait", ![t].job = j, ![t].step = i]
        PROVE  GoesOn(u)
    <3>1. thread' = [thread EXCEPT ![t] = [@ EXCEPT !.pc = "wait", !.job = j, !.step = i]]
      BY <2>5
    <3>2. thread'[t] = [thread[t] EXCEPT !.pc = "wait", !.job = j, !.step = i]
      BY <3>1 DEF TypeOK
    <3>3. thread'[t].run = thread[t].run /\ thread'[t].access = thread[t].access
      BY <3>2, <1>1
    <3> QED BY <3>3, <1>3 DEF GoesOn
  <2> QED BY <2>1, <2>2, <2>3, <2>4, <2>5
<1> QED BY <1>2, <1>3

\* A step starts a coordinator, is one of its own, kills all, or leaves them alone.
LEMMA ThreadMoves ==
  ASSUME TypeOK, [Next]_vars, NEW u \in Threads, thread'[u].pc # "idle"
  PROVE  \/ GoesOn(u)
         \/ \E r \in Runs : \/ StartBootstrap(r, u) /\ thread'[u] = Coordinator(r, TRUE)
                            \/ StartConfiguration(r, u) /\ thread'[u] = Coordinator(r, FALSE)
<1> USE DEF store, Other
<1>0. thread'[u] = thread[u] => GoesOn(u)
  BY DEF GoesOn
<1>1. ASSUME NEW r \in Runs, Deploying(r) \/ Operator(r) \/ EvidenceAges(r)
      PROVE  \/ GoesOn(u)
             \/ StartBootstrap(r, u) /\ thread'[u] = Coordinator(r, TRUE)
             \/ StartConfiguration(r, u) /\ thread'[u] = Coordinator(r, FALSE)
  <2>1. ASSUME NEW t \in Threads, StartBootstrap(r, t) \/ StartConfiguration(r, t)
        PROVE  \/ thread'[u] = thread[u]
               \/ StartBootstrap(r, u) /\ thread'[u] = Coordinator(r, TRUE)
               \/ StartConfiguration(r, u) /\ thread'[u] = Coordinator(r, FALSE)
    BY <2>1 DEF StartBootstrap, StartConfiguration, TypeOK
  <2>2. CASE ~\E t \in Threads : StartBootstrap(r, t) \/ StartConfiguration(r, t)
    BY <1>0, <1>1, <2>2
    DEF Deploying, Prepare, ClosePrepared, DeployRefused, Refresh, Deploy, DeployUnlinked, DeployUnsaved,
        Operator, AttestHealth, Accept, Reconcile, Resume, Stop, AskHealth, LinkStep, EvidenceAges
  <2> QED BY <1>0, <2>1, <2>2
<1>2. ASSUME NEW t \in Threads, Coordinate(t) PROVE GoesOn(u)
  <2>1. thread[t].pc # "idle"
    BY <1>2
    DEF Coordinate, Leave, Finish, StepRefused, SeeJob, Record, StepFailed, RecordUnsaved, Handler,
        SubmitStep, SubmitUnsaved, HasStep
  <2>2. Succeeded(thread[t].job) \in BOOLEAN
    BY DEF Succeeded
  <2>3. ASSUME NEW j \in Jobs, SubmitStep(t, j) PROVE Ahead(t) \in Nat
    BY <2>1, AtWork DEF Ahead, TypeOK
  <2>4. ASSUME NEW j \in Jobs, SubmitStep(t, j) PROVE GoesOn(u)
    <3>1. thread' = [thread EXCEPT ![t].pc = "wait", ![t].job = j, ![t].step = Ahead(t)] /\ Ahead(t) \in Nat
      BY <2>3, <2>4 DEF SubmitStep
    <3> QED BY <2>1, <3>1, <1>0, ThreadGoesOn
  <2>5. CASE SeeJob(t)
    BY <2>1, <2>2, <2>5, <1>0, ThreadGoesOn DEF SeeJob
  <2>6. CASE Leave(t) \/ Finish(t) \/ Handler(t) \/ Record(t)
    BY <2>1, <2>6, <1>0, ThreadGoesOn DEF Leave, Finish, Handler, Record
  <2>7. CASE StepRefused(t) \/ StepFailed(t) \/ RecordUnsaved(t) \/ \E j \in Jobs : SubmitUnsaved(t, j)
    BY <2>1, <2>7, <1>0, ThreadGoesOn DEF StepRefused, StepFailed, RecordUnsaved, SubmitUnsaved
  <2> QED BY <1>2, <2>4, <2>5, <2>6, <2>7 DEF Coordinate
<1>3. ASSUME NEW c \in Collectors, Collect(c) PROVE GoesOn(u)
  BY <1>0, <1>3 DEF Collect, CollectBegins, CollectEnds
<1>4. ASSUME NEW j \in Jobs, QueueStep(j) PROVE GoesOn(u)
  BY <1>0, <1>4 DEF QueueStep, JobStarts, JobSucceeds, JobEnds, SetJob, SubmitManual, SubmitDirect
<1>5. CASE Crash
  BY <1>5 DEF Crash, NoThread
<1>6. CASE UNCHANGED vars
  BY <1>0, <1>6 DEF vars
<1> QED BY <1>1, <1>2, <1>3, <1>4, <1>5, <1>6 DEF Next

\* A coordinator submits what its run has next.
SubmitsStep(t, j) ==
  /\ HasStep(t)
  /\ job'[j].kind = "step" /\ job'[j].run = Run(t) /\ job'[j].step = Ahead(t)
  /\ job[j] = NoJob

LEMMA StepJobs ==
  ASSUME TypeOK, [Next]_vars, NEW j \in Jobs, job'[j].kind = "step"
  PROVE  \/ job[j].kind = "step"
         \/ \E t \in Threads : SubmitsStep(t, j) /\ (SubmitStep(t, j) \/ SubmitUnsaved(t, j))
<1> USE DEF store, Other
<1>1. ASSUME NEW t \in Threads, NEW k \in Jobs, SubmitStep(t, k) \/ SubmitUnsaved(t, k), job[j].kind # "step"
      PROVE  k = j /\ SubmitsStep(t, j)
  <2>1. HasStep(t) /\ Queue(k, "step", Run(t), Ahead(t), {})
    BY <1>1 DEF SubmitStep, SubmitUnsaved
  <2>2. k = j
    BY <2>1, <1>1 DEF Queue, TypeOK
  <2> QED BY <2>1, <2>2 DEF Queue, TypeOK, SubmitsStep
<1>2. NoNewStep => job[j].kind = "step"
  BY DEF NoNewStep
<1>3. job' = job => job[j].kind = "step"
  OBVIOUS
<1> QED BY <1>1, <1>2, <1>3, StepHarmless DEF Resume, Starts, StartBootstrap, StartConfiguration, Finish, Record, Submits

LEMMA GatedKeeps ==
  ASSUME TypeOK, TypeOK', Gated, [Next]_vars
  PROVE  Gated'
<1>0. JobsPersist /\ StepsPersist
  BY StepPersists
<1>1. ASSUME NEW r \in Runs, AccessDone(r) PROVE AccessDone(r)'
  BY <1>0, <1>1, CompletePersists, AccessCountIs DEF AccessDone
<1>2. ASSUME NEW r \in Runs, status'[r] \in {"ready", "configuring"} PROVE AccessDone(r)'
  BY <1>1, <1>2, StatusGated
<1>3. ASSUME NEW c \in Collectors, collector'[c].pc = "reading" PROVE AccessDone(collector[c].run)'
  <2>1. PICK r \in Runs : r = collector'[c].run /\ AccessDone(r)
    BY <1>3, CollectorGated
  <2> QED BY <2>1, <1>1
<1>4. ASSUME NEW t \in Threads, thread'[t].pc # "idle", ~thread'[t].access PROVE AccessDone(Run(t))'
  <2>1. PICK r \in Runs : r = thread'[t].run /\ AccessDone(r)
    <3>1. CASE GoesOn(t)
      BY <1>4, <3>1, AtWork DEF GoesOn, Gated, Run
    <3>2. ASSUME NEW r \in Runs, StartBootstrap(r, t), thread'[t] = Coordinator(r, TRUE) PROVE FALSE
      BY <1>4, <3>2 DEF Coordinator, NoThread
    <3>3. ASSUME NEW r \in Runs, StartConfiguration(r, t), thread'[t] = Coordinator(r, FALSE)
          PROVE  r = thread'[t].run /\ AccessDone(r)
      <4>1. AccessDone(r)
        BY <3>3 DEF StartConfiguration, AccessDone
      <4>2. Coordinator(r, FALSE).run = r
        BY DEF Coordinator, NoThread
      <4> QED BY <4>1, <4>2, <3>3
    <3> QED BY <1>4, <3>1, <3>2, <3>3, ThreadMoves
  <2> QED BY <2>1, <1>1 DEF Run
<1>5. ASSUME NEW j \in Jobs, job'[j].kind = "step"
      PROVE  job'[j].run \in Runs /\ (~Plan[job'[j].step].access => AccessDone(job[j].run)')
  <2>1. PICK r \in Runs : r = job'[j].run /\ (~Plan[job'[j].step].access => AccessDone(r))
    <3>1. CASE job[j].kind = "step"
      BY <1>0, <3>1 DEF Gated, JobsPersist
    <3>2. ASSUME NEW t \in Threads, SubmitsStep(t, j)
          PROVE  Run(t) \in Runs /\ (~Plan[job'[j].step].access => AccessDone(Run(t)))
      BY <3>2, AtWork DEF SubmitsStep, HasStep, Gated
    <3> QED BY <1>5, <3>1, <3>2, StepJobs DEF SubmitsStep
  <2> QED BY <2>1, <1>1
<1> QED BY <1>2, <1>3, <1>4, <1>5 DEF Gated

LEMMA GatedAlways == Spec => []Gated
<1>1. Init => Gated
  BY DEF Init, Gated, NoJob, NoThread, NoCollector
<1>2. TypeOK /\ TypeOK' /\ Gated /\ [Next]_vars => Gated'
  BY GatedKeeps
<1> QED BY <1>1, <1>2, TypeOKHolds, PTL DEF Spec

-----------------------------------------------------------------------------
(* The jobs of the recorded steps *)

\* A coordinator that waits for its job, or has seen its end.
Held(t) == thread[t].pc \in {"wait", "seen"}

\* Recorded jobs succeeded.  The job of a coordinator is its own and is not
\* recorded; and as health was read since, none of them may be linked.
Linked ==
  /\ OneJobOneStep
  /\ \A r \in Runs : \A k \in 1..Len(steps[r]) : Succeeded(steps[r][k].job)
  /\ \A t \in Threads : Held(t) =>
       /\ job[thread[t].job].kind = "step" /\ job[thread[t].job].run = Run(t)
       /\ thread[t].pc = "seen" /\ thread[t].ok => Succeeded(thread[t].job)
       /\ \A k \in 1..Len(steps[Run(t)]) : steps[Run(t)][k].job # thread[t].job
  /\ \A t, u \in Threads : Held(t) /\ Held(u) /\ thread[t].job = thread[u].job => t = u
  /\ \A r \in Runs, j \in timely : status[r] = "ready" /\ job[j].run = r => job[j].kind # "step"

\* A run becomes ready with no timely job of its own, and while it is, none of
\* its coordinators submits.
LEMMA ReadyTimely ==
  ASSUME TypeOK, TypeOK', [Next]_vars, NEW r \in Runs, status'[r] = "ready",
         NEW j \in timely', job'[j].kind = "step", job'[j].run = r
  PROVE  status[r] = "ready" /\ j \in timely /\ job[j].kind = "step" /\ job[j].run = r
<1> USE DEF store, Other
<1>0. j \in Jobs /\ (job[j].kind = "step" => job[j].run = r)
  BY StepPersists DEF JobsPersist, TypeOK
<1> DEFINE Goal == status[r] = "ready" /\ j \in timely
<1>1. ASSUME NEW q \in Runs, Deploying(q) \/ EvidenceAges(q) PROVE Goal
  <2>1. Refreshed(q) \in {status[q], "needs_reconciliation", "awaiting_bootstrap", "awaiting_health"}
    BY DEF Refreshed
  <2>2. timely' = timely
    BY <1>1
    DEF Deploying, Prepare, ClosePrepared, DeployRefused, Refresh, Deploy, DeployUnlinked, DeployUnsaved,
        EvidenceAges
  <2>3. status' = status \/ \E s : /\ status' = [status EXCEPT ![q] = s]
                                   /\ s = "ready" => s = status[q]
    BY <1>1, <2>1
    DEF Deploying, Prepare, ClosePrepared, DeployRefused, Refresh, Deploy, DeployUnlinked, DeployUnsaved,
        EvidenceAges
  <2> QED BY <2>2, <2>3 DEF TypeOK
<1>2. ASSUME NEW q \in Runs, Healthy(q, asOf'[q]), job' = job PROVE Goal
  <2>1. q # r
    BY <1>2 DEF Healthy
  <2> QED BY <1>2, <2>1 DEF Healthy, TypeOK
<1>3. ASSUME NEW q \in Runs, Operator(q) PROVE Goal
  <2>1. CASE AttestHealth(q)
    BY <1>2, <2>1 DEF AttestHealth, Healthy, TypeOK
  <2>2. CASE ~AttestHealth(q)
    <3>1. timely' = timely
      BY <1>3, <2>2
      DEF Operator, Accept, Reconcile, Resume, Stop, AskHealth, StartBootstrap, StartConfiguration, LinkStep
    <3>2. status'[r] = "ready" => status[r] = "ready"
      BY <1>3, <2>2
      DEF Operator, Accept, Reconcile, Resume, Stop, AskHealth, StartBootstrap, StartConfiguration, LinkStep, TypeOK
    <3> QED BY <3>1, <3>2
  <2> QED BY <2>1, <2>2
<1>4. ASSUME NEW t \in Threads, Submits(t) PROVE Goal
  <2>1. PICK k \in Jobs : SubmitStep(t, k) \/ SubmitUnsaved(t, k)
    BY <1>4 DEF Submits
  <2>2. status' = status /\ timely' \subseteq timely \cup {k} /\ HasStep(t) /\ Queue(k, "step", Run(t), Ahead(t), {})
    BY <2>1 DEF SubmitStep, SubmitUnsaved
  <2>3. j # k
    <3>1. job'[k].run = Run(t) /\ status[Run(t)] # "ready"
      BY <2>2 DEF Queue, TypeOK, HasStep, Mine, Phase
    <3> QED BY <3>1, <2>2
  <2> QED BY <2>2, <2>3
<1>5. ASSUME NEW t \in Threads, Coordinate(t), ~Submits(t) PROVE Goal
  <2>1. timely' = timely
    BY <1>5
    DEF Coordinate, Leave, Finish, StepRefused, SeeJob, Record, StepFailed, RecordUnsaved, Handler, Submits
  <2>2. status' = status \/ \E s \in {"awaiting_health", "awaiting_acceptance", "needs_reconciliation"} :
                               status' = [status EXCEPT ![Run(t)] = s]
    BY <1>5
    DEF Coordinate, Leave, Finish, StepRefused, SeeJob, Record, StepFailed, RecordUnsaved, Handler, Submits, TypeOK
  <2> QED BY <2>1, <2>2 DEF TypeOK
<1>6. ASSUME NEW c \in Collectors, Collect(c) PROVE Goal
  <2>1. CASE CollectBegins(c)
    BY <2>1 DEF CollectBegins, TypeOK
  <2>2. CASE CollectEnds(c)
    <3>1. collector[c].run \in Runs
      BY <2>2 DEF CollectEnds, TypeOK, CollectorRecords, NoCollector
    <3> QED BY <1>2, <2>2, <3>1 DEF CollectEnds, Healthy, TypeOK
  <2> QED BY <1>6, <2>1, <2>2 DEF Collect
<1>7. ASSUME NEW k \in Jobs, QueueStep(k) PROVE Goal
  <2>1. status' = status
    BY <1>7 DEF QueueStep, JobStarts, JobSucceeds, JobEnds, SetJob, SubmitManual, SubmitDirect
  <2>2. CASE \E q \in Runs, i \in 1..Len(Plan) : SubmitDirect(k, q, i)
    BY <2>1, <2>2 DEF SubmitDirect, Queue, TypeOK
  <2>3. CASE ~\E q \in Runs, i \in 1..Len(Plan) : SubmitDirect(k, q, i)
    BY <1>7, <2>1, <2>3 DEF QueueStep, JobStarts, JobSucceeds, JobEnds, SetJob, SubmitManual
  <2> QED BY <2>2, <2>3
<1>8. ASSUME Crash PROVE Goal
  BY <1>8 DEF Crash
<1>9. ASSUME UNCHANGED vars PROVE Goal
  BY <1>9 DEF vars
<1>10. Goal
  BY <1>1, <1>3, <1>4, <1>5, <1>6, <1>7, <1>8, <1>9 DEF Next
<1>11. job[j].kind = "step"
  <2>1. ASSUME NEW t \in Threads, SubmitsStep(t, j) PROVE FALSE
    <3>1. job[j] = NoJob /\ HasStep(t) /\ r = Run(t)
      BY <2>1 DEF SubmitsStep
    <3>2. status[r] # "ready"
      BY <3>1 DEF HasStep, Mine, Phase
    <3> QED BY <3>2, <1>10
  <2> QED BY <1>0, <2>1, StepJobs
<1> QED BY <1>0, <1>10, <1>11

\* A step that submits leaves the other coordinators as they are.
LEMMA SubmitAlone ==
  ASSUME TypeOK, NEW t \in Threads, NEW j \in Jobs, SubmitStep(t, j)
  PROVE  /\ Run(t) \in Runs /\ steps' = steps
         /\ thread'[t].run = Run(t) /\ thread'[t].job = j /\ thread'[t].pc = "wait"
         /\ thread'[t].step = Ahead(t)
         /\ \A u \in Threads \ {t} : thread'[u] = thread[u]
         /\ job[j] = NoJob /\ job'[j].kind = "step" /\ job'[j].run = Run(t)
<1>1. /\ thread[t] \in [pc : {"top", "wait", "seen", "raised"}, run : Runs, access : BOOLEAN,
                        job : Jobs \cup {None}, step : Nat, ok : BOOLEAN]
      /\ Run(t) \in Runs
  BY AtWork DEF SubmitStep, HasStep
<1>2. thread' = [thread EXCEPT ![t] = [@ EXCEPT !.pc = "wait", !.job = j, !.step = Ahead(t)]]
  BY DEF SubmitStep
<1>3. /\ thread'[t] = [thread[t] EXCEPT !.pc = "wait", !.job = j, !.step = Ahead(t)]
      /\ \A u \in Threads \ {t} : thread'[u] = thread[u]
  BY <1>2 DEF TypeOK
<1>4. thread'[t].run = Run(t) /\ thread'[t].job = j /\ thread'[t].pc = "wait" /\ thread'[t].step = Ahead(t)
  BY <1>1, <1>3 DEF Run
<1>5. job[j] = NoJob /\ job'[j].kind = "step" /\ job'[j].run = Run(t) /\ steps' = steps
  BY DEF SubmitStep, Queue, TypeOK, store
<1> QED BY <1>1, <1>3, <1>4, <1>5

\* A coordinator goes on with the job it had.
KeepsJob(t) ==
  /\ Held(t) /\ thread'[t].run = thread[t].run
  /\ thread'[t].job = thread[t].job /\ thread'[t].step = thread[t].step
  /\ thread'[t].pc = "seen" /\ thread'[t].ok =>
       (thread[t].pc = "seen" /\ thread[t].ok) \/ Succeeded(thread[t].job)

LEMMA HeldMoves ==
  ASSUME TypeOK, [Next]_vars, NEW u \in Threads, Held(u)'
  PROVE  KeepsJob(u) \/ \E j \in Jobs : SubmitStep(u, j)
<1> USE DEF store, Other
<1>0. thread'[u] = thread[u] => KeepsJob(u)
  BY DEF KeepsJob, Held
<1>1. ASSUME NEW t \in Threads, Coordinate(t) PROVE KeepsJob(u) \/ \E j \in Jobs : SubmitStep(u, j)
  <2>1. /\ thread[t].pc # "idle"
        /\ thread[t] \in [pc : {"top", "wait", "seen", "raised"}, run : Runs, access : BOOLEAN,
                          job : Jobs \cup {None}, step : Nat, ok : BOOLEAN]
    BY <1>1, AtWork
    DEF Coordinate, Leave, Finish, StepRefused, SeeJob, Record, StepFailed, RecordUnsaved, Handler,
        SubmitStep, SubmitUnsaved, HasStep
  <2>2. ASSUME NEW j \in Jobs, SubmitStep(t, j), u # t PROVE thread'[u] = thread[u]
    BY <2>2, SubmitAlone
  <2>3. ASSUME NEW x, x.pc \notin {"wait", "seen"}, thread' = [thread EXCEPT ![t] = x] PROVE thread'[u] = thread[u]
    BY <2>3 DEF TypeOK, Held
  <2>4. CASE SeeJob(t)
    <3>1. /\ thread[t].pc = "wait"
          /\ thread' = [thread EXCEPT ![t] = [@ EXCEPT !.pc = "seen", !.ok = Succeeded(thread[t].job)]]
          /\ Succeeded(thread[t].job) \in BOOLEAN
      BY <2>4 DEF SeeJob, Succeeded
    <3>2. CASE u = t
      <4>1. thread'[t] = [thread[t] EXCEPT !.pc = "seen", !.ok = Succeeded(thread[t].job)]
        BY <3>1 DEF TypeOK
      <4>2. thread'[t].run = thread[t].run /\ thread'[t].job = thread[t].job /\ thread'[t].step = thread[t].step
        BY <4>1, <2>1
      <4>3. thread'[t].ok = Succeeded(thread[t].job)
        BY <4>1, <2>1
      <4> QED BY <3>1, <3>2, <4>2, <4>3 DEF KeepsJob, Held
    <3>3. CASE u # t
      BY <1>0, <3>1, <3>3 DEF TypeOK
    <3> QED BY <3>2, <3>3
  <2>5. ASSUME Become(t, "raised") PROVE thread'[u] = thread[u]
    <3>1. thread' = [thread EXCEPT ![t] = [@ EXCEPT !.pc = "raised"]] /\ [thread[t] EXCEPT !.pc = "raised"].pc = "raised"
      BY <2>1, <2>5 DEF Become
    <3> QED BY <3>1, <2>3
  <2>6. CASE Leave(t) \/ Finish(t) \/ Handler(t) \/ Record(t)
    <3>1. NoThread.pc = "idle" /\ Coordinator(Run(t), thread[t].access).pc = "top"
      BY DEF NoThread, Coordinator
    <3> QED BY <1>0, <2>3, <2>6, <3>1 DEF Leave, Finish, Handler, Record
  <2>7. CASE StepRefused(t) \/ StepFailed(t) \/ RecordUnsaved(t) \/ \E j \in Jobs : SubmitUnsaved(t, j)
    BY <1>0, <2>5, <2>7 DEF StepRefused, StepFailed, RecordUnsaved, SubmitUnsaved
  <2> QED BY <1>0, <1>1, <2>2, <2>4, <2>6, <2>7 DEF Coordinate
<1>2. ASSUME ~\E t \in Threads : Coordinate(t) PROVE KeepsJob(u)
  <2>1. GoesOn(u) /\ thread'[u] # thread[u] => FALSE
    <3>1. ASSUME NEW r \in Runs, Operator(r), thread'[u] # thread[u] PROVE thread[u] = NoThread
      BY <3>1
      DEF Operator, AttestHealth, Accept, Reconcile, Resume, Stop, AskHealth, StartBootstrap,
          StartConfiguration, LinkStep, TypeOK
    <3>2. ASSUME NEW r \in Runs, Deploying(r) \/ EvidenceAges(r) PROVE thread' = thread
      BY <3>2
      DEF Deploying, Prepare, ClosePrepared, DeployRefused, Refresh, Deploy, DeployUnlinked, DeployUnsaved,
          EvidenceAges
    <3>3. ASSUME NEW c \in Collectors, Collect(c) PROVE thread' = thread
      BY <3>3 DEF Collect, CollectBegins, CollectEnds
    <3>4. ASSUME NEW j \in Jobs, QueueStep(j) PROVE thread' = thread
      BY <3>4 DEF QueueStep, JobStarts, JobSucceeds, JobEnds, SetJob, SubmitManual, SubmitDirect
    <3>5. ~Crash
      BY DEF Crash, Held, NoThread
    <3> QED BY <1>2, <3>1, <3>2, <3>3, <3>4, <3>5 DEF Next, vars, GoesOn, NoThread
  <2>2. ASSUME NEW r \in Runs, NEW a \in BOOLEAN, thread'[u] = Coordinator(r, a) PROVE FALSE
    BY <2>2 DEF Coordinator, NoThread, Held
  <2>3. thread'[u].pc # "idle"
    BY DEF Held
  <2> QED BY <1>0, <2>1, <2>2, <2>3, ThreadMoves
<1> QED BY <1>1, <1>2

\* What is recorded next: the step of a coordinator, or one an operator links.
Records(r, x) ==
  \/ \E t \in Threads : /\ Record(t) /\ Run(t) = r
                        /\ thread[t].job = x.job /\ thread[t].step = x.index
  \/ LinkStep(r, x.job) /\ x.index = Len(steps[r]) + 1

LEMMA StepsAppend ==
  ASSUME TypeOK, [Next]_vars, NEW r \in Runs
  PROVE  \/ steps'[r] = steps[r]
         \/ \E x \in StepRecords : /\ Records(r, x) /\ x.job \in Jobs
                                   /\ Len(steps'[r]) = Len(steps[r]) + 1
                                   /\ \A i \in 1..Len(steps[r]) : steps'[r][i] = steps[r][i]
                                   /\ steps'[r][Len(steps[r]) + 1] = x
<1>0. steps[r] \in Seq(StepRecords) /\ Len(steps[r]) \in Nat
  BY DEF TypeOK
<1>1. ASSUME NEW x \in StepRecords, steps'[r] = Append(steps[r], x)
      PROVE  /\ Len(steps'[r]) = Len(steps[r]) + 1
             /\ \A i \in 1..Len(steps[r]) : steps'[r][i] = steps[r][i]
             /\ steps'[r][Len(steps[r]) + 1] = x
             /\ x.job \in Jobs
  BY <1>0, <1>1 DEF StepRecords
<1>2. ASSUME NEW t \in Threads, Record(t), Run(t) = r
      PROVE  \E x \in StepRecords : Records(r, x) /\ steps'[r] = Append(steps[r], x)
  <2> DEFINE x == [index |-> thread[t].step, job |-> thread[t].job]
  <2>1. x \in StepRecords /\ x.job = thread[t].job /\ x.index = thread[t].step
    BY <1>2, AtWork DEF Record, StepRecords
  <2>2. steps'[r] = Append(steps[r], x)
    BY <1>2 DEF Record, TypeOK
  <2> HIDE DEF x
  <2>3. Records(r, x)
    BY <1>2, <2>1 DEF Records
  <2> QED BY <2>1, <2>2, <2>3
<1>3. ASSUME NEW j \in Jobs, LinkStep(r, j)
      PROVE  \E x \in StepRecords : Records(r, x) /\ steps'[r] = Append(steps[r], x)
  <2> DEFINE x == [index |-> Len(steps[r]) + 1, job |-> j]
  <2>1. x \in StepRecords /\ x.job = j /\ x.index = Len(steps[r]) + 1
    BY <1>0 DEF StepRecords
  <2>2. steps'[r] = Append(steps[r], x)
    BY <1>3 DEF LinkStep, TypeOK
  <2> HIDE DEF x
  <2>3. Records(r, x)
    BY <1>3, <2>1 DEF Records
  <2> QED BY <2>1, <2>2, <2>3
<1>4. ASSUME NEW t \in Threads, Record(t), Run(t) # r PROVE steps'[r] = steps[r]
  BY <1>4 DEF Record, TypeOK
<1>5. ASSUME NEW q \in Runs, NEW j \in Jobs, LinkStep(q, j), q # r PROVE steps'[r] = steps[r]
  BY <1>5 DEF LinkStep, TypeOK
<1>6. \/ steps'[r] = steps[r]
      \/ \E x \in StepRecords : Records(r, x) /\ steps'[r] = Append(steps[r], x)
  BY <1>2, <1>3, <1>4, <1>5, StepsChange
<1> QED BY <1>1, <1>6

\* What is recorded succeeded, and was not recorded before.
LEMMA RecordsNew ==
  ASSUME TypeOK, Linked, NEW r \in Runs, NEW x \in StepRecords, x.job \in Jobs, Records(r, x)
  PROVE  /\ Succeeded(x.job)
         /\ \A k \in 1..Len(steps[r]) : steps[r][k].job # x.job
         /\ \A t \in Threads : Held(t) /\ thread[t].job = x.job => Record(t)
<1>1. ASSUME NEW t \in Threads, Record(t), Run(t) = r, thread[t].job = x.job
      PROVE  /\ Succeeded(x.job)
             /\ \A k \in 1..Len(steps[r]) : steps[r][k].job # x.job
             /\ \A u \in Threads : Held(u) /\ thread[u].job = x.job => Record(u)
  <2>1. Held(t) /\ thread[t].pc = "seen" /\ thread[t].ok
    BY <1>1 DEF Record, Held
  <2> QED BY <1>1, <2>1 DEF Linked
<1>2. ASSUME LinkStep(r, x.job)
      PROVE  /\ Succeeded(x.job)
             /\ \A k \in 1..Len(steps[r]) : steps[r][k].job # x.job
             /\ \A u \in Threads : Held(u) /\ thread[u].job = x.job => Record(u)
  BY <1>2 DEF LinkStep, Linked
<1> QED BY <1>1, <1>2 DEF Records

LEMMA LinkedKeeps ==
  ASSUME TypeOK, TypeOK', Linked, [Next]_vars
  PROVE  Linked'
<1>0. JobsPersist /\ StepsPersist
  BY StepPersists
<1>t. \A r \in Runs : Len(steps[r]) \in Nat /\ \A k \in 1..Len(steps[r]) : steps[r][k].job \in Jobs
  <2> SUFFICES ASSUME NEW r \in Runs
               PROVE  Len(steps[r]) \in Nat /\ \A k \in 1..Len(steps[r]) : steps[r][k].job \in Jobs
    OBVIOUS
  <2>1. steps[r] \in Seq(StepRecords)
    BY DEF TypeOK
  <2>2. \A k \in 1..Len(steps[r]) : steps[r][k] \in StepRecords
    BY <2>1
  <2> QED BY <2>1, <2>2 DEF StepRecords
<1>s. ASSUME NEW j \in Jobs, Succeeded(j) PROVE Succeeded(j)'
  BY <1>0, <1>s DEF JobsPersist, Succeeded
<1>1. ASSUME NEW r \in Runs
      PROVE  /\ \A k \in 1..Len(steps'[r]) : Succeeded(steps[r][k].job)'
             /\ \A i, k \in 1..Len(steps'[r]) : steps'[r][i].job = steps'[r][k].job => i = k
  <2>1. /\ \A k \in 1..Len(steps[r]) : steps[r][k].job \in Jobs /\ Succeeded(steps[r][k].job)
        /\ \A i, k \in 1..Len(steps[r]) : steps[r][i].job = steps[r][k].job => i = k
    BY <1>t DEF Linked, OneJobOneStep
  <2>2. CASE steps'[r] = steps[r]
    <3>1. ASSUME NEW k \in 1..Len(steps[r]) PROVE Succeeded(steps[r][k].job)'
      <4>1. PICK j \in Jobs : j = steps[r][k].job /\ Succeeded(j)
        BY <2>1
      <4> QED BY <4>1, <2>2, <1>s
    <3> QED BY <2>1, <2>2, <3>1
  <2>3. ASSUME NEW x \in StepRecords, Records(r, x), x.job \in Jobs,
               Len(steps'[r]) = Len(steps[r]) + 1,
               \A i \in 1..Len(steps[r]) : steps'[r][i] = steps[r][i],
               steps'[r][Len(steps[r]) + 1] = x
        PROVE  /\ \A k \in 1..Len(steps'[r]) : Succeeded(steps[r][k].job)'
               /\ \A i, k \in 1..Len(steps'[r]) : steps'[r][i].job = steps'[r][k].job => i = k
    <3>1. Succeeded(x.job)' /\ \A k \in 1..Len(steps[r]) : steps[r][k].job # x.job
      BY <2>3, RecordsNew, <1>s
    <3>2. \A k \in 1..Len(steps'[r]) : k \in 1..Len(steps[r]) \/ k = Len(steps[r]) + 1
      BY <1>t, <2>3
    <3>3. ASSUME NEW k \in 1..Len(steps'[r]) PROVE Succeeded(steps[r][k].job)'
      <4>1. PICK i \in Jobs : i = steps'[r][k].job /\ Succeeded(i)'
        <5>1. CASE k \in 1..Len(steps[r])
          BY <2>1, <2>3, <5>1, <1>s
        <5>2. CASE k = Len(steps[r]) + 1
          BY <2>3, <5>2, <3>1
        <5> QED BY <3>2, <5>1, <5>2
      <4> QED BY <4>1
    <3>4. ASSUME NEW i \in 1..Len(steps'[r]), NEW k \in 1..Len(steps'[r]), steps'[r][i].job = steps'[r][k].job
          PROVE  i = k
      BY <2>1, <2>3, <3>1, <3>2, <3>4
    <3> QED BY <3>3, <3>4
  <2> QED BY <2>2, <2>3, StepsAppend
<1>2. ASSUME NEW t \in Threads, Held(t)'
      PROVE  (/\ job[thread[t].job].kind = "step" /\ job[thread[t].job].run = Run(t)
              /\ thread[t].pc = "seen" /\ thread[t].ok => Succeeded(thread[t].job)
              /\ \A k \in 1..Len(steps[Run(t)]) : steps[Run(t)][k].job # thread[t].job)'
  <2>1. ASSUME NEW j \in Jobs, SubmitStep(t, j)
        PROVE  \A k \in 1..Len(steps'[Run(t)]) : steps'[Run(t)][k].job # j
    <3>1. Run(t) \in Runs /\ steps' = steps /\ ~Succeeded(j)
      BY <2>1, SubmitAlone DEF Succeeded, NoJob
    <3> QED BY <3>1 DEF Linked
  <2>2. CASE \E j \in Jobs : SubmitStep(t, j)
    BY <2>1, <2>2, SubmitAlone DEF Run
  <2>3. CASE KeepsJob(t)
    <3>1. PICK r \in Runs, j \in Jobs : r = thread[t].run /\ j = thread[t].job /\ thread[t].pc # "idle"
      BY <2>3, AtWork DEF KeepsJob, Held, Run
    <3>2. /\ r = thread'[t].run /\ j = thread'[t].job /\ Held(t)
          /\ job'[j].kind = "step" /\ job'[j].run = r
      BY <2>3, <3>1, <1>0 DEF KeepsJob, Linked, JobsPersist, Run
    <3>3. thread'[t].pc = "seen" /\ thread'[t].ok => Succeeded(j)'
      BY <2>3, <3>1, <1>s DEF KeepsJob, Linked
    <3>4. ASSUME NEW k \in 1..Len(steps'[r]) PROVE steps'[r][k].job # j
      <4>1. \A i \in 1..Len(steps[r]) : steps[r][i].job # j
        BY <3>1, <3>2 DEF Linked, Run
      <4>2. ASSUME NEW x \in StepRecords, x.job \in Jobs, Records(r, x) PROVE x.job # j
        <5>1. SUFFICES ASSUME x.job = j PROVE FALSE
          OBVIOUS
        <5>2. Record(t)
          BY <5>1, <4>2, <3>1, <3>2, RecordsNew
        <5>3. thread'[t].pc = "top"
          BY <5>2 DEF Record, TypeOK, Coordinator, NoThread
        <5> QED BY <5>3, <1>2 DEF Held
      <4> QED BY <4>1, <4>2, <1>t, StepsAppend
    <3> QED BY <3>2, <3>3, <3>4 DEF Run
  <2> QED BY <1>2, <2>2, <2>3, HeldMoves
<1>3. ASSUME NEW t \in Threads, NEW u \in Threads, Held(t)', Held(u)', thread'[t].job = thread'[u].job
      PROVE  t = u
  <2>1. ASSUME NEW x \in Threads, NEW y \in Threads, NEW j \in Jobs, x # y, SubmitStep(x, j), Held(y)'
        PROVE  thread'[y].job # thread'[x].job
    <3>1. thread'[y] = thread[y] /\ thread'[x].job = j /\ job[j].kind # "step"
      BY <2>1, SubmitAlone DEF NoJob
    <3> QED BY <2>1, <3>1 DEF Linked, Held
  <2>2. CASE KeepsJob(t) /\ KeepsJob(u)
    BY <1>3, <2>2 DEF KeepsJob, Linked
  <2> QED BY <1>3, <2>1, <2>2, HeldMoves
<1>4. ASSUME NEW r \in Runs, NEW j \in timely', status'[r] = "ready", job'[j].run = r PROVE job'[j].kind # "step"
  BY <1>4, ReadyTimely DEF Linked
<1> QED BY <1>1, <1>2, <1>3, <1>4 DEF Linked, OneJobOneStep

LEMMA LinkedAlways == Spec => []Linked
<1>1. Init => Linked
  BY DEF Init, Linked, OneJobOneStep, Held, NoThread
<1>2. TypeOK /\ TypeOK' /\ Linked /\ [Next]_vars => Linked'
  BY LinkedKeeps
<1> QED BY <1>1, <1>2, TypeOKHolds, PTL DEF Spec

\* One job cannot satisfy two steps of a run, although coordinators overlap and
\* operators link jobs.
THEOREM OneJobOneStepHolds == Spec => []OneJobOneStep
<1>1. Linked => OneJobOneStep
  BY DEF Linked
<1> QED BY <1>1, LinkedAlways, PTL

-----------------------------------------------------------------------------
(* The order of the initial access *)

\* Before a run is resumed its coordinator waits for the step that is next.
InTurn(r) ==
  resumes[r] = 0 /\ status[r] \in Coordinating =>
    \A t \in Threads : Held(t) /\ Run(t) = r => thread[t].step = Len(steps[r]) + 1

\* The initial access steps that are recorded are in their order.
Ordered(r) ==
  \A i \in 1..Len(steps[r]) : i <= AccessCount => steps[r][i].index = i

\* A coordinator submitted nothing that is further than what is next.
NoStepAhead ==
  \A j \in Jobs : job[j].kind = "step" =>
    job[j].run \in Runs /\ job[j].step \in 1..Len(Plan) /\ job[j].step <= Len(steps[job[j].run]) + 1

InOrder ==
  /\ NoStepAhead
  /\ \A r \in Runs : InTurn(r) /\ (SecondPassword => Ordered(r))

\* A run that still has its first coordinator had it before.
LEMMA StillCoordinated ==
  ASSUME TypeOK, Passwords, [Next]_vars, NEW r \in Runs, NEW t \in Threads, Run(t) = r,
         resumes'[r] = 0, status'[r] \in Coordinating
  PROVE  resumes[r] = 0 /\ status[r] \in Coordinating
<1>t. resumes[r] \in Nat
  BY DEF TypeOK
<1>1. CASE Harmless(r)
  BY <1>1 DEF Harmless
<1>2. ASSUME NEW q \in Runs, Resume(q) PROVE resumes[r] = 0 /\ status[r] \in Coordinating
  <2>1. r # q
    BY <1>2, <1>t DEF Resume, TypeOK
  <2> QED BY <1>2, <2>1 DEF Resume, TypeOK
<1>3. ASSUME NEW q \in Runs, Starts(q) PROVE resumes[r] = 0 /\ status[r] \in Coordinating
  <2>1. resumes' = resumes /\ status[q] \in Resting /\ \E s : status' = [status EXCEPT ![q] = s]
    BY <1>3 DEF Starts, StartBootstrap, StartConfiguration, Refreshed, Resting
  <2>2. r # q
    BY <2>1 DEF Passwords, RunInv, Single, Run
  <2> QED BY <2>1, <2>2 DEF TypeOK
<1>4. ASSUME NEW u \in Threads, Finish(u) PROVE resumes[r] = 0 /\ status[r] \in Coordinating
  BY <1>4 DEF Finish, TypeOK, Coordinating
<1>5. ASSUME NEW u \in Threads, Record(u) \/ Submits(u) PROVE resumes[r] = 0 /\ status[r] \in Coordinating
  BY <1>5 DEF Record, Submits, SubmitStep, SubmitUnsaved, store
<1> QED BY <1>1, <1>2, <1>3, <1>4, <1>5, StepHarmless

LEMMA InOrderKeeps ==
  ASSUME TypeOK, TypeOK', Passwords, Linked, InOrder, [Next]_vars
  PROVE  InOrder'
<1>0. JobsPersist /\ StepsPersist
  BY StepPersists
<1>1. NoStepAhead'
  <2> SUFFICES ASSUME NEW j \in Jobs, job'[j].kind = "step"
               PROVE  /\ job'[j].run \in Runs /\ job'[j].step \in 1..Len(Plan)
                      /\ job'[j].step <= Len(steps'[job'[j].run]) + 1
    BY DEF NoStepAhead
  <2>1. ASSUME NEW r \in Runs, NEW i \in 1..Len(Plan), i <= Len(steps[r]) + 1 PROVE i <= Len(steps'[r]) + 1
    BY <1>0, <2>1, AccessCountIs DEF StepsPersist
  <2>2. CASE job[j].kind = "step"
    <3>1. /\ job[j].run \in Runs /\ job[j].step \in 1..Len(Plan) /\ job[j].step <= Len(steps[job[j].run]) + 1
          /\ job'[j].run = job[j].run /\ job'[j].step = job[j].step
      BY <1>0, <2>2 DEF InOrder, NoStepAhead, JobsPersist
    <3> QED BY <3>1, <2>1
  <2>3. ASSUME NEW t \in Threads, SubmitsStep(t, j)
        PROVE  /\ job'[j].run \in Runs /\ job'[j].step \in 1..Len(Plan)
               /\ job'[j].step <= Len(steps'[job'[j].run]) + 1
    <3>1. HasStep(t) /\ Run(t) \in Runs /\ job'[j].run = Run(t) /\ job'[j].step = Ahead(t)
      BY <2>3, AtWork DEF SubmitsStep, HasStep
    <3>2. Ahead(t) \in 1..Len(Plan) /\ Ahead(t) <= Len(steps[Run(t)]) + 1
      BY <3>1, AccessCountIs DEF HasStep, Ahead, TypeOK
    <3> QED BY <3>1, <3>2, <2>1
  <2> QED BY <2>2, <2>3, StepJobs
<1>2. ASSUME NEW r \in Runs PROVE InTurn(r)'
  <2> SUFFICES ASSUME resumes'[r] = 0, status'[r] \in Coordinating,
                      NEW t \in Threads, Held(t)', thread'[t].run = r
               PROVE  thread'[t].step = Len(steps'[r]) + 1
    BY DEF InTurn, Run
  <2>1. ASSUME NEW j \in Jobs, SubmitStep(t, j) PROVE thread'[t].step = Len(steps'[r]) + 1
    BY <2>1, SubmitAlone DEF Ahead
  <2>2. CASE KeepsJob(t)
    <3>1. Held(t) /\ Run(t) = r /\ thread'[t].step = thread[t].step /\ thread[t].pc # "idle"
      BY <2>2 DEF KeepsJob, Run, Held
    <3>2. resumes[r] = 0 /\ status[r] \in Coordinating
      BY <3>1, StillCoordinated
    <3>3. thread[t].step = Len(steps[r]) + 1
      BY <3>1, <3>2 DEF InOrder, InTurn
    <3>4. ASSUME NEW x, Records(r, x) PROVE FALSE
      <4>1. ASSUME NEW u \in Threads, Record(u), Run(u) = r PROVE FALSE
        <5>1. u = t
          BY <4>1, <3>1, <3>2 DEF Passwords, RunInv, Single, Run
        <5>2. thread'[u].pc = "top"
          BY <4>1 DEF Record, TypeOK, Coordinator, NoThread
        <5> QED BY <5>1, <5>2 DEF Held
      <4>2. ASSUME LinkStep(r, x.job) PROVE FALSE
        BY <4>2, <3>2 DEF LinkStep, Coordinating
      <4> QED BY <3>4, <4>1, <4>2 DEF Records
    <3>5. steps'[r] = steps[r]
      BY <3>4, StepsAppend
    <3> QED BY <3>1, <3>3, <3>5
  <2> QED BY <2>1, <2>2, HeldMoves
<1>3. ASSUME NEW r \in Runs, SecondPassword PROVE Ordered(r)'
  <2>0. Len(steps[r]) \in Nat /\ AccessCount \in Nat /\ Len(Plan) \in Nat
    BY AccessCountIs DEF TypeOK
  <2>1. \A i \in 1..Len(steps[r]) : i <= AccessCount => steps[r][i].index = i
    BY <1>3 DEF InOrder, Ordered
  <2>2. CASE steps'[r] = steps[r]
    BY <2>1, <2>2 DEF Ordered
  <2>3. ASSUME NEW x \in StepRecords, Records(r, x), Len(steps'[r]) = Len(steps[r]) + 1,
               \A i \in 1..Len(steps[r]) : steps'[r][i] = steps[r][i],
               steps'[r][Len(steps[r]) + 1] = x
        PROVE  Ordered(r)'
    <3>1. ASSUME Len(steps[r]) + 1 <= AccessCount PROVE x.index = Len(steps[r]) + 1
      <4>1. resumes[r] = 0
        <5>1. SUFFICES ASSUME resumes[r] > 0 PROVE FALSE
          BY DEF TypeOK
        <5>2. Replayable(r)
          BY <5>1 DEF Passwords, RunInv
        <5>3. AccessCount + 1 \in (Len(steps[r]) + 1)..Len(Plan)
          BY <2>0, <1>3, <3>1 DEF SecondPassword
        <5> QED BY <5>2, <5>3, <1>3, SecondPasswordIs DEF Replayable
      <4>2. ASSUME NEW t \in Threads, Record(t), Run(t) = r PROVE thread[t].step = Len(steps[r]) + 1
        <5>1. Held(t) /\ status[r] \in Coordinating
          BY <4>2 DEF Record, Held, Mine, Phase, Coordinating
        <5> QED BY <4>1, <4>2, <5>1 DEF InOrder, InTurn
      <4> QED BY <2>3, <4>2 DEF Records
    <3> QED BY <2>0, <2>1, <2>3, <3>1 DEF Ordered
  <2> QED BY <2>2, <2>3, StepsAppend
<1> QED BY <1>1, <1>2, <1>3 DEF InOrder

LEMMA InOrderAlways == Spec => []InOrder
<1>1. Init => InOrder
  BY DEF Init, InOrder, NoStepAhead, InTurn, Ordered, Coordinating, NoJob
<1>2. TypeOK /\ TypeOK' /\ Passwords /\ Linked /\ InOrder /\ [Next]_vars => InOrder'
  BY InOrderKeeps
<1> QED BY <1>1, <1>2, TypeOKHolds, PasswordsAlways, LinkedAlways, PTL DEF Spec

-----------------------------------------------------------------------------
(* Runs that were never resumed *)

\* Its steps are recorded in the order of the plan, and it is accepted when
\* there is one for each.
InPlanOrder ==
  \A r \in Runs :
    /\ resumes[r] = 0 => \A i \in 1..Len(steps[r]) : steps[r][i].index = i
    /\ status[r] = "accepted" => Len(steps[r]) >= Len(Plan)

LEMMA AcceptedMoves ==
  ASSUME TypeOK, [Next]_vars, NEW r \in Runs, status'[r] = "accepted"
  PROVE  status[r] = "accepted" \/ Accept(r)
<1> USE DEF store, Other
<1>1. ASSUME NEW q \in Runs, Deploying(q) \/ EvidenceAges(q) PROVE status[r] = "accepted"
  <2>1. Refreshed(q) \in {status[q], "needs_reconciliation", "awaiting_bootstrap", "awaiting_health"}
    BY DEF Refreshed
  <2>2. status' = status \/ \E s : status' = [status EXCEPT ![q] = s] /\ (s = "accepted" => s = status[q])
    BY <1>1, <2>1
    DEF Deploying, Prepare, ClosePrepared, DeployRefused, Refresh, Deploy, DeployUnlinked, DeployUnsaved,
        EvidenceAges
  <2> QED BY <2>2 DEF TypeOK
<1>2. ASSUME NEW q \in Runs, Operator(q) PROVE status[r] = "accepted" \/ Accept(r)
  <2>1. Accept(q) => status[r] = "accepted" \/ q = r
    BY DEF Accept, TypeOK
  <2>2. ~Accept(q) => status' = status \/ \E s : /\ status' = [status EXCEPT ![q] = s]
                                                 /\ s = "accepted" => s = status[q]
    BY <1>2
    DEF Operator, AttestHealth, Healthy, Reconcile, Resume, Stop, AskHealth, StartBootstrap,
        StartConfiguration, LinkStep
  <2> QED BY <2>1, <2>2 DEF TypeOK
<1>3. ASSUME NEW t \in Threads, Coordinate(t) PROVE status[r] = "accepted"
  <2>1. status' = status \/ \E s \in {"awaiting_health", "awaiting_acceptance", "needs_reconciliation"} :
                               status' = [status EXCEPT ![Run(t)] = s]
    BY <1>3
    DEF Coordinate, Leave, Finish, StepRefused, SeeJob, Record, StepFailed, RecordUnsaved, Handler,
        SubmitStep, SubmitUnsaved, TypeOK
  <2> QED BY <2>1 DEF TypeOK
<1>4. ASSUME NEW c \in Collectors, Collect(c) PROVE status[r] = "accepted"
  BY <1>4 DEF Collect, CollectBegins, CollectEnds, Healthy, TypeOK
<1>5. ASSUME NEW j \in Jobs, QueueStep(j) PROVE status[r] = "accepted"
  BY <1>5 DEF QueueStep, JobStarts, JobSucceeds, JobEnds, SetJob, SubmitManual, SubmitDirect
<1>6. ASSUME Crash PROVE status[r] = "accepted"
  BY <1>6 DEF Crash
<1> QED BY <1>1, <1>2, <1>3, <1>4, <1>5, <1>6 DEF Next, vars

LEMMA InPlanOrderKeeps ==
  ASSUME TypeOK, TypeOK', Passwords, InOrder, InPlanOrder, [Next]_vars
  PROVE  InPlanOrder'
<1> SUFFICES ASSUME NEW r \in Runs
             PROVE  /\ resumes'[r] = 0 => \A i \in 1..Len(steps'[r]) : steps'[r][i].index = i
                    /\ status'[r] = "accepted" => Len(steps'[r]) >= Len(Plan)
  BY DEF InPlanOrder
<1>0. Len(steps[r]) \in Nat /\ Len(steps'[r]) \in Nat /\ Len(steps'[r]) >= Len(steps[r]) /\ Len(Plan) \in Nat
  BY StepPersists, AccessCountIs DEF StepsPersist
<1>1. ASSUME status'[r] = "accepted" PROVE Len(steps'[r]) >= Len(Plan)
  <2>1. Len(steps[r]) >= Len(Plan)
    BY <1>0, <1>1, AcceptedMoves DEF Accept, InPlanOrder
  <2> QED BY <1>0, <2>1
<1>2. resumes'[r] = 0 => resumes[r] = 0
  <2>0. resumes \in [Runs -> Nat] /\ resumes' \in [Runs -> Nat]
    BY DEF TypeOK
  <2>1. ASSUME NEW q \in Runs, Resume(q) PROVE resumes'[r] = 0 => resumes[r] = 0
    BY <2>0, <2>1 DEF Resume
  <2> QED BY <2>1, StepHarmless
      DEF Harmless, Starts, StartBootstrap, StartConfiguration, Finish, Record, Submits, SubmitStep,
          SubmitUnsaved, store
<1>3. ASSUME resumes'[r] = 0 PROVE \A i \in 1..Len(steps'[r]) : steps'[r][i].index = i
  <2>1. resumes[r] = 0 /\ \A i \in 1..Len(steps[r]) : steps[r][i].index = i
    BY <1>2, <1>3 DEF InPlanOrder
  <2>2. ASSUME NEW x \in StepRecords, Records(r, x), Len(steps'[r]) = Len(steps[r]) + 1,
               \A i \in 1..Len(steps[r]) : steps'[r][i] = steps[r][i],
               steps'[r][Len(steps[r]) + 1] = x
        PROVE  \A i \in 1..Len(steps'[r]) : steps'[r][i].index = i
    <3>1. ASSUME NEW t \in Threads, Record(t), Run(t) = r PROVE thread[t].step = Len(steps[r]) + 1
      <4>1. Held(t) /\ status[r] \in Coordinating
        BY <3>1 DEF Record, Held, Mine, Phase, Coordinating
      <4> QED BY <2>1, <3>1, <4>1 DEF InOrder, InTurn
    <3>2. x.index = Len(steps[r]) + 1
      BY <2>2, <3>1 DEF Records
    <3> QED BY <1>0, <2>1, <2>2, <3>2
  <2> QED BY <2>1, <2>2, StepsAppend
<1> QED BY <1>1, <1>3

LEMMA InPlanOrderAlways == Spec => []InPlanOrder
<1>1. Init => InPlanOrder
  BY DEF Init, InPlanOrder
<1>2. TypeOK /\ TypeOK' /\ Passwords /\ InOrder /\ InPlanOrder /\ [Next]_vars => InPlanOrder'
  BY InPlanOrderKeeps
<1> QED BY <1>1, <1>2, TypeOKHolds, PasswordsAlways, InOrderAlways, PTL DEF Spec

\* For any plan and however often the run is resumed, a coordinator submits a
\* step beyond AccessCount only when those before it were all done in their
\* order, or when it overtakes: what is no initial access step waits for them
\* (Gated), a run that was not resumed records in the order of its plan
\* (InPlanOrder), and what follows them at once is a second password change,
\* behind which no run is resumed before they are done (Ordered).
THEOREM RestAfterBootstrapHolds == Spec => []RestAfterBootstrap
<1>1. ASSUME TypeOK, Gated, Linked, InOrder, InPlanOrder PROVE RestAfterBootstrap
  <2> SUFFICES ASSUME NEW j \in Jobs, job[j].kind = "step", job[j].step > AccessCount,
                      ~Overtaken(job[j].run, job[j].step)
               PROVE  Complete(job[j].run, AccessCount)
    BY DEF RestAfterBootstrap, Complete
  <2>1. PICK r \in Runs, i \in 1..Len(Plan) : r = job[j].run /\ i = job[j].step /\ i <= Len(steps[r]) + 1
    BY <1>1 DEF InOrder, NoStepAhead
  <2>2. Len(steps[r]) \in Nat /\ Len(steps[r]) >= AccessCount /\ resumes[r] \in Nat
    BY <1>1, <2>1, AccessCountIs DEF TypeOK
  <2>3. ASSUME \A k \in 1..AccessCount : steps[r][k].index = k PROVE Complete(r, AccessCount)
    <3>1. ASSUME NEW k \in 1..AccessCount PROVE Succeeded(steps[r][k].job)
      BY <1>1, <2>2, AccessCountIs DEF Linked
    <3> QED BY <2>2, <2>3, <3>1 DEF Complete
  <2>4. CASE ~Plan[i].access
    BY <1>1, <2>1, <2>4 DEF Gated, AccessDone
  <2>5. CASE resumes[r] = 0
    <3>1. \A k \in 1..AccessCount : steps[r][k].index = k
      BY <1>1, <2>2, <2>5, AccessCountIs DEF InPlanOrder
    <3> QED BY <2>1, <2>3, <3>1
  <2>6. CASE Plan[i].access /\ resumes[r] > 0
    <3>1. \A k \in 1..i : Plan[k].access
      BY <2>1, <2>6 DEF Overtaken
    <3>2. SecondPassword
      BY <2>1, <3>1, AccessCountIs DEF SecondPassword
    <3>3. \A k \in 1..AccessCount : steps[r][k].index = k
      BY <1>1, <2>2, <3>2, AccessCountIs DEF InOrder, Ordered
    <3> QED BY <2>1, <2>3, <3>3
  <2> QED BY <2>1, <2>2, <2>4, <2>5, <2>6
<1> QED BY <1>1, TypeOKHolds, GatedAlways, LinkedAlways, InOrderAlways, InPlanOrderAlways, PTL

\* A run that was accepted without having been resumed has done every step of
\* its plan: what AcceptedIsComplete misses needs two coordinators.
AcceptedAtOnceIsComplete ==
  \A r \in Runs : status[r] = "accepted" /\ resumes[r] = 0 =>
    \A i \in 1..Len(Plan) : \E k \in 1..Len(steps[r]) : steps[r][k].index = i /\ Succeeded(steps[r][k].job)

\* Acceptance is honest for runs that were never resumed: every step of the
\* plan was done by a job that succeeded.
THEOREM AcceptedAtOnceHolds == Spec => []AcceptedAtOnceIsComplete
<1>1. TypeOK /\ Linked /\ InPlanOrder => AcceptedAtOnceIsComplete
  <2> SUFFICES ASSUME TypeOK, Linked, InPlanOrder, NEW r \in Runs, status[r] = "accepted", resumes[r] = 0,
                      NEW i \in 1..Len(Plan)
               PROVE  \E k \in 1..Len(steps[r]) : steps[r][k].index = i /\ Succeeded(steps[r][k].job)
    BY DEF AcceptedAtOnceIsComplete
  <2>1. i \in 1..Len(steps[r])
    BY AccessCountIs DEF InPlanOrder, TypeOK
  <2>2. steps[r][i].index = i /\ Succeeded(steps[r][i].job)
    BY <2>1 DEF InPlanOrder, Linked
  <2> QED BY <2>1, <2>2
<1> QED BY <1>1, TypeOKHolds, LinkedAlways, InPlanOrderAlways, PTL

=============================================================================
