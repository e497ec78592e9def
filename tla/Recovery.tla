------------------------------ MODULE Recovery ------------------------------
(***************************************************************************)
(* Recovery runs (disaster_recovery.py): a destructive deployment, initial *)
(* access, a health readback, the rest of the configuration, acceptance.   *)
(*                                                                         *)
(* Handlers hold the lock of the execution queue and are atomic.  Two      *)
(* kinds of threads do not: a coordinator that submits the steps of a run  *)
(* and waits for their jobs, and a collector that reads the health of the  *)
(* new cluster.  Operators stop, reconcile, resume and close runs          *)
(* meanwhile; jobs are carried out by the queue; the process may die and   *)
(* the storage may refuse a write.                                         *)
(*                                                                         *)
(* A run's plan and needs are immutable.  Confirmations, the approvals of  *)
(* a submission and the check for drifted files only refuse a request, so  *)
(* a refusal may happen wherever they are consulted.                       *)
(***************************************************************************)
EXTENDS Integers, Sequences, FiniteSets

CONSTANTS
  Runs, Jobs, Threads, Collectors,
  Resources,     \* Foundation endpoints and nodes
  Needs,         \* what the deployment of a run works on
  ManualNeeds,   \* what deployments outside recovery work on
  Plan,          \* the steps: is it an initial access step, does it change a password
  None,
  MaxResumes,    \* bound: reconciliations of a run that go on
  MaxCrashes,    \* bound: deaths of the process
  MaxFaults      \* bound: writes the storage refuses

ASSUME RecoveryAssumption ==
  /\ Jobs \subseteq Nat
  /\ Needs \in [Runs -> SUBSET Resources]
  /\ ManualNeeds \subseteq SUBSET Resources
  /\ Plan \in Seq([access : BOOLEAN, password : BOOLEAN])
  /\ None \notin Runs \cup Jobs \cup Collectors
  /\ MaxResumes \in Nat /\ MaxCrashes \in Nat /\ MaxFaults \in Nat

VARIABLES
  \* recovery.json
  status,
  deployment,    \* the deployment job of a run
  current,       \* the step job it submitted last
  steps,         \* steps recorded as done, with their jobs
  evidence,      \* of the health of the cluster: fresh for fifteen minutes
  collection,    \* the collector whose result counts
  mayResume,     \* bootstrap may go on after a reconciliation
  \* the queue, the threads
  job, thread, collector,
  timely,        \* jobs submitted within fifteen minutes after the evidence of their run
  \* history and bounds
  resumes,       \* reconciliations after which a run went on
  asOf,          \* how many there had been when the evidence was read
  crashes, faults

store == <<status, deployment, current, steps, evidence, collection, mayResume, resumes, asOf>>
vars  == <<store, job, thread, collector, timely, crashes, faults>>

-----------------------------------------------------------------------------
Open     == {"submitting", "deploying", "awaiting_health", "ready", "awaiting_bootstrap",
             "bootstrapping", "configuring", "awaiting_acceptance", "needs_reconciliation"}
Statuses == Open \cup {"none", "prepared", "accepted", "closed"}

Deployments == {"deploy", "manual"}
Coordinated == {"deploy", "step"}
Terminal    == {"success", "ended"}
NoJob       == [kind |-> "none", run |-> None, step |-> 0, needs |-> {}, status |-> "none"]
NoThread    == [pc |-> "idle", run |-> None, access |-> FALSE, job |-> None, step |-> 0, ok |-> FALSE]
NoCollector == [pc |-> "idle", run |-> None, since |-> 0]

Active(j)    == job[j].status \in {"queued", "running"}
Succeeded(j) == j # None /\ job[j].status = "success"
Busy(j)      == j # None /\ Active(j)

\* bootstrap_count: the longest prefix of initial access steps that changes the
\* password once at most.
AccessPrefixes ==
  {n \in 0..Len(Plan) :
    /\ \A i \in 1..n : Plan[i].access
    /\ \A i, k \in 1..n : Plan[i].password /\ Plan[k].password => i = k}
AccessCount == CHOOSE n \in AccessPrefixes : \A k \in AccessPrefixes : k <= n

JobRecords ==
  [kind : {"none", "deploy", "manual", "step", "direct"}, run : Runs \cup {None}, step : Nat,
   needs : SUBSET Resources, status : {"none", "queued", "running"} \cup Terminal]
ThreadRecords ==
  {NoThread} \cup
  [pc : {"top", "raised"}, run : Runs, access : BOOLEAN, job : Jobs \cup {None}, step : Nat, ok : BOOLEAN] \cup
  [pc : {"wait", "seen"}, run : Runs, access : BOOLEAN, job : Jobs, step : Nat, ok : BOOLEAN]
CollectorRecords ==
  {NoCollector} \cup [pc : {"begin", "reading"}, run : Runs, since : Nat]
StepRecords == [index : Nat, job : Jobs]

TypeOK ==
  /\ status \in [Runs -> Statuses]
  /\ deployment \in [Runs -> Jobs \cup {None}]
  /\ current \in [Runs -> Jobs \cup {None}]
  /\ steps \in [Runs -> Seq(StepRecords)]
  /\ evidence \in [Runs -> {"none", "fresh", "old"}]
  /\ collection \in [Runs -> Collectors \cup {None}]
  /\ mayResume \in [Runs -> BOOLEAN]
  /\ job \in [Jobs -> JobRecords]
  /\ thread \in [Threads -> ThreadRecords]
  /\ collector \in [Collectors -> CollectorRecords]
  /\ timely \subseteq Jobs
  /\ resumes \in [Runs -> Nat] /\ asOf \in [Runs -> Nat]
  /\ crashes \in Nat /\ faults \in Nat

Init ==
  /\ status = [r \in Runs |-> "none"]
  /\ deployment = [r \in Runs |-> None] /\ current = [r \in Runs |-> None]
  /\ steps = [r \in Runs |-> <<>>]
  /\ evidence = [r \in Runs |-> "none"]
  /\ collection = [r \in Runs |-> None]
  /\ mayResume = [r \in Runs |-> FALSE]
  /\ job = [j \in Jobs |-> NoJob]
  /\ thread = [t \in Threads |-> NoThread]
  /\ collector = [c \in Collectors |-> NoCollector]
  /\ timely = {}
  /\ resumes = [r \in Runs |-> 0] /\ asOf = [r \in Runs |-> 0]
  /\ crashes = 0 /\ faults = 0

-----------------------------------------------------------------------------
(* The queue *)

\* Faulty variant of Guard: what open runs own is not looked at.
GuardJobs(S, owner) ==
  \A j \in Jobs : job[j].kind \in Deployments /\ Active(j) => S \cap job[j].needs = {}

\* foundation_guard: nobody else owns or images what a deployment needs.
Guard(S, owner) ==
  /\ \A r \in Runs \ {owner} : status[r] \in Open => S \cap Needs[r] = {}
  /\ \A j \in Jobs : job[j].kind \in Deployments /\ Active(j) => S \cap job[j].needs = {}

\* Identifiers carry no meaning: a new job takes the next one.
Fresh(j) == \A k \in Jobs : job[k] = NoJob <=> j <= k

Queue(j, kind, r, i, S) ==
  /\ job[j] = NoJob /\ Fresh(j)
  /\ job' = [job EXCEPT ![j] = [kind |-> kind, run |-> r, step |-> i, needs |-> S, status |-> "queued"]]

\* A deployment submitted outside recovery.
SubmitManual(j, S) ==
  /\ Guard(S, None)
  /\ Queue(j, "manual", None, 0, S)
  /\ UNCHANGED <<store, thread, collector, timely, crashes, faults>>

\* An operator submits a step as a job of its own.
SubmitDirect(j, r, i) ==
  /\ Queue(j, "direct", r, i, {})
  /\ timely' = IF evidence[r] = "fresh" THEN timely \cup {j} ELSE timely
  /\ UNCHANGED <<store, thread, collector, crashes, faults>>

SetJob(j, s) ==
  /\ job' = [job EXCEPT ![j].status = s]
  /\ UNCHANGED <<store, thread, collector, timely, crashes, faults>>

JobStarts(j) == job[j].status = "queued" /\ SetJob(j, "running")
JobSucceeds(j) == job[j].status = "running" /\ SetJob(j, "success")

\* It fails, is cancelled or interrupted.
JobEnds(j) == Active(j) /\ SetJob(j, "ended")

-----------------------------------------------------------------------------
(* Deployment *)

Other == <<collector, timely, crashes>>

Prepare(r) ==
  /\ status[r] = "none"
  /\ status' = [status EXCEPT ![r] = "prepared"]
  /\ UNCHANGED <<deployment, current, steps, evidence, collection, mayResume, resumes, asOf, job, thread, faults, Other>>

ClosePrepared(r) ==
  /\ status[r] = "prepared"
  /\ deployment[r] = None /\ current[r] = None /\ steps[r] = <<>>
  /\ status' = [status EXCEPT ![r] = "closed"]
  /\ UNCHANGED <<deployment, current, steps, evidence, collection, mayResume, resumes, asOf, job, thread, faults, Other>>

\* Faulty variant of MayDeploy: what runs own is looked at, what the queue does
\* is not.
MayDeployBusy(r) ==
  /\ status[r] = "prepared"
  /\ \A q \in Runs \ {r} : status[q] \in Open => Needs[r] \cap Needs[q] = {}

MayDeploy(r) == status[r] = "prepared" /\ Guard(Needs[r], r)

Deploy(r, j) ==
  /\ MayDeploy(r)
  /\ Queue(j, "deploy", r, 0, Needs[r])
  /\ status' = [status EXCEPT ![r] = "deploying"]
  /\ deployment' = [deployment EXCEPT ![r] = j]
  /\ UNCHANGED <<current, steps, evidence, collection, mayResume, resumes, asOf, thread, faults, Other>>

\* The submission path refuses the job.
DeployRefused(r) ==
  /\ MayDeploy(r)
  /\ status' = [status EXCEPT ![r] = "needs_reconciliation"]
  /\ UNCHANGED <<deployment, current, steps, evidence, collection, mayResume, resumes, asOf, job, thread, faults, Other>>

Fault == faults < MaxFaults /\ faults' = faults + 1

\* The job is queued, then the approval cannot be linked: by the submission
\* path, or by the run, which then knows the job.
DeployUnlinked(r, j) ==
  /\ Fault
  /\ MayDeploy(r)
  /\ Queue(j, "deploy", r, 0, Needs[r])
  /\ status' = [status EXCEPT ![r] = "needs_reconciliation"]
  /\ \E known \in {j, None} : deployment' = [deployment EXCEPT ![r] = known]
  /\ UNCHANGED <<current, steps, evidence, collection, mayResume, resumes, asOf, thread, Other>>

\* The job is queued, but the run cannot be saved after its intent was.
DeployUnsaved(r, j) ==
  /\ Fault
  /\ MayDeploy(r)
  /\ Queue(j, "deploy", r, 0, Needs[r])
  /\ status' = [status EXCEPT ![r] = "submitting"]
  /\ UNCHANGED <<deployment, current, steps, evidence, collection, mayResume, resumes, asOf, thread, Other>>

\* Faulty variant of Refreshed: the outcome of the job is taken over.
RefreshedRaw(r) ==
  IF status[r] # "deploying" \/ Busy(deployment[r]) THEN status[r]
  ELSE job[deployment[r]].status

\* refresh: what the end of the deployment job makes of the status.
Refreshed(r) ==
  IF status[r] # "deploying" \/ Busy(deployment[r]) THEN status[r]
  ELSE IF ~Succeeded(deployment[r]) THEN "needs_reconciliation"
  ELSE IF Len(steps[r]) < AccessCount THEN "awaiting_bootstrap"
  ELSE "awaiting_health"

Refresh(r) ==
  /\ Refreshed(r) # status[r]
  /\ status' = [status EXCEPT ![r] = Refreshed(r)]
  /\ UNCHANGED <<deployment, current, steps, evidence, collection, mayResume, resumes, asOf, job, thread, faults, Other>>

-----------------------------------------------------------------------------
(* Health *)

\* Faulty variant of Complete: steps are counted.
CompleteByLength(r, n) == Len(steps[r]) >= n

\* require_bootstrap_complete: the first n steps were recorded in their order
\* and their jobs succeeded.
Complete(r, n) ==
  /\ Len(steps[r]) >= n
  /\ \A i \in 1..n : steps[r][i].index = i /\ Succeeded(steps[r][i].job)

Readable(r) ==
  /\ Refreshed(r) \in {"awaiting_health", "ready"}
  /\ Complete(r, AccessCount)
  /\ Succeeded(deployment[r])

Healthy(r, since) ==
  /\ status' = [status EXCEPT ![r] = "ready"]
  /\ evidence' = [evidence EXCEPT ![r] = "fresh"]
  /\ asOf' = [asOf EXCEPT ![r] = since]
  /\ timely' = {j \in timely : job[j].run # r}

\* attest_health: an administrator vouches for it.
AttestHealth(r) ==
  /\ Readable(r)
  /\ Healthy(r, resumes[r])
  /\ UNCHANGED <<deployment, current, steps, collection, mayResume, resumes, job, thread, collector, crashes, faults>>

\* collect_health is asked for.
AskHealth(r, c) ==
  /\ collector[c].pc = "idle"
  /\ Readable(r)
  /\ collector' = [collector EXCEPT ![c] = [pc |-> "begin", run |-> r, since |-> 0]]
  /\ UNCHANGED <<store, job, thread, timely, crashes, faults>>

\* Its first half, under the lock.
CollectBegins(c) ==
  LET r == collector[c].run IN
  /\ collector[c].pc = "begin"
  /\ IF Readable(r)
       THEN /\ collector' = [collector EXCEPT ![c].pc = "reading", ![c].since = resumes[r]]
            /\ collection' = [collection EXCEPT ![r] = c]
            /\ evidence' = [evidence EXCEPT ![r] = "none"]
            /\ status' = [status EXCEPT ![r] = "awaiting_health"]
       ELSE /\ collector' = [collector EXCEPT ![c] = NoCollector]
            /\ UNCHANGED <<collection, evidence, status>>
  /\ UNCHANGED <<deployment, current, steps, mayResume, resumes, asOf, job, thread, timely, crashes, faults>>

\* The second, after the reads: it counts unless another one began or the run
\* moved on.
CollectEnds(c) ==
  LET r == collector[c].run IN
  /\ collector[c].pc = "reading"
  /\ collector' = [collector EXCEPT ![c] = NoCollector]
  /\ \/ /\ collection[r] = c /\ status[r] = "awaiting_health"
        /\ Healthy(r, collector[c].since)
     \/ UNCHANGED <<status, evidence, asOf, timely>>
  /\ UNCHANGED <<deployment, current, steps, collection, mayResume, resumes, job, thread, crashes, faults>>

EvidenceAges(r) ==
  /\ evidence[r] = "fresh"
  /\ evidence' = [evidence EXCEPT ![r] = "old"]
  /\ UNCHANGED <<status, deployment, current, steps, collection, mayResume, resumes, asOf, job, thread, faults, Other>>

-----------------------------------------------------------------------------
(* Bootstrap and configuration *)

Coordinator(r, access) ==
  [NoThread EXCEPT !.pc = "top", !.run = r, !.access = access]

StartBootstrap(r, t) ==
  /\ thread[t] = NoThread
  /\ Refreshed(r) \in {"awaiting_bootstrap", "awaiting_health"}
  /\ Succeeded(deployment[r])
  /\ Len(steps[r]) < AccessCount
  /\ steps[r] # <<>> => mayResume[r]
  /\ Complete(r, Len(steps[r]))
  /\ status' = [status EXCEPT ![r] = "bootstrapping"]
  /\ mayResume' = [mayResume EXCEPT ![r] = FALSE]
  /\ thread' = [thread EXCEPT ![t] = Coordinator(r, TRUE)]
  /\ UNCHANGED <<deployment, current, steps, evidence, collection, resumes, asOf, job, faults, Other>>

StartConfiguration(r, t) ==
  /\ thread[t] = NoThread
  /\ status[r] = "ready"
  /\ Complete(r, AccessCount)
  /\ evidence[r] = "fresh"
  /\ status' = [status EXCEPT ![r] = "configuring"]
  /\ thread' = [thread EXCEPT ![t] = Coordinator(r, FALSE)]
  /\ UNCHANGED <<deployment, current, steps, evidence, collection, mayResume, resumes, asOf, job, faults, Other>>

\* The coordinator t of a run.
Run(t)   == thread[t].run
Phase(t) == IF thread[t].access THEN "bootstrapping" ELSE "configuring"
Mine(t)  == status[Run(t)] = Phase(t)
Last(t)  == IF thread[t].access THEN AccessCount ELSE Len(Plan)
Ahead(t) == Len(steps[Run(t)]) + 1

Become(t, pc) == thread' = [thread EXCEPT ![t].pc = pc]

\* The run was taken from it.
Leave(t) ==
  /\ thread[t].pc \in {"top", "seen"}
  /\ ~Mine(t)
  /\ thread' = [thread EXCEPT ![t] = NoThread]
  /\ UNCHANGED <<store, job, faults, Other>>

\* All steps are done; after the bootstrap health is collected at once.
Finish(t) ==
  /\ thread[t].pc = "top" /\ Mine(t)
  /\ Len(steps[Run(t)]) = Last(t)
  /\ thread' = [thread EXCEPT ![t] = NoThread]
  /\ IF thread[t].access
       THEN /\ status' = [status EXCEPT ![Run(t)] = "awaiting_health"]
            /\ \E c \in Collectors :
                 /\ collector[c].pc = "idle"
                 /\ collector' = [collector EXCEPT ![c] = [pc |-> "begin", run |-> Run(t), since |-> 0]]
       ELSE /\ status' = [status EXCEPT ![Run(t)] = "awaiting_acceptance"]
            /\ UNCHANGED collector
  /\ UNCHANGED <<deployment, current, steps, evidence, collection, mayResume, resumes, asOf, job, timely, crashes, faults>>

\* There is a next step, and it may run in this phase.
HasStep(t) ==
  /\ thread[t].pc = "top" /\ Mine(t)
  /\ Len(steps[Run(t)]) # Last(t)
  /\ Ahead(t) <= Len(Plan)
  /\ thread[t].access => Plan[Ahead(t)].access

SubmitStep(t, j) ==
  /\ HasStep(t)
  /\ Queue(j, "step", Run(t), Ahead(t), {})
  /\ current' = [current EXCEPT ![Run(t)] = j]
  /\ timely' = IF evidence[Run(t)] = "fresh" THEN timely \cup {j} ELSE timely
  /\ thread' = [thread EXCEPT ![t].pc = "wait", ![t].job = j, ![t].step = Ahead(t)]
  /\ UNCHANGED <<status, deployment, steps, evidence, collection, mayResume, resumes, asOf, collector, crashes, faults>>

\* There is no such step, or policy, approvals or the session refuse it.
StepRefused(t) ==
  /\ thread[t].pc = "top" /\ Mine(t)
  /\ Len(steps[Run(t)]) # Last(t)
  /\ Become(t, "raised")
  /\ UNCHANGED <<store, job, faults, Other>>

\* The job is queued, but its approval cannot be linked or the run not saved.
SubmitUnsaved(t, j) ==
  /\ Fault
  /\ HasStep(t)
  /\ Queue(j, "step", Run(t), Ahead(t), {})
  /\ Become(t, "raised")
  /\ timely' = IF evidence[Run(t)] = "fresh" THEN timely \cup {j} ELSE timely
  /\ UNCHANGED <<store, collector, crashes>>

\* The job is seen to have ended.
SeeJob(t) ==
  /\ thread[t].pc = "wait"
  /\ ~Busy(thread[t].job)
  /\ thread' = [thread EXCEPT ![t].pc = "seen", ![t].ok = Succeeded(thread[t].job)]
  /\ UNCHANGED <<store, job, faults, Other>>

Record(t) ==
  /\ thread[t].pc = "seen" /\ Mine(t)
  /\ thread[t].ok
  /\ steps' = [steps EXCEPT ![Run(t)] = Append(@, [index |-> thread[t].step, job |-> thread[t].job])]
  /\ thread' = [thread EXCEPT ![t] = Coordinator(Run(t), thread[t].access)]
  /\ UNCHANGED <<status, deployment, current, evidence, collection, mayResume, resumes, asOf, job, faults, Other>>

\* The job failed.
StepFailed(t) ==
  /\ thread[t].pc = "seen" /\ Mine(t)
  /\ ~thread[t].ok
  /\ Become(t, "raised")
  /\ UNCHANGED <<store, job, faults, Other>>

\* The job succeeded, but the run cannot be saved.
RecordUnsaved(t) ==
  /\ Fault
  /\ thread[t].pc = "seen" /\ Mine(t)
  /\ thread[t].ok
  /\ Become(t, "raised")
  /\ UNCHANGED <<store, job, Other>>

\* Faulty variant of Handler: the exception is lost.
HandlerSilent(t) ==
  /\ thread[t].pc = "raised"
  /\ thread' = [thread EXCEPT ![t] = NoThread]
  /\ UNCHANGED <<store, job, faults, Other>>

\* The handler of the coordinator takes the lock again.
Handler(t) ==
  /\ thread[t].pc = "raised"
  /\ thread' = [thread EXCEPT ![t] = NoThread]
  /\ status' = [status EXCEPT ![Run(t)] =
       IF @ \in {"configuring", "bootstrapping"} THEN "needs_reconciliation" ELSE @]
  /\ UNCHANGED <<deployment, current, steps, evidence, collection, mayResume, resumes, asOf, job, faults, Other>>

-----------------------------------------------------------------------------
(* Operators *)

\* Faulty variant of LinkStep: a job may stand for several steps.
LinkStepAgain(r, j) ==
  LET i == Len(steps[r]) + 1 IN
  /\ status[r] = "ready"
  /\ i <= Len(Plan)
  /\ job[j].kind \in {"step", "direct"} /\ Succeeded(j)
  /\ job[j].run = r /\ Plan[job[j].step] = Plan[i]
  /\ j \in timely
  /\ steps' = [steps EXCEPT ![r] = Append(@, [index |-> i, job |-> j])]
  /\ status' = [status EXCEPT ![r] = IF i = Len(Plan) THEN "awaiting_acceptance" ELSE @]
  /\ UNCHANGED <<deployment, current, evidence, collection, mayResume, resumes, asOf, job, thread, faults, Other>>

\* link_configuration_job: a job with the content of the next step, submitted
\* after the health was read.
LinkStep(r, j) ==
  LET i == Len(steps[r]) + 1 IN
  /\ status[r] = "ready"
  /\ i <= Len(Plan)
  /\ \A k \in 1..Len(steps[r]) : steps[r][k].job # j
  /\ job[j].kind \in {"step", "direct"} /\ Succeeded(j)
  /\ job[j].run = r /\ Plan[job[j].step] = Plan[i]
  /\ j \in timely
  /\ steps' = [steps EXCEPT ![r] = Append(@, [index |-> i, job |-> j])]
  /\ status' = [status EXCEPT ![r] = IF i = Len(Plan) THEN "awaiting_acceptance" ELSE @]
  /\ UNCHANGED <<deployment, current, evidence, collection, mayResume, resumes, asOf, job, thread, faults, Other>>

Accept(r) ==
  /\ status[r] = "awaiting_acceptance"
  /\ Succeeded(deployment[r])
  /\ Len(steps[r]) = Len(Plan)
  /\ \A k \in 1..Len(steps[r]) : Succeeded(steps[r][k].job)
  /\ status' = [status EXCEPT ![r] = "accepted"]
  /\ UNCHANGED <<deployment, current, steps, evidence, collection, mayResume, resumes, asOf, job, thread, faults, Other>>

\* No job the run knows of goes on.
Quiet(r) == status[r] \in Open /\ ~Busy(deployment[r]) /\ ~Busy(current[r])

Reconcile(r) ==
  /\ Quiet(r)
  /\ status' = [status EXCEPT ![r] = "closed"]
  /\ UNCHANGED <<deployment, current, steps, evidence, collection, mayResume, resumes, asOf, job, thread, faults, Other>>

\* Faulty variant of Replayable: pending password changes are not looked at.
ReplayableAny(r) == TRUE

\* No password change is pending.
Replayable(r) == \A i \in (Len(steps[r]) + 1)..Len(Plan) : ~Plan[i].password

Resume(r) ==
  /\ Quiet(r)
  /\ resumes[r] < MaxResumes
  /\ Succeeded(deployment[r])
  /\ Replayable(r)
  /\ LET again == Len(steps[r]) < AccessCount IN
     /\ status' = [status EXCEPT ![r] = IF again THEN "awaiting_bootstrap" ELSE "awaiting_health"]
     /\ mayResume' = [mayResume EXCEPT ![r] = @ \/ again]
  /\ evidence' = [evidence EXCEPT ![r] = "none"]
  /\ resumes' = [resumes EXCEPT ![r] = @ + 1]
  /\ UNCHANGED <<deployment, current, steps, collection, asOf, job, thread, faults, Other>>

\* stop: the jobs it knows are cancelled; one that runs may still succeed.
Stop(r) ==
  /\ status[r] \in Open
  /\ status' = [status EXCEPT ![r] = "needs_reconciliation"]
  /\ job' = [j \in Jobs |->
       IF j \in {deployment[r], current[r]} /\ job[j].status = "queued"
         THEN [job[j] EXCEPT !.status = "ended"] ELSE job[j]]
  /\ UNCHANGED <<deployment, current, steps, evidence, collection, mayResume, resumes, asOf, thread, faults, Other>>

-----------------------------------------------------------------------------
\* The process dies and starts again: threads are gone, unfinished jobs were
\* interrupted, and no run goes on by itself.
Crash ==
  /\ crashes < MaxCrashes
  /\ crashes' = crashes + 1
  /\ thread' = [t \in Threads |-> NoThread]
  /\ collector' = [c \in Collectors |-> NoCollector]
  /\ job' = [j \in Jobs |-> IF Active(j) THEN [job[j] EXCEPT !.status = "ended"] ELSE job[j]]
  /\ status' = [r \in Runs |->
       IF status[r] \in {"submitting", "bootstrapping", "configuring"} THEN "needs_reconciliation" ELSE status[r]]
  /\ UNCHANGED <<deployment, current, steps, evidence, collection, mayResume, resumes, asOf, timely, faults>>

Deploying(r) ==
  \/ Prepare(r) \/ ClosePrepared(r) \/ DeployRefused(r) \/ Refresh(r)
  \/ \E j \in Jobs : Deploy(r, j) \/ DeployUnlinked(r, j) \/ DeployUnsaved(r, j)

Operator(r) ==
  \/ AttestHealth(r) \/ Accept(r) \/ Reconcile(r) \/ Resume(r) \/ Stop(r)
  \/ \E c \in Collectors : AskHealth(r, c)
  \/ \E t \in Threads : StartBootstrap(r, t) \/ StartConfiguration(r, t)
  \/ \E j \in Jobs : LinkStep(r, j)

Coordinate(t) ==
  \/ Leave(t) \/ Finish(t) \/ StepRefused(t) \/ SeeJob(t) \/ Record(t) \/ StepFailed(t)
  \/ RecordUnsaved(t) \/ Handler(t)
  \/ \E j \in Jobs : SubmitStep(t, j) \/ SubmitUnsaved(t, j)

Collect(c) == CollectBegins(c) \/ CollectEnds(c)

QueueStep(j) ==
  \/ JobStarts(j) \/ JobSucceeds(j) \/ JobEnds(j)
  \/ \E S \in ManualNeeds : SubmitManual(j, S)
  \/ \E r \in Runs, i \in 1..Len(Plan) : SubmitDirect(j, r, i)

Next ==
  \/ \E r \in Runs : Deploying(r) \/ Operator(r) \/ EvidenceAges(r)
  \/ \E t \in Threads : Coordinate(t)
  \/ \E c \in Collectors : Collect(c)
  \/ \E j \in Jobs : QueueStep(j)
  \/ Crash

\* Threads go on, and the queue brings every job to an end.
Fairness ==
  /\ \A t \in Threads : WF_vars(Coordinate(t))
  /\ \A c \in Collectors : WF_vars(Collect(c))
  /\ \A j \in Jobs : WF_vars(JobEnds(j) \/ JobSucceeds(j))

Spec     == Init /\ [][Next]_vars
FairSpec == Spec /\ Fairness
-----------------------------------------------------------------------------
(* Properties *)

\* No endpoint and no node is ever worked on by two deployments, and while a run
\* owns it no deployment but its own: across runs, submissions outside recovery,
\* refused writes and deaths of the process.
DeploymentExclusive ==
  /\ \A j, k \in Jobs :
       /\ j # k
       /\ job[j].kind \in Deployments /\ job[k].kind \in Deployments
       /\ Active(j) /\ Active(k)
       => job[j].needs \cap job[k].needs = {}
  /\ \A r \in Runs, j \in Jobs :
       status[r] \in Open /\ job[j].kind \in Deployments /\ Active(j) /\ job[j].needs \cap Needs[r] # {}
       => job[j].run = r

\* A password change is submitted once in the life of a run: no failure, stop,
\* reconciliation or restart makes the coordinator repeat it.
PasswordOnce ==
  \A j, k \in Jobs :
    /\ job[j].kind = "step" /\ job[k].kind = "step"
    /\ job[j].run = job[k].run /\ job[j].step = job[k].step
    /\ Plan[job[j].step].password
    => j = k

\* A resumed run comes to an initial access step that its plan puts behind a
\* step of another kind.  A coordinator that goes on with the bootstrap while
\* another one has recorded the same steps may run past the initial access and
\* take it for the next one.
Overtaken(r, i) ==
  /\ Plan[i].access /\ \E k \in 1..i : ~Plan[k].access
  /\ resumes[r] > 0

\* The coordinator submits a step beyond initial access only when the initial
\* access steps were all done, each by a successful job of its own position,
\* although two coordinators of one run may overlap.  No plan escapes it; only
\* an access step that is overtaken by the code above does.
RestAfterBootstrap ==
  \A j \in Jobs : job[j].kind = "step" /\ job[j].step > AccessCount =>
    LET done == steps[job[j].run] IN
    \/ /\ Len(done) >= AccessCount
       /\ \A i \in 1..AccessCount : done[i].index = i /\ Succeeded(done[i].job)
    \/ Overtaken(job[j].run, job[j].step)

\* One job cannot satisfy two steps of a run.
OneJobOneStep ==
  \A r \in Runs : \A i, k \in 1..Len(steps[r]) : steps[r][i].job = steps[r][k].job => i = k

\* A coordinator comes to an end: the run is finished or waits for an operator.
RunSettles ==
  \A r \in Runs : status[r] \in {"bootstrapping", "configuring"} ~> status[r] \notin {"bootstrapping", "configuring"}

\* The runs keep what Ownership promises.
Ownership == INSTANCE Ownership WITH
  owners  <- {r \in Runs : status[r] \in Open},
  over    <- {r \in Runs : status[r] \in {"accepted", "closed"}},
  imaging <- UNION {job[j].needs : j \in {k \in Jobs : job[k].kind \in Deployments /\ Active(k)}}
OwnershipHolds == Ownership!Spec

\* An accepted run has done every step of its plan.
AcceptedIsComplete ==
  \A r \in Runs : status[r] = "accepted" =>
    \A i \in 1..Len(Plan) : \E k \in 1..Len(steps[r]) : steps[r][k].index = i

\* Configuration goes on only after health that was read since the run was last
\* reconciled.
HealthIsFresh == \A r \in Runs : status[r] = "configuring" => asOf[r] = resumes[r]
=============================================================================
