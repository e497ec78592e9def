# Specifications of ZTF Orchestrator

TLA+ models of ZTF Orchestrator (`src/`), the TLC configurations that check
them, and proofs that TLAPS checks. The models follow the source; line numbers
below and in `PROJECT.json` ("map") refer to it. `PROJECT.json` lists every
part of the system, every run, every hazard and which property covers it.

## The system

ZTF Orchestrator is one Flask process (`server.py`, 44 thousand lines, and a
dozen modules beside it) that runs destructive automation against Nutanix
clusters: imaging nodes, forming clusters, changing passwords, unregistering
clusters. State is a set of JSON documents kept in files or in PostgreSQL
(`storage_backend.py`); a read or a write of one document is atomic, a
read-modify-write is not unless the caller holds a lock.

| part | its state | its operations | interacts with |
|---|---|---|---|
| **Execution queue** `ExecutionJobManager`, server.py 34560-36340 | `jobs.json` (at most 1000 records), `_active` processes, worker threads, logs | submit, cancel, delete, stream; workers take, run and complete; a timer kills; restart recovery | everything that executes |
| **Approvals** `approvals.py` | `approvals.json` (at most 200), expiry timers | create, decide, delete, expire, link to a job | the guarded workflows, the queue |
| **Guarded workflows**: unregistration, storage standard, password rotation, server.py 41788-41995 | a submit lock and an execution lock each | check approval, submit, link; the worker checks again before it writes | approvals, queue, Prism |
| **Guided updates** `appliance_updates.py`, `appliance/update_service.py` | `requests/request.json`, `pending.lock`, `state.json`, plans, reports; the containers | ask; preflight, install, rollback, cleanup; recovery at start | maintenance of the application, its jobs |
| **Disaster recovery** `disaster_recovery.py` | `recovery.json`: profiles and runs; coordinator and collector threads | prepare, deploy, attest or collect health, bootstrap, configure, link, accept, stop, reconcile, resume | queue (whose lock it shares), approvals, Foundation |
| **Maintenance, backup, restore** server.py 2699-2950, 6389-6465, 43190-43290 | a flag, dumps | enter, exit, restore | queue, all routes |
| **Scheduler** `scheduler.py` | `schedules.json`, triggers or a polling thread | create, update, delete, fire, run now | runs the framework itself |
| **Parallel runs** `parallel_exec.py` | `parallel_runs.json`, a thread per site | submit, delete | runs the framework itself |
| **Pipelines** server.py 41277-41616 | `pipelines.json`; a response generator | save, delete, run | runs the framework itself, history |
| **Cluster operations** `cluster_operations.py` | one revisioned document | record, observe, summary, attention | health readback, jobs, recovery |
| **Drift** server.py 36560-36835, 42706-43390, `prism_drift.py` | policies, runs | compare, schedule | configuration, Prism |
| **Native Foundation reviews** server.py 7537-33834, 36842-36996 | none but a cache for the length of a packet | some ninety builders that call each other | plans, jobs |
| **Foundation VM and native jobs** server.py 35306-36097, `foundation_vm_*.py` | phases of a job | the other runners of the queue | queue |
| **Sessions and users** server.py 6467-6680 | sessions, users | create, get, touch, revoke, purge | every route |
| **History, webhooks, audit** server.py 34286-34400, 43942- | `history.json` (1000 entries) | record | all that executes |
| **Editors, advisor, frontend, scripts, packaging** | documents | read, write | - |

What is hard in it: request threads, worker threads, timers, coordinators,
collectors and a host service that share documents; cancellation against
completion; single use of an approval under storage faults; exclusive ownership
of nodes through failures; restarts at any point; host updates that may die
half-way. What is correct means, per part:

- queue: a job runs at most once, ends once, is reported as it ended, and
  a restore never meets a running job;
- approvals: one approval, one job; a revoked one stops the writes;
- guided updates: a request is carried out once; a host whose image is not
  verified is locked; data a new image may have migrated is never run under the
  old one without a confirmed rollback;
- recovery: two deployments never touch one node; a password changes once;
  later steps wait for earlier ones; nothing hangs in "configuring";
- scheduler, parallel runs, pipelines: what was disabled does not fire, what
  ended is recorded as it ended, a script runs what was validated for it;
- operations: an observation is stored with the record it was made for, and
  nobody resolves what he has not seen;
- native reviews: no review waits for itself, a permit stands on an approval and
  evidence that were good while it was prepared and not on older ones, and a gate
  or a record is handed on only from its source.

## Modules

| module | what it is |
|---|---|
| `JobQueue` | the execution queue |
| `JobQueueProperties`, `JobLifecycle` | its properties; the abstract at-most-once executor it implements |
| `Approvals` | the approval store and the three guarded workflows |
| `GuidedUpdate` | the update spool, the host service, the containers and the application's jobs |
| `Recovery`, `Ownership` | recovery runs with their queue; what they promise about nodes |
| `NativeReview` | the terms of a review: arguments, calls, checks, facts |
| `NativeManifests`, `NativeDeployment`, `NativeExecution`, `NativeUat`, `NativeAdapters` | the 94 review builders |
| `NativePacket` | one request: the packet, the stack of builders, the cache |
| `History` | the execution history and its unlocked recording |
| `Schedules`, `Pipelines` | the schedule engine and pipeline runs; both record in `History` |
| `ParallelRuns`, `Operations` | parallel multi-site runs; the desk of cluster operations |
| `Automation` | the composition of the last five in one process |
| `JobQueueProofs`, `ApprovalsProofs`, `GuidedUpdateProofs`, `RecoveryProofs` | theorems and proofs |
| `RecordingProofs`, `DeskProofs`, `AutomationProofs` | theorems and proofs of the automation: of what records in the history, of parallel runs and the desk, of the composition |
| `NativePacketProofs` | theorems and proofs: no review waits for itself; permits and offers are justified |
| `MC*` | instances: constants that are not atoms, symmetry |

### JobQueue

One action per critical section of the manager's lock: `Prepare`/`Enqueue`/
`Refuse` are the halves of `submit` (two maintenance checks, `createdAt` taken
before the lock, the truncating save inside it); `CancelQueued`,
`CancelRunning` and `CancelKill` the three parts of `cancel` (the kill follows
the lock); `Take` is `_worker_loop` with `_mark_running`. Between these a
runner moves freely: `Launch` (Popen), `Register`, `Output`, `Drained`, `Judge`
(the status read after the wait), `Finalize`, `Complete`. Not every job gets that
far: `Reject` is an early return with an error, `RunInline` the end of a job that
never has a process, as a standalone FCA request, which the worker's own thread
makes (34970-34989), or as a plan that fails its validation or has nothing to
execute (35026-35058); such a job may be reported as a success. A post-foundation
plan goes through `NextStep`/`LastStep` instead and never reads `cancelling`,
as in the code. `Timeout` is the kill of the timer, `ReaderDies` the reader
thread that meets undecodable bytes, `Restart` the death of the service with
`_recover_interrupted_jobs`, `EnterMaintenance`/`CheckActive`/`ExitMaintenance`
the route that restores a database; a restore here fails and is rolled back, so
records stay. A late `_emit` by the timer only appends to a log and is left out.

### Approvals

`CheckSubmission`, `SubmitJob`, `LinkJob`/`LinkFails` are one request thread
inside its submit lock; `Start`, `Admit`, `Authorize`, `Write` are its worker.
Removal workflows (unregistration, storage standard) authorise before each
write under the submit lock and insist on the link; a rotation checks once,
outside the lock, and is content with an approval that has no job. Bindings to
workflow, file, content and a second administrator compare immutable fields
and are left out. Each kind of workflow has its own locks; unregistration and
storage standard follow the same protocol and share the kind "removal".

### GuidedUpdate

Web threads (`Ask*`, `TakeSlot`, `Publish`, `PublishFails`), the service's main
loop (`Claim`, `Accept`, `Release`, `ExpireSlot`), and one action per step of
preflight, install and rollback between two saves of `state.json`. `Fails` and
`GiveUp` are the exceptions, `Crash` the death of the service in any place,
`Recover*` its `__init__`. Stopping or replacing the container ends the web
threads in it (`WebStops`). The three-second settling time is taken to be
longer than a submission that passed its maintenance check, and the minute
after which a slot expires longer than writing one file.

### Recovery

Handlers run under the queue's re-entrant lock and are atomic. A coordinator
is `SubmitStep`, `SeeJob` (the poll), then `Record`, `StepFailed` or `Leave`,
each under the lock again; an exception goes to `Handler`, which takes the lock
anew. A collector is `CollectBegins`/`CollectEnds` around an unlocked readback.
`Deploy*` are the outcomes of the deployment route, with a refused write
(`Fault`) before or after the job is known to the run. Confirmations, drifted
files and approvals only refuse a request and are nondeterministic. Jobs are
numbered in the order of their use (`Fresh`), as are requests in GuidedUpdate:
identifiers carry no meaning, and numbering them loses no behaviour while it
is sound for the temporal properties, which symmetry is not.

### Native Foundation reviews

Each of the builders (server.py 7537-33834) reads the submitted intent, the
approval and the evidence, calls other builders, and returns a status with a
list of checks. Here a builder is an operator `B(q, w, up)` of its arguments,
the facts that hold and the reviews it has obtained so far; it says which
review it asks for next or what it returns. Of a review are kept its status,
the checks that do not pass (`blocked`) and the parts that may be missing and
that another builder tests for (`offers`). Checks that pass in every review that
is not invalid, texts, hashes and counts are left out; a placeholder that the
code always supplies (27985-28010) is such a check. The admission's
`target-scope-selected` (16640), which the scope of a request may block, is left
out as well: the code lets fewer admissions pass than the model.

`NativePacket` is the machine: `Request` starts the outermost builder, `Call`
pushes a builder, `Reuse` answers from the cache, `Answer` pops one and drops the
cache with the call that opened it (`Opens`: a completion review asked for alone
is not wrapped, 33465, so each review it asks for has a cache of its own); the
key of the cache
holds the name and the arguments *as given*, so that the same review asked for
by position and by keyword is built twice, as in the code. `Decide` and
`ImportOrDelete` change the approval and the evidence between any two steps. Two
builders read them, the binding (16250-16251) and the admission (16533), each in
one step with its answer: neither asks for a review that reads them after that.
`good` is a history variable: the permits on the stack that have been under way
at a moment when the approval, or the evidence, was good. A permit cannot promise
more, since either may change between its last read and its return.
The builders' definitions were compared with the Python functions on 35 worlds
of facts.

### Automation

`Schedules`: a request is several steps, because the list is saved under the
engine's lock and triggers are registered outside it (`Update`, `Unregister`,
`Register`; `Delete`, `Remove`). Without APScheduler (`backed` false) the list is
polled. A firing keeps the copy it was started with; it is refused, executed or
raises, records itself (`RecordFiring`, a read and a write of the history), and
reports to its schedule. `overlapped` is a history variable: the schedules whose
latest requests ran at once.

`Pipelines`: `Validate` is one turn of the validation loop, with the copies it
keeps; `StartStep`/`StepEnds` a process, given the copy, the file as it is then
or nothing; `Disconnect` the generator closed by the client. Files are edited and
deleted between any two steps. A content is a set of validators that accept it,
and whether it asks for a login title.

`History`: a recorder reads, extends and writes back a list of bounded length.
`excused` is a history variable: entries cleared, pushed out, or written while
another recorder was between its read and its write.

`ParallelRuns`: `SiteEnds` is the future of a site, `Collect` the loop over
`as_completed`, `Close` the verdict, saved under the lock, and `Announce` the
webhook after it, which may fail or be lost to a restart. Identifiers that are no
longer stored are passed over by `Collect` and break `Close`, as in the code.

`Operations`: `BeginReadback`/`Collected`/`StoreReadback`/`LeaveReadback` are
`observe` around its unlocked readback, `BeginRefresh`/`Refresh` `summary` around
the lists of jobs and recovery runs it takes before the lock, `RecordCluster` and
`Review` the edits guarded by the revision a client last saw (`views`).

`Automation` composes them in one process with one `Restart`. What clients and
the world may still do is bounded by a budget per kind of event; threads are not
bounded.

## Runs

Bounds are constants in the cfg files. Every run fires every action of its
module except where the bound makes that impossible; between them the runs of a
module fire all of them.

| run | instance | what it shows |
|---|---|---|
| `queue` | two workers, a framework job and a plan of up to two steps, undecodable output, one restore, one restart during or after it or without it; 421 194 states | safety of the queue, that it implements `JobLifecycle`, and that an accepted job ends unless its worker hangs |
| `queue_garbled` | one job whose output is not text | a cancelled job stays cancelling for ever (finding) |
| `approvals` | a removal and a rotation, two submissions, a store of one record, faults, a restart; 459 500 states | single use, revocation, final decisions, expiry, no blocked job |
| `approvals_rotation` | one rotation approval, two submissions, a fault | the approval admits two jobs that write (finding) |
| `guided_update` | three requests, one repeated, one job, one crash; 1 334 376 states | once-only requests, the lock of an unproven host, idle stops, rollback only, everything comes to rest |
| `guided_update_stale` | four requests, one crash | a restart during a second readiness phase installs the image of the first (finding) |
| `recovery_ownership` | two runs that share a node, a rival deployment, a password step, one reconciliation, one fault, one crash; 442 602 states | exclusive deployments, `Ownership`, one password change, runs settle |
| `recovery_steps` | two access steps and two equal others, two coordinators, four jobs; 1 339 263 states | nothing beyond initial access before it is done, one job for one step |
| `recovery_skipped` | two equal steps, two coordinators | an accepted run whose last step never ran (finding) |
| `recovery_readback` | one step, one collector | health read before a reconciliation counts after it (finding) |
| `native_packet` | three packets (complete; without approval or a valid intent) and sixteen single reviews (two of them without evidence or the approval's name), one change of approval or evidence at any step of each; 105 076 states | no review waits for itself, permits and offers have their grounds, every request is answered |
| `automation` | one schedule, two firings, one pipeline of two steps over two files, two parallel runs of two sites in a store of one, two clusters, two users; eleven budgets; 704 643 states | triggers follow the store, finished executions are recorded, runs are closed with the verdict of their sites, scripts run what was validated, observations and reviews are of what is there |

Why these bounds: the races of the queue are between one worker and a client,
between two workers, or with one restart or restore, so two jobs, two workers
and one of each exceptional event show every pair; `JobLifecycle` speaks of
each job. Single use needs two submissions and one approval of each kind; a
store of one record makes the bound bite. An update needs a preflight, an
install and a third request; the stale image needs two updates. Two runs and
one rival are the least that can collide on a node in three ways; two
coordinators the most that overlap after one reconciliation. The proofs below
remove the bounds for the safety properties they cover.

A packet asks for every review and a single review for one chain, so the calls
that could recurse are all made; what is missing in a packet is one thing at a
time because each check is a conjunct. A budget of `Automation` names the events
that can meet in one property: four schedule requests and a restart for two
overlapping pairs; two firings and a pipeline are three recorders of a history
of two; three records, two readbacks, a refresh and a restart for an observation
that returns to a record edited away and back; components that share nothing
are not interleaved. Each exemption a property names was checked to be needed:
without it TLC finds the property violated in the same instance (`Overtaken`
in one of five jobs, see Findings).

Properties are spent on what takes several steps of several actors to break;
each has a mutant (a faulty variant of one mapped definition, next to it in the
module) under which TLC finds it violated in the same instance.

`CHECK_DEADLOCK FALSE` where a bounded instance runs out of requests: the real
system then waits for the next one.

### Fairness

- Queue: workers, processes and timers go on (weak fairness of each runner's
  step and of the end of a process, whose timer bounds it). It is assumed that
  the streams of a process close when it ends. Nothing is assumed of clients,
  restarts or restores beginning.
- Approvals: a thread that was scheduled goes on; a timer that is due fires.
- GuidedUpdate: weak fairness of the service as a whole (one sequential
  program that its supervisor starts again) and of a thread that publishes.
- Recovery: threads go on, and the queue ends every job (the queue's own
  `EveryJobEnds`).
- NativePacket: the thread of a request goes on (`Step`); nothing is assumed of
  other users.
- Automation: the threads of parallel runs go on (`RunsGoOn`): the processes of
  sites are killed at a deadline (parallel_exec.py:195-203), and the thread of a
  run waits for nothing else. A process that closes its output before the
  deadline is waited for without one (`proc.wait`, 210): it is assumed to end.
  Nothing is assumed of clients, triggers or restarts.

### Findings

Five disagreements between the code and what its documents say are recorded in
`PROJECT.json` with their lines: undecodable output hangs a worker
(server.py:35207), a rotation approval used twice after a storage fault
(server.py:41971), a stale rollback image restored without confirmation
(update_service.py:95), a step recorded twice by overlapping coordinators
(disaster_recovery.py:788), stale health evidence (disaster_recovery.py:689).

The step recorded twice has a second consequence, which `RestAfterBootstrap`
names and exempts (`Overtaken`). A bootstrap stops where its count equals its end
(`index == end`, disaster_recovery.py:749-751). Two coordinators that overlap after
a resumption can record one step twice and jump over that test; what is left then
is only that a bootstrap takes no step that is not initial access. So a later
access step may be submitted before the first ones are done: for the plan
settings, settings, rest, settings (the code takes a plan in the order its author
gave it, 387) the first is recorded twice and the second once, three steps where
two are initial access, and the fourth is submitted next. That is against
docs/disaster-recovery.md:92 ("Bootstrap runs sequentially and stops before other
pipeline settings"), by the defect of `recovery_skipped`. It takes a deployment
and four step jobs, more than the instances checked here have.

What else was met while modelling, and is part of the models or an exemption of
a property, without a run of its own:

- Scheduler: an update that overlaps a delete or a later update may leave a
  trigger for a schedule that is gone or disabled, or one with stale content,
  until the next request alone or a restart (scheduler.py:137-141). An
  expression of five fields that APScheduler refuses is only logged: the
  schedule is shown enabled and never fires. Scheduled executions do not look
  at maintenance and are not counted when an update or a restore waits for the
  appliance to be idle (server.py:6116-6293, 42824).
- History: an entry is lost when two recordings overlap, and a clear is undone by
  a recorder that had read before it.
- Parallel runs: a run deleted or pushed out while it goes on ends its thread with
  `final_run` unbound, without a webhook (parallel_exec.py:267); after a restart
  a run stays running for ever, and one that was closed but whose webhook was
  still to be called is never announced (parallel_exec.py:269-275).
- Pipelines: the password script is validated, but its file is read again when
  its turn comes, despite the comment at server.py:41479-41481. Two steps that
  are read from one file share the copy of the later one, which the validator of
  the first need not accept. A cluster configuration that asks for no title when
  it is validated may ask for one when it runs. A step whose file was deleted
  runs without `-f`. An abandoned run is not recorded.
- Operations: a summary under maintenance shows items that are not stored under
  the stored revision, and a summary whose lists are older than another's may
  open an item again with the older version (cluster_operations.py:267-312).
- Native reviews: an approval decided in the middle of a packet gives it two
  versions of one review, as two builders and the packet are not cached
  (server.py:36892). The completion review reads `retainedEvidenceExportReviewId`
  (33577, 33593), which no review returns (it is `exportReviewId`). The check
  "approval-evidence-gates-bound" passes with the evidence alone, its message
  (28192) asks for both identifiers. An intent with `redact_secrets: true` is
  reported as holding an inline secret (8416-8435).

## Proofs

All theorems hold for any value of the constants that satisfies the named
assumption of the module (finite sets where something is counted, atoms that
differ from the sets they are added to, bounds that are natural numbers).

- `JobQueueProofs`. `TypeOK`, `SingleExecution`, `RestoreExcludesWork`,
  `ReportedMeansStopped`, `ReportIsTruthful`, `TerminalIsFinal`,
  `ProgressNeverRegresses`, and the refinement of `JobLifecycle`. None is
  inductive: the inductive invariant says for each place of a worker what its
  job's record, process and exit are, that two workers hold different jobs, and
  that a job was handed out only if it is no longer queued. The refinement maps
  a job's record to its phase; every step is one of the abstract executor's or
  a stutter.
- `ApprovalsProofs`. `TypeOK`, `SingleUse`, `RevocationStopsWrites`,
  `DecisionIsFinal`. The invariant ties each thread past its check to the
  submit lock and to an approval that has no job but its own, and each job that
  writes to the link.
- `GuidedUpdateProofs`. `TypeOK`, `AtMostOnce`, `UnprovenStaysLocked`,
  `StopsOnlyIdle`, `StartedIsNotUndone`. The invariant (`IInv`) says for each
  place of the service's program what the request asks for, that it is the
  recorded operation, that the appliance is locked from the settling phase on,
  which image runs, and that an unproven image implies a recorded start or a
  rollback. The two action properties follow from one lemma, `ReplacesWhen`:
  the few steps that replace what runs, and the states they start from.
- `RecoveryProofs`. `TypeOK`, `DeploymentExclusive`, the refinement of
  `Ownership`, `PasswordOnce`. Most actions are "tame": they neither queue a
  deployment nor open a run; the others (`Deploy*`, `DeployRefused`, `Accept`,
  `Reconcile`, `ClosePrepared`, `SubmitManual`) are treated one by one. For
  passwords the invariant says that before any reconciliation one coordinator
  at most is at work and every submitted step is recorded or its own, and that
  afterwards no password step is pending.
- `RecoveryProofs`, the order of steps. `OneJobOneStepHolds` rests on `Linked`:
  the job a thread follows was submitted for the step it stands on, and a job
  once linked is linked to steps of its own kind and file only.
  `RestAfterBootstrapHolds` is for any plan and has three cases. A step that is
  no initial access is gated (`Gated`), whatever coordinators overlap, because
  each thread that reaches one has read a completed bootstrap under the lock and
  nothing undoes a record (persistence lemmas, one per kind of record). A run that
  was not resumed records in the order of its plan (`InPlanOrder`). An access step
  that only access steps precede can be beyond the greatest prefix of
  `AccessCount` (which exists by `WellFoundedInduction` on the naturals) only if
  that prefix ends before a second password change, and then no run is resumed
  before it is done (`Ordered`, by `Replayable`). What is left is `Overtaken`.
  `AcceptedAtOnceHolds`: a run
  that was never resumed and is accepted has a linked, succeeded job for every
  step; the finding `recovery_skipped` is what a resumption does to this.
- `RecordingProofs`, `DeskProofs`, `AutomationProofs`. The components of the
  automation share only the history, so each has an inductive invariant of its
  own and the composition has one lemma per disjunct of its `Next`.
  `RegistrationFollowsStore`: per schedule, the trigger agrees with the stored
  record except for what the one request at work still has to do
  (`Consistent`, `AloneAt`), unless requests of it overlapped.
  `RunsWhatWasValidated`: a copy was accepted by the validator of the step that
  made it (`Validated`), unless two steps share its file. `RecordsKept`: an
  execution that ended and is not excused is in the list of the history or in
  the copy of a recorder that will write it back (`HistoryInv`, `Settled`,
  `Recorded`). `VerdictOfSites`: a stored run is the sum of the sites collected
  so far, each listed once (`RunInv`, `ListedOnce`). `EvidenceOfBaseline`,
  `ReviewedWasSeen`: a readback that is to be stored was begun for the record
  that has its generation, and a revision a client holds names the content he
  was shown (`RowsInv`, `ViewsInv`).

- `NativePacketProofs`. `NoReentry`, for any requests that name a builder and
  give Boolean switches (`RequestsAssumption`) and any number of changes. The
  builders call one another in circles, which an `include_scheduler=False` or
  `include_hardware_reservation=False` at the right calls cuts; the proof says
  that every circle is cut. A call has a rank: the depth of its builder
  (`Depth`), plus 7 if it is one of two builders that can leave out the
  scheduler and does not, plus 28 if it is one of eight that can leave out the
  hardware reservation and does not (7 and 28 are what the depths of the reviews
  left out require). For each of the 94 builders, whatever reviews it has, the
  one it asks for is of a lesser rank (`Descends`, by the lists of reviews of
  each, module by module, then the four parts of the packet); so the ranks fall
  along the stack (`StackInv`), where no call can stand twice. Since there are
  seventy ranks (`RankAtMost`), no stack is higher (`Shallow`, by `FS_Injection`).
- `NativePacketProofs`, what is justified. `PermitJustified` and
  `OffersJustified`, under the same assumption. Neither is inductive: both look
  at the review that is being returned, which is a function of reviews returned
  long before, under facts that may have changed since. `JustifiedInv` says of
  every review a builder at work has, and of every review in the cache, that
  what it offers has a source (`Grounded`: a valid intent, the identifier of the
  evidence, a hardware reservation) and that what it lets pass but for its
  switch was seen (`Seen`: the intent, the readiness, the policy). These facts
  are those no step of a request changes (`Lasting`, `ChangesPass`), so a review
  stays justified in the cache (`JustifiedStays`). It also says that each
  builder on the stack is the one the builder below asked for in its next place
  (`Chained`), which ties a review that comes back to the call that wanted it.
  A step keeps it because a builder whose reviews are justified returns a
  justified one (`AnswerJustified`). Of the 94 builders, 51 offer nothing, 41
  only hand on what they were given, and two offer parts of their own, which
  they do only after a plan that was not invalid. For those that hand on, the
  argument has two halves: no review is asked for with another evidence than the
  caller's (`AskedFaithful`), and a record comes from one place in the list of
  reviews, where a caller without a reservation asks for nothing that has one
  (`RecordsKept`, `AskedRecord`). The approval and the evidence do not last. A
  permit has them because the binding is the eighth and last review it asks for
  and is not in the list of the cache wrappers (`Memoised`), so what it says was
  read when the permit had nothing left to wait for (`Fresh`, `PermitAsked`). What
  it read may have changed by the time the permit is returned; what `good` says of
  the permit stays (`SeenNow`, `SeenStays`).

Left to TLC: liveness under fairness (every `*Ends`, `RunIsClosed` and the like;
that a falling rank ends a request, `RequestAnswered`, among them) and all
violations. Every other property of a passing run is a theorem, stated as it is.

## Not modelled

The components with status "not_modelled" in `PROJECT.json`, and within the
modelled ones the contents of records, logs, formatting, HTTP, rate limits and
roles. Hazards without a property say in their note why.

Why the rest is left out, beyond what the components say: editors, generators
and the advisor read one document and write one, so nothing of them interleaves;
Prism helpers and the native job runners are sequences of remote calls whose one
shared resource, the queue, is modelled with an abstract runner; sessions share
with the rest only the check at the head of a route.

## Plan

Runs are few by design: one per question. The next steps, in their order:

1. `QueueRestore`: a restore that replaces the records, failing writes under a
   runner, the generic approval path; on top of `JobQueue`.
2. `FoundationVmJob`, `RecoveryProfiles`, `Sessions`, drift comparison.
