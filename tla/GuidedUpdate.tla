---------------------------- MODULE GuidedUpdate ----------------------------
(***************************************************************************)
(* Guided appliance updates: the file spool by which the application asks  *)
(* for an operation (appliance_updates.py) and the host service that       *)
(* carries it out (appliance/update_service.py).                           *)
(*                                                                         *)
(* Web threads share one request slot (pending.lock and request.json).     *)
(* The service claims a request, records it before it acts, and works      *)
(* through readiness, backup, load, restart and verification; every step   *)
(* may fail, the service may die between any two steps, and stopping the   *)
(* application ends the web threads.  Jobs enter the queue of the          *)
(* application meanwhile.                                                  *)
(*                                                                         *)
(* State the service keeps in state.json changes together with what the    *)
(* step does: it is saved before the service acts on it.  Cleanup of old   *)
(* artifacts and the storage review leave what a preflight that fails      *)
(* leaves and are not told apart from one.  The wait of three seconds      *)
(* before jobs are counted is taken to be long enough for a submission     *)
(* that passed its maintenance check.                                      *)
(***************************************************************************)
EXTENDS Naturals

CONSTANTS
  Images,        \* application images, by version
  First,         \* the one installed at the beginning
  Down,          \* the application container is stopped
  Nothing,       \* no request, no retained image
  Requests,      \* identifiers of requests
  MaxRetries,    \* bound: requests sent again under the same identifier
  MaxJobs,       \* bound: automation jobs submitted
  MaxCrashes     \* bound: deaths of the service

ASSUME UpdateAssumption ==
  /\ Requests \subseteq Nat
  /\ First \in Images
  /\ Down \notin Images
  /\ Nothing \notin Images \cup Requests
  /\ MaxRetries \in Nat /\ MaxJobs \in Nat /\ MaxCrashes \in Nat

VARIABLES
  \* the spool and the web threads
  web,          \* where the thread that sends a request is
  action,       \* what a request asks for
  image,        \* the image of a preflight, else that of the plan an install names
  plan,         \* the preflight whose plan an install names
  lock,         \* pending.lock exists
  inbox,        \* request.json
  retries,
  \* state.json, the plans and the reports
  op,           \* the operation last recorded
  status,       \* its status
  maintenance,
  targetStarted,
  mayBeStopped,
  rollback,     \* the retained image
  ready,        \* the image that was installed when a preflight made its plan
  used,         \* plans that were consumed
  reports,      \* requests with a report
  \* the service and the host
  pc,           \* what the service is about to do
  cur,          \* the request it works on
  app,          \* the image that runs
  entering,     \* a job submission has passed its maintenance check
  jobs,         \* active jobs
  submitted,
  crashes,
  \* history
  proven,       \* the image that was last verified
  begun         \* how often the work of a request was begun

spool   == <<web, action, image, plan, lock, inbox, retries>>
saved   == <<op, status, maintenance, targetStarted, mayBeStopped, rollback, ready, used, reports>>
work    == <<jobs, entering, submitted>>
history == <<proven, begun>>
vars    == <<spool, saved, work, history, pc, cur, app, crashes>>

Actions == {"preflight", "install", "rollback"}
Settled == {"succeeded", "failed", "interrupted"}

TypeOK ==
  /\ web \in [Requests -> {"new", "checked", "locked", "sent", "lost"}]
  /\ action \in [Requests -> Actions \cup {Nothing}]
  /\ image \in [Requests -> Images \cup {Nothing}]
  /\ plan \in [Requests -> Requests \cup {Nothing}]
  /\ lock \in BOOLEAN
  /\ inbox \in Requests \cup {Nothing}
  /\ retries \in Nat
  /\ op \in Requests \cup {Nothing}
  /\ status \in Settled \cup {"none", "running"}
  /\ maintenance \in BOOLEAN /\ targetStarted \in BOOLEAN /\ mayBeStopped \in BOOLEAN
  /\ rollback \in Images \cup {Nothing}
  /\ ready \in [Requests -> Images \cup {Nothing}]
  /\ used \subseteq Requests
  /\ reports \subseteq Requests
  /\ pc \in {"idle", "claimed", "preflight", "install", "settle", "stage", "stop", "backup", "load",
             "start", "verify", "restore", "restored", "rollback", "wait", "revert", "check", "done", "down"}
  /\ cur \in Requests \cup {Nothing}
  /\ app \in Images \cup {Down}
  /\ entering \in BOOLEAN
  /\ jobs \in Nat /\ submitted \in Nat /\ crashes \in Nat
  /\ proven \in Images
  /\ begun \in [Requests -> Nat]

Init ==
  /\ web = [r \in Requests |-> "new"]
  /\ action = [r \in Requests |-> Nothing]
  /\ image = [r \in Requests |-> Nothing]
  /\ plan = [r \in Requests |-> Nothing]
  /\ lock = FALSE /\ inbox = Nothing /\ retries = 0
  /\ op = Nothing /\ status = "none"
  /\ maintenance = FALSE /\ targetStarted = FALSE /\ mayBeStopped = FALSE
  /\ rollback = Nothing
  /\ ready = [r \in Requests |-> Nothing]
  /\ used = {} /\ reports = {}
  /\ pc = "idle" /\ cur = Nothing
  /\ app = First
  /\ entering = FALSE /\ jobs = 0 /\ submitted = 0 /\ crashes = 0
  /\ proven = First
  /\ begun = [r \in Requests |-> 0]

-----------------------------------------------------------------------------
(* Web threads *)

\* What the route and submit ask before they take the slot: no automation is
\* active, no operation goes on or waits, and only a rollback may follow an
\* interrupted update.
MayAsk(a) ==
  /\ app # Down
  /\ jobs = 0
  /\ inbox = Nothing
  /\ status # "running"
  /\ maintenance => a = "rollback"

\* Identifiers carry no meaning: a new request takes the next one.
Fresh(r) == \A q \in Requests : web[q] = "new" <=> r <= q

Ask(r, a) ==
  /\ web[r] = "new" /\ Fresh(r)
  /\ MayAsk(a)
  /\ web' = [web EXCEPT ![r] = "checked"]
  /\ action' = [action EXCEPT ![r] = a]
  /\ UNCHANGED <<lock, inbox, retries, saved, work, history, pc, cur, app, crashes>>

AskPreflight(r, i) ==
  /\ Ask(r, "preflight")
  /\ image' = [image EXCEPT ![r] = i]
  /\ UNCHANGED plan

\* An install names a plan; the confirmation names its version.
AskInstall(r, p) ==
  /\ Ask(r, "install")
  /\ ready[p] # Nothing
  /\ image' = [image EXCEPT ![r] = image[p]]
  /\ plan' = [plan EXCEPT ![r] = p]

AskRollback(r) == Ask(r, "rollback") /\ UNCHANGED <<image, plan>>

\* The client sends a request again under its identifier; while its operation
\* is the last one, it is only shown.
AskAgain(r) ==
  /\ web[r] = "sent" /\ retries < MaxRetries
  /\ op # r
  /\ MayAsk(action[r])
  /\ retries' = retries + 1
  /\ web' = [web EXCEPT ![r] = "checked"]
  /\ UNCHANGED <<action, image, plan, lock, inbox, saved, work, history, pc, cur, app, crashes>>

\* pending.lock is created exclusively.
TakeSlot(r) ==
  /\ web[r] = "checked"
  /\ web' = [web EXCEPT ![r] = IF lock THEN "lost" ELSE "locked"]
  /\ lock' = TRUE
  /\ UNCHANGED <<action, image, plan, inbox, retries, saved, work, history, pc, cur, app, crashes>>

Publish(r) ==
  /\ web[r] = "locked"
  /\ web' = [web EXCEPT ![r] = "sent"]
  /\ inbox' = r
  /\ UNCHANGED <<action, image, plan, lock, retries, saved, work, history, pc, cur, app, crashes>>

\* The request cannot be written: the slot is given back.
PublishFails(r) ==
  /\ web[r] = "locked"
  /\ web' = [web EXCEPT ![r] = "lost"]
  /\ lock' = FALSE
  /\ UNCHANGED <<action, image, plan, inbox, retries, saved, work, history, pc, cur, app, crashes>>

-----------------------------------------------------------------------------
(* Jobs of the application *)

JobEnters ==
  /\ app # Down /\ ~maintenance /\ ~entering /\ submitted < MaxJobs
  /\ entering' = TRUE
  /\ submitted' = submitted + 1
  /\ UNCHANGED <<spool, saved, history, jobs, pc, cur, app, crashes>>

JobQueued ==
  /\ entering
  /\ entering' = FALSE
  /\ jobs' = jobs + 1
  /\ UNCHANGED <<spool, saved, history, submitted, pc, cur, app, crashes>>

JobEnds ==
  /\ jobs > 0 /\ app # Down
  /\ jobs' = jobs - 1
  /\ UNCHANGED <<spool, saved, history, submitted, entering, pc, cur, app, crashes>>

\* What the end of the container does to the threads in it.
WebStops ==
  /\ web' = [r \in Requests |-> IF web[r] \in {"checked", "locked"} THEN "lost" ELSE web[r]]
  /\ entering' = FALSE
  /\ jobs' = 0
  /\ UNCHANGED <<action, image, plan, lock, inbox, retries, submitted>>

\* docker compose up: the container is created anew unless it runs the image.
Runs(i) ==
  /\ app' = i
  /\ IF app \in {i, Down} THEN UNCHANGED <<spool, work>> ELSE WebStops

-----------------------------------------------------------------------------
(* The service: one request at a time *)

Go(from, to) == pc = from /\ pc' = to

Claim ==
  /\ inbox # Nothing
  /\ Go("idle", "claimed")
  /\ cur' = inbox
  /\ inbox' = Nothing
  /\ UNCHANGED <<web, action, image, plan, lock, retries, saved, work, history, app, crashes>>

\* Faulty variant of Accept: reports of earlier requests are not looked at.
AcceptAgain ==
  /\ pc = "claimed"
  /\ IF maintenance /\ action[cur] # "rollback"
       THEN /\ pc' = "done"
            /\ UNCHANGED <<op, status, targetStarted, reports, begun>>
       ELSE /\ pc' = action[cur]
            /\ op' = cur /\ status' = "running"
            /\ targetStarted' = (targetStarted /\ maintenance)
            /\ reports' = reports \cup {cur}
            /\ begun' = [begun EXCEPT ![cur] = @ + 1]
  /\ UNCHANGED <<spool, maintenance, mayBeStopped, rollback, ready, used, work, proven, cur, app, crashes>>

\* process: what has a report is not done again, and an interrupted cutover
\* admits a rollback only.
Accept ==
  /\ pc = "claimed"
  /\ IF cur \in reports \/ (maintenance /\ action[cur] # "rollback")
       THEN /\ pc' = "done"
            /\ UNCHANGED <<op, status, targetStarted, reports, begun>>
       ELSE /\ pc' = action[cur]
            /\ op' = cur /\ status' = "running"
            /\ targetStarted' = (targetStarted /\ maintenance)
            /\ reports' = reports \cup {cur}
            /\ begun' = [begun EXCEPT ![cur] = @ + 1]
  /\ UNCHANGED <<spool, maintenance, mayBeStopped, rollback, ready, used, work, proven, cur, app, crashes>>

\* The slot is free again.
Release ==
  /\ Go("done", "idle")
  /\ lock' = FALSE
  /\ cur' = Nothing
  /\ UNCHANGED <<web, action, image, plan, inbox, retries, saved, work, history, app, crashes>>

\* A slot without a request is taken back after a minute, by when a thread
\* that is still there has published.
ExpireSlot ==
  /\ pc = "idle" /\ inbox = Nothing /\ lock
  /\ \A r \in Requests : web[r] # "locked"
  /\ lock' = FALSE
  /\ UNCHANGED <<web, action, image, plan, inbox, retries, saved, work, history, pc, cur, app, crashes>>

\* Faulty variant of Failed: maintenance ends whatever state the host is in.
FailedOpen ==
  /\ status' = "failed"
  /\ pc' = "done"
  /\ maintenance' = FALSE
  /\ UNCHANGED <<op, targetStarted, mayBeStopped, rollback, ready, used, reports>>

\* The handler of process for an operation that failed.
Failed ==
  /\ status' = "failed"
  /\ pc' = "done"
  /\ maintenance' = (maintenance /\ (targetStarted \/ mayBeStopped \/ action[cur] = "rollback"))
  /\ UNCHANGED <<op, targetStarted, mayBeStopped, rollback, ready, used, reports>>

Unchanged == UNCHANGED <<spool, work, history, cur, app, crashes>>

\* Every operation and every check may fail for reasons outside the model.
Fails ==
  /\ pc \in {"preflight", "install", "settle", "stage", "start", "verify", "restore", "restored",
             "rollback", "wait", "revert", "check"}
  /\ Failed
  /\ Unchanged

Preflight ==
  /\ Go("preflight", "done")
  /\ app # Down /\ jobs = 0
  /\ ready' = [ready EXCEPT ![cur] = app]
  /\ status' = "succeeded"
  /\ UNCHANGED <<op, maintenance, targetStarted, mayBeStopped, rollback, used, reports>>
  /\ Unchanged

\* install: the plan, then maintenance.
Lock ==
  /\ Go("install", "settle")
  /\ plan[cur] \notin used
  /\ maintenance' = TRUE
  /\ UNCHANGED <<op, status, targetStarted, mayBeStopped, rollback, ready, used, reports>>
  /\ Unchanged

\* Faulty variant of Recheck: jobs are counted without waiting.
RecheckAtOnce ==
  /\ Go("settle", "stage")
  /\ jobs = 0 /\ app # Down
  /\ app = ready[plan[cur]]
  /\ used' = used \cup {plan[cur]}
  /\ UNCHANGED <<op, status, maintenance, targetStarted, mayBeStopped, rollback, ready, reports>>
  /\ Unchanged

\* After the wait: no jobs, the image the plan was made for; the plan is used.
Recheck ==
  /\ Go("settle", "stage")
  /\ ~entering
  /\ jobs = 0 /\ app # Down
  /\ app = ready[plan[cur]]
  /\ used' = used \cup {plan[cur]}
  /\ UNCHANGED <<op, status, maintenance, targetStarted, mayBeStopped, rollback, ready, reports>>
  /\ Unchanged

\* Faulty variant of Retain: the image is looked up after the application was
\* stopped.
RetainAfterStop ==
  /\ Go("stage", "backup")
  /\ app' = Down /\ WebStops
  /\ rollback' = app'
  /\ mayBeStopped' = TRUE
  /\ UNCHANGED <<op, status, maintenance, targetStarted, ready, used, reports>>
  /\ UNCHANGED <<history, cur, crashes>>

\* The image is staged, the present one becomes the one to go back to.
Retain ==
  /\ Go("stage", "stop")
  /\ rollback' = app
  /\ mayBeStopped' = TRUE
  /\ UNCHANGED <<op, status, maintenance, targetStarted, ready, used, reports>>
  /\ Unchanged

Stop ==
  /\ Go("stop", "backup")
  /\ app' = Down
  /\ WebStops
  /\ UNCHANGED <<saved, history, cur, crashes>>

\* The data and the database are saved and the archives read back.
Backup ==
  /\ Go("backup", "load")
  /\ UNCHANGED <<spool, saved, work, history, cur, app, crashes>>

\* Faulty variant of Load: the start of the new image is recorded later.
LoadUnrecorded ==
  /\ Go("load", "start")
  /\ UNCHANGED <<op, status, maintenance, targetStarted, mayBeStopped, rollback, ready, used, reports>>
  /\ Unchanged

\* The image is loaded; that it will start is recorded first.
Load ==
  /\ Go("load", "start")
  /\ targetStarted' = TRUE
  /\ UNCHANGED <<op, status, maintenance, mayBeStopped, rollback, ready, used, reports>>
  /\ Unchanged

\* Stopping, backup or loading fails: the old application is to come back.
GiveUp ==
  /\ pc \in {"stop", "backup", "load"}
  /\ pc' = "restore"
  /\ UNCHANGED saved
  /\ Unchanged

Start ==
  /\ Go("start", "verify")
  /\ Runs(image[cur])
  /\ UNCHANGED <<saved, history, cur, crashes>>

Success ==
  /\ status' = "succeeded"
  /\ maintenance' = FALSE /\ mayBeStopped' = FALSE
  /\ proven' = app
  /\ UNCHANGED <<op, targetStarted, rollback, ready, used, reports, begun>>

\* The image, its health and the database are checked.
Verify ==
  /\ Go("verify", "done")
  /\ app # Down
  /\ Success
  /\ UNCHANGED <<spool, work, cur, app, crashes>>

Restore ==
  /\ Go("restore", "restored")
  /\ Runs(rollback)
  /\ UNCHANGED <<saved, history, cur, crashes>>

\* The old application is back: the operation has failed without harm.
Restored ==
  /\ Go("restored", "done")
  /\ status' = "failed"
  /\ maintenance' = FALSE /\ mayBeStopped' = FALSE
  /\ proven' = app
  /\ UNCHANGED <<op, targetStarted, rollback, ready, used, reports, begun>>
  /\ UNCHANGED <<spool, work, cur, app, crashes>>

\* rollback: there is an image to go back to.
LockRollback ==
  /\ Go("rollback", "wait")
  /\ rollback # Nothing
  /\ maintenance' = TRUE
  /\ UNCHANGED <<op, status, targetStarted, mayBeStopped, rollback, ready, used, reports>>
  /\ Unchanged

WaitIdle ==
  /\ Go("wait", "revert")
  /\ ~entering /\ jobs = 0 /\ app # Down
  /\ UNCHANGED saved
  /\ Unchanged

Revert ==
  /\ Go("revert", "check")
  /\ Runs(rollback)
  /\ UNCHANGED <<saved, history, cur, crashes>>

CheckReverted ==
  /\ Go("check", "done")
  /\ Success
  /\ UNCHANGED <<spool, work, cur, app, crashes>>

-----------------------------------------------------------------------------
(* Death and restart of the service *)

Crash ==
  /\ pc # "down" /\ crashes < MaxCrashes
  /\ pc' = "down"
  /\ cur' = Nothing
  /\ crashes' = crashes + 1
  /\ UNCHANGED <<spool, saved, work, history, app>>

\* The old application is brought back only when no new one was started.
MayRestore == maintenance /\ ~targetStarted /\ rollback # Nothing

\* Faulty variant of Interrupted: the record is left as it was found.
NotInterrupted == status' = status

\* An operation that was going on is over: it is never taken up again.
Interrupted == status' = IF status = "running" THEN "interrupted" ELSE status

\* __init__ finds no operation that was going on, or nothing to bring back.
Recover ==
  /\ Go("down", "idle")
  /\ ~(status = "running" /\ MayRestore)
  /\ Interrupted
  /\ UNCHANGED <<op, maintenance, targetStarted, mayBeStopped, rollback, ready, used, reports>>
  /\ Unchanged

\* It brings the retained image back and unlocks the appliance.
RecoverOld ==
  /\ Go("down", "idle")
  /\ status = "running" /\ MayRestore
  /\ Runs(rollback)
  /\ Interrupted
  /\ maintenance' = FALSE /\ mayBeStopped' = FALSE
  /\ proven' = rollback
  /\ UNCHANGED <<op, targetStarted, rollback, ready, used, reports, begun, cur, crashes>>

\* It tries to, in vain.
RecoverLocked ==
  /\ Go("down", "idle")
  /\ status = "running" /\ MayRestore
  /\ Interrupted
  /\ UNCHANGED <<op, maintenance, targetStarted, mayBeStopped, rollback, ready, used, reports>>
  /\ Unchanged

-----------------------------------------------------------------------------
Web(r) ==
  \/ \E i \in Images : AskPreflight(r, i)
  \/ \E p \in Requests : AskInstall(r, p)
  \/ AskRollback(r) \/ AskAgain(r) \/ TakeSlot(r) \/ Publish(r) \/ PublishFails(r)

Install ==
  Lock \/ Recheck \/ Retain \/ Stop \/ Backup \/ Load \/ GiveUp \/ Start \/ Verify \/ Restore \/ Restored

RollBack == LockRollback \/ WaitIdle \/ Revert \/ CheckReverted

Service ==
  \/ Claim \/ Accept \/ Release \/ Preflight \/ Install \/ RollBack \/ Fails
  \/ ExpireSlot \/ Recover \/ RecoverOld \/ RecoverLocked

Next ==
  \/ \E r \in Requests : Web(r)
  \/ JobEnters \/ JobQueued \/ JobEnds
  \/ Service
  \/ Crash

\* The service goes on with what it has to do, its supervisor starts it again,
\* and a thread that holds the slot publishes or gives it back.
Fairness ==
  /\ WF_vars(Service)
  /\ WF_vars(\E r \in Requests : Publish(r))

Spec     == Init /\ [][Next]_vars
FairSpec == Spec /\ Fairness

-----------------------------------------------------------------------------
(* Properties *)

\* A request is carried out at most once, sent again or cut short by a death
\* of the service as it may be (the reports make requests idempotent).
AtMostOnce == \A r \in Requests : begun[r] <= 1

\* While the application is stopped, or an image that was never verified runs,
\* the appliance stays locked for automation, through every failure and restart.
UnprovenStaysLocked == app # proven => maintenance

\* An image that was started and never verified is replaced by a rollback only:
\* neither a failure nor a restart of the service brings the old one back over
\* data the new one may have migrated.
StartedIsNotUndone ==
  [][app \notin {Down, proven} /\ app' # app => action[op] = "rollback" /\ status = "running"]_vars

\* The application is stopped only when it has no active job, although jobs are
\* submitted by threads that looked at maintenance before it began.
StopsOnlyIdle == [][app # Down /\ app' = Down => jobs = 0 /\ ~entering]_vars

\* Whoever holds the slot, and whatever operation goes on, comes to an end: at
\* some time the slot is free and no operation is reported as running, through
\* lost writers, failures and deaths of the service.
ComesToRest == lock \/ status = "running" ~> ~lock /\ status # "running"

\* A different image is started only by the install that was approved for it or
\* by a rollback that was confirmed.
ChangeNeedsApproval ==
  [][app' \notin {Down, app, proven} =>
       \/ action[op] = "install" /\ app' = image[op]
       \/ action[op] = "rollback" /\ app' = rollback]_vars
=============================================================================
