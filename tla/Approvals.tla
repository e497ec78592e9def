------------------------------ MODULE Approvals ------------------------------
(***************************************************************************)
(* Execution approvals (approvals.py) and the three guarded workflows that *)
(* may use one only once: unregistration of a Prism Element, the cluster   *)
(* storage standard, and the rotation of CVM and iDRAC passwords.          *)
(*                                                                         *)
(* A request thread checks the approval, submits a job and links the job   *)
(* to the approval, holding the submit lock of its workflow throughout; a  *)
(* worker takes the job, checks the approval again and writes to the       *)
(* target systems.  Storage faults may keep the link from being recorded,  *)
(* and the service may restart at any point.                               *)
(*                                                                         *)
(* The removal workflows (unregistration, storage standard) check again    *)
(* before each write, under the submit lock, and insist on the link.  The  *)
(* rotation checks once, outside that lock, and accepts an approval that   *)
(* is not linked yet.                                                      *)
(*                                                                         *)
(* A request names the approval it wants; that the approval binds the same *)
(* workflow, file and content, and that another administrator decided it,  *)
(* compares fields that never change and is left out.                      *)
(***************************************************************************)
EXTENDS Naturals, FiniteSets

CONSTANTS
  Ids,           \* approval requests that will ever be created
  Rotations,     \* those for the password rotation
  Subs,          \* submissions of a guarded workflow, and the jobs they make
  Nobody,        \* no submission
  MaxStored,     \* approvals the store keeps (MAX_STORED = 200)
  MaxWrites,     \* bound: writes of one job
  MaxRestarts,   \* bound: service restarts
  Faults         \* BOOLEAN: the store may fail when the link is recorded

ASSUME ApprovalAssumption ==
  /\ IsFiniteSet(Ids)
  /\ Rotations \subseteq Ids
  /\ Nobody \notin Subs
  /\ MaxStored \in Nat \ {0}
  /\ MaxWrites \in Nat
  /\ MaxRestarts \in Nat
  /\ Faults \in BOOLEAN

VARIABLES
  \* approvals.json
  stored,     \* approvals with a record
  born,       \* creation rank, 0 before it
  status,     \* a record's status; outside stored, the last one it had
  job,        \* its jobId
  late,       \* approvals whose expiresAt has passed
  timers,     \* approvals with an expiry timer in memory
  \* request threads
  want,       \* the approval a submission names
  step,       \* where its request thread is
  lock,       \* who holds the submit lock of each kind of workflow
  \* workers
  run,        \* where the job of a submission is
  busy,       \* who holds the execution lock of each kind of workflow
  \* history
  writes,     \* writes to target systems by a job
  overdue,    \* of these, those made when its approval was no longer good
  restarts

storeVars == <<stored, born, status, job, late, timers>>
reqVars   == <<want, step, lock>>
workVars  == <<run, busy, writes, overdue>>
vars      == <<storeVars, reqVars, workVars, restarts>>

Kinds   == {"removal", "rotation"}
Kind(a) == IF a \in Rotations THEN "rotation" ELSE "removal"
Decided == {"approved", "rejected", "expired"}

TypeOK ==
  /\ stored \subseteq Ids
  /\ born \in [Ids -> Nat]
  /\ status \in [Ids -> {"none", "pending"} \cup Decided]
  /\ job \in [Ids -> Subs \cup {Nobody}]
  /\ late \subseteq Ids
  /\ timers \subseteq Ids
  /\ want \in [Subs -> Ids]
  /\ step \in [Subs -> {"new", "checked", "submitted", "done"}]
  /\ lock \in [Kinds -> Subs \cup {Nobody}]
  /\ run \in [Subs -> {"none", "queued", "starting", "ready", "cleared", "ended"}]
  /\ busy \in [Kinds -> Subs \cup {Nobody}]
  /\ writes \in [Subs -> Nat]
  /\ overdue \in [Subs -> Nat]
  /\ restarts \in Nat

KindOf(s) == Kind(want[s])

-----------------------------------------------------------------------------
Init ==
  /\ stored = {}
  /\ born = [a \in Ids |-> 0]
  /\ status = [a \in Ids |-> "none"]
  /\ job = [a \in Ids |-> Nobody]
  /\ late = {}
  /\ timers = {}
  /\ want \in [Subs -> Ids]
  /\ step = [s \in Subs |-> "new"]
  /\ lock = [k \in Kinds |-> Nobody]
  /\ run = [s \in Subs |-> "none"]
  /\ busy = [k \in Kinds |-> Nobody]
  /\ writes = [s \in Subs |-> 0]
  /\ overdue = [s \in Subs |-> 0]
  /\ restarts = 0

-----------------------------------------------------------------------------
(* The store *)

\* _save keeps the newest records: the list is newest first.
Saved(S, at) == {a \in S : Cardinality({b \in S : at[b] > at[a]}) < MaxStored}

\* Faulty variant of Create: no expiry timer is started.
CreateUntimed(a) ==
  /\ born[a] = 0
  /\ born' = [born EXCEPT ![a] = 1 + Cardinality({b \in Ids : born[b] > 0})]
  /\ status' = [status EXCEPT ![a] = "pending"]
  /\ stored' = Saved(stored \cup {a}, born')
  /\ UNCHANGED <<job, late, timers, reqVars, workVars, restarts>>

\* create_request: a pending record and its timer.
Create(a) ==
  /\ born[a] = 0
  /\ born' = [born EXCEPT ![a] = 1 + Cardinality({b \in Ids : born[b] > 0})]
  /\ status' = [status EXCEPT ![a] = "pending"]
  /\ stored' = Saved(stored \cup {a}, born')
  /\ timers' = timers \cup {a}
  /\ UNCHANGED <<job, late, reqVars, workVars, restarts>>

Pending(a) == a \in stored /\ status[a] = "pending"

\* decide: only a record that is still pending; its expiry is not looked at.
Decide(a, decision) ==
  /\ Pending(a)
  /\ status' = [status EXCEPT ![a] = decision]
  /\ UNCHANGED <<stored, born, job, late, timers, reqVars, workVars, restarts>>

\* delete_approval.
Delete(a) ==
  /\ a \in stored
  /\ stored' = stored \ {a}
  /\ UNCHANGED <<born, status, job, late, timers, reqVars, workVars, restarts>>

\* The clock passes expiresAt.
Elapse(a) ==
  /\ born[a] > 0 /\ a \notin late
  /\ late' = late \cup {a}
  /\ UNCHANGED <<stored, born, status, job, timers, reqVars, workVars, restarts>>

\* Faulty variant of AutoExpire: it expires what was decided, too.
AutoExpireAny(a) ==
  /\ a \in timers \cap late
  /\ timers' = timers \ {a}
  /\ status' = [status EXCEPT ![a] = "expired"]
  /\ UNCHANGED <<stored, born, job, late, reqVars, workVars, restarts>>

\* _auto_expire, when the timer fires.
AutoExpire(a) ==
  /\ a \in timers \cap late
  /\ timers' = timers \ {a}
  /\ status' = IF Pending(a) THEN [status EXCEPT ![a] = "expired"] ELSE status
  /\ UNCHANGED <<stored, born, job, late, reqVars, workVars, restarts>>

\* What _workflow_approval_error asks of the record.
Good(a) == a \in stored /\ status[a] = "approved" /\ a \notin late

-----------------------------------------------------------------------------
(* Request threads: the submit lock is held from the check to the link. *)

\* Faulty variant of Unused: an approval may be used again.
UnusedOrNot(a) == TRUE

\* The last check of a submission: the approval has no job.
Unused(a) == job[a] = Nobody

CheckSubmission(s) ==
  /\ step[s] = "new"
  /\ lock[KindOf(s)] = Nobody
  /\ Good(want[s]) /\ Unused(want[s])
  /\ step' = [step EXCEPT ![s] = "checked"]
  /\ lock' = [lock EXCEPT ![KindOf(s)] = s]
  /\ UNCHANGED <<storeVars, want, workVars, restarts>>

\* submit of the job manager: the job is queued.
SubmitJob(s) ==
  /\ step[s] = "checked"
  /\ step' = [step EXCEPT ![s] = "submitted"]
  /\ run' = [run EXCEPT ![s] = "queued"]
  /\ UNCHANGED <<storeVars, want, lock, busy, writes, overdue, restarts>>

Leave(s) ==
  /\ step' = [step EXCEPT ![s] = "done"]
  /\ lock' = [lock EXCEPT ![KindOf(s)] = Nobody]

\* submit refuses (maintenance) or fails.
SubmitFails(s) ==
  /\ step[s] = "checked"
  /\ Leave(s)
  /\ UNCHANGED <<storeVars, want, workVars, restarts>>

\* Faulty variant of LinkJob: the identifiers are swapped.
LinkSwapped(s) ==
  LET a == want[s] IN
  /\ step[s] = "submitted"
  /\ job' = IF a \in stored THEN [job EXCEPT ![a] = a] ELSE job
  /\ Leave(s)
  /\ UNCHANGED <<stored, born, status, late, timers, want, workVars, restarts>>

\* link_job, which finds nothing to link when the record is gone.
LinkJob(s) ==
  LET a == want[s] IN
  /\ step[s] = "submitted"
  /\ job' = IF a \in stored THEN [job EXCEPT ![a] = s] ELSE job
  /\ Leave(s)
  /\ UNCHANGED <<stored, born, status, late, timers, want, workVars, restarts>>

\* Faulty variant of LinkFails: the lock is not released on a fault.
LinkFailsLocked(s) ==
  /\ Faults
  /\ step[s] = "submitted"
  /\ step' = [step EXCEPT ![s] = "done"]
  /\ UNCHANGED <<storeVars, want, lock, workVars, restarts>>

\* The store fails: the job is queued, the approval looks unused.
LinkFails(s) ==
  /\ Faults
  /\ step[s] = "submitted"
  /\ Leave(s)
  /\ UNCHANGED <<storeVars, want, workVars, restarts>>

-----------------------------------------------------------------------------
(* Workers *)

End(s) ==
  /\ run' = [run EXCEPT ![s] = "ended"]
  /\ busy' = [k \in Kinds |-> IF busy[k] = s THEN Nobody ELSE busy[k]]

\* The execution lock is tried, not waited for.
Start(s) ==
  /\ run[s] = "queued"
  /\ IF busy[KindOf(s)] = Nobody
       THEN /\ run' = [run EXCEPT ![s] = "starting"]
            /\ busy' = [busy EXCEPT ![KindOf(s)] = s]
       ELSE End(s)
  /\ UNCHANGED <<storeVars, reqVars, writes, overdue, restarts>>

\* Faulty variant of Owned: a worker accepts an approval with no job.
OwnedOrUnlinked(s) == job[want[s]] \in {s, Nobody}

\* The worker's check: the approval is linked to this very job; a rotation is
\* content with one that is linked to no job.
Owned(s) ==
  IF KindOf(s) = "removal" THEN job[want[s]] = s ELSE job[want[s]] \in {s, Nobody}

\* A removal checks under the submit lock.
MayCheck(s) == KindOf(s) = "removal" => lock["removal"] = Nobody

\* The check at the start of the job.
Admit(s) ==
  /\ run[s] = "starting"
  /\ MayCheck(s)
  /\ IF Good(want[s]) /\ Owned(s)
       THEN run' = [run EXCEPT ![s] = "ready"] /\ UNCHANGED busy
       ELSE End(s)
  /\ UNCHANGED <<storeVars, reqVars, writes, overdue, restarts>>

\* Faulty variant of Authorize: nothing is checked before a write.
AuthorizeNothing(s) ==
  /\ run[s] = "ready" /\ KindOf(s) = "removal"
  /\ run' = [run EXCEPT ![s] = "cleared"]
  /\ UNCHANGED <<storeVars, reqVars, busy, writes, overdue, restarts>>

\* authorize(): a removal checks again before each write.
Authorize(s) ==
  /\ run[s] = "ready" /\ KindOf(s) = "removal"
  /\ MayCheck(s)
  /\ IF Good(want[s]) /\ Owned(s)
       THEN run' = [run EXCEPT ![s] = "cleared"] /\ UNCHANGED busy
       ELSE End(s)
  /\ UNCHANGED <<storeVars, reqVars, writes, overdue, restarts>>

\* One write to a target system: unregister, create, delete, change password.
Write(s) ==
  /\ run[s] = IF KindOf(s) = "removal" THEN "cleared" ELSE "ready"
  /\ writes[s] < MaxWrites
  /\ run' = [run EXCEPT ![s] = "ready"]
  /\ writes' = [writes EXCEPT ![s] = @ + 1]
  /\ overdue' = IF Good(want[s]) THEN overdue ELSE [overdue EXCEPT ![s] = @ + 1]
  /\ UNCHANGED <<storeVars, reqVars, busy, restarts>>

\* The job is done, failed, was cancelled or ran out of time.
Finish(s) ==
  /\ run[s] \in {"ready", "cleared"}
  /\ End(s)
  /\ UNCHANGED <<storeVars, reqVars, writes, overdue, restarts>>

\* A restart interrupts every job and loses requests, locks and timers.
Restart ==
  /\ restarts < MaxRestarts
  /\ restarts' = restarts + 1
  /\ timers' = {}
  /\ step' = [s \in Subs |-> IF step[s] = "new" THEN "new" ELSE "done"]
  /\ lock' = [k \in Kinds |-> Nobody]
  /\ run' = [s \in Subs |-> IF run[s] = "none" THEN "none" ELSE "ended"]
  /\ busy' = [k \in Kinds |-> Nobody]
  /\ UNCHANGED <<stored, born, status, job, late, want, writes, overdue>>

-----------------------------------------------------------------------------
Store(a) ==
  \/ Create(a) \/ Delete(a) \/ Elapse(a) \/ AutoExpire(a)
  \/ \E decision \in {"approved", "rejected"} : Decide(a, decision)

Submit(s) == CheckSubmission(s) \/ SubmitJob(s) \/ SubmitFails(s) \/ LinkJob(s) \/ LinkFails(s)

Work(s) == Start(s) \/ Admit(s) \/ Authorize(s) \/ Write(s) \/ Finish(s)

Next ==
  \/ \E a \in Ids : Store(a)
  \/ \E s \in Subs : Submit(s) \/ Work(s)
  \/ Restart

\* A request or a job that was begun goes on, and a timer that is due fires.
Fairness ==
  /\ \A a \in Ids : WF_vars(AutoExpire(a))
  /\ \A s \in Subs : /\ WF_vars(SubmitJob(s) \/ LinkJob(s))
                    /\ WF_vars(Start(s) \/ Admit(s) \/ Authorize(s) \/ Finish(s))

Spec     == Init /\ [][Next]_vars
FairSpec == Spec /\ Fairness

-----------------------------------------------------------------------------
(* Properties *)

\* An approval of a removal lets one job write to the target systems, however
\* submissions race, links fail or the service restarts (the check, the
\* submission and the link are one critical section, and the worker insists on
\* the link).
SingleUse ==
  \A s, t \in Subs :
    s # t /\ want[s] = want[t] /\ Kind(want[s]) = "removal" => writes[s] = 0 \/ writes[t] = 0

\* The same for a password rotation.
RotationSingleUse ==
  \A s, t \in Subs :
    s # t /\ want[s] = want[t] /\ Kind(want[s]) = "rotation" => writes[s] = 0 \/ writes[t] = 0

\* Once its approval was deleted, pushed out of the store or ran out, a removal
\* completes at most the write it had already been cleared for.
RevocationStopsWrites == \A s \in Subs : KindOf(s) = "removal" => overdue[s] <= 1

\* A decision stands, whatever timers fire later.
DecisionIsFinal ==
  [][\A a \in Ids : status[a] \in Decided => status'[a] = status[a]]_vars

\* A request that nobody decides does not stay pending past its time, in the
\* process that took it: a restart loses the timers.
PendingExpires == \A a \in Ids : Pending(a) /\ a \in late ~> ~Pending(a) \/ restarts > 0

\* A job that was queued ends: the submit lock a worker waits for is released.
GuardedJobEnds == \A s \in Subs : run[s] = "queued" ~> run[s] = "ended"
=============================================================================
