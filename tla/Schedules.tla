----------------------------- MODULE Schedules -----------------------------
(***************************************************************************)
(* The schedule engine (scheduler.py) and the execution of a scheduled     *)
(* workflow (_sched_run_callback of server.py).  The stored list is only   *)
(* touched under the engine's lock; the triggers of APScheduler are added  *)
(* and removed outside it, with a copy of the schedule taken inside, so a  *)
(* request goes through several steps between which others run.            *)
(***************************************************************************)
EXTENDS History

CONSTANTS Schedules,    \* identifiers: a new one for every creation
          Calls,        \* request threads
          Firings,      \* executions started by a trigger, a poll or run-now
          None

VARIABLES stored,       \* stored[s]: the saved schedule, or None
          last,         \* last[s]: its last status
          used,         \* identifiers given so far
          edition,      \* number of the latest saved edit
          backed,       \* APScheduler is installed; otherwise the list is polled
          triggers,     \* triggers[s]: the copy its registered trigger will run
          calls,        \* calls[c]: where request c stands
          firings,      \* firings[f]: where execution f stands
          overlapped    \* schedules the latest requests for which ran at once
scheduleVars == <<stored, last, used, edition, backed, triggers, calls, firings, overlapped>>

\* A cron expression of five fields may still be one APScheduler refuses.
Copies == [edition : Nat, enabled : BOOLEAN, cronOk : BOOLEAN]

ASSUME SchedulesAssumption == None \notin Schedules /\ None \notin Copies

Outcomes == {"success", "failed", "error"}

NoCall   == [at |-> "idle", on |-> None, copy |-> None]
NoFiring == [at |-> "new", on |-> None, copy |-> None, by |-> None, status |-> None]

Unfinished(s) == {c \in Calls : calls[c].on = s}
Under(at) == {f \in Firings : firings[f].at = at}

SchedulesInit ==
  /\ stored = [s \in Schedules |-> None]
  /\ last = [s \in Schedules |-> None]
  /\ used = {} /\ edition = 0 /\ overlapped = {}
  /\ backed \in BOOLEAN
  /\ triggers = [s \in Schedules |-> None]
  /\ calls = [c \in Calls |-> NoCall]
  /\ firings = [f \in Firings |-> NoFiring]

Edit(enabled, cronOk) == [edition |-> edition + 1, enabled |-> enabled, cronOk |-> cronOk]

\* Request c for schedule s starts and has `at` as its next step.
Begin(c, s, at, copy) ==
  /\ calls[c] = NoCall
  /\ calls' = [calls EXCEPT ![c] = [at |-> at, on |-> s, copy |-> copy]]
  /\ overlapped' = IF Unfinished(s) = {} THEN overlapped \ {s} ELSE overlapped \cup {s}

GoTo(c, at) == calls' = [calls EXCEPT ![c].at = at]
Return(c) == calls' = [calls EXCEPT ![c] = NoCall]

\* _register_job: an expression that is refused is logged and leaves things as
\* they are; a trigger that is there already is replaced.
Registered(s, copy) ==
  IF backed /\ copy.cronOk THEN [triggers EXCEPT ![s] = copy] ELSE triggers

\* The trigger start() gives a stored schedule.
Due(s) == IF backed /\ stored[s] # None /\ stored[s].enabled /\ stored[s].cronOk
          THEN stored[s] ELSE None

\* create_schedule: saved under the lock, registered after it.
Create(c, s, enabled, cronOk) ==
  /\ s \notin used
  /\ LET new == Edit(enabled, cronOk)
     IN  /\ stored' = [stored EXCEPT ![s] = new]
         /\ IF enabled THEN Begin(c, s, "register", new)
                       ELSE calls[c] = NoCall /\ UNCHANGED <<calls, overlapped>>
  /\ used' = used \cup {s} /\ edition' = edition + 1
  /\ UNCHANGED <<last, backed, triggers, firings>>

\* update_schedule: saved under the lock; the trigger is removed and, if the
\* schedule is enabled, added again after it.
Update(c, s, enabled, cronOk) ==
  /\ stored[s] # None
  /\ LET new == Edit(enabled, cronOk)
     IN  /\ stored' = [stored EXCEPT ![s] = new]
         /\ Begin(c, s, "unregister", new)
  /\ edition' = edition + 1
  /\ UNCHANGED <<last, used, backed, triggers, firings>>

\* Variant: the trigger of a schedule that is disabled stays.
KeepTrigger(c) ==
  /\ calls[c].at = "unregister"
  /\ IF calls[c].copy.enabled THEN GoTo(c, "register") ELSE Return(c)
  /\ UNCHANGED <<stored, last, used, edition, backed, triggers, firings, overlapped>>

Unregister(c) ==
  /\ calls[c].at = "unregister"
  /\ triggers' = [triggers EXCEPT ![calls[c].on] = None]
  /\ IF calls[c].copy.enabled THEN GoTo(c, "register") ELSE Return(c)
  /\ UNCHANGED <<stored, last, used, edition, backed, firings, overlapped>>

Register(c) ==
  /\ calls[c].at = "register"
  /\ triggers' = Registered(calls[c].on, calls[c].copy)
  /\ Return(c)
  /\ UNCHANGED <<stored, last, used, edition, backed, firings, overlapped>>

\* delete_schedule: the trigger first, then the record under the lock.
Delete(c, s) ==
  /\ s \in used
  /\ triggers' = [triggers EXCEPT ![s] = None]
  /\ Begin(c, s, "remove", None)
  /\ UNCHANGED <<stored, last, used, edition, backed, firings>>

Remove(c) ==
  /\ calls[c].at = "remove"
  /\ stored' = [stored EXCEPT ![calls[c].on] = None]
  /\ Return(c)
  /\ UNCHANGED <<last, used, edition, backed, triggers, firings, overlapped>>

(***************************************************************************)
(* Executions.  They run the copy they were started with.                  *)
(***************************************************************************)
Fire(f, s, by, copy) ==
  /\ firings[f] = NoFiring
  /\ firings' = [firings EXCEPT ![f] =
       [at |-> "running", on |-> s, copy |-> copy, by |-> by, status |-> None]]
  /\ UNCHANGED <<stored, last, used, edition, backed, triggers, calls, overlapped>>

RunNow(f, s) == stored[s] # None /\ Fire(f, s, "request", stored[s])

\* APScheduler starts no second execution of a job that is still running.
TriggerFires(f, s) ==
  /\ triggers[s] # None
  /\ \A g \in Firings : ~(firings[g].by = "trigger" /\ firings[g].on = s
                            /\ firings[g].at \notin {"ended", "lost"})
  /\ Fire(f, s, "trigger", triggers[s])

\* _poll_tick, the fallback: whatever is stored, enabled and due is started.
PollFires(f, s) ==
  /\ ~backed /\ stored[s] # None /\ stored[s].enabled /\ stored[s].cronOk
  /\ Fire(f, s, "poll", stored[s])

\* The callback ends with a status: refused before anything is started, or run
\* (and killed at the time limit).  Whatever it was, it is recorded.
Settle(f, at, status) ==
  /\ firings' = [firings EXCEPT ![f].at = at, ![f].status = status]
  /\ UNCHANGED <<stored, last, used, edition, backed, triggers, calls, overlapped>>

\* Variant: a refused execution returns before it is recorded.
RefuseSilently(f) == f \in Under("running") /\ Settle(f, "reporting", "failed")
Refuse(f) == f \in Under("running") /\ Settle(f, "recording", "failed")
Execute(f) ==
  /\ f \in Under("running")
  /\ \E status \in {"success", "failed"} : Settle(f, "recording", status)

\* An exception of the callback is caught by _fire; nothing is recorded.
Raise(f) == f \in Under("running") /\ Settle(f, "reporting", "error")

RecordFiring(f) ==
  /\ f \in Under("recording")
  /\ IF reading[f] = NotReading
     THEN ReadHistory(f) /\ UNCHANGED scheduleVars
     ELSE WriteHistory(f) /\ Settle(f, "reporting", firings[f].status)

\* The end of _fire: the status goes to the stored record of that identifier, if
\* there is one, under the lock.
Report(f) ==
  /\ f \in Under("reporting")
  /\ LET s == firings[f].on
     IN  last' = IF stored[s] = None THEN last ELSE [last EXCEPT ![s] = firings[f].status]
  /\ firings' = [firings EXCEPT ![f].at = "ended"]
  /\ UNCHANGED <<stored, used, edition, backed, triggers, calls, overlapped>>

\* The process ends and start() registers what is stored and enabled.
SchedulesRestart ==
  /\ calls' = [c \in Calls |-> NoCall]
  /\ firings' = [f \in Firings |-> IF firings[f].at \in {"new", "ended"} THEN firings[f]
                                   ELSE [firings[f] EXCEPT !.at = "lost"]]
  /\ triggers' = [s \in Schedules |-> Due(s)]
  /\ overlapped' = {}
  /\ UNCHANGED <<stored, last, used, edition, backed>>

ScheduleRequest ==
  \E c \in Calls, s \in Schedules :
    \/ \E enabled, cronOk \in BOOLEAN : Create(c, s, enabled, cronOk) \/ Update(c, s, enabled, cronOk)
    \/ Delete(c, s)
ScheduleFires == \E f \in Firings, s \in Schedules : RunNow(f, s) \/ TriggerFires(f, s) \/ PollFires(f, s)
ScheduleStep ==
  \/ \E c \in Calls : Unregister(c) \/ Register(c) \/ Remove(c)
  \/ \E f \in Firings : Refuse(f) \/ Execute(f) \/ Raise(f) \/ Report(f)

SchedulesTypeOK ==
  /\ stored \in [Schedules -> Copies \cup {None}]
  /\ triggers \in [Schedules -> Copies \cup {None}]
  /\ last \in [Schedules -> Outcomes \cup {None}]
  /\ used \subseteq Schedules /\ edition \in Nat /\ backed \in BOOLEAN
  /\ calls \in [Calls -> [at : {"idle", "register", "unregister", "remove"},
                          on : Schedules \cup {None}, copy : Copies \cup {None}]]
  /\ firings \in [Firings -> [at : {"new", "running", "recording", "reporting", "ended", "lost"},
                              on : Schedules \cup {None}, copy : Copies \cup {None},
                              by : {"request", "trigger", "poll", None},
                              status : Outcomes \cup {None}]]
  /\ overlapped \subseteq Schedules

\* What fires is what is stored: once no request is under way for a schedule, it
\* has a trigger exactly when it exists and is enabled, with its latest content.
\* A schedule whose latest requests ran at once is exempt: an update that has
\* saved may register after a delete, or after a later update.  One request on
\* its own, or a restart, puts it right again.
RegistrationFollowsStore ==
  \A s \in Schedules : Unfinished(s) = {} /\ s \notin overlapped =>
    triggers[s] = Due(s)
=============================================================================
