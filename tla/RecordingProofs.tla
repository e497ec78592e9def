-------------------------- MODULE RecordingProofs --------------------------
(***************************************************************************)
(* Lemmas about the components that record in the execution history, for   *)
(* any number of schedules, requests, executions and files: what each of   *)
(* their steps keeps.  AutomationProofs puts them together.                *)
(*                                                                         *)
(* The argument, for schedules: as long as no two requests for a schedule  *)
(* overlap, its trigger is none from the moment a request removed it until *)
(* the request registers what it saved (Consistent).  For pipelines: what  *)
(* a step that has a copy will be given was accepted by its own validator  *)
(* (Validated).  For the history: an entry nobody excuses is in the stored *)
(* list and in every list that was read and not yet written (HistoryInv).  *)
(***************************************************************************)
EXTENDS Schedules, Pipelines, SequenceTheorems, TLAPS

(***************************************************************************)
(* The history.                                                            *)
(***************************************************************************)
HistoryInv ==
  /\ history \in Seq(Recorders) /\ Len(history) <= MaxHistory
  /\ reading \in [Recorders -> Seq(Recorders) \cup {NotReading}]
  /\ \A x \in Readers : Len(reading[x]) <= MaxHistory
  /\ excused \subseteq Recorders
  /\ \A x \in Readers : /\ EntriesOf(history) \ excused \subseteq EntriesOf(reading[x])
                        /\ EntriesOf(reading[x]) \subseteq EntriesOf(history) \cup excused

\* What is recorded or excused.
Settled == EntriesOf(history) \cup excused

\* Extending a list keeps its type and its bound, puts the new entry into it
\* and brings nothing else.
LEMMA ExtendedList ==
  ASSUME NEW x \in Recorders, NEW list \in Seq(Recorders), Len(list) <= MaxHistory
  PROVE  /\ Extended(x, list) \in Seq(Recorders)
         /\ Len(Extended(x, list)) <= MaxHistory
         /\ x \in EntriesOf(Extended(x, list))
         /\ EntriesOf(Extended(x, list)) \subseteq {x} \cup EntriesOf(list)
<1> DEFINE n == IF Len(list) < MaxHistory THEN Len(list) + 1 ELSE MaxHistory
           whole == <<x>> \o list
<1>1. /\ n \in Nat /\ 1 <= n /\ n <= MaxHistory /\ n <= Len(list) + 1
  BY HistoryAssumption
<1>2. /\ whole \in Seq(Recorders) /\ Len(whole) = Len(list) + 1
      /\ whole[1] = x /\ \A i \in 2 .. Len(whole) : whole[i] = list[i - 1]
  OBVIOUS
<1>3. /\ Extended(x, list) \in Seq(Recorders)
      /\ Len(Extended(x, list)) = n
      /\ \A i \in 1 .. n : Extended(x, list)[i] = whole[i]
  BY <1>1, <1>2, SubSeqProperties DEF Extended
<1> HIDE DEF n, whole
<1>4. DOMAIN Extended(x, list) = 1 .. n /\ DOMAIN list = 1 .. Len(list)
  BY <1>3, <1>1
<1>5. x \in EntriesOf(Extended(x, list))
  BY <1>1, <1>2, <1>3, <1>4 DEF EntriesOf
<1>6. ASSUME NEW i \in 1 .. n PROVE whole[i] \in {x} \cup EntriesOf(list)
  <2>1. CASE i = 1 BY <2>1, <1>2
  <2>2. CASE i # 1
    <3>1. i \in 2 .. Len(whole) /\ i - 1 \in DOMAIN list BY <2>2, <1>1, <1>2, <1>4
    <3> QED BY <3>1, <1>2 DEF EntriesOf
  <2> QED BY <2>1, <2>2
<1> QED BY <1>1, <1>3, <1>4, <1>5, <1>6 DEF EntriesOf

\* Reading the history.
LEMMA ReadKeeps ==
  ASSUME HistoryInv, NEW x \in Recorders, ReadHistory(x)
  PROVE  HistoryInv' /\ Settled' = Settled
BY DEF HistoryInv, ReadHistory, Readers, Settled, EntriesOf

\* Writing it back: whatever was settled stays so, and the writer's entry is in it.
LEMMA WriteKeeps ==
  ASSUME HistoryInv, NEW x \in Recorders, WriteHistory(x)
  PROVE  HistoryInv' /\ Settled \subseteq Settled' /\ x \in Settled'
<1>1. x \in Readers /\ reading[x] \in Seq(Recorders) /\ Len(reading[x]) <= MaxHistory
  BY DEF HistoryInv, WriteHistory, Readers
<1>2. /\ history' \in Seq(Recorders) /\ Len(history') <= MaxHistory
      /\ x \in EntriesOf(history')
      /\ EntriesOf(history') \subseteq {x} \cup EntriesOf(reading[x])
  BY <1>1, ExtendedList DEF WriteHistory
<1>3. /\ Readers' = Readers \ {x}
      /\ \A y \in Readers' : reading'[y] = reading[y]
      /\ reading' \in [Recorders -> Seq(Recorders) \cup {NotReading}]
  BY <1>1 DEF HistoryInv, WriteHistory, Readers
<1>4. /\ excused' = excused \cup (EntriesOf(reading[x]) \ EntriesOf(history'))
                            \cup (IF Readers # {x} THEN {x} ELSE {})
  BY DEF WriteHistory
<1>5. EntriesOf(reading[x]) \subseteq Recorders
  BY <1>1 DEF EntriesOf
<1>6. ASSUME NEW y \in Readers'
      PROVE  /\ EntriesOf(history') \ excused' \subseteq EntriesOf(reading[y])
             /\ EntriesOf(reading[y]) \subseteq EntriesOf(history') \cup excused'
  <2>1. y \in Readers /\ Readers # {x} BY <1>3
  <2>2. x \in excused' BY <2>1, <1>4
  <2> HIDE DEF Readers
  <2> QED BY <2>1, <2>2, <1>1, <1>2, <1>4 DEF HistoryInv
<1>7. Settled \subseteq Settled' /\ x \in Settled'
  BY <1>1, <1>2, <1>4 DEF HistoryInv, Settled
<1>8. \A y \in Readers' : Len(reading'[y]) <= MaxHistory BY <1>3 DEF HistoryInv
<1>9. excused' \subseteq Recorders BY <1>4, <1>5 DEF HistoryInv
<1> QED BY <1>2, <1>3, <1>6, <1>7, <1>8, <1>9 DEF HistoryInv

\* Clearing it, or losing the process in the middle of it.
LEMMA ClearKeeps ==
  ASSUME HistoryInv, ClearHistory
  PROVE  HistoryInv' /\ Settled \subseteq Settled'
<1>1. history' \in Seq(Recorders) /\ Len(history') = 0 /\ EntriesOf(history') = {}
  BY DEF ClearHistory, EntriesOf
<1>2. EntriesOf(history) \subseteq Recorders BY DEF HistoryInv, EntriesOf
<1>3. Readers' = Readers /\ reading' = reading /\ excused' = excused \cup EntriesOf(history)
  BY DEF ClearHistory, Readers
<1> QED BY <1>1, <1>2, <1>3, HistoryAssumption DEF HistoryInv, Settled

LEMMA HistoryRestartKeeps ==
  ASSUME HistoryInv, HistoryRestart
  PROVE  HistoryInv' /\ Settled' = Settled
BY DEF HistoryInv, HistoryRestart, Readers, Settled, EntriesOf

LEMMA HistoryStutters ==
  ASSUME HistoryInv, UNCHANGED historyVars
  PROVE  HistoryInv' /\ Settled' = Settled
BY DEF HistoryInv, historyVars, Readers, Settled, EntriesOf

(***************************************************************************)
(* Schedules.                                                              *)
(***************************************************************************)

CallRecords == [at : {"idle", "register", "unregister", "remove"},
                on : Schedules \cup {None}, copy : Copies \cup {None}]

FiringRecords == [at : {"new", "running", "recording", "reporting", "ended", "lost"},
                  on : Schedules \cup {None}, copy : Copies \cup {None},
                  by : {"request", "trigger", "poll", None},
                  status : Outcomes \cup {None}]

\* A request that is under way is for a schedule that was created, and carries
\* what it saved; what was never created has nothing.
CallsFit ==
  /\ \A c \in Calls : calls[c].at = "idle" <=> calls[c].on = None
  /\ \A c \in Calls : calls[c].on # None => calls[c].on \in used
  /\ \A c \in Calls : calls[c].at \in {"register", "unregister"} => calls[c].copy \in Copies
  /\ \A s \in Schedules \ used : stored[s] = None /\ triggers[s] = None

\* Request c is the only one for schedule s, and everything is in its place for
\* the step it stands before.
AloneAt(c, s) ==
  /\ \A d \in Calls : calls[d].on = s <=> d = c
  /\ \/ calls[c].at = "unregister" /\ calls[c].copy = stored[s]
     \/ calls[c].at = "register" /\ calls[c].copy = stored[s] /\ calls[c].copy.enabled
          /\ triggers[s] = None
     \/ calls[c].at = "remove" /\ triggers[s] = None

Quiet(s) == \A c \in Calls : calls[c].on # s

Consistent ==
  \A s \in Schedules : \/ s \in overlapped
                       \/ Quiet(s) /\ triggers[s] = Due(s)
                       \/ \E c \in Calls : AloneAt(c, s)

SchedulesInv == SchedulesTypeOK /\ CallsFit /\ Consistent

SchedulesAct ==
  \/ ScheduleRequest \/ ScheduleFires \/ ScheduleStep
  \/ \E f \in Firings : RecordFiring(f)
  \/ SchedulesRestart
  \/ UNCHANGED scheduleVars

\* Whether requests for a schedule are under way is all Unfinished is asked for.
LEMMA QuietIsFinished == \A s \in Schedules : Unfinished(s) = {} <=> Quiet(s)
BY DEF Unfinished, Quiet

LEMMA SchedulesStart == ASSUME SchedulesInit PROVE SchedulesInv
<1>1. SchedulesTypeOK BY DEF SchedulesInit, SchedulesTypeOK, NoCall, NoFiring
<1>2. CallsFit BY DEF SchedulesInit, CallsFit, NoCall
<1>3. Consistent BY SchedulesAssumption DEF SchedulesInit, Consistent, Quiet, Due, NoCall
<1> QED BY <1>1, <1>2, <1>3 DEF SchedulesInv

\* An execution touches neither the list nor the triggers nor the requests.
LEMMA ExecutionsKeep ==
  ASSUME SchedulesInv, UNCHANGED <<stored, used, triggers, calls, overlapped, backed>>
  PROVE  CallsFit' /\ Consistent'
BY DEF SchedulesInv, CallsFit, Consistent, AloneAt, Quiet, Due

\* A request that begins: the other schedules are as they were.
LEMMA BeginKeeps ==
  ASSUME SchedulesInv, NEW c \in Calls, NEW s \in Schedules, NEW at, NEW copy,
         Begin(c, s, at, copy), s \in used',
         at \in {"register", "unregister", "remove"},
         at # "remove" => copy \in Copies,
         \A t \in Schedules \ {s} :
           stored'[t] = stored[t] /\ triggers'[t] = triggers[t],
         used' \in {used, used \cup {s}}, backed' = backed,
         AloneAt(c, s)' \/ Unfinished(s) # {}
  PROVE  CallsFit' /\ Consistent'
<1>1. /\ calls[c] = NoCall
      /\ calls' = [calls EXCEPT ![c] = [at |-> at, on |-> s, copy |-> copy]]
      /\ overlapped' = IF Unfinished(s) = {} THEN overlapped \ {s} ELSE overlapped \cup {s}
      /\ calls[c].on = None
  BY DEF Begin, NoCall
<1>2. calls \in [Calls -> CallRecords]
  BY DEF SchedulesInv, SchedulesTypeOK, CallRecords
<1>3. /\ calls'[c].at = at /\ calls'[c].on = s /\ calls'[c].copy = copy
      /\ \A d \in Calls \ {c} : calls'[d] = calls[d]
  BY <1>1, <1>2
<1>4. CallsFit'
  BY <1>1, <1>3, SchedulesAssumption DEF SchedulesInv, CallsFit
<1>5. ASSUME NEW t \in Schedules, t # s
      PROVE  (t \in overlapped \/ (Quiet(t) /\ triggers[t] = Due(t))
                \/ \E d \in Calls : AloneAt(d, t))'
  <2>1. t \in overlapped <=> t \in overlapped' BY <1>1, <1>5
  <2>2. CASE t \in overlapped BY <2>1, <2>2
  <2>3. CASE Quiet(t) /\ triggers[t] = Due(t)
    BY <2>3, <1>1, <1>3, <1>5 DEF Quiet, Due
  <2>4. CASE \E d \in Calls : AloneAt(d, t)
    <3>1. PICK d \in Calls : AloneAt(d, t) BY <2>4
    <3>2. d # c BY <3>1, <1>1, <1>5, SchedulesAssumption DEF AloneAt
    <3>3. AloneAt(d, t)' BY <3>1, <3>2, <1>3, <1>5 DEF AloneAt
    <3> QED BY <3>3
  <2> QED BY <2>2, <2>3, <2>4, <1>5 DEF SchedulesInv, Consistent
<1>6. (s \in overlapped \/ \E d \in Calls : AloneAt(d, s))'
  BY <1>1
<1> QED BY <1>4, <1>5, <1>6 DEF Consistent

\* A step of a request that is under way: it may end the request or go on, and
\* touches its own schedule only.
LEMMA CallKeeps ==
  ASSUME SchedulesInv, NEW c \in Calls, NEW s \in Schedules,
         calls[c].at # "idle", calls[c].on = s,
         \A t \in Schedules \ {s} :
           stored'[t] = stored[t] /\ triggers'[t] = triggers[t],
         UNCHANGED <<used, backed, overlapped>>,
         Return(c) \/ (GoTo(c, "register") /\ calls[c].at = "unregister"),
         AloneAt(c, s) =>
           \/ Return(c) /\ triggers'[s] = Due(s)'
           \/ GoTo(c, "register") /\ AloneAt(c, s)'
  PROVE  CallsFit' /\ Consistent'
<1>1. calls \in [Calls -> CallRecords]
  BY DEF SchedulesInv, SchedulesTypeOK, CallRecords
<1>2. \A d \in Calls \ {c} : calls'[d] = calls[d]
  BY <1>1 DEF Return, GoTo
<1>3. \/ calls'[c].at = "idle" /\ calls'[c].on = None /\ Return(c)
      \/ /\ calls'[c].at = "register" /\ calls'[c].on = s /\ calls'[c].copy = calls[c].copy
         /\ GoTo(c, "register") /\ calls[c].at = "unregister"
  BY <1>1 DEF Return, GoTo, NoCall, CallRecords
<1>4. s \in used BY SchedulesAssumption DEF SchedulesInv, CallsFit
<1>5. CallsFit'
  BY <1>2, <1>3, <1>4 DEF SchedulesInv, CallsFit
<1>6. ASSUME NEW t \in Schedules, t # s
      PROVE  (t \in overlapped \/ (Quiet(t) /\ triggers[t] = Due(t))
                \/ \E d \in Calls : AloneAt(d, t))'
  <2>1. CASE t \in overlapped BY <2>1
  <2>2. CASE Quiet(t) /\ triggers[t] = Due(t)
    BY <2>2, <1>2, <1>3, <1>6, SchedulesAssumption DEF Quiet, Due
  <2>3. CASE \E d \in Calls : AloneAt(d, t)
    <3>1. PICK d \in Calls : AloneAt(d, t) BY <2>3
    <3>2. d # c BY <3>1, <1>6 DEF AloneAt
    <3>3. AloneAt(d, t)' BY <3>1, <3>2, <1>2, <1>3, <1>6, SchedulesAssumption DEF AloneAt
    <3> QED BY <3>3
  <2> QED BY <2>1, <2>2, <2>3 DEF SchedulesInv, Consistent
<1>7. (s \in overlapped \/ (Quiet(s) /\ triggers[s] = Due(s)) \/ \E d \in Calls : AloneAt(d, s))'
  <2>1. CASE s \in overlapped BY <2>1
  <2>2. CASE AloneAt(c, s)
    <3>1. CASE Return(c) /\ triggers'[s] = Due(s)'
      <4>1. \A d \in Calls : calls'[d].on # s
        BY <3>1, <2>2, <1>1, <1>2, SchedulesAssumption DEF AloneAt, Return, NoCall
      <4> QED BY <4>1, <3>1 DEF Quiet
    <3>2. CASE GoTo(c, "register") /\ AloneAt(c, s)' BY <3>2
    <3> QED BY <2>2, <3>1, <3>2
  <2>3. ~(Quiet(s) /\ triggers[s] = Due(s)) BY DEF Quiet
  <2>4. \A d \in Calls : AloneAt(d, s) => d = c BY DEF AloneAt
  <2> QED BY <2>1, <2>2, <2>3, <2>4 DEF SchedulesInv, Consistent
<1> QED BY <1>5, <1>6, <1>7 DEF Consistent

\* Every step keeps the types of the variables of the schedules.
LEMMA SchedulesTyping == ASSUME SchedulesTypeOK, SchedulesAct PROVE SchedulesTypeOK'
<1> USE DEF SchedulesTypeOK, Outcomes, CallRecords, FiringRecords
<1>1. ASSUME NEW c \in Calls, NEW s \in Schedules, NEW at, NEW copy, Begin(c, s, at, copy),
             at \in {"register", "unregister", "remove"}, copy \in Copies \cup {None}
      PROVE  /\ calls' \in [Calls -> CallRecords]
             /\ overlapped' \subseteq Schedules
  BY <1>1 DEF Begin
<1>2. ASSUME NEW enabled \in BOOLEAN, NEW cronOk \in BOOLEAN
      PROVE  Edit(enabled, cronOk) \in Copies
  BY DEF Edit, Copies
<1>3. ASSUME NEW s \in Schedules PROVE Due(s) \in Copies \cup {None} BY DEF Due
<1>4. CASE ScheduleRequest
  <2>1. PICK c \in Calls, s \in Schedules :
          \/ \E enabled, cronOk \in BOOLEAN : Create(c, s, enabled, cronOk) \/ Update(c, s, enabled, cronOk)
          \/ Delete(c, s)
    BY <1>4 DEF ScheduleRequest
  <2>2. ASSUME NEW enabled \in BOOLEAN, NEW cronOk \in BOOLEAN, Create(c, s, enabled, cronOk)
        PROVE  SchedulesTypeOK'
    <3> DEFINE new == Edit(enabled, cronOk)
    <3>1. new \in Copies BY <1>2
    <3>2. /\ calls' \in [Calls -> CallRecords] /\ overlapped' \subseteq Schedules
      BY <2>2, <3>1, <1>1 DEF Create
    <3>3. stored' \in [Schedules -> Copies \cup {None}] BY <2>2, <3>1 DEF Create
    <3> HIDE DEF new
    <3> QED BY <2>2, <3>2, <3>3 DEF Create
  <2>3. ASSUME NEW enabled \in BOOLEAN, NEW cronOk \in BOOLEAN, Update(c, s, enabled, cronOk)
        PROVE  SchedulesTypeOK'
    <3> DEFINE new == Edit(enabled, cronOk)
    <3>1. new \in Copies BY <1>2
    <3>2. /\ calls' \in [Calls -> CallRecords] /\ overlapped' \subseteq Schedules
      BY <2>3, <3>1, <1>1 DEF Update
    <3>3. stored' \in [Schedules -> Copies \cup {None}] BY <2>3, <3>1 DEF Update
    <3> HIDE DEF new
    <3> QED BY <2>3, <3>2, <3>3 DEF Update
  <2>4. CASE Delete(c, s)
    <3>1. calls' \in [Calls -> CallRecords] /\ overlapped' \subseteq Schedules
      BY <2>4, <1>1 DEF Delete
    <3> QED BY <2>4, <3>1 DEF Delete
  <2> QED BY <2>1, <2>2, <2>3, <2>4
<1>5. ASSUME NEW f \in Firings, NEW s \in Schedules, NEW by \in {"request", "trigger", "poll"},
             NEW copy \in Copies \cup {None}, Fire(f, s, by, copy)
      PROVE  SchedulesTypeOK'
  BY <1>5 DEF Fire
<1>6. CASE ScheduleFires
  <2>1. PICK f \in Firings, s \in Schedules : RunNow(f, s) \/ TriggerFires(f, s) \/ PollFires(f, s)
    BY <1>6 DEF ScheduleFires
  <2> QED BY <2>1, <1>5 DEF RunNow, TriggerFires, PollFires
<1>7. ASSUME NEW f \in Firings, NEW at \in {"recording", "reporting"}, NEW status \in Outcomes \cup {None},
             Settle(f, at, status)
      PROVE  SchedulesTypeOK'
  <2> DEFINE settled == [firings[f] EXCEPT !.at = at, !.status = status]
  <2>1. firings[f] \in FiringRecords OBVIOUS
  <2>2. settled \in FiringRecords BY <2>1
  <2>3. firings' = [firings EXCEPT ![f] = settled] BY <1>7 DEF Settle
  <2> HIDE DEF settled
  <2>4. firings' \in [Firings -> FiringRecords] BY <2>2, <2>3
  <2> QED BY <1>7, <2>4 DEF Settle
<1>8. CASE ScheduleStep
  <2>1. ASSUME NEW c \in Calls, Unregister(c) PROVE SchedulesTypeOK'
    <3>1. CASE GoTo(c, "register") BY <2>1, <3>1 DEF Unregister, GoTo
    <3>2. CASE Return(c) BY <2>1, <3>2 DEF Unregister, Return, NoCall
    <3> QED BY <2>1, <3>1, <3>2 DEF Unregister
  <2>2. ASSUME NEW c \in Calls, Register(c) PROVE SchedulesTypeOK'
    BY <2>2 DEF Register, Registered, Return, NoCall
  <2>3. ASSUME NEW c \in Calls, Remove(c) PROVE SchedulesTypeOK'
    BY <2>3 DEF Remove, Return, NoCall
  <2>4. ASSUME NEW f \in Firings, Refuse(f) \/ Execute(f) \/ Raise(f) PROVE SchedulesTypeOK'
    BY <2>4, <1>7 DEF Refuse, Execute, Raise
  <2>5. ASSUME NEW f \in Firings, Report(f) PROVE SchedulesTypeOK'
    <3>1. last' \in [Schedules -> Outcomes \cup {None}] BY <2>5 DEF Report
    <3> QED BY <2>5, <3>1 DEF Report
  <2> QED BY <1>8, <2>1, <2>2, <2>3, <2>4, <2>5 DEF ScheduleStep
<1>9. ASSUME NEW f \in Firings, RecordFiring(f) PROVE SchedulesTypeOK'
  <2>1. CASE UNCHANGED scheduleVars BY <2>1 DEF scheduleVars
  <2>2. CASE Settle(f, "reporting", firings[f].status) BY <2>2, <1>7
  <2> QED BY <1>9, <2>1, <2>2 DEF RecordFiring
<1>10. CASE SchedulesRestart
  <2>1. calls' \in [Calls -> CallRecords]
    BY <1>10 DEF SchedulesRestart, NoCall
  <2>2. triggers' \in [Schedules -> Copies \cup {None}] BY <1>3, <1>10 DEF SchedulesRestart
  <2>3. firings' \in [Firings -> FiringRecords] BY <1>10 DEF SchedulesRestart
  <2> QED BY <1>10, <2>1, <2>2, <2>3 DEF SchedulesRestart
<1>11. CASE UNCHANGED scheduleVars BY <1>11 DEF scheduleVars
<1> QED BY <1>4, <1>6, <1>8, <1>9, <1>10, <1>11 DEF SchedulesAct

\* Every step keeps what the requests and the triggers agree on.
LEMMA SchedulesKeep == ASSUME SchedulesInv, SchedulesAct PROVE SchedulesInv'
<1>1. SchedulesTypeOK' BY SchedulesTyping DEF SchedulesInv
<1>2. /\ calls \in [Calls -> CallRecords]
      /\ stored \in [Schedules -> Copies \cup {None}]
      /\ triggers \in [Schedules -> Copies \cup {None}]
      /\ used \subseteq Schedules /\ edition \in Nat
  BY DEF SchedulesInv, SchedulesTypeOK, CallRecords
<1>3. \A c \in Calls : calls[c].at # "idle" => calls[c].on \in Schedules
  BY <1>2, SchedulesAssumption DEF SchedulesInv, CallsFit, CallRecords
<1>4. CASE ScheduleRequest
  <2>1. PICK c \in Calls, s \in Schedules :
          \/ \E enabled, cronOk \in BOOLEAN : Create(c, s, enabled, cronOk) \/ Update(c, s, enabled, cronOk)
          \/ Delete(c, s)
    BY <1>4 DEF ScheduleRequest
  <2>2. Quiet(s) \/ Unfinished(s) # {} BY QuietIsFinished
  <2>3. ASSUME NEW enabled \in BOOLEAN, NEW cronOk \in BOOLEAN, Create(c, s, enabled, cronOk)
        PROVE  CallsFit' /\ Consistent'
    <3> DEFINE new == Edit(enabled, cronOk)
    <3>1. /\ s \notin used /\ stored' = [stored EXCEPT ![s] = new] /\ triggers' = triggers
          /\ used' = used \cup {s} /\ backed' = backed
          /\ IF enabled THEN Begin(c, s, "register", new) ELSE UNCHANGED <<calls, overlapped>>
      BY <2>3 DEF Create
    <3>2. new \in Copies /\ new.enabled = enabled BY <1>2 DEF Edit, Copies
    <3> HIDE DEF new
    <3>3. /\ \A d \in Calls : calls[d].on # s
          /\ triggers[s] = None
      BY <3>1, SchedulesAssumption DEF SchedulesInv, CallsFit
    <3>4. CASE enabled
      <4>1. /\ Begin(c, s, "register", new)
            /\ calls' = [calls EXCEPT ![c] = [at |-> "register", on |-> s, copy |-> new]]
        BY <3>1, <3>4 DEF Begin
      <4>2. AloneAt(c, s)' BY <4>1, <1>2, <3>1, <3>2, <3>3, <3>4 DEF AloneAt
      <4> QED BY <4>1, <4>2, <1>2, <3>1, <3>2, BeginKeeps
    <3>5. CASE ~enabled
      <4>1. UNCHANGED <<calls, overlapped>> BY <3>1, <3>5
      <4>2. CallsFit' BY <4>1, <3>1 DEF SchedulesInv, CallsFit
      <4>3. Quiet(s)' /\ triggers'[s] = Due(s)'
        BY <4>1, <1>2, <3>1, <3>2, <3>3, <3>5 DEF Quiet, Due
      <4>4. ASSUME NEW t \in Schedules, t # s
            PROVE  (t \in overlapped \/ (Quiet(t) /\ triggers[t] = Due(t))
                      \/ \E d \in Calls : AloneAt(d, t))'
        BY <4>1, <4>4, <1>2, <3>1 DEF SchedulesInv, Consistent, Quiet, Due, AloneAt
      <4> QED BY <4>2, <4>3, <4>4 DEF Consistent
    <3> QED BY <3>4, <3>5
  <2>4. ASSUME NEW enabled \in BOOLEAN, NEW cronOk \in BOOLEAN, Update(c, s, enabled, cronOk)
        PROVE  CallsFit' /\ Consistent'
    <3> DEFINE new == Edit(enabled, cronOk)
    <3>1. /\ stored[s] # None /\ stored' = [stored EXCEPT ![s] = new]
          /\ UNCHANGED <<triggers, used, backed>>
          /\ Begin(c, s, "unregister", new)
          /\ calls' = [calls EXCEPT ![c] = [at |-> "unregister", on |-> s, copy |-> new]]
      BY <2>4 DEF Update, Begin
    <3>2. new \in Copies BY <1>2 DEF Edit, Copies
    <3> HIDE DEF new
    <3>3. s \in used BY <3>1 DEF SchedulesInv, CallsFit
    <3>4. Quiet(s) => AloneAt(c, s)' BY <3>1, <1>2 DEF AloneAt, Quiet
    <3> QED BY <2>2, <3>1, <3>2, <3>3, <3>4, <1>2, BeginKeeps
  <2>5. ASSUME Delete(c, s) PROVE CallsFit' /\ Consistent'
    <3>1. /\ s \in used /\ triggers' = [triggers EXCEPT ![s] = None]
          /\ UNCHANGED <<stored, used, backed>>
          /\ Begin(c, s, "remove", None)
          /\ calls' = [calls EXCEPT ![c] = [at |-> "remove", on |-> s, copy |-> None]]
      BY <2>5 DEF Delete, Begin
    <3>2. Quiet(s) => AloneAt(c, s)' BY <3>1, <1>2 DEF AloneAt, Quiet
    <3> QED BY <2>2, <3>1, <3>2, <1>2, BeginKeeps
  <2> QED BY <1>1, <2>1, <2>3, <2>4, <2>5 DEF SchedulesInv
<1>5. CASE ScheduleStep
  <2>1. ASSUME NEW c \in Calls, Unregister(c) PROVE CallsFit' /\ Consistent'
    <3>1. PICK s \in Schedules : calls[c].on = s BY <2>1, <1>3 DEF Unregister
    <3>2. /\ calls[c].at = "unregister" /\ triggers' = [triggers EXCEPT ![s] = None]
          /\ UNCHANGED <<stored, used, backed, overlapped>>
          /\ IF calls[c].copy.enabled THEN GoTo(c, "register") ELSE Return(c)
      BY <2>1, <3>1 DEF Unregister
    <3>3. ASSUME AloneAt(c, s)
          PROVE  \/ Return(c) /\ triggers'[s] = Due(s)'
                 \/ GoTo(c, "register") /\ AloneAt(c, s)'
      <4>1. calls[c].copy = stored[s] BY <3>2, <3>3 DEF AloneAt
      <4>2. CASE calls[c].copy.enabled
        <5>1. /\ \A d \in Calls : calls'[d].on = calls[d].on
              /\ calls'[c].at = "register" /\ calls'[c].copy = calls[c].copy
          BY <4>2, <3>2, <1>2 DEF GoTo, CallRecords
        <5>2. AloneAt(c, s)' BY <5>1, <4>1, <4>2, <3>2, <3>3, <1>2 DEF AloneAt
        <5> QED BY <5>2, <4>2, <3>2
      <4>3. CASE ~calls[c].copy.enabled BY <4>1, <4>3, <3>2, <1>2 DEF Due
      <4> QED BY <4>2, <4>3
    <3> QED BY <3>1, <3>2, <3>3, <1>2, CallKeeps
  <2>2. ASSUME NEW c \in Calls, Register(c) PROVE CallsFit' /\ Consistent'
    <3>1. PICK s \in Schedules : calls[c].on = s BY <2>2, <1>3 DEF Register
    <3>2. /\ calls[c].at = "register" /\ triggers' = Registered(s, calls[c].copy)
          /\ UNCHANGED <<stored, used, backed, overlapped>> /\ Return(c)
      BY <2>2, <3>1 DEF Register
    <3>3. AloneAt(c, s) => triggers'[s] = Due(s)'
      BY <3>2, <1>2, SchedulesAssumption DEF AloneAt, Registered, Due, SchedulesInv, CallsFit
    <3>4. \A t \in Schedules \ {s} : triggers'[t] = triggers[t] BY <3>2, <1>2 DEF Registered
    <3> QED BY <3>1, <3>2, <3>3, <3>4, CallKeeps
  <2>3. ASSUME NEW c \in Calls, Remove(c) PROVE CallsFit' /\ Consistent'
    <3>1. PICK s \in Schedules : calls[c].on = s BY <2>3, <1>3 DEF Remove
    <3>2. /\ calls[c].at = "remove" /\ stored' = [stored EXCEPT ![s] = None]
          /\ UNCHANGED <<triggers, used, backed, overlapped>> /\ Return(c)
      BY <2>3, <3>1 DEF Remove
    <3>3. AloneAt(c, s) => triggers'[s] = Due(s)' BY <3>2, <1>2 DEF AloneAt, Due
    <3> QED BY <3>1, <3>2, <3>3, <1>2, CallKeeps
  <2>4. ASSUME NEW f \in Firings, Refuse(f) \/ Execute(f) \/ Raise(f) \/ Report(f)
        PROVE  CallsFit' /\ Consistent'
    <3>1. UNCHANGED <<stored, used, triggers, calls, overlapped, backed>>
      BY <2>4 DEF Refuse, Execute, Raise, Report, Settle
    <3> QED BY <3>1, ExecutionsKeep
  <2> QED BY <1>1, <1>5, <2>1, <2>2, <2>3, <2>4 DEF SchedulesInv, ScheduleStep
<1>6. CASE ScheduleFires \/ (\E f \in Firings : RecordFiring(f)) \/ UNCHANGED scheduleVars
  <2>1. UNCHANGED <<stored, used, triggers, calls, overlapped, backed>>
    BY <1>6 DEF ScheduleFires, RunNow, TriggerFires, PollFires, Fire, RecordFiring, Settle, scheduleVars
  <2> QED BY <2>1, <1>1, ExecutionsKeep DEF SchedulesInv
<1>7. CASE SchedulesRestart
  <2>1. /\ \A c \in Calls : calls'[c] = NoCall
        /\ \A s \in Schedules : triggers'[s] = Due(s)
        /\ UNCHANGED <<stored, used, backed>>
    BY <1>7 DEF SchedulesRestart
  <2>2. \A s \in Schedules : Due(s)' = Due(s) BY <2>1 DEF Due
  <2>3. Consistent' BY <2>1, <2>2, SchedulesAssumption DEF Consistent, Quiet, NoCall
  <2>4. CallsFit' BY <2>1 DEF SchedulesInv, CallsFit, NoCall, Due
  <2> QED BY <1>1, <2>3, <2>4 DEF SchedulesInv
<1> QED BY <1>4, <1>5, <1>6, <1>7 DEF SchedulesAct

\* What the invariant says of a schedule no request is under way for.
LEMMA ConsistentFollows == ASSUME SchedulesInv PROVE RegistrationFollowsStore
<1> SUFFICES ASSUME NEW s \in Schedules, Unfinished(s) = {}, s \notin overlapped
             PROVE  triggers[s] = Due(s)
  BY DEF RegistrationFollowsStore
<1>1. Quiet(s) BY QuietIsFinished
<1>2. \A c \in Calls : ~AloneAt(c, s) BY <1>1 DEF AloneAt, Quiet
<1> QED BY <1>1, <1>2 DEF SchedulesInv, Consistent

(***************************************************************************)
(* Pipelines.                                                              *)
(***************************************************************************)

PipePlaces == {"new", "validating", "refused", "ready", "executing", "recording", "ended", "abandoned"}
KeptCopies == UNION {[X -> Contents] : X \in SUBSET Files}
PipeRecords == [at : PipePlaces, plan : Plans \cup {<<>>}, step : Nat, copies : KeptCopies,
                ran : Seq(Contents \cup {NoFile}), results : Seq({"success", "failed"})]

\* How far a run is, in what it ran and in the results it has.
Placed(p) ==
  /\ At(p, "new") => pipes[p] = NoPipe
  /\ ~At(p, "new") => pipes[p].plan \in Plans /\ pipes[p].step \in 1 .. Len(pipes[p].plan)
  /\ pipes[p].at \in {"new", "validating", "refused"} => Len(pipes[p].ran) = 0
  /\ At(p, "validating") => Len(pipes[p].results) = 0
  /\ At(p, "ready") => Len(pipes[p].ran) = pipes[p].step - 1
  /\ pipes[p].at \in {"ready", "executing"} =>
       /\ Len(pipes[p].results) = pipes[p].step - 1
       /\ \A i \in 1 .. pipes[p].step - 1 : pipes[p].results[i] = "success"
  /\ At(p, "executing") => Len(pipes[p].ran) = pipes[p].step
  /\ Len(pipes[p].ran) <= pipes[p].step

\* Step k is one whose script is to be given what its validator accepted.
Protected(p, k) == pipes[p].plan[k].kind \in {"users", "title"} /\ AloneOn(p, k)

\* Every such step that is validated has a copy its own validator accepts.
Validated(p) ==
  \A k \in DOMAIN pipes[p].plan :
    /\ pipes[p].at \in {"ready", "executing"} \/ (At(p, "validating") /\ k < pipes[p].step)
    /\ Protected(p, k)
    => /\ pipes[p].plan[k].file \in DOMAIN pipes[p].copies
       /\ pipes[p].plan[k].kind \in pipes[p].copies[pipes[p].plan[k].file].accepts

WasGiven(p) ==
  \A k \in DOMAIN pipes[p].ran :
    /\ Protected(p, k) => /\ pipes[p].ran[k] # NoFile
                          /\ pipes[p].plan[k].kind \in pipes[p].ran[k].accepts
    /\ \A i \in 1 .. k - 1 : pipes[p].results[i] = "success"

PipeInv(p) == pipes[p] \in PipeRecords /\ Placed(p) /\ Validated(p) /\ WasGiven(p)

PipelinesInv ==
  /\ files \in [Files -> Contents \cup {NoFile}]
  /\ DOMAIN pipes = PipelineRuns
  /\ \A p \in PipelineRuns : PipeInv(p)

PipelinesAct ==
  \/ PipelineRequest \/ FileChange \/ PipelineStep
  \/ \E p \in PipelineRuns : RecordPipeline(p)
  \/ PipelinesRestart
  \/ UNCHANGED pipelineVars

LEMMA CopyTyping ==
  ASSUME NEW copies
  PROVE  copies \in KeptCopies <=>
           \E X \in SUBSET Files : copies \in [X -> Contents]
BY DEF KeptCopies

LEMMA NoPipeTyping == NoPipe \in PipeRecords
<1>1. <<>> \in [{} -> Contents] OBVIOUS
<1>2. <<>> \in KeptCopies BY <1>1, CopyTyping
<1>3. <<>> \in Seq(Contents \cup {NoFile}) /\ <<>> \in Seq({"success", "failed"}) OBVIOUS
<1> QED BY <1>2, <1>3 DEF NoPipe, PipeRecords, PipePlaces

\* A plan is a sequence of steps of known kinds on files.
LEMMA PlanTyping ==
  ASSUME NEW plan \in Plans
  PROVE  /\ plan \in Seq([kind : Kinds, file : Files]) /\ plan # <<>>
         /\ Len(plan) \in Nat /\ Len(plan) >= 1 /\ DOMAIN plan = 1 .. Len(plan)
         /\ \A k \in DOMAIN plan : plan[k].kind \in Kinds /\ plan[k].file \in Files
<1>1. plan \in Seq([kind : Kinds, file : Files]) /\ plan # <<>> BY PipelinesAssumption
<1>2. \A k \in DOMAIN plan : plan[k] \in [kind : Kinds, file : Files]
  <2>1. DOMAIN plan = 1 .. Len(plan) BY <1>1
  <2> DEFINE S == [kind : Kinds, file : Files]
  <2>2. plan \in Seq(S) BY <1>1
  <2> HIDE DEF S
  <2>3. \A k \in DOMAIN plan : plan[k] \in S BY <2>1, <2>2, ElementOfSeq
  <2> QED BY <2>3 DEF S
<1> QED BY <1>1, <1>2

\* What run p has done is its own: where its record stays, so does its invariant.
LEMMA PipeStays ==
  ASSUME NEW p \in PipelineRuns, PipeInv(p), pipes'[p] = pipes[p]
  PROVE  PipeInv(p)'
BY DEF PipeInv, Placed, Validated, WasGiven, Protected, AloneOn, At, Step

LEMMA PipelinesStart == ASSUME PipelinesInit PROVE PipelinesInv
<1>1. ASSUME NEW p \in PipelineRuns PROVE PipeInv(p)
  <2>1. pipes[p] = NoPipe BY DEF PipelinesInit
  <2>2. /\ pipes[p].at = "new" /\ pipes[p].plan = <<>> /\ pipes[p].step = 0
        /\ pipes[p].ran = <<>> /\ pipes[p].results = <<>>
    BY <2>1 DEF NoPipe
  <2> QED BY <2>1, <2>2, NoPipeTyping DEF PipeInv, Placed, Validated, WasGiven, At
<1> QED BY <1>1 DEF PipelinesInit, PipelinesInv

LEMMA InvGivesPipelines ==
  ASSUME PipelinesInv PROVE PipelinesTypeOK /\ RunsWhatWasValidated
<1>1. ASSUME NEW p \in PipelineRuns
      PROVE  /\ pipes[p].at \in PipePlaces
             /\ pipes[p].plan \in Plans \cup {<<>>}
             /\ pipes[p].step \in 0 .. Len(pipes[p].plan)
             /\ Len(pipes[p].ran) <= pipes[p].step
             /\ DOMAIN pipes[p].copies \subseteq Files
             /\ \A x \in DOMAIN pipes[p].copies : pipes[p].copies[x] \in Contents
  <2>1. PipeInv(p) BY DEF PipelinesInv
  <2>2. pipes[p].copies \in KeptCopies BY <2>1 DEF PipeInv, PipeRecords
  <2>3. PICK X \in SUBSET Files : pipes[p].copies \in [X -> Contents] BY <2>2, CopyTyping
  <2>4. pipes[p].at \in PipePlaces /\ pipes[p].plan \in Plans \cup {<<>>}
    BY <2>1 DEF PipeInv, PipeRecords
  <2>5. pipes[p].step \in 0 .. Len(pipes[p].plan)
    <3>1. CASE At(p, "new")
      <4>1. pipes[p].step = 0 /\ pipes[p].plan = <<>>
        BY <2>1, <3>1 DEF PipeInv, Placed, NoPipe
      <4> QED BY <4>1
    <3>2. CASE ~At(p, "new")
      BY <2>1, <3>2, PlanTyping DEF PipeInv, Placed
    <3> QED BY <3>1, <3>2
  <2> QED BY <2>1, <2>3, <2>4, <2>5 DEF PipeInv, Placed
<1>2. PipelinesTypeOK BY <1>1 DEF PipelinesTypeOK, PipelinesInv, PipePlaces
<1>3. RunsWhatWasValidated
  BY DEF RunsWhatWasValidated, PipelinesInv, PipeInv, WasGiven, Protected
<1> QED BY <1>2, <1>3

\* A turn of the validation: what it accepts it keeps a copy of, and it takes away
\* no copy an earlier step alone depends on.
LEMMA ValidateKeeps ==
  ASSUME PipelinesInv, NEW p \in PipelineRuns, Validate(p) PROVE PipeInv(p)'
<1> DEFINE r == pipes[p]
           step == Step(p)
           content == files[step.file]
           copies == Kept(p, content)
           next == [r EXCEPT !.at = IF Last(p) THEN "ready" ELSE "validating",
                             !.step = IF Last(p) THEN 1 ELSE r.step + 1,
                             !.copies = copies]
<1>1. /\ PipeInv(p) /\ r \in PipeRecords /\ r.at = "validating"
      /\ r.plan \in Plans /\ r.step \in 1 .. Len(r.plan) /\ r.step \in Nat
      /\ Len(r.ran) = 0 /\ Len(r.results) = 0
      /\ r.copies \in KeptCopies
  BY DEF PipelinesInv, PipeInv, Placed, Validate, At, PipeRecords
<1>2. /\ Len(r.plan) \in Nat /\ DOMAIN r.plan = 1 .. Len(r.plan)
      /\ step.kind \in Kinds /\ step.file \in Files
      /\ content \in Contents \cup {NoFile}
  BY <1>1, PlanTyping DEF Step, PipelinesInv
<1>3. CASE ~Passes(step, content)
  <2>1. pipes'[p] = [r EXCEPT !.at = "refused"] BY <1>3 DEF Validate, PipelinesInv
  <2>2. /\ pipes'[p].at = "refused" /\ pipes'[p].plan = r.plan /\ pipes'[p].step = r.step
        /\ pipes'[p].ran = r.ran /\ pipes'[p] \in PipeRecords
    BY <2>1, <1>1 DEF PipeRecords, PipePlaces
  <2>3. Placed(p)' /\ Validated(p)' /\ WasGiven(p)'
    BY <2>2, <1>1 DEF Placed, Validated, WasGiven, At, PipeRecords
  <2> QED BY <2>2, <2>3 DEF PipeInv
<1>4. CASE Passes(step, content)
  <2>1. pipes'[p] = next
    <3>1. pipes' = [pipes EXCEPT ![p] = IF ~Passes(step, content) THEN [r EXCEPT !.at = "refused"]
                                        ELSE next]
      BY Zenon DEF Validate
    <3> HIDE DEF next
    <3> QED BY <3>1, <1>4 DEF PipelinesInv
  <2>2. PICK X \in SUBSET Files : r.copies \in [X -> Contents] BY <1>1, CopyTyping
  <2>3. /\ IsRead(step) => content \in Contents /\ content # NoFile
        /\ step.kind \in {"users", "title"} => step.kind \in content.accepts
    BY <1>2, <1>4 DEF Passes, IsRead, Scripts
  <2>4. /\ \E Y \in SUBSET Files : copies \in [Y -> Contents]
        /\ IsRead(step) /\ IsCopied(step, content) =>
             /\ DOMAIN copies = DOMAIN r.copies \cup {step.file}
             /\ copies[step.file] = content
             /\ \A x \in DOMAIN r.copies : x # step.file => copies[x] = r.copies[x]
        /\ ~(IsRead(step) /\ IsCopied(step, content)) => copies = r.copies
    <3>1. CASE IsRead(step) /\ IsCopied(step, content)
      <4> DEFINE Y == DOMAIN r.copies \cup {step.file}
      <4>1. copies = [x \in Y |-> IF x = step.file THEN content ELSE r.copies[x]] BY <3>1 DEF Kept
      <4>2. Y \in SUBSET Files BY <2>2, <1>2
      <4> HIDE DEF copies
      <4>3. copies \in [Y -> Contents] BY <4>1, <3>1, <2>2, <2>3
      <4> QED BY <4>1, <4>2, <4>3, <3>1
    <3>2. CASE ~(IsRead(step) /\ IsCopied(step, content))
      <4>1. copies = r.copies BY <3>2 DEF Kept
      <4> HIDE DEF copies
      <4> QED BY <4>1, <3>2, <2>2
    <3> QED BY <3>1, <3>2
  <2> HIDE DEF copies
  <2>5. copies \in KeptCopies BY <2>4, CopyTyping
  <2>6. /\ next.at = IF Last(p) THEN "ready" ELSE "validating"
        /\ next.step = IF Last(p) THEN 1 ELSE r.step + 1
        /\ next.copies = copies /\ next.plan = r.plan /\ next.ran = r.ran
        /\ next.results = r.results /\ next \in PipeRecords
    <3> DEFINE at == IF Last(p) THEN "ready" ELSE "validating"
               n == IF Last(p) THEN 1 ELSE r.step + 1
    <3>1. at \in PipePlaces /\ n \in Nat BY <1>1 DEF PipePlaces
    <3>2. next = [r EXCEPT !.at = at, !.step = n, !.copies = copies] BY <1>1
    <3> HIDE DEF at, n, next
    <3>3. /\ next.at = at /\ next.step = n /\ next.copies = copies
          /\ next.plan = r.plan /\ next.ran = r.ran /\ next.results = r.results
          /\ next \in PipeRecords
      BY <3>1, <3>2, <1>1, <2>5 DEF PipeRecords
    <3> QED BY <3>3 DEF at, n
  <2> HIDE DEF next
  <2>7. Placed(p)' /\ WasGiven(p)'
    BY <2>1, <2>6, <1>1, <1>2 DEF Placed, WasGiven, At, Last, PipeRecords
  <2>8. ASSUME NEW k \in DOMAIN r.plan,
               k < r.step \/ k = r.step,
               r.plan[k].kind \in {"users", "title"}, AloneOn(p, k)
        PROVE  /\ r.plan[k].file \in DOMAIN copies
               /\ r.plan[k].kind \in copies[r.plan[k].file].accepts
    <3>1. CASE k = r.step
      <4>1. r.plan[k] = step BY <3>1 DEF Step
      <4>2. IsRead(step) /\ IsCopied(step, content)
        BY <4>1, <2>8 DEF IsRead, IsCopied, Scripts
      <4> QED BY <4>1, <4>2, <2>3, <2>4, <2>8
    <3>2. CASE k < r.step
      <4>1. /\ r.plan[k].file \in DOMAIN r.copies
            /\ r.plan[k].kind \in r.copies[r.plan[k].file].accepts
        BY <3>2, <2>8, <1>1 DEF PipeInv, Validated, Protected, At
      <4>2. r.plan[k].file = step.file => ~IsRead(step)
        BY <3>2, <2>8, <1>1, <1>2 DEF AloneOn, Step
      <4> QED BY <4>1, <4>2, <2>4
    <3> QED BY <2>8, <3>1, <3>2
  <2>9. ASSUME NEW k \in DOMAIN r.plan, AloneOn(p, k)' PROVE AloneOn(p, k)
    BY <2>1, <2>6, <2>9 DEF AloneOn
  <2>10. Validated(p)'
    <3> SUFFICES ASSUME NEW k \in DOMAIN r.plan, AloneOn(p, k)',
                        next.at = "ready" \/ k < next.step,
                        r.plan[k].kind \in {"users", "title"}
                 PROVE  /\ r.plan[k].file \in DOMAIN copies
                        /\ r.plan[k].kind \in copies[r.plan[k].file].accepts
      BY <2>1, <2>6 DEF Validated, Protected, At
    <3>1. k < r.step \/ k = r.step
      BY <2>6, <1>1, <1>2 DEF Last
    <3> QED BY <3>1, <2>8, <2>9
  <2> QED BY <2>1, <2>6, <2>7, <2>10 DEF PipeInv
<1> QED BY <1>3, <1>4

\* What is handed to a protected step was accepted by its validator.
LEMMA StartKeeps ==
  ASSUME PipelinesInv, NEW p \in PipelineRuns, StartStep(p) PROVE PipeInv(p)'
<1> DEFINE r == pipes[p]
           given == Given(p)
           next == [r EXCEPT !.at = "executing", !.ran = Append(r.ran, given)]
<1>1. /\ PipeInv(p) /\ r \in PipeRecords /\ r.at = "ready"
      /\ r.plan \in Plans /\ r.step \in 1 .. Len(r.plan) /\ r.step \in Nat
      /\ Len(r.ran) = r.step - 1 /\ Len(r.results) = r.step - 1
      /\ r.ran \in Seq(Contents \cup {NoFile}) /\ r.copies \in KeptCopies
      /\ \A i \in 1 .. r.step - 1 : r.results[i] = "success"
  BY DEF PipelinesInv, PipeInv, Placed, StartStep, At, PipeRecords
<1>2. /\ Len(r.plan) \in Nat /\ DOMAIN r.plan = 1 .. Len(r.plan)
      /\ r.plan[r.step].file \in Files
  BY <1>1, PlanTyping
<1>3. PICK X \in SUBSET Files : r.copies \in [X -> Contents] BY <1>1, CopyTyping
<1>4. given \in Contents \cup {NoFile}
  BY <1>2, <1>3 DEF Given, Step, PipelinesInv
<1>5. Protected(p, r.step) => given # NoFile /\ r.plan[r.step].kind \in given.accepts
  <2>1. SUFFICES ASSUME Protected(p, r.step)
                 PROVE  given # NoFile /\ r.plan[r.step].kind \in given.accepts
    OBVIOUS
  <2>2. /\ r.plan[r.step].file \in DOMAIN r.copies
        /\ r.plan[r.step].kind \in r.copies[r.plan[r.step].file].accepts
    BY <2>1, <1>1, <1>2 DEF PipeInv, Validated
  <2>3. given = r.copies[r.plan[r.step].file] BY <2>2 DEF Given, Step
  <2>4. given \in Contents BY <2>2, <2>3, <1>3
  <2> QED BY <2>2, <2>3, <2>4, PipelinesAssumption
<1>6. pipes'[p] = next BY DEF StartStep, PipelinesInv
<1> HIDE DEF given
<1>7. /\ next.at = "executing" /\ next.plan = r.plan /\ next.step = r.step
      /\ next.copies = r.copies /\ next.results = r.results
      /\ next.ran = Append(r.ran, given) /\ next \in PipeRecords
  BY <1>1, <1>4, AppendProperties DEF PipeRecords, PipePlaces
<1> HIDE DEF next
<1>8. /\ Len(next.ran) = r.step /\ DOMAIN next.ran = 1 .. r.step
      /\ next.ran[r.step] = given
      /\ DOMAIN r.ran = 1 .. r.step - 1
      /\ \A k \in 1 .. r.step - 1 : next.ran[k] = r.ran[k]
  BY <1>1, <1>4, <1>7, AppendProperties
<1>9. Placed(p)' BY <1>1, <1>6, <1>7, <1>8 DEF Placed, At
<1>10. \A k : Protected(p, k)' <=> Protected(p, k)
  BY <1>6, <1>7 DEF Protected, AloneOn
<1>11. Validated(p)' BY <1>1, <1>6, <1>7, <1>10 DEF PipeInv, Validated, At
<1>12. WasGiven(p)'
  <2> SUFFICES ASSUME NEW k \in 1 .. r.step
               PROVE  /\ Protected(p, k) => /\ next.ran[k] # NoFile
                                            /\ r.plan[k].kind \in next.ran[k].accepts
                      /\ \A i \in 1 .. k - 1 : r.results[i] = "success"
    BY <1>6, <1>7, <1>8, <1>10 DEF WasGiven
  <2>1. CASE k = r.step BY <2>1, <1>1, <1>5, <1>8
  <2>2. CASE k # r.step
    <3>1. k \in 1 .. r.step - 1 BY <2>2, <1>1
    <3>2. k \in DOMAIN r.ran /\ next.ran[k] = r.ran[k] BY <3>1, <1>8
    <3> QED BY <3>1, <3>2, <1>1 DEF PipeInv, WasGiven
  <2> QED BY <2>1, <2>2
<1> QED BY <1>6, <1>7, <1>9, <1>11, <1>12 DEF PipeInv

\* A step that ends: its result is the next one, and the run goes on after a
\* success only.
LEMMA StepEndsKeeps ==
  ASSUME PipelinesInv, NEW p \in PipelineRuns, NEW result \in {"success", "failed"},
         StepEnds(p, result)
  PROVE  PipeInv(p)'
<1> DEFINE r == pipes[p]
           at == IF result = "failed" \/ Last(p) THEN "recording" ELSE "ready"
           n == IF result = "failed" \/ Last(p) THEN r.step ELSE r.step + 1
           next == [r EXCEPT !.results = Append(r.results, result), !.at = at, !.step = n]
<1>1. /\ PipeInv(p) /\ r \in PipeRecords /\ r.at = "executing"
      /\ r.plan \in Plans /\ r.step \in 1 .. Len(r.plan) /\ r.step \in Nat
      /\ Len(r.ran) = r.step /\ Len(r.results) = r.step - 1
      /\ r.ran \in Seq(Contents \cup {NoFile})
      /\ r.results \in Seq({"success", "failed"})
      /\ \A i \in 1 .. r.step - 1 : r.results[i] = "success"
  BY DEF PipelinesInv, PipeInv, Placed, StepEnds, At, PipeRecords
<1>2. Len(r.plan) \in Nat /\ DOMAIN r.plan = 1 .. Len(r.plan)
  BY <1>1, PlanTyping
<1>3. /\ Append(r.results, result) \in Seq({"success", "failed"})
      /\ Len(Append(r.results, result)) = r.step
      /\ Append(r.results, result)[r.step] = result
      /\ \A i \in 1 .. r.step - 1 : Append(r.results, result)[i] = r.results[i]
  BY <1>1, AppendProperties
<1>4. /\ at \in PipePlaces /\ n \in Nat /\ (at = "recording" => n = r.step)
      /\ (at = "ready" => n = r.step + 1 /\ n \in 1 .. Len(r.plan) /\ result = "success")
      /\ at \in {"recording", "ready"}
  BY <1>1, <1>2 DEF PipePlaces, Last
<1>5. pipes'[p] = next BY DEF StepEnds, PipelinesInv
<1> HIDE DEF at, n
<1>6. /\ next.at = at /\ next.plan = r.plan /\ next.step = n
      /\ next.copies = r.copies /\ next.ran = r.ran
      /\ next.results = Append(r.results, result) /\ next \in PipeRecords
  BY <1>1, <1>3, <1>4 DEF PipeRecords
<1> HIDE DEF next
<1>7. \A k : Protected(p, k)' <=> Protected(p, k)
  BY <1>5, <1>6 DEF Protected, AloneOn
<1>8. Placed(p)'
  <2>1. CASE at = "recording"
    BY <2>1, <1>1, <1>4, <1>5, <1>6 DEF Placed, At
  <2>2. CASE at = "ready"
    <3>1. \A i \in 1 .. r.step : next.results[i] = "success"
      BY <2>2, <1>1, <1>3, <1>4, <1>6
    <3>2. next.step - 1 = r.step BY <2>2, <1>1, <1>4, <1>6
    <3>3. /\ next.at = "ready" /\ next.plan \in Plans /\ next.step \in 1 .. Len(next.plan)
          /\ Len(next.ran) = next.step - 1 /\ Len(next.results) = next.step - 1
          /\ Len(next.ran) <= next.step
      BY <2>2, <3>2, <1>1, <1>3, <1>4, <1>6
    <3> QED BY <3>1, <3>2, <3>3, <1>5 DEF Placed, At
  <2> QED BY <2>1, <2>2, <1>4
<1>9. Validated(p)'
  BY <1>1, <1>4, <1>5, <1>6, <1>7 DEF PipeInv, Validated, At
<1>10. WasGiven(p)'
  <2>1. DOMAIN r.ran = 1 .. r.step BY <1>1
  <2> SUFFICES ASSUME NEW k \in 1 .. r.step
               PROVE  /\ Protected(p, k) => /\ r.ran[k] # NoFile
                                            /\ r.plan[k].kind \in r.ran[k].accepts
                      /\ \A i \in 1 .. k - 1 : next.results[i] = "success"
    BY <1>5, <1>6, <1>7, <2>1 DEF WasGiven
  <2> QED BY <2>1, <1>1, <1>3, <1>6 DEF PipeInv, WasGiven
<1> QED BY <1>5, <1>6, <1>8, <1>9, <1>10 DEF PipeInv

\* A run that is refused, abandoned or recorded keeps what it has run.
LEMMA LeavingKeeps ==
  ASSUME PipelinesInv, NEW p \in PipelineRuns, NEW at \in {"refused", "abandoned", "ended"},
         pipes'[p] = [pipes[p] EXCEPT !.at = at],
         ~At(p, "new"), at = "refused" => Len(pipes[p].ran) = 0
  PROVE  PipeInv(p)'
<1> DEFINE r == pipes[p]
           next == [r EXCEPT !.at = at]
<1>1. PipeInv(p) /\ r \in PipeRecords BY DEF PipelinesInv, PipeInv
<1>2. /\ next.at = at /\ next.plan = r.plan /\ next.step = r.step
      /\ next.copies = r.copies /\ next.ran = r.ran /\ next.results = r.results
      /\ next \in PipeRecords
  BY <1>1 DEF PipeRecords, PipePlaces
<1> HIDE DEF next
<1>3. pipes'[p] = next BY DEF next
<1>4. Placed(p)' /\ Validated(p)'
  BY <1>1, <1>2, <1>3 DEF PipeInv, Placed, Validated, At
<1>5. WasGiven(p)'
  BY <1>1, <1>2, <1>3 DEF PipeInv, WasGiven, Protected, AloneOn
<1> QED BY <1>2, <1>3, <1>4, <1>5 DEF PipeInv

\* Every step of the pipelines keeps their invariant.
LEMMA PipelinesKeep == ASSUME PipelinesInv, PipelinesAct PROVE PipelinesInv'
<1>1. ASSUME NEW p \in PipelineRuns, NEW r, pipes' = [pipes EXCEPT ![p] = r], PipeInv(p)',
             files' = files
      PROVE  PipelinesInv'
  <2>1. DOMAIN pipes' = PipelineRuns BY <1>1 DEF PipelinesInv
  <2>2. \A q \in PipelineRuns \ {p} : pipes'[q] = pipes[q] BY <1>1 DEF PipelinesInv
  <2>3. \A q \in PipelineRuns \ {p} : PipeInv(q)' BY <2>2, PipeStays DEF PipelinesInv
  <2> QED BY <2>1, <2>3, <1>1 DEF PipelinesInv
<1>2. \A p \in PipelineRuns : pipes'[p] = pipes[p] => PipeInv(p)'
  BY PipeStays DEF PipelinesInv
<1>3. CASE PipelineRequest
  <2>1. PICK p \in PipelineRuns, plan \in Plans : RequestPipeline(p, plan)
    BY <1>3 DEF PipelineRequest
  <2> DEFINE next == [NoPipe EXCEPT !.at = "validating", !.plan = plan, !.step = 1]
  <2>2. pipes' = [pipes EXCEPT ![p] = next] /\ files' = files BY <2>1 DEF RequestPipeline
  <2>3. /\ next.at = "validating" /\ next.plan = plan /\ next.step = 1
        /\ next.copies = <<>> /\ next.ran = <<>> /\ next.results = <<>>
        /\ next \in PipeRecords
    BY NoPipeTyping DEF NoPipe, PipeRecords, PipePlaces
  <2> HIDE DEF next
  <2>4. pipes'[p] = next BY <2>2 DEF PipelinesInv
  <2>5. Len(plan) \in Nat /\ Len(plan) >= 1 /\ DOMAIN plan = 1 .. Len(plan) BY PlanTyping
  <2>6. Placed(p)' /\ Validated(p)' /\ WasGiven(p)'
    BY <2>3, <2>4, <2>5 DEF Placed, Validated, WasGiven, At
  <2> QED BY <2>2, <2>3, <2>4, <2>6, <1>1 DEF PipeInv
<1>4. CASE FileChange
  <2>1. pipes' = pipes /\ files' \in [Files -> Contents \cup {NoFile}]
    BY <1>4 DEF FileChange, EditFile, PipelinesInv
  <2> QED BY <2>1, <1>2 DEF PipelinesInv
<1>5. CASE PipelineStep
  <2>1. PICK p \in PipelineRuns :
          \/ Validate(p) \/ Block(p) \/ StartStep(p) \/ Disconnect(p)
          \/ \E result \in {"success", "failed"} : StepEnds(p, result)
    BY <1>5 DEF PipelineStep
  <2>2. CASE Validate(p) BY <2>2, ValidateKeeps, <1>1 DEF Validate
  <2>3. CASE Block(p)
    <3>1. pipes' = [pipes EXCEPT ![p] = [pipes[p] EXCEPT !.at = "refused"]] /\ files' = files
      BY <2>3 DEF Block
    <3>2. PipeInv(p)' BY <3>1, <2>3, LeavingKeeps DEF Block, At, PipelinesInv
    <3> QED BY <3>1, <3>2, <1>1
  <2>4. CASE StartStep(p) BY <2>4, StartKeeps, <1>1 DEF StartStep
  <2>5. CASE Disconnect(p)
    <3>1. pipes' = [pipes EXCEPT ![p] = [pipes[p] EXCEPT !.at = "abandoned"]] /\ files' = files
      BY <2>5 DEF Disconnect
    <3>2. PipeInv(p)' BY <3>1, <2>5, LeavingKeeps DEF Disconnect, At, PipelinesInv
    <3> QED BY <3>1, <3>2, <1>1
  <2>6. CASE \E result \in {"success", "failed"} : StepEnds(p, result)
    BY <2>6, StepEndsKeeps, <1>1 DEF StepEnds
  <2> QED BY <2>1, <2>2, <2>3, <2>4, <2>5, <2>6
<1>6. ASSUME NEW p \in PipelineRuns, RecordPipeline(p) PROVE PipelinesInv'
  <2>1. CASE pipes' = pipes BY <2>1, <1>2, <1>6 DEF RecordPipeline, PipelinesInv
  <2>2. CASE pipes' = [pipes EXCEPT ![p].at = "ended"]
    <3>1. pipes' = [pipes EXCEPT ![p] = [pipes[p] EXCEPT !.at = "ended"]] BY <2>2
    <3>2. PipeInv(p)' BY <3>1, <1>6, LeavingKeeps DEF RecordPipeline, At, PipelinesInv
    <3> QED BY <3>1, <3>2, <1>1, <1>6 DEF RecordPipeline
  <2> QED BY <1>6, <2>1, <2>2 DEF RecordPipeline
<1>7. CASE PipelinesRestart
  <2>1. ASSUME NEW p \in PipelineRuns PROVE PipeInv(p)'
    <3>1. \/ pipes'[p] = pipes[p]
          \/ ~At(p, "new") /\ pipes'[p] = [pipes[p] EXCEPT !.at = "abandoned"]
      BY <1>7 DEF PipelinesRestart, At
    <3> QED BY <3>1, <1>2, LeavingKeeps
  <2> QED BY <2>1, <1>7 DEF PipelinesRestart, PipelinesInv
<1>8. CASE UNCHANGED pipelineVars BY <1>8, <1>2 DEF pipelineVars, PipelinesInv
<1> QED BY <1>3, <1>4, <1>5, <1>6, <1>7, <1>8 DEF PipelinesAct
=============================================================================
