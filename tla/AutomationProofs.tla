--------------------------- MODULE AutomationProofs ---------------------------
(***************************************************************************)
(* Theorems about the automation as a whole, for any number of schedules,  *)
(* executions, pipelines, runs, clusters and users, and any budgets.  The  *)
(* steps of one component leave the others alone, so that what each of     *)
(* them keeps (RecordingProofs, DeskProofs) is kept by every step (Steps); *)
(* the history and those who record in it are taken together (Recorded).   *)
(***************************************************************************)
EXTENDS Automation, RecordingProofs, DeskProofs

\* A firing whose recording is behind it, and that was not ended by an exception.
Told(f) == firings[f].at \in {"reporting", "ended"} /\ firings[f].status # "error"

Recorded ==
  /\ \A f \in Firings : Told(f) => f \in Settled
  /\ \A p \in PipelineRuns : At(p, "ended") => p \in Settled

AutomationInv ==
  /\ SchedulesInv /\ PipelinesInv /\ HistoryInv /\ Recorded
  /\ RunsInv /\ DeskInv
  /\ budget \in [Events -> Nat]

HistoryAct ==
  \/ \E x \in Recorders : ReadHistory(x) \/ WriteHistory(x)
  \/ ClearHistory \/ HistoryRestart \/ UNCHANGED historyVars

\* A step of the whole is a step, or none, of every component.
LEMMA Steps ==
  ASSUME [Next]_vars
  PROVE  SchedulesAct /\ PipelinesAct /\ HistoryAct /\ ParallelAct /\ DeskAct
<1> USE DEF SchedulesAct, PipelinesAct, HistoryAct, ParallelAct, DeskAct
<1>1. CASE UNCHANGED vars BY <1>1 DEF vars
<1>2. CASE AutomationEvent BY <1>2 DEF AutomationEvent
<1>3. CASE DeskEvent BY <1>3 DEF DeskEvent
<1>4. CASE Restart BY <1>4 DEF Restart
<1>5. CASE SchedulesGoOn
  <2>1. CASE ScheduleStep /\ UNCHANGED historyVars BY <2>1, <1>5 DEF SchedulesGoOn
  <2>2. CASE \E f \in Firings : RecordFiring(f)
    <3>1. HistoryAct BY <2>2, AutomationAssumption DEF RecordFiring
    <3> QED BY <3>1, <2>2, <1>5 DEF SchedulesGoOn
  <2> QED BY <1>5, <2>1, <2>2 DEF SchedulesGoOn
<1>6. CASE PipelinesGoOn
  <2>1. CASE PipelineStep /\ UNCHANGED historyVars BY <2>1, <1>6 DEF PipelinesGoOn
  <2>2. CASE \E p \in PipelineRuns : RecordPipeline(p)
    <3>1. HistoryAct BY <2>2, AutomationAssumption DEF RecordPipeline
    <3> QED BY <3>1, <2>2, <1>6 DEF PipelinesGoOn
  <2> QED BY <1>6, <2>1, <2>2 DEF PipelinesGoOn
<1>7. CASE RunsGoOn BY <1>7 DEF RunsGoOn
<1>8. CASE DeskGoesOn BY <1>8 DEF DeskGoesOn
<1> QED BY <1>1, <1>2, <1>3, <1>4, <1>5, <1>6, <1>7, <1>8 DEF Next

\* No step of the history unsettles what is settled.
LEMMA HistoryKeeps ==
  ASSUME HistoryInv, HistoryAct PROVE HistoryInv' /\ Settled \subseteq Settled'
BY ReadKeeps, WriteKeeps, ClearKeeps, HistoryRestartKeeps, HistoryStutters DEF HistoryAct

\* Nobody has his recording behind him but by it.
LEMMA TellingRecords ==
  ASSUME AutomationInv, [Next]_vars
  PROVE  /\ \A f \in Firings : Told(f)' => Told(f) \/ f \in Settled'
         /\ \A p \in PipelineRuns : At(p, "ended")' => At(p, "ended") \/ p \in Settled'
<1> DEFINE Unrecorded == \/ ScheduleRequest \/ ScheduleFires \/ ScheduleStep \/ SchedulesRestart
                         \/ UNCHANGED scheduleVars
           UnrecordedPipe == \/ PipelineRequest \/ FileChange \/ PipelineStep \/ PipelinesRestart
                             \/ UNCHANGED pipelineVars
<1>1. /\ firings \in [Firings -> FiringRecords] /\ DOMAIN pipes = PipelineRuns
      /\ \A p \in PipelineRuns : pipes[p] \in PipeRecords
      /\ HistoryInv
  BY DEF AutomationInv, SchedulesInv, SchedulesTypeOK, FiringRecords, PipelinesInv, PipeInv
<1>2. CASE SchedulesGoOn /\ \E f \in Firings : RecordFiring(f)
  <2>1. pipes' = pipes BY <1>2 DEF SchedulesGoOn, pipelineVars
  <2>2. PICK f \in Firings : RecordFiring(f) BY <1>2
  <2>3. CASE UNCHANGED scheduleVars
    BY <2>1, <2>3 DEF scheduleVars, Told, At
  <2>4. CASE WriteHistory(f) /\ Settle(f, "reporting", firings[f].status)
    <3>1. f \in Settled' BY <2>4, <1>1, AutomationAssumption, WriteKeeps
    <3>2. \A g \in Firings \ {f} : firings'[g] = firings[g] BY <2>4, <1>1 DEF Settle
    <3> QED BY <3>1, <3>2, <2>1 DEF Told, At
  <2> QED BY <2>2, <2>3, <2>4 DEF RecordFiring
<1>3. CASE PipelinesGoOn /\ \E p \in PipelineRuns : RecordPipeline(p)
  <2>1. firings' = firings BY <1>3 DEF PipelinesGoOn, scheduleVars
  <2>2. PICK p \in PipelineRuns : RecordPipeline(p) BY <1>3
  <2>3. CASE pipes' = pipes BY <2>1, <2>3 DEF Told, At
  <2>4. CASE WriteHistory(p) /\ pipes' = [pipes EXCEPT ![p].at = "ended"]
    <3>1. p \in Settled' BY <2>4, <1>1, AutomationAssumption, WriteKeeps
    <3>2. \A q \in PipelineRuns \ {p} : pipes'[q] = pipes[q] BY <2>4, <1>1
    <3> QED BY <3>1, <3>2, <2>1 DEF Told, At
  <2> QED BY <2>2, <2>3, <2>4 DEF RecordPipeline
<1>4. ASSUME Unrecorded, NEW f \in Firings, Told(f)'
      PROVE  Told(f)
  <2>1. ASSUME NEW g \in Firings, NEW at \in {"recording", "reporting"}, NEW status,
               Settle(g, at, status), at = "reporting" => status = "error"
        PROVE  Told(f)
    <3>1. /\ firings'[g].at = at /\ firings'[g].status = status
          /\ \A h \in Firings \ {g} : firings'[h] = firings[h]
      BY <2>1, <1>1 DEF Settle, FiringRecords
    <3> QED BY <3>1, <2>1, <1>4 DEF Told
  <2>2. CASE ScheduleRequest
    BY <2>2, <1>4 DEF ScheduleRequest, Create, Update, Delete, Told
  <2>3. CASE ScheduleFires
    <3>1. PICK g \in Firings : \E s \in Schedules : \E by, copy : Fire(g, s, by, copy)
      BY <2>3 DEF ScheduleFires, RunNow, TriggerFires, PollFires
    <3>2. firings'[g].at = "running" /\ \A h \in Firings \ {g} : firings'[h] = firings[h]
      BY <3>1, <1>1 DEF Fire
    <3> QED BY <3>2, <1>4 DEF Told
  <2>4. CASE ScheduleStep
    <3>1. CASE \E c \in Calls : Unregister(c) \/ Register(c) \/ Remove(c)
      BY <3>1, <1>4 DEF Unregister, Register, Remove, Told
    <3>2. ASSUME NEW g \in Firings, Refuse(g) \/ Execute(g) \/ Raise(g) PROVE Told(f)
      BY <3>2, <2>1 DEF Refuse, Execute, Raise
    <3>3. ASSUME NEW g \in Firings, Report(g) PROVE Told(f)
      <4>1. /\ firings[g].at = "reporting" /\ firings'[g].status = firings[g].status
            /\ \A h \in Firings \ {g} : firings'[h] = firings[h]
        BY <3>3, <1>1 DEF Report, Under, FiringRecords
      <4> QED BY <4>1, <1>4 DEF Told
    <3> QED BY <2>4, <3>1, <3>2, <3>3 DEF ScheduleStep
  <2>5. CASE SchedulesRestart
    <3>1. firings'[f] = IF firings[f].at \in {"new", "ended"} THEN firings[f]
                        ELSE [firings[f] EXCEPT !.at = "lost"]
      BY <2>5 DEF SchedulesRestart
    <3>2. firings'[f] = firings[f] \/ firings'[f].at = "lost"
      BY <3>1, <1>1 DEF FiringRecords
    <3> QED BY <3>2, <1>4 DEF Told
  <2>6. CASE UNCHANGED scheduleVars BY <2>6, <1>4 DEF scheduleVars, Told
  <2> QED BY <1>4, <2>2, <2>3, <2>4, <2>5, <2>6
<1>5. ASSUME UnrecordedPipe, NEW p \in PipelineRuns, At(p, "ended")'
      PROVE  At(p, "ended")
  <2>1. ASSUME NEW q \in PipelineRuns, NEW r, pipes' = [pipes EXCEPT ![q] = r], r.at # "ended"
        PROVE  At(p, "ended")
    BY <2>1, <1>1, <1>5 DEF At
  <2>2. CASE PipelineRequest
    <3>1. PICK q \in PipelineRuns, plan \in Plans : RequestPipeline(q, plan)
      BY <2>2 DEF PipelineRequest
    <3> DEFINE r == [NoPipe EXCEPT !.at = "validating", !.plan = plan, !.step = 1]
    <3>2. r.at = "validating" BY DEF NoPipe
    <3>3. pipes' = [pipes EXCEPT ![q] = r] BY <3>1 DEF RequestPipeline
    <3> HIDE DEF r
    <3> QED BY <3>2, <3>3, <2>1
  <2>3. CASE FileChange BY <2>3, <1>5 DEF FileChange, EditFile, At
  <2>4. CASE PipelineStep
    <3>1. PICK q \in PipelineRuns :
            \/ Validate(q) \/ Block(q) \/ StartStep(q) \/ Disconnect(q)
            \/ \E result \in {"success", "failed"} : StepEnds(q, result)
      BY <2>4 DEF PipelineStep
    <3>2. pipes[q] \in PipeRecords BY <1>1
    <3>3. \A o \in PipelineRuns \ {q} : pipes'[o] = pipes[o]
      BY <3>1, <1>1 DEF Validate, Block, StartStep, Disconnect, StepEnds
    <3>4. pipes'[q].at # "ended"
      <4>1. CASE Validate(q)
        <5> DEFINE content == files[Step(q).file]
        <5>1. CASE ~Passes(Step(q), content)
          BY <5>1, <4>1, <3>2, <1>1 DEF Validate, PipeRecords
        <5>2. CASE Passes(Step(q), content)
          <6> DEFINE r == [pipes[q] EXCEPT !.at = IF Last(q) THEN "ready" ELSE "validating",
                                           !.step = IF Last(q) THEN 1 ELSE pipes[q].step + 1,
                                           !.copies = Kept(q, content)]
          <6>1. pipes'[q] = r BY <5>2, <4>1, <1>1 DEF Validate
          <6>2. r.at \in {"ready", "validating"} BY <3>2 DEF PipeRecords
          <6> HIDE DEF r
          <6> QED BY <6>1, <6>2
        <5> QED BY <5>1, <5>2
      <4>2. CASE Block(q) \/ StartStep(q) \/ Disconnect(q)
        BY <4>2, <3>2, <1>1 DEF Block, StartStep, Disconnect, PipeRecords
      <4>3. ASSUME NEW result \in {"success", "failed"}, StepEnds(q, result)
            PROVE  pipes'[q].at # "ended"
        BY <4>3, <3>2, <1>1 DEF StepEnds, PipeRecords
      <4> QED BY <3>1, <4>1, <4>2, <4>3
    <3> QED BY <3>3, <3>4, <1>5 DEF At
  <2>5. CASE PipelinesRestart
    <3>1. pipes'[p] = IF pipes[p].at \in {"validating", "ready", "executing", "recording"}
                      THEN [pipes[p] EXCEPT !.at = "abandoned"] ELSE pipes[p]
      BY <2>5 DEF PipelinesRestart
    <3>2. pipes'[p] = pipes[p] \/ pipes'[p].at = "abandoned"
      BY <3>1, <1>1 DEF PipeRecords
    <3> QED BY <3>2, <1>5 DEF At
  <2>6. CASE UNCHANGED pipelineVars BY <2>6, <1>5 DEF pipelineVars, At
  <2> QED BY <1>5, <2>2, <2>3, <2>4, <2>5, <2>6
<1>6. \/ SchedulesGoOn /\ \E f \in Firings : RecordFiring(f)
      \/ PipelinesGoOn /\ \E p \in PipelineRuns : RecordPipeline(p)
      \/ Unrecorded /\ UnrecordedPipe
  <2>1. CASE UNCHANGED vars BY <2>1 DEF vars
  <2>2. CASE AutomationEvent BY <2>2 DEF AutomationEvent
  <2>3. CASE DeskEvent BY <2>3 DEF DeskEvent
  <2>4. CASE Restart BY <2>4 DEF Restart
  <2>5. CASE SchedulesGoOn BY <2>5 DEF SchedulesGoOn
  <2>6. CASE PipelinesGoOn BY <2>6 DEF PipelinesGoOn
  <2>7. CASE RunsGoOn BY <2>7 DEF RunsGoOn
  <2>8. CASE DeskGoesOn BY <2>8 DEF DeskGoesOn
  <2> QED BY <2>1, <2>2, <2>3, <2>4, <2>5, <2>6, <2>7, <2>8 DEF Next
<1> HIDE DEF Unrecorded, UnrecordedPipe
<1> QED BY <1>2, <1>3, <1>4, <1>5, <1>6

LEMMA RecordedKeeps ==
  ASSUME AutomationInv, [Next]_vars PROVE Recorded'
<1>1. Settled \subseteq Settled' BY Steps, HistoryKeeps DEF AutomationInv
<1> QED BY <1>1, TellingRecords DEF AutomationInv, Recorded

LEMMA BudgetKeeps ==
  ASSUME budget \in [Events -> Nat], [Next]_vars PROVE budget' \in [Events -> Nat]
<1>1. ASSUME NEW event \in Events, Spend(event) PROVE budget' \in [Events -> Nat]
  BY <1>1 DEF Spend
<1>2. \/ budget' = budget
      \/ \E event \in Events : Spend(event)
  BY DEF vars, Next, AutomationEvent, DeskEvent, Restart, SchedulesGoOn, PipelinesGoOn,
         RunsGoOn, DeskGoesOn, Events
<1> QED BY <1>1, <1>2

LEMMA AutomationStart == ASSUME Init PROVE AutomationInv
<1>1. SchedulesInv /\ PipelinesInv /\ RunsInv /\ DeskInv
  BY SchedulesStart, PipelinesStart, RunsStart, DeskStart DEF Init
<1>2. HistoryInv BY HistoryAssumption DEF Init, HistoryInit, HistoryInv, Readers, EntriesOf
<1>3. Recorded
  BY DEF Init, SchedulesInit, PipelinesInit, Recorded, Told, NoFiring, NoPipe, At
<1>4. budget \in [Events -> Nat] BY AutomationAssumption DEF Init
<1> QED BY <1>1, <1>2, <1>3, <1>4 DEF AutomationInv

\* The invariant is inductive.
THEOREM AutomationInvariant == Spec => []AutomationInv
<1>1. ASSUME AutomationInv, [Next]_vars PROVE AutomationInv'
  <2>1. SchedulesInv' BY <1>1, Steps, SchedulesKeep DEF AutomationInv
  <2>2. PipelinesInv' BY <1>1, Steps, PipelinesKeep DEF AutomationInv
  <2>3. HistoryInv' BY <1>1, Steps, HistoryKeeps DEF AutomationInv
  <2>4. RunsInv' BY <1>1, Steps, RunsKeep DEF AutomationInv
  <2>5. DeskInv' BY <1>1, Steps, DeskKeep DEF AutomationInv
  <2>6. Recorded' BY <1>1, RecordedKeeps
  <2>7. budget' \in [Events -> Nat] BY <1>1, BudgetKeeps DEF AutomationInv
  <2> QED BY <2>1, <2>2, <2>3, <2>4, <2>5, <2>6, <2>7 DEF AutomationInv
<1> QED BY <1>1, AutomationStart, PTL DEF Spec

\* Every variable keeps its type.
THEOREM AutomationTypes == Spec => []TypeOK
<1>1. ASSUME AutomationInv PROVE TypeOK
  <2>1. SchedulesTypeOK BY <1>1 DEF AutomationInv, SchedulesInv
  <2>2. PipelinesTypeOK BY <1>1, InvGivesPipelines DEF AutomationInv
  <2>3. HistoryTypeOK BY <1>1 DEF AutomationInv, HistoryInv, HistoryTypeOK, Readers
  <2>4. ParallelTypeOK /\ OperationsTypeOK BY <1>1, InvGivesRuns, InvGivesDesk DEF AutomationInv
  <2>5. \A event \in Events : budget[event] \in Nat BY <1>1 DEF AutomationInv
  <2> QED BY <2>1, <2>2, <2>3, <2>4, <2>5 DEF TypeOK
<1> QED BY <1>1, AutomationInvariant, PTL

\* Once no request is under way for a schedule whose requests did not overlap, its
\* trigger is that of what is stored, however many requests there were before.
THEOREM SchedulesFollowStore == Spec => []RegistrationFollowsStore
<1>1. ASSUME AutomationInv PROVE RegistrationFollowsStore
  BY <1>1, ConsistentFollows DEF AutomationInv
<1> QED BY <1>1, AutomationInvariant, PTL

\* An execution that came to its end with a known status is in the history or has
\* one of the three excuses.
THEOREM HistoryKeepsRecords == Spec => []RecordsKept
<1>1. ASSUME AutomationInv PROVE RecordsKept
  BY <1>1 DEF AutomationInv, Recorded, Told, At, Settled, RecordsKept, Finished
<1> QED BY <1>1, AutomationInvariant, PTL

\* A user or title script is given what its own validator accepted, and runs after
\* successes only.
THEOREM PipelinesRunValidated == Spec => []RunsWhatWasValidated
<1>1. ASSUME AutomationInv PROVE RunsWhatWasValidated
  BY <1>1, InvGivesPipelines DEF AutomationInv
<1> QED BY <1>1, AutomationInvariant, PTL

\* A closed parallel run says of its sites what their processes did, and the
\* webhook, which is called after the lock, was told nothing else.
THEOREM RunsTellTheirSites == Spec => []VerdictOfSites
<1>1. ASSUME AutomationInv PROVE VerdictOfSites
  BY <1>1, InvGivesRuns DEF AutomationInv
<1> QED BY <1>1, AutomationInvariant, PTL

\* An observation is of the cluster its record describes.
THEOREM ObservationsFit == Spec => []EvidenceOfBaseline
<1>1. ASSUME AutomationInv PROVE EvidenceOfBaseline
  BY <1>1, InvGivesDesk DEF AutomationInv
<1> QED BY <1>1, AutomationInvariant, PTL

\* An attention item is reviewed in the version its reviewer saw.
THEOREM ReviewsAreOfWhatIsSeen == Spec => []ReviewedWasSeen
<1>1. ASSUME AutomationInv PROVE ReviewedWasSeen
  BY <1>1, InvGivesDesk DEF AutomationInv
<1> QED BY <1>1, AutomationInvariant, PTL
=============================================================================
