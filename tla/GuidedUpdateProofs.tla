------------------------- MODULE GuidedUpdateProofs -------------------------
(***************************************************************************)
(* Proofs, for any images, requests and bounds, that guided updates carry  *)
(* out a request once, keep an unproven host locked, stop the application  *)
(* only when it is idle, and undo a started image by a rollback only.      *)
(*                                                                         *)
(* IInv says what each place of the service's program stands for: what the *)
(* request asks for, whether the appliance is locked, and which image runs *)
(* there.                                                                  *)
(***************************************************************************)
EXTENDS GuidedUpdate, TLAPS

\* Places of the service's program.
Preparing   == {"settle", "stage"}
Replacing   == {"stop", "backup", "load", "start", "verify", "restore", "restored"}
RollingBack == {"wait", "revert", "check"}
Installing  == {"install"} \cup Preparing \cup Replacing
Working     == {"preflight", "rollback"} \cup Installing \cup RollingBack

\* Requests that go about are known, and so is what they ask for.
Known ==
  /\ inbox # Nothing => web[inbox] # "new"
  /\ cur # Nothing => web[cur] # "new"
  /\ op # Nothing => web[op] # "new"
  /\ \A r \in Requests : ready[r] # Nothing => web[r] # "new"
  /\ \A r \in Requests : ready[r] # Nothing => image[r] # Nothing
  /\ \A r \in Requests : web[r] # "new" => action[r] \in Actions
  /\ \A r \in Requests : web[r] # "new" /\ action[r] = "install" => plan[r] \in Requests
  /\ \A r \in Requests : web[r] # "new" /\ action[r] \in {"preflight", "install"} => image[r] # Nothing

\* The service works on the operation it recorded.
Recorded ==
  /\ pc = "claimed" => cur # Nothing
  /\ pc \in Working => cur # Nothing /\ op = cur /\ status = "running"
  /\ pc = "preflight" => action[cur] = "preflight"
  /\ pc \in Installing => action[cur] = "install"
  /\ pc \in {"rollback"} \cup RollingBack => action[cur] = "rollback"

\* What was begun has a report.
Reported == \A r \in Requests : begun[r] = 0 \/ (begun[r] = 1 /\ r \in reports)

\* The lock, and the image that runs at each place.
Guarded ==
  /\ pc \in Preparing \cup Replacing \cup RollingBack => maintenance
  /\ pc \in Replacing => mayBeStopped
  /\ pc \in Replacing => rollback = proven
  /\ pc \in RollingBack => rollback # Nothing
  /\ pc \in {"preflight", "install", "stop"} \cup Preparing => app = proven
  /\ pc \in {"stage", "stop"} => jobs = 0 /\ ~entering
  /\ pc \in {"backup", "load", "start"} => app = Down
  /\ pc = "restore" => app \in {Down, proven}
  /\ pc \in {"restored", "check"} => app # Down
  /\ pc \in {"start", "verify"} => targetStarted
  /\ status = "running" /\ app \notin {Down, proven} => targetStarted \/ action[op] = "rollback"

IInv == TypeOK /\ Known /\ Recorded /\ Reported /\ Guarded /\ UnprovenStaysLocked

-----------------------------------------------------------------------------
LEMMA InitIInv == Init => IInv
<1> SUFFICES ASSUME Init PROVE IInv
  OBVIOUS
<1> USE UpdateAssumption DEF Init
<1>1. TypeOK
  BY DEF TypeOK, Settled, Actions
<1>2. Known
  BY DEF Known
<1>5. Reported
  BY DEF Reported
<1>3. Recorded /\ Guarded
  BY DEF Recorded, Guarded, Working, Installing, Preparing, Replacing, RollingBack
<1>4. UnprovenStaysLocked
  BY DEF UnprovenStaysLocked
<1> QED BY <1>1, <1>2, <1>3, <1>4, <1>5 DEF IInv

LEMMA WebKeeps ==
  ASSUME IInv, NEW r \in Requests, Web(r)
  PROVE  IInv'
<1> USE UpdateAssumption
    DEF IInv, TypeOK, Known, Recorded, Reported, Guarded, UnprovenStaysLocked, saved, work, history, Actions
<1>1. ASSUME NEW i \in Images, AskPreflight(r, i) PROVE IInv'
  <2>1. TypeOK'
    BY <1>1 DEF AskPreflight, Ask
  <2>2. Known'
    BY <1>1 DEF AskPreflight, Ask
  <2>3. Recorded' /\ Reported'
    BY <1>1 DEF AskPreflight, Ask
  <2>4. Guarded' /\ UnprovenStaysLocked'
    BY <1>1 DEF AskPreflight, Ask
  <2> QED BY <2>1, <2>2, <2>3, <2>4
<1>2. ASSUME NEW p \in Requests, AskInstall(r, p) PROVE IInv'
  BY <1>2 DEF AskInstall, Ask
<1>3. CASE AskRollback(r) BY <1>3 DEF AskRollback, Ask
<1>4. CASE AskAgain(r) BY <1>4 DEF AskAgain
<1>5. CASE TakeSlot(r) BY <1>5 DEF TakeSlot
<1>6. CASE Publish(r) BY <1>6 DEF Publish
<1>7. CASE PublishFails(r)
  <2>1. TypeOK'
    <3> HIDE DEF Known, Recorded, Reported, Guarded, UnprovenStaysLocked
    <3>1. lock' \in BOOLEAN
      BY <1>7, Zenon DEF PublishFails
    <3>2. web' \in [Requests -> {"new", "checked", "locked", "sent", "lost"}]
      BY <1>7 DEF PublishFails
    <3>3. UNCHANGED <<action, image, plan, inbox, retries, saved, work, history, pc, cur, app, crashes>>
      BY <1>7 DEF PublishFails
    <3> QED BY <3>1, <3>2, <3>3
  <2>2. Known'
    BY <1>7 DEF PublishFails
  <2>3. Recorded'
    BY <1>7 DEF PublishFails
  <2>4. Reported'
    BY <1>7 DEF PublishFails
  <2>5. Guarded'
    BY <1>7 DEF PublishFails
  <2>6. UnprovenStaysLocked'
    BY <1>7 DEF PublishFails
  <2> QED BY <2>1, <2>2, <2>3, <2>4, <2>5, <2>6
<1> QED BY <1>1, <1>2, <1>3, <1>4, <1>5, <1>6, <1>7 DEF Web

LEMMA JobsKeep ==
  ASSUME IInv, JobEnters \/ JobQueued \/ JobEnds
  PROVE  IInv'
<1> USE UpdateAssumption
    DEF IInv, TypeOK, Known, Recorded, Reported, Guarded, UnprovenStaysLocked, spool, saved, history,
        Preparing, Replacing, RollingBack
<1>1. CASE JobEnters BY <1>1 DEF JobEnters
<1>2. CASE JobQueued
  <2>1. TypeOK'
    <3> HIDE DEF Known, Recorded, Reported, Guarded, UnprovenStaysLocked
    <3>1. entering' \in BOOLEAN
      BY <1>2, Zenon DEF JobQueued
    <3>2. jobs' \in Nat
      BY <1>2 DEF JobQueued
    <3>3. UNCHANGED <<spool, saved, history, submitted, pc, cur, app, crashes>>
      BY <1>2 DEF JobQueued
    <3> QED BY <3>1, <3>2, <3>3
  <2>2. Known'
    BY <1>2 DEF JobQueued
  <2>3. Recorded'
    BY <1>2 DEF JobQueued
  <2>4. Reported'
    BY <1>2 DEF JobQueued
  <2>5. Guarded'
    BY <1>2 DEF JobQueued
  <2>6. UnprovenStaysLocked'
    BY <1>2 DEF JobQueued
  <2> QED BY <2>1, <2>2, <2>3, <2>4, <2>5, <2>6
<1>3. CASE JobEnds BY <1>3 DEF JobEnds
<1> QED BY <1>1, <1>2, <1>3

\* Between requests.
LEMMA SpoolKeeps ==
  ASSUME IInv, Claim \/ Accept \/ Release \/ ExpireSlot
  PROVE  IInv'
<1> USE UpdateAssumption
    DEF IInv, TypeOK, Known, Recorded, Reported, Guarded, UnprovenStaysLocked, spool, saved, work, history,
        Preparing, Replacing, RollingBack, Installing, Working, Go, Settled, Actions
<1>1. CASE Claim BY <1>1 DEF Claim
<1>2. CASE Accept
  <2>1. CASE cur \in reports \/ (maintenance /\ action[cur] # "rollback")
    <3>1. /\ pc' = "done"
          /\ UNCHANGED <<spool, saved, work, history, cur, app, crashes>>
      BY <1>2, <2>1 DEF Accept
    <3> QED BY <3>1
  <2>2. CASE ~(cur \in reports \/ (maintenance /\ action[cur] # "rollback"))
    <3>1. /\ pc = "claimed" /\ cur \in Requests /\ cur \notin reports /\ web[cur] # "new"
          /\ maintenance => action[cur] = "rollback"
      BY <1>2, <2>2 DEF Accept
    <3>2. /\ pc' = action[cur]
          /\ op' = cur /\ status' = "running"
          /\ targetStarted' = (targetStarted /\ maintenance)
          /\ reports' = reports \cup {cur}
          /\ begun' = [begun EXCEPT ![cur] = @ + 1]
          /\ UNCHANGED <<spool, maintenance, mayBeStopped, rollback, ready, used, work, proven, cur, app, crashes>>
      BY <1>2, <2>2, Zenon DEF Accept
    <3>3. action[cur] \in Actions
      BY <3>1
    <3>4. TypeOK'
      <4> HIDE DEF Known, Recorded, Reported, Guarded, UnprovenStaysLocked
      <4>1. targetStarted' \in BOOLEAN
        BY <3>2, Zenon
      <4> QED BY <4>1, <3>1, <3>2, <3>3
    <3>5. Known'
      BY <3>1, <3>2
    <3>6. Recorded'
      BY <3>1, <3>2, <3>3
    <3>7. Reported'
      BY <3>1, <3>2
    <3>8. Guarded'
      BY <3>1, <3>2, <3>3
    <3>9. UnprovenStaysLocked'
      BY <3>1, <3>2
    <3> QED BY <3>4, <3>5, <3>6, <3>7, <3>8, <3>9
  <2> QED BY <2>1, <2>2
<1>3. CASE Release
  <2>1. TypeOK'
    <3> HIDE DEF Known, Recorded, Reported, Guarded, UnprovenStaysLocked
    <3>1. lock' \in BOOLEAN
      BY <1>3, Zenon DEF Release
    <3>2. pc' = "idle" /\ cur' = Nothing
      BY <1>3 DEF Release
    <3>3. UNCHANGED <<web, action, image, plan, inbox, retries, saved, work, history, app, crashes>>
      BY <1>3 DEF Release
    <3> QED BY <3>1, <3>2, <3>3
  <2>2. Known'
    BY <1>3 DEF Release
  <2>3. Recorded'
    BY <1>3 DEF Release
  <2>4. Reported'
    BY <1>3 DEF Release
  <2>5. Guarded'
    BY <1>3 DEF Release
  <2>6. UnprovenStaysLocked'
    BY <1>3 DEF Release
  <2> QED BY <2>1, <2>2, <2>3, <2>4, <2>5, <2>6
<1>4. CASE ExpireSlot
  <2>1. TypeOK'
    <3> HIDE DEF Known, Recorded, Reported, Guarded, UnprovenStaysLocked
    <3>1. lock' \in BOOLEAN
      BY <1>4, Zenon DEF ExpireSlot
    <3>2. UNCHANGED <<web, action, image, plan, inbox, retries, saved, work, history, pc, cur, app, crashes>>
      BY <1>4 DEF ExpireSlot
    <3> QED BY <3>1, <3>2
  <2>2. Known'
    BY <1>4 DEF ExpireSlot
  <2>3. Recorded'
    BY <1>4 DEF ExpireSlot
  <2>4. Reported'
    BY <1>4 DEF ExpireSlot
  <2>5. Guarded'
    BY <1>4 DEF ExpireSlot
  <2>6. UnprovenStaysLocked'
    BY <1>4 DEF ExpireSlot
  <2> QED BY <2>1, <2>2, <2>3, <2>4, <2>5, <2>6
<1> QED BY <1>1, <1>2, <1>3, <1>4

\* What starting an image does to the threads of the application.
LEMMA RunsKeeps ==
  ASSUME TypeOK, NEW i \in Images, Runs(i)
  PROVE  /\ app' = i
         /\ web' \in [Requests -> {"new", "checked", "locked", "sent", "lost"}]
         /\ \A r \in Requests : web'[r] = "new" <=> web[r] = "new"
         /\ entering' \in BOOLEAN
         /\ jobs' \in Nat
         /\ UNCHANGED <<action, image, plan, lock, inbox, retries, submitted>>
<1>1. CASE app \in {i, Down}
  BY <1>1 DEF TypeOK, Runs, spool, work
<1>2. CASE app \notin {i, Down}
  <2> SUFFICES ASSUME WebStops PROVE /\ web' \in [Requests -> {"new", "checked", "locked", "sent", "lost"}]
                                     /\ \A r \in Requests : web'[r] = "new" <=> web[r] = "new"
                                     /\ entering' \in BOOLEAN
                                     /\ jobs' \in Nat
                                     /\ UNCHANGED <<action, image, plan, lock, inbox, retries, submitted>>
    BY <1>2, Zenon DEF Runs
  <2>1. entering' \in BOOLEAN
    BY Zenon DEF WebStops
  <2>2. jobs' \in Nat /\ UNCHANGED <<action, image, plan, lock, inbox, retries, submitted>>
    BY DEF WebStops
  <2>3. web' \in [Requests -> {"new", "checked", "locked", "sent", "lost"}]
    BY DEF TypeOK, WebStops
  <2>4. \A r \in Requests : web'[r] = "new" <=> web[r] = "new"
    BY DEF TypeOK, WebStops
  <2> QED BY <2>1, <2>2, <2>3, <2>4
<1> QED BY <1>1, <1>2

\* Steps of an operation.
LEMMA OperationKeeps ==
  ASSUME IInv, Preflight \/ Install \/ RollBack \/ Fails
  PROVE  IInv'
<1> USE UpdateAssumption
    DEF IInv, TypeOK, Known, Recorded, Reported, Guarded, UnprovenStaysLocked, spool, saved, work, history,
        Preparing, Replacing, RollingBack, Installing, Working, Go, Settled, Actions, Unchanged,
        WebStops, Runs, Success
<1>1. CASE Preflight BY <1>1 DEF Preflight
<1>2. CASE Lock BY <1>2 DEF Lock
<1>3. CASE Recheck
  <2>1. TypeOK'
    <3>0. cur \in Requests /\ plan[cur] \in Requests
      <4>1. pc \in Installing /\ pc \in Working
        BY <1>3 DEF Recheck
      <4>2. cur # Nothing /\ action[cur] = "install"
        BY <4>1
      <4> QED BY <4>2
    <3> HIDE DEF Known, Recorded, Reported, Guarded, UnprovenStaysLocked
    <3>1. UNCHANGED <<entering, maintenance, targetStarted, mayBeStopped, lock>>
      BY <1>3 DEF Recheck
    <3>2. used' \subseteq Requests
      BY <1>3, <3>0 DEF Recheck
    <3>3. pc' = "stage"
      BY <1>3 DEF Recheck
    <3>4. UNCHANGED <<web, action, image, plan, inbox, retries, op, status, rollback, ready, reports, jobs, submitted, history, cur, app, crashes>>
      BY <1>3 DEF Recheck
    <3> QED BY <3>1, <3>2, <3>3, <3>4
  <2>2. Known'
    BY <1>3 DEF Recheck
  <2>3. Recorded'
    BY <1>3 DEF Recheck
  <2>4. Reported'
    BY <1>3 DEF Recheck
  <2>5. Guarded'
    BY <1>3 DEF Recheck
  <2>6. UnprovenStaysLocked'
    BY <1>3 DEF Recheck
  <2> QED BY <2>1, <2>2, <2>3, <2>4, <2>5, <2>6
<1>4. CASE Retain BY <1>4 DEF Retain
<1>5. CASE Stop BY <1>5 DEF Stop
<1>6. CASE Backup BY <1>6 DEF Backup
<1>7. CASE Load BY <1>7 DEF Load
<1>8. CASE GiveUp BY <1>8 DEF GiveUp
<1>9. CASE Start BY <1>9 DEF Start
<1>10. CASE Verify BY <1>10 DEF Verify
<1>11. CASE Restore
  <2>1. TypeOK'
    <3>1. rollback \in Images /\ Runs(rollback) /\ UNCHANGED <<saved, history, cur, crashes>>
      BY <1>11 DEF Restore
    <3>2. pc' \in {"restored", "check"}
      BY <1>11 DEF Restore
    <3> HIDE DEF Runs
    <3> QED BY <3>1, <3>2, RunsKeeps
  <2>2. Known'
    BY <1>11 DEF Restore
  <2>3. Recorded'
    BY <1>11 DEF Restore
  <2>4. Reported'
    BY <1>11 DEF Restore
  <2>5. Guarded'
    BY <1>11 DEF Restore
  <2>6. UnprovenStaysLocked'
    BY <1>11 DEF Restore
  <2> QED BY <2>1, <2>2, <2>3, <2>4, <2>5, <2>6
<1>12. CASE Restored BY <1>12 DEF Restored
<1>13. CASE LockRollback BY <1>13 DEF LockRollback
<1>14. CASE WaitIdle BY <1>14 DEF WaitIdle
<1>15. CASE Revert
  <2>1. TypeOK'
    <3>1. rollback \in Images /\ Runs(rollback) /\ UNCHANGED <<saved, history, cur, crashes>>
      BY <1>15 DEF Revert
    <3>2. pc' \in {"restored", "check"}
      BY <1>15 DEF Revert
    <3> HIDE DEF Runs
    <3> QED BY <3>1, <3>2, RunsKeeps
  <2>2. Known'
    BY <1>15 DEF Revert
  <2>3. Recorded'
    BY <1>15 DEF Revert
  <2>4. Reported'
    BY <1>15 DEF Revert
  <2>5. Guarded'
    BY <1>15 DEF Revert
  <2>6. UnprovenStaysLocked'
    BY <1>15 DEF Revert
  <2> QED BY <2>1, <2>2, <2>3, <2>4, <2>5, <2>6
<1>16. CASE CheckReverted BY <1>16 DEF CheckReverted
<1>17. CASE Fails BY <1>17 DEF Fails, Failed
<1> QED BY <1>1, <1>2, <1>3, <1>4, <1>5, <1>6, <1>7, <1>8, <1>9, <1>10, <1>11, <1>12, <1>13, <1>14,
           <1>15, <1>16, <1>17 DEF Install, RollBack

\* Death and restart of the service.
LEMMA RestartKeeps ==
  ASSUME IInv, Crash \/ Recover \/ RecoverOld \/ RecoverLocked
  PROVE  IInv'
<1> USE UpdateAssumption
    DEF IInv, TypeOK, Known, Recorded, Reported, Guarded, UnprovenStaysLocked, spool, saved, work, history,
        Preparing, Replacing, RollingBack, Installing, Working, Go, Settled, Actions, Unchanged,
        WebStops, Runs, MayRestore, Interrupted
<1>1. CASE Crash BY <1>1 DEF Crash
<1>2. CASE Recover BY <1>2 DEF Recover
<1>3. CASE RecoverOld
  <2>1. TypeOK'
    <3>1. rollback \in Images /\ Runs(rollback) /\ UNCHANGED <<op, targetStarted, rollback, ready, used, reports, begun, cur, crashes>>
      BY <1>3 DEF RecoverOld
    <3>2. pc' = "idle" /\ status' = "interrupted" /\ proven' = rollback
      BY <1>3 DEF RecoverOld
    <3>3. maintenance' \in BOOLEAN /\ mayBeStopped' \in BOOLEAN
      BY <1>3, Zenon DEF RecoverOld
    <3> HIDE DEF Runs, Known, Recorded, Reported, Guarded, UnprovenStaysLocked
    <3> QED BY <3>1, <3>2, <3>3, RunsKeeps
  <2>2. Known'
    BY <1>3 DEF RecoverOld
  <2>3. Recorded'
    BY <1>3 DEF RecoverOld
  <2>4. Reported'
    BY <1>3 DEF RecoverOld
  <2>5. Guarded'
    BY <1>3 DEF RecoverOld
  <2>6. UnprovenStaysLocked'
    BY <1>3 DEF RecoverOld
  <2> QED BY <2>1, <2>2, <2>3, <2>4, <2>5, <2>6
<1>4. CASE RecoverLocked BY <1>4 DEF RecoverLocked
<1> QED BY <1>1, <1>2, <1>3, <1>4

LEMMA StepIInv == IInv /\ [Next]_vars => IInv'
<1> SUFFICES ASSUME IInv, [Next]_vars PROVE IInv'
  OBVIOUS
<1>1. CASE UNCHANGED vars
  BY <1>1 DEF vars, spool, saved, work, history, IInv, TypeOK, Known, Recorded, Reported, Guarded,
              UnprovenStaysLocked
<1> QED BY <1>1, WebKeeps, JobsKeep, SpoolKeeps, OperationKeeps, RestartKeeps DEF Next, Service

LEMMA Invariance == Spec => []IInv
BY InitIInv, StepIInv, PTL DEF Spec

\* Every variable keeps its type.
THEOREM TypeOKHolds == Spec => []TypeOK
<1>1. IInv => TypeOK
  BY DEF IInv
<1> QED BY <1>1, Invariance, PTL

\* No request is carried out twice.
THEOREM AtMostOnceHolds == Spec => []AtMostOnce
<1>1. IInv => AtMostOnce
  BY DEF IInv, Reported, AtMostOnce
<1> QED BY <1>1, Invariance, PTL

\* A host that is down or runs an unverified image stays locked.
THEOREM UnprovenStaysLockedHolds == Spec => []UnprovenStaysLocked
<1>1. IInv => UnprovenStaysLocked
  BY DEF IInv
<1> QED BY <1>1, Invariance, PTL

-----------------------------------------------------------------------------
\* Which steps replace what runs, and from what state.
LEMMA ReplacesWhen ==
  ASSUME IInv, [Next]_vars, app' # app
  PROVE  \/ app' = Down /\ app = proven /\ jobs = 0 /\ ~entering
         \/ app' # Down /\ app \in {Down, proven}
         \/ app' # Down /\ action[op] = "rollback" /\ status = "running"
<1> USE UpdateAssumption DEF IInv
<1>1. Stop \/ Start \/ Restore \/ Revert \/ RecoverOld
  <2>1. ~UNCHANGED vars
    BY DEF vars
  <2>2. ~\E r \in Requests : Web(r)
    BY Zenon DEF Web, AskPreflight, AskInstall, AskRollback, AskAgain, TakeSlot, Publish, PublishFails, Ask
  <2>3. ~(JobEnters \/ JobQueued \/ JobEnds \/ Claim \/ Accept \/ Release \/ Preflight \/ Fails \/ ExpireSlot
           \/ Recover \/ RecoverLocked \/ Crash)
    BY DEF JobEnters, JobQueued, JobEnds, Claim, Accept, Release, Preflight, Fails, ExpireSlot, Recover,
           RecoverLocked, Crash, Unchanged
  <2>4. ~(Lock \/ Recheck \/ Retain \/ Backup \/ Load \/ GiveUp \/ Verify \/ Restored \/ LockRollback \/ WaitIdle
           \/ CheckReverted)
    BY DEF Lock, Recheck, Retain, Backup, Load, GiveUp, Verify, Restored, LockRollback, WaitIdle, CheckReverted,
           Unchanged
  <2> QED BY <2>1, <2>2, <2>3, <2>4 DEF Next, Service, Install, RollBack
<1>2. CASE Stop
  BY <1>2 DEF Stop, Go, Guarded
<1>3. CASE Start
  <2>1. pc = "start" /\ app = Down
    BY <1>3 DEF Start, Go, Guarded
  <2>2. cur \in Requests /\ action[cur] = "install"
    BY <2>1 DEF Recorded, TypeOK, Working, Installing, Replacing
  <2>3. image[cur] \in Images
    BY <2>2, <2>1 DEF Known, Recorded, TypeOK, Working, Installing, Replacing
  <2> QED BY <1>3, <2>1, <2>3 DEF Start, Runs
<1>4. CASE Restore
  <2>1. pc = "restore" /\ app' = rollback
    BY <1>4 DEF Restore, Go, Runs
  <2> QED BY <2>1 DEF Guarded, TypeOK, Replacing
<1>5. CASE Revert
  <2>1. pc = "revert" /\ app' = rollback
    BY <1>5 DEF Revert, Go, Runs
  <2>2. rollback \in Images
    BY <2>1 DEF Guarded, TypeOK, RollingBack
  <2>3. op = cur /\ status = "running" /\ action[cur] = "rollback"
    BY <2>1 DEF Recorded, Working, RollingBack
  <2> QED BY <2>1, <2>2, <2>3
<1>6. CASE RecoverOld
  <2>1. status = "running" /\ ~targetStarted /\ app' = rollback /\ rollback \in Images
    BY <1>6 DEF RecoverOld, MayRestore, Runs, TypeOK
  <2>2. app \in {Down, proven} \/ action[op] = "rollback"
    BY <2>1 DEF Guarded
  <2> QED BY <2>1, <2>2
<1> QED BY <1>1, <1>2, <1>3, <1>4, <1>5, <1>6

\* The application is stopped only when it has no active job and none that is
\* about to be queued (the service looks after maintenance began).
THEOREM StopsOnlyIdleHolds == Spec => StopsOnlyIdle
<1>1. IInv /\ [Next]_vars => [app # Down /\ app' = Down => jobs = 0 /\ ~entering]_vars
  BY ReplacesWhen
<1> QED BY <1>1, Invariance, PTL DEF Spec, StopsOnlyIdle

\* An image that was started and never verified is replaced by a confirmed
\* rollback only.
THEOREM StartedIsNotUndoneHolds == Spec => StartedIsNotUndone
<1>1. IInv /\ [Next]_vars
        => [app \notin {Down, proven} /\ app' # app => action[op] = "rollback" /\ status = "running"]_vars
  BY ReplacesWhen
<1> QED BY <1>1, Invariance, PTL DEF Spec, StartedIsNotUndone
=============================================================================
