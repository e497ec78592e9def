--------------------------- MODULE ApprovalsProofs ---------------------------
(***************************************************************************)
(* Proofs, for any number of approvals and submissions, that a removal     *)
(* approval is used by one job only and that revoking it stops the writes. *)
(*                                                                         *)
(* The argument: while a request thread is between its check and its link  *)
(* it holds the submit lock of its kind and its approval has no job        *)
(* (Linking), so a link is recorded at most once; a removal that got past  *)
(* a check owns that link, and two jobs cannot both own it.                *)
(***************************************************************************)
EXTENDS Approvals, FiniteSetTheorems, TLAPS

\* What a request thread and the job it made say of the approval's link.
Linking ==
  /\ \A s \in Subs : step[s] \in {"checked", "submitted"} =>
       lock[KindOf(s)] = s /\ job[want[s]] = Nobody
  /\ \A s \in Subs : KindOf(s) = "removal" /\ (run[s] \in {"ready", "cleared"} \/ writes[s] > 0)
       => job[want[s]] = s

\* An approval that a job was admitted on is approved for good, and one that
\* was found missing or late by a write will never be good again.
Revoking ==
  /\ \A a \in stored : born[a] > 0
  /\ \A s \in Subs : run[s] \in {"ready", "cleared"} \/ overdue[s] > 0 =>
       status[want[s]] = "approved" /\ born[want[s]] > 0
  /\ \A s \in Subs : KindOf(s) = "removal" /\ overdue[s] > 0 =>
       overdue[s] = 1 /\ run[s] # "cleared" /\ ~Good(want[s])

-----------------------------------------------------------------------------
\* Every variable keeps its type.
THEOREM TypeOKHolds == Spec => []TypeOK
<1> USE ApprovalAssumption DEF TypeOK, Kinds, Decided, storeVars, reqVars, workVars, KindOf, Kind
<1>1. Init => TypeOK
  BY DEF Init
<1>2. TypeOK /\ [Next]_vars => TypeOK'
  <2> SUFFICES ASSUME TypeOK, [Next]_vars PROVE TypeOK'
    OBVIOUS
  <2>0. 1 + Cardinality({b \in Ids : born[b] > 0}) \in Nat
    <3>1. IsFiniteSet({b \in Ids : born[b] > 0})
      BY FS_Subset
    <3>2. Cardinality({b \in Ids : born[b] > 0}) \in Nat
      BY <3>1, FS_CardinalityType
    <3> QED BY <3>2
  <2>1. ASSUME NEW a \in Ids, Store(a) PROVE TypeOK'
    <3>1. CASE Create(a) BY <3>1, <2>0 DEF Create, Saved
    <3>2. CASE Delete(a) BY <3>2 DEF Delete
    <3>3. CASE Elapse(a) BY <3>3 DEF Elapse
    <3>4. CASE AutoExpire(a) BY <3>4 DEF AutoExpire
    <3>5. ASSUME NEW d \in {"approved", "rejected"}, Decide(a, d) PROVE TypeOK'
      BY <3>5 DEF Decide, Pending
    <3> QED BY <2>1, <3>1, <3>2, <3>3, <3>4, <3>5 DEF Store
  <2>2. ASSUME NEW s \in Subs, Submit(s) PROVE TypeOK'
    <3>1. CASE CheckSubmission(s) BY <3>1 DEF CheckSubmission, Unused
    <3>2. CASE SubmitJob(s) BY <3>2 DEF SubmitJob
    <3>3. CASE SubmitFails(s) BY <3>3 DEF SubmitFails, Leave
    <3>4. CASE LinkJob(s) BY <3>4 DEF LinkJob, Leave
    <3>5. CASE LinkFails(s) BY <3>5 DEF LinkFails, Leave
    <3> QED BY <2>2, <3>1, <3>2, <3>3, <3>4, <3>5 DEF Submit
  <2>3. ASSUME NEW s \in Subs, Work(s) PROVE TypeOK'
    <3>1. CASE Start(s) BY <3>1 DEF Start, End
    <3>2. CASE Admit(s) BY <3>2 DEF Admit, End, Owned
    <3>3. CASE Authorize(s) BY <3>3 DEF Authorize, End, Owned
    <3>4. CASE Write(s) BY <3>4 DEF Write
    <3>5. CASE Finish(s) BY <3>5 DEF Finish, End
    <3> QED BY <2>3, <3>1, <3>2, <3>3, <3>4, <3>5 DEF Work
  <2>4. CASE Restart BY <2>4 DEF Restart
  <2>5. CASE UNCHANGED vars BY <2>5 DEF vars
  <2> QED BY <2>1, <2>2, <2>3, <2>4, <2>5 DEF Next
<1> QED BY <1>1, <1>2, PTL DEF Spec

-----------------------------------------------------------------------------
\* The submit lock covers the time from the check of an approval to its link.
THEOREM LinkingHolds == Spec => []Linking
<1> USE ApprovalAssumption DEF TypeOK, Kinds, Decided, storeVars, reqVars, workVars, Linking, KindOf, Kind
<1>1. Init => Linking
  BY DEF Init
<1>2. TypeOK /\ Linking /\ [Next]_vars => Linking'
  <2> SUFFICES ASSUME TypeOK, Linking, [Next]_vars PROVE Linking'
    OBVIOUS
  <2>1. ASSUME NEW a \in Ids, Store(a) PROVE Linking'
    <3>1. CASE Create(a) BY <3>1 DEF Create, Saved
    <3>2. CASE Delete(a) BY <3>2 DEF Delete
    <3>3. CASE Elapse(a) BY <3>3 DEF Elapse
    <3>4. CASE AutoExpire(a) BY <3>4 DEF AutoExpire
    <3>5. ASSUME NEW d \in {"approved", "rejected"}, Decide(a, d) PROVE Linking'
      BY <3>5 DEF Decide, Pending
    <3> QED BY <2>1, <3>1, <3>2, <3>3, <3>4, <3>5 DEF Store
  <2>2. ASSUME NEW s \in Subs, Submit(s) PROVE Linking'
    <3>1. CASE CheckSubmission(s) BY <3>1 DEF CheckSubmission, Unused
    <3>2. CASE SubmitJob(s) BY <3>2 DEF SubmitJob
    <3>3. CASE SubmitFails(s) BY <3>3 DEF SubmitFails, Leave
    <3>4. CASE LinkJob(s) BY <3>4 DEF LinkJob, Leave
    <3>5. CASE LinkFails(s) BY <3>5 DEF LinkFails, Leave
    <3> QED BY <2>2, <3>1, <3>2, <3>3, <3>4, <3>5 DEF Submit
  <2>3. ASSUME NEW s \in Subs, Work(s) PROVE Linking'
    <3>1. CASE Start(s) BY <3>1 DEF Start, End
    <3>2. CASE Admit(s) BY <3>2 DEF Admit, End, Owned
    <3>3. CASE Authorize(s) BY <3>3 DEF Authorize, End, Owned
    <3>4. CASE Write(s) BY <3>4 DEF Write
    <3>5. CASE Finish(s) BY <3>5 DEF Finish, End
    <3> QED BY <2>3, <3>1, <3>2, <3>3, <3>4, <3>5 DEF Work
  <2>4. CASE Restart BY <2>4 DEF Restart
  <2>5. CASE UNCHANGED vars BY <2>5 DEF vars
  <2> QED BY <2>1, <2>2, <2>3, <2>4, <2>5 DEF Next
<1> QED BY <1>1, <1>2, TypeOKHolds, PTL DEF Spec

\* One job at most writes under an approval of a removal.
THEOREM SingleUseHolds == Spec => []SingleUse
<1>1. TypeOK /\ Linking => SingleUse
  BY DEF TypeOK, Linking, SingleUse, KindOf
<1> QED BY <1>1, TypeOKHolds, LinkingHolds, PTL

-----------------------------------------------------------------------------
\* An approval that stopped being good stays so.
THEOREM RevokingHolds == Spec => []Revoking
<1> USE ApprovalAssumption DEF TypeOK, Kinds, Decided, storeVars, reqVars, workVars, Revoking, KindOf, Kind, Good
<1>1. Init => Revoking
  BY DEF Init
<1>2. TypeOK /\ Revoking /\ [Next]_vars => Revoking'
  <2> SUFFICES ASSUME TypeOK, Revoking, [Next]_vars PROVE Revoking'
    OBVIOUS
  <2>0. 1 + Cardinality({b \in Ids : born[b] > 0}) \in Nat \ {0}
    <3>1. IsFiniteSet({b \in Ids : born[b] > 0})
      BY FS_Subset
    <3>2. Cardinality({b \in Ids : born[b] > 0}) \in Nat
      BY <3>1, FS_CardinalityType
    <3> QED BY <3>2
  <2>1. ASSUME NEW a \in Ids, Store(a) PROVE Revoking'
    <3>1. CASE Create(a)
      <4> DEFINE r == 1 + Cardinality({b \in Ids : born[b] > 0})
      <4>0. born' = [born EXCEPT ![a] = r]
        BY <3>1 DEF Create
      <4>1. r \in Nat /\ r > 0 /\ born' = [born EXCEPT ![a] = r]
        BY <2>0, <4>0
      <4> HIDE DEF r
      <4>2. /\ born[a] = 0
            /\ status' = [status EXCEPT ![a] = "pending"]
            /\ stored' \subseteq stored \cup {a}
            /\ UNCHANGED <<late, want, run, overdue>>
        BY <3>1 DEF Create, Saved
      <4>3. \A s \in Subs : run[s] \in {"ready", "cleared"} \/ overdue[s] > 0 => want[s] # a
        BY <4>2
      <4>4. \A b \in stored' : born'[b] > 0
        BY <4>1, <4>2
      <4>5. \A s \in Subs : want[s] # a =>
              /\ status'[want[s]] = status[want[s]]
              /\ born'[want[s]] = born[want[s]]
              /\ Good(want[s])' => Good(want[s])
        BY <4>1, <4>2
      <4> QED BY <4>2, <4>3, <4>4, <4>5
    <3>2. CASE Delete(a) BY <3>2 DEF Delete
    <3>3. CASE Elapse(a) BY <3>3 DEF Elapse
    <3>4. CASE AutoExpire(a)
      <4>1. UNCHANGED <<stored, born, late, want, run, overdue>>
        BY <3>4 DEF AutoExpire
      <4>2. \A b \in Ids : status[b] = "approved" <=> status'[b] = "approved"
        BY <3>4 DEF AutoExpire, Pending
      <4> QED BY <4>1, <4>2
    <3>5. ASSUME NEW d \in {"approved", "rejected"}, Decide(a, d) PROVE Revoking'
      BY <3>5 DEF Decide, Pending
    <3> QED BY <2>1, <3>1, <3>2, <3>3, <3>4, <3>5 DEF Store
  <2>2. ASSUME NEW s \in Subs, Submit(s) PROVE Revoking'
    <3>1. CASE CheckSubmission(s) BY <3>1 DEF CheckSubmission, Unused
    <3>2. CASE SubmitJob(s) BY <3>2 DEF SubmitJob
    <3>3. CASE SubmitFails(s) BY <3>3 DEF SubmitFails, Leave
    <3>4. CASE LinkJob(s) BY <3>4 DEF LinkJob, Leave
    <3>5. CASE LinkFails(s) BY <3>5 DEF LinkFails, Leave
    <3> QED BY <2>2, <3>1, <3>2, <3>3, <3>4, <3>5 DEF Submit
  <2>3. ASSUME NEW s \in Subs, Work(s) PROVE Revoking'
    <3>1. CASE Start(s) BY <3>1 DEF Start, End
    <3>2. CASE Admit(s) BY <3>2 DEF Admit, End, Owned
    <3>3. CASE Authorize(s) BY <3>3 DEF Authorize, End, Owned
    <3>4. CASE Write(s) BY <3>4 DEF Write
    <3>5. CASE Finish(s) BY <3>5 DEF Finish, End
    <3> QED BY <2>3, <3>1, <3>2, <3>3, <3>4, <3>5 DEF Work
  <2>4. CASE Restart BY <2>4 DEF Restart
  <2>5. CASE UNCHANGED vars BY <2>5 DEF vars
  <2> QED BY <2>1, <2>2, <2>3, <2>4, <2>5 DEF Next
<1> QED BY <1>1, <1>2, TypeOKHolds, PTL DEF Spec

\* After its approval was revoked a removal completes one write at most.
THEOREM RevocationStopsWritesHolds == Spec => []RevocationStopsWrites
<1>1. TypeOK /\ Revoking => RevocationStopsWrites
  BY DEF TypeOK, Revoking, RevocationStopsWrites
<1> QED BY <1>1, TypeOKHolds, RevokingHolds, PTL

-----------------------------------------------------------------------------
\* No timer and no administrator changes what was decided.
THEOREM DecisionIsFinalHolds == Spec => DecisionIsFinal
<1> DEFINE Stands == \A a \in Ids : status[a] \in Decided => status'[a] = status[a]
<1> DEFINE Fresh == \A a \in Ids : born[a] = 0 <=> status[a] = "none"
<1> USE ApprovalAssumption DEF TypeOK, Kinds, Decided, storeVars, reqVars, workVars
<1>1. Init => Fresh
  BY DEF Init
<1>2. TypeOK /\ TypeOK' /\ Fresh /\ [Next]_vars => Fresh' /\ Stands
  <2> SUFFICES ASSUME TypeOK, TypeOK', Fresh, [Next]_vars PROVE Fresh' /\ Stands
    OBVIOUS
  <2>0. 1 + Cardinality({b \in Ids : born[b] > 0}) \in Nat \ {0}
    <3>1. IsFiniteSet({b \in Ids : born[b] > 0})
      BY FS_Subset
    <3>2. Cardinality({b \in Ids : born[b] > 0}) \in Nat
      BY <3>1, FS_CardinalityType
    <3> QED BY <3>2
  <2>1. ASSUME NEW a \in Ids, Store(a) PROVE Fresh' /\ Stands
    <3>1. CASE Create(a)
      <4> DEFINE r == 1 + Cardinality({b \in Ids : born[b] > 0})
      <4>0. born' = [born EXCEPT ![a] = r]
        BY <3>1 DEF Create
      <4>1. r \in Nat /\ r > 0 /\ born' = [born EXCEPT ![a] = r]
        BY <2>0, <4>0
      <4> HIDE DEF r
      <4>2. born[a] = 0 /\ status' = [status EXCEPT ![a] = "pending"]
        BY <3>1 DEF Create
      <4> QED BY <4>1, <4>2
    <3>2. CASE AutoExpire(a) BY <3>2 DEF AutoExpire, Pending
    <3>3. ASSUME NEW d \in {"approved", "rejected"}, Decide(a, d) PROVE Fresh' /\ Stands
      BY <3>3 DEF Decide, Pending
    <3>4. CASE Delete(a) \/ Elapse(a) BY <3>4 DEF Delete, Elapse
    <3> QED BY <2>1, <3>1, <3>2, <3>3, <3>4 DEF Store
  <2>2. CASE UNCHANGED <<born, status>> BY <2>2
  <2> QED
    BY <2>1, <2>2 DEF Next, Submit, CheckSubmission, SubmitJob, SubmitFails, LinkJob, LinkFails,
       Work, Start, Admit, Authorize, Write, Finish, Restart, vars
<1> QED BY <1>1, <1>2, TypeOKHolds, PTL DEF Spec, DecisionIsFinal
=============================================================================
