----------------------------- MODULE DeskProofs -----------------------------
(***************************************************************************)
(* Lemmas about parallel runs and about the desk of cluster operations, for *)
(* any number of runs, sites, clusters, users and sources: what each of    *)
(* their steps keeps.  AutomationProofs puts them together.                *)
(*                                                                         *)
(* The argument, for parallel runs: what the stored record says of a site  *)
(* that is collected is how its process ended, as long as the run is       *)
(* stored; a run that is no longer stored never is again, and is never     *)
(* closed; a record that is closed, stored or not, is not written again,   *)
(* so what the webhook is told of it later is what it says (RunInv).  For the desk: a readback carries the baseline of the  *)
(* record it was begun for, and a view whose revision is the current one   *)
(* shows the versions that are stored (ViewsInv).                          *)
(***************************************************************************)
EXTENDS ParallelRuns, Operations, SequenceTheorems, TLAPS

(***************************************************************************)
(* Parallel runs.                                                          *)
(***************************************************************************)
SiteStatuses == {"pending", "success", "failed", "error"}
Verdicts == {"success", "partial", "failed"}
SiteMaps(Values) == UNION {[X -> Values] : X \in SUBSET Sites}
RunRecords == [status : {"none", "running"} \cup Verdicts, sites : SiteMaps(SiteStatuses)]
ThreadRecords ==
  [at : {"none", "collecting", "closed", "ended", "broken", "stranded"}, collected : SUBSET Sites]

RunsTyped ==
  /\ runList \in Seq(Runs) /\ Len(runList) <= MaxStoredRuns
  /\ record \in [Runs -> RunRecords]
  /\ thread \in [Runs -> ThreadRecords]
  /\ exits \in [Runs -> SiteMaps(Codes \cup {"going"})]
  /\ announced \in [Runs -> {"none"} \cup Verdicts]

\* A run is in the list once: its deletion takes it out.
ListedOnce == \A j, k \in DOMAIN runList : runList[j] = runList[k] => j = k

\* The outcome of a closed run, from how its processes ended.
VerdictOf(r) ==
  LET good == {i \in SitesOf(r) : exits[r][i] = "zero"}
  IN  CASE good = SitesOf(r) -> "success"
        [] good = {} -> "failed"
        [] OTHER -> "partial"

\* The record of run r reports site i with its own exit.
Reports(r, i) == exits[r][i] # "going" /\ record[r].sites[i] = StatusOf(exits[r][i])

RunInv(r) ==
  /\ DOMAIN record[r].sites = SitesOf(r) /\ thread[r].collected \subseteq SitesOf(r)
  /\ thread[r].at = "none" => ~IsStored(r) /\ record[r].status = "none" /\ thread[r].collected = {}
  /\ thread[r].at # "none" => SitesOf(r) # {}
  /\ thread[r].at = "collecting" =>
       /\ record[r].status = "running"
       /\ IsStored(r) => \A i \in thread[r].collected : Reports(r, i)
  /\ record[r].status \in Verdicts =>
       /\ thread[r].at \in {"closed", "ended", "stranded"}
       /\ \A i \in SitesOf(r) : Reports(r, i)
       /\ record[r].status = VerdictOf(r)
  /\ thread[r].at = "closed" => record[r].status \in Verdicts
  /\ announced[r] # "none" => record[r].status \in Verdicts /\ announced[r] = record[r].status

RunsInv == RunsTyped /\ ListedOnce /\ \A r \in Runs : RunInv(r)

ParallelAct == ParallelRequest \/ ParallelStep \/ ParallelRestart \/ UNCHANGED parallelVars

(***************************************************************************)
(* The desk.                                                               *)
(***************************************************************************)
ReadbackRecords == [at : {"collecting", "collected", "leaving"}, snapshot : Rows,
                    result : Observations \cup {NoRecord}]
ViewRecords == [revision : Nat, firm : BOOLEAN, shown : [Items -> Nat]]
RefreshRecords == [jobs : SUBSET Jobs, runs : [RecoveryRuns -> Nat]]

DeskTyped ==
  /\ rows \in [Clusters -> Rows \cup {NoRecord}]
  /\ attention \in [Items -> AttentionItems \cup {NoRecord}]
  /\ readbacks \in [Clusters -> ReadbackRecords \cup {NoRecord}]
  /\ refreshes \in [Users -> RefreshRecords \cup {NoRecord}]
  /\ views \in [Users -> ViewRecords \cup {NoRecord}]
  /\ revision \in Nat /\ time \in Nat /\ maintenance \in BOOLEAN
  /\ failed \subseteq Jobs /\ aged \subseteq 0 .. time
  /\ reconcile \in [RecoveryRuns -> 0 .. time]

\* What is observed of a cluster, and what a readback brings, is of the baseline
\* it was asked for, and not later than now.
RowsInv ==
  \A c \in Clusters :
    /\ rows[c] # NoRecord /\ rows[c].observation # NoRecord =>
         rows[c].observation.of = rows[c].baseline /\ rows[c].observation.at <= time
    /\ readbacks[c] # NoRecord =>
         /\ rows[c] # NoRecord
         /\ readbacks[c].at = "collected" =>
              /\ readbacks[c].result \in Observations
              /\ readbacks[c].result.of = readbacks[c].snapshot.baseline
              /\ readbacks[c].result.at <= time

\* What a user sees of item i when nothing is wrong with the view.
VersionOf(i) == IF attention[i] = NoRecord THEN 0 ELSE attention[i].version

ViewsInv ==
  /\ \A u \in Users : views[u] # NoRecord =>
       /\ views[u].revision <= revision
       /\ views[u].firm /\ views[u].revision = revision => \A i \in Items : views[u].shown[i] = VersionOf(i)
  /\ ReviewedWasSeen

DeskInv == DeskTyped /\ RowsInv /\ ViewsInv

DeskAct ==
  \/ \E u \in Users, c \in Clusters, b \in Baselines : RecordCluster(u, c, b)
  \/ \E c \in Clusters : BeginReadback(c)
  \/ \E u \in Users : BeginRefresh(u)
  \/ \E u \in Users, i \in Items, status \in Reviews : Review(u, i, status)
  \/ JobsChange \/ RecoveryChanges \/ TimePasses \/ MaintenanceTurns
  \/ OperationsStep \/ OperationsRestart
  \/ UNCHANGED operationsVars

(***************************************************************************)
(* Steps of the parallel runs.                                             *)
(***************************************************************************)
LEMMA SiteMapTyping ==
  ASSUME NEW Values, NEW map
  PROVE  map \in SiteMaps(Values) <=> \E X \in SUBSET Sites : map \in [X -> Values]
BY DEF SiteMaps

\* A map keeps its type, and its other values, when one value is replaced.
LEMMA SiteMapUpdate ==
  ASSUME NEW Values, NEW map \in SiteMaps(Values), NEW i \in DOMAIN map, NEW value \in Values
  PROVE  /\ [map EXCEPT ![i] = value] \in SiteMaps(Values)
         /\ DOMAIN [map EXCEPT ![i] = value] = DOMAIN map
         /\ [map EXCEPT ![i] = value][i] = value
         /\ \A j \in DOMAIN map \ {i} : [map EXCEPT ![i] = value][j] = map[j]
<1>1. PICK X \in SUBSET Sites : map \in [X -> Values] BY SiteMapTyping
<1>2. [map EXCEPT ![i] = value] \in [X -> Values] BY <1>1
<1>3. [map EXCEPT ![i] = value] \in SiteMaps(Values) BY <1>2, SiteMapTyping
<1> QED BY <1>1, <1>3

\* The list with a new run in front and at most MaxStoredRuns runs.
LEMMA PutFirstList ==
  ASSUME RunsTyped, NEW r \in Runs
  PROVE  /\ PutFirst(r) \in Seq(Runs) /\ Len(PutFirst(r)) <= MaxStoredRuns
         /\ DOMAIN PutFirst(r) = 1 .. Len(PutFirst(r)) /\ Len(PutFirst(r)) >= 1
         /\ PutFirst(r)[1] = r
         /\ \A k \in DOMAIN PutFirst(r) : k # 1 => k - 1 \in DOMAIN runList
                                                   /\ PutFirst(r)[k] = runList[k - 1]
<1> DEFINE n == IF Len(runList) < MaxStoredRuns THEN Len(runList) + 1 ELSE MaxStoredRuns
           whole == <<r>> \o runList
<1>1. runList \in Seq(Runs) /\ Len(runList) \in Nat /\ DOMAIN runList = 1 .. Len(runList)
  BY DEF RunsTyped
<1>2. n \in Nat /\ 1 <= n /\ n <= MaxStoredRuns /\ n <= Len(runList) + 1
  BY <1>1, ParallelAssumption DEF RunsTyped
<1>3. /\ whole \in Seq(Runs) /\ Len(whole) = Len(runList) + 1
      /\ whole[1] = r /\ \A k \in 2 .. Len(whole) : whole[k] = runList[k - 1]
  BY <1>1
<1>4. /\ PutFirst(r) \in Seq(Runs) /\ Len(PutFirst(r)) = n
      /\ \A k \in 1 .. n : PutFirst(r)[k] = whole[k]
  BY <1>2, <1>3, SubSeqProperties DEF PutFirst
<1> HIDE DEF n, whole
<1>5. DOMAIN PutFirst(r) = 1 .. n BY <1>2, <1>4
<1>6. ASSUME NEW k \in 1 .. n, k # 1
      PROVE  k - 1 \in DOMAIN runList /\ PutFirst(r)[k] = runList[k - 1]
  <2>1. k \in 2 .. Len(whole) /\ k - 1 \in 1 .. Len(runList) BY <1>1, <1>2, <1>3, <1>6
  <2> QED BY <2>1, <1>1, <1>3, <1>4
<1> QED BY <1>2, <1>3, <1>4, <1>5, <1>6

\* A run stays listed once, and no run that was not listed is, but a new one.
LEMMA PutFirstKeepsListed ==
  ASSUME RunsTyped, ListedOnce, NEW r \in Runs, ~IsStored(r), runList' = PutFirst(r)
  PROVE  ListedOnce' /\ \A q \in Runs \ {r} : IsStored(q)' => IsStored(q)
<1>1. ASSUME NEW j \in DOMAIN runList', NEW k \in DOMAIN runList', runList'[j] = runList'[k]
      PROVE  j = k
  <2>1. /\ j \in Nat /\ k \in Nat
        /\ j # 1 => j - 1 \in DOMAIN runList /\ runList'[j] = runList[j - 1]
        /\ k # 1 => k - 1 \in DOMAIN runList /\ runList'[k] = runList[k - 1]
        /\ runList'[1] = r
    BY <1>1, PutFirstList
  <2>2. j = 1 <=> k = 1 BY <2>1, <1>1 DEF IsStored
  <2>3. CASE j # 1
    <3>1. j - 1 = k - 1 BY <2>1, <2>2, <2>3, <1>1 DEF ListedOnce
    <3> QED BY <3>1, <2>1
  <2> QED BY <2>2, <2>3
<1>2. ASSUME NEW q \in Runs \ {r}, IsStored(q)' PROVE IsStored(q)
  <2>1. PICK k \in DOMAIN runList' : runList'[k] = q BY <1>2 DEF IsStored
  <2>2. k # 1 BY <2>1, PutFirstList
  <2>3. k - 1 \in DOMAIN runList /\ runList[k - 1] = q BY <2>1, <2>2, PutFirstList
  <2> QED BY <2>3 DEF IsStored
<1> QED BY <1>1, <1>2 DEF ListedOnce

\* Taking place k out of the list.
LEMMA TakeOutList ==
  ASSUME RunsTyped, ListedOnce, NEW r \in Runs, NEW k \in DOMAIN runList, runList[k] = r,
         runList' = SubSeq(runList, 1, k - 1) \o SubSeq(runList, k + 1, Len(runList))
  PROVE  /\ runList' \in Seq(Runs) /\ Len(runList') <= MaxStoredRuns
         /\ ListedOnce' /\ ~IsStored(r)'
         /\ \A q \in Runs : IsStored(q)' => IsStored(q)
<1> DEFINE n == Len(runList)
           before == SubSeq(runList, 1, k - 1)
           after == SubSeq(runList, k + 1, n)
           From(i) == IF i < k THEN i ELSE i + 1
<1>1. runList \in Seq(Runs) /\ n \in Nat /\ DOMAIN runList = 1 .. n /\ k \in 1 .. n
      /\ n <= MaxStoredRuns
  BY DEF RunsTyped
<1>2. /\ before \in Seq(Runs) /\ Len(before) = k - 1
      /\ \A i \in 1 .. k - 1 : before[i] = runList[i]
  BY <1>1, SubSeqProperties
<1>3. /\ after \in Seq(Runs) /\ Len(after) = n - k
      /\ \A i \in 1 .. n - k : after[i] = runList[k + i]
  <2>1. \A i \in k + 1 .. n : runList[i] \in Runs BY <1>1
  <2>2. /\ after \in Seq(Runs) /\ Len(after) = IF k + 1 <= n THEN n - (k + 1) + 1 ELSE 0
        /\ \A i \in 1 .. n - (k + 1) + 1 : after[i] = runList[(k + 1) + i - 1]
    BY <2>1, <1>1, SubSeqProperties
  <2> HIDE DEF after, n
  <2>3. n - (k + 1) + 1 = n - k /\ \A i \in 1 .. n - k : (k + 1) + i - 1 = k + i BY <1>1
  <2> QED BY <2>2, <2>3, <1>1
<1> HIDE DEF before, after, n
<1>4. runList' = before \o after BY DEF before, after, n
<1>5. /\ runList' \in Seq(Runs) /\ Len(runList') = n - 1
      /\ \A i \in 1 .. n - 1 : runList'[i] = IF i <= k - 1 THEN before[i] ELSE after[i - (k - 1)]
  <2>1. /\ before \o after \in Seq(Runs)
        /\ Len(before \o after) = Len(before) + Len(after)
        /\ \A i \in 1 .. Len(before) + Len(after) :
             (before \o after)[i] = IF i <= Len(before) THEN before[i] ELSE after[i - Len(before)]
    BY <1>2, <1>3, ConcatProperties
  <2>2. Len(before) + Len(after) = n - 1 BY <1>1, <1>2, <1>3
  <2> QED BY <2>1, <2>2, <1>2, <1>4
<1>6. DOMAIN runList' = 1 .. n - 1 BY <1>5, <1>1
<1>7. ASSUME NEW i \in 1 .. n - 1
      PROVE  From(i) \in 1 .. n /\ From(i) # k /\ runList'[i] = runList[From(i)]
  <2>1. CASE i < k
    <3>1. i \in 1 .. k - 1 /\ From(i) = i BY <2>1, <1>1
    <3> QED BY <3>1, <1>1, <1>2, <1>5
  <2>2. CASE i >= k
    <3>1. k \in Int /\ n \in Int /\ i \in Int /\ k >= 1 /\ k <= n /\ i >= 1 /\ i <= n - 1 BY <1>1
    <3>2. From(i) = i + 1 BY <3>1, <2>2
    <3> HIDE DEF From
    <3>3. \A a, b, c \in Int : a <= b /\ b <= c - 1 => /\ b - (a - 1) \in 1 .. c - a
                                                      /\ a + (b - (a - 1)) = b + 1
                                                      /\ ~(b <= a - 1)
      OBVIOUS
    <3>4. /\ i - (k - 1) \in 1 .. n - k /\ k + (i - (k - 1)) = i + 1
          /\ ~(i <= k - 1)
      BY <3>1, <3>3, <2>2
    <3>5. runList'[i] = after[i - (k - 1)] BY <3>4, <1>5
    <3>6. after[i - (k - 1)] = runList[i + 1] BY <3>4, <1>3
    <3>7. i + 1 \in 1 .. n /\ i + 1 # k BY <2>2, <1>1
    <3> QED BY <3>2, <3>5, <3>6, <3>7
  <2> QED BY <2>1, <2>2, <1>1
<1>8. \A i, j \in 1 .. n - 1 : From(i) = From(j) => i = j
  <2>1. ASSUME NEW i \in 1 .. n - 1, NEW j \in 1 .. n - 1, From(i) = From(j) PROVE i = j
    <3>1. CASE i < k /\ j < k BY <3>1, <2>1
    <3>2. CASE i < k /\ j >= k BY <3>2, <2>1, <1>1
    <3>3. CASE i >= k /\ j < k BY <3>3, <2>1, <1>1
    <3>4. CASE i >= k /\ j >= k BY <3>4, <2>1, <1>1
    <3> QED BY <3>1, <3>2, <3>3, <3>4, <1>1
  <2> HIDE DEF From
  <2> QED BY <2>1
<1> HIDE DEF From
<1>9. ListedOnce'
  <2> SUFFICES ASSUME NEW i \in 1 .. n - 1, NEW j \in 1 .. n - 1, runList'[i] = runList'[j]
               PROVE  i = j
    BY <1>6 DEF ListedOnce
  <2>1. runList[From(i)] = runList[From(j)] BY <1>7
  <2>2. From(i) = From(j) BY <2>1, <1>1, <1>7 DEF ListedOnce
  <2> QED BY <2>2, <1>8
<1>10. ~IsStored(r)'
  <2> SUFFICES ASSUME NEW i \in 1 .. n - 1, runList'[i] = r PROVE FALSE
    BY <1>6 DEF IsStored
  <2> QED BY <1>1, <1>7 DEF ListedOnce
<1>11. \A q \in Runs : IsStored(q)' => IsStored(q) BY <1>1, <1>6, <1>7 DEF IsStored
<1>12. Len(runList') <= MaxStoredRuns BY <1>1, <1>5, ParallelAssumption
<1> QED BY <1>5, <1>9, <1>10, <1>11, <1>12

\* A run nothing happens to keeps its invariant, even when it falls out of the list.
LEMMA RunStays ==
  ASSUME NEW r \in Runs, RunInv(r), IsStored(r)' => IsStored(r),
         record'[r] = record[r], thread'[r] = thread[r], exits'[r] = exits[r],
         announced'[r] = announced[r]
  PROVE  RunInv(r)'
BY DEF RunInv, VerdictOf, Reports, SitesOf

LEMMA RunsStart == ASSUME ParallelInit PROVE RunsInv
<1>1. <<>> \in [{} -> SiteStatuses] /\ <<>> \in [{} -> Codes \cup {"going"}] /\ DOMAIN <<>> = {}
  OBVIOUS
<1>2. <<>> \in SiteMaps(SiteStatuses) /\ <<>> \in SiteMaps(Codes \cup {"going"})
  BY <1>1, SiteMapTyping
<1>3. NoRun \in RunRecords /\ NoRun.status = "none" /\ NoRun.sites = <<>>
  BY <1>2 DEF NoRun, RunRecords
<1>4. RunsTyped
  BY <1>2, <1>3, ParallelAssumption DEF ParallelInit, RunsTyped, ThreadRecords
<1>5. ListedOnce /\ \A r \in Runs : ~IsStored(r)
  BY DEF ParallelInit, ListedOnce, IsStored
<1>6. ASSUME NEW r \in Runs PROVE RunInv(r)
  BY <1>1, <1>3, <1>5 DEF ParallelInit, RunInv, SitesOf, Verdicts
<1> QED BY <1>4, <1>5, <1>6 DEF RunsInv

LEMMA SubmitKeeps ==
  ASSUME RunsInv, NEW r \in Runs, NEW sites \in (SUBSET Sites) \ {{}}, Submit(r, sites)
  PROVE  RunsInv'
<1> DEFINE pending == [i \in sites |-> "pending"]
           going == [i \in sites |-> "going"]
<1>1. RunsTyped /\ ListedOnce /\ \A q \in Runs : RunInv(q) BY DEF RunsInv
<1>2. thread[r].at = "none" /\ ~IsStored(r) /\ thread[r].collected = {}
  BY <1>1 DEF Submit, RunInv
<1>3. /\ runList' = PutFirst(r)
      /\ record' = [record EXCEPT ![r] = [status |-> "running", sites |-> pending]]
      /\ thread' = [thread EXCEPT ![r].at = "collecting"]
      /\ exits' = [exits EXCEPT ![r] = going]
      /\ announced' = announced
  BY DEF Submit
<1>4. /\ pending \in [sites -> SiteStatuses] /\ DOMAIN pending = sites
      /\ going \in [sites -> Codes \cup {"going"}] /\ DOMAIN going = sites
  BY DEF SiteStatuses
<1> HIDE DEF pending, going
<1>5. pending \in SiteMaps(SiteStatuses) /\ going \in SiteMaps(Codes \cup {"going"})
  BY <1>4, SiteMapTyping
<1>6. thread' \in [Runs -> ThreadRecords] /\ thread'[r] = [thread[r] EXCEPT !.at = "collecting"]
  BY <1>1, <1>3 DEF RunsTyped, ThreadRecords
<1>7. RunsTyped'
  BY <1>1, <1>3, <1>5, <1>6, PutFirstList DEF RunsTyped, RunRecords
<1>8. ListedOnce' /\ \A q \in Runs \ {r} : IsStored(q)' => IsStored(q)
  BY <1>1, <1>2, <1>3, PutFirstKeepsListed
<1>9. ASSUME NEW q \in Runs \ {r} PROVE RunInv(q)'
  <2>1. /\ record'[q] = record[q] /\ thread'[q] = thread[q] /\ exits'[q] = exits[q]
        /\ announced'[q] = announced[q]
    BY <1>1, <1>3 DEF RunsTyped
  <2> QED BY <2>1, <1>1, <1>8, RunStays
<1>10. RunInv(r)'
  <2>1. /\ record'[r].status = "running" /\ record'[r].sites = pending
        /\ thread'[r].at = "collecting" /\ thread'[r].collected = {}
        /\ exits'[r] = going
    BY <1>1, <1>2, <1>3, <1>6 DEF RunsTyped, ThreadRecords
  <2>2. SitesOf(r)' = sites /\ sites # {} BY <2>1, <1>4 DEF SitesOf
  <2>3. record'[r].status \notin Verdicts BY <2>1 DEF Verdicts
  <2>4. announced'[r] = "none" BY <1>1, <1>2, <1>3 DEF RunInv, Verdicts
  <2> QED BY <2>1, <2>2, <2>3, <2>4, <1>4 DEF RunInv
<1> QED BY <1>7, <1>8, <1>9, <1>10 DEF RunsInv

LEMMA DeleteKeeps ==
  ASSUME RunsInv, NEW r \in Runs, DeleteRun(r) PROVE RunsInv' /\ ~IsStored(r)'
<1>1. RunsTyped /\ ListedOnce /\ \A q \in Runs : RunInv(q) BY DEF RunsInv
<1>2. PICK k \in DOMAIN runList :
        /\ runList[k] = r
        /\ runList' = SubSeq(runList, 1, k - 1) \o SubSeq(runList, k + 1, Len(runList))
  BY DEF DeleteRun
<1>3. /\ runList' \in Seq(Runs) /\ Len(runList') <= MaxStoredRuns
      /\ ListedOnce' /\ ~IsStored(r)'
      /\ \A q \in Runs : IsStored(q)' => IsStored(q)
  BY <1>1, <1>2, TakeOutList
<1>4. UNCHANGED <<record, thread, exits, announced>> BY DEF DeleteRun
<1>5. RunsTyped' BY <1>1, <1>3, <1>4 DEF RunsTyped
<1>6. \A q \in Runs : RunInv(q)' BY <1>1, <1>3, <1>4, RunStays
<1> QED BY <1>3, <1>5, <1>6 DEF RunsInv

\* A process ends: its run is collecting and has not collected this site.
LEMMA SiteEndsKeeps ==
  ASSUME RunsInv, NEW r \in Runs, NEW i \in SitesOf(r), SiteEnds(r, i) PROVE RunsInv'
<1>1. RunsTyped /\ ListedOnce /\ RunInv(r) /\ \A q \in Runs : RunInv(q) BY DEF RunsInv
<1>2. PICK code \in Codes : exits' = [exits EXCEPT ![r][i] = code] BY DEF SiteEnds
<1>3. /\ thread[r].at = "collecting" /\ exits[r][i] = "going"
      /\ UNCHANGED <<runList, record, thread, announced>>
  BY DEF SiteEnds
<1> DEFINE ended == [exits[r] EXCEPT ![i] = code]
<1>4. exits[r] \in SiteMaps(Codes \cup {"going"}) /\ i \in DOMAIN exits[r]
  BY <1>1 DEF RunsTyped, SitesOf
<1>5. /\ ended \in SiteMaps(Codes \cup {"going"}) /\ DOMAIN ended = DOMAIN exits[r]
      /\ \A j \in DOMAIN exits[r] \ {i} : ended[j] = exits[r][j]
  BY <1>4, SiteMapUpdate
<1>6. exits' = [exits EXCEPT ![r] = ended] BY <1>2
<1> HIDE DEF ended
<1>7. exits' \in [Runs -> SiteMaps(Codes \cup {"going"})] /\ exits'[r] = ended
      /\ \A q \in Runs \ {r} : exits'[q] = exits[q]
  BY <1>1, <1>5, <1>6 DEF RunsTyped
<1>8. RunsTyped' BY <1>1, <1>3, <1>7 DEF RunsTyped
<1>9. ListedOnce' /\ \A q : IsStored(q)' <=> IsStored(q) BY <1>1, <1>3 DEF ListedOnce, IsStored
<1>10. \A q \in Runs \ {r} : RunInv(q)' BY <1>1, <1>3, <1>7, <1>9, RunStays
<1>11. RunInv(r)'
  <2>1. ASSUME NEW j \in thread[r].collected, IsStored(r)'
        PROVE  Reports(r, j)'
    <3>1. Reports(r, j) /\ j \in SitesOf(r) BY <2>1, <1>1, <1>3, <1>9 DEF RunInv
    <3>2. j # i BY <3>1, <1>3 DEF Reports
    <3> QED BY <3>1, <3>2, <1>3, <1>5, <1>7 DEF Reports, SitesOf
  <2>2. SitesOf(r)' = SitesOf(r) /\ record'[r] = record[r] /\ thread'[r] = thread[r]
    BY <1>3, <1>5, <1>7 DEF SitesOf
  <2> QED BY <2>1, <2>2, <1>1, <1>3, <1>9 DEF RunInv, Verdicts
<1> QED BY <1>8, <1>9, <1>10, <1>11 DEF RunsInv

\* A result is collected: into the stored record, if there is one.
LEMMA CollectKeeps ==
  ASSUME RunsInv, NEW r \in Runs, NEW i \in SitesOf(r), Collect(r, i) PROVE RunsInv'
<1>1. RunsTyped /\ ListedOnce /\ RunInv(r) /\ \A q \in Runs : RunInv(q) BY DEF RunsInv
<1>2. /\ thread[r].at = "collecting" /\ exits[r][i] # "going"
      /\ thread' = [thread EXCEPT ![r] = [thread[r] EXCEPT !.collected = thread[r].collected \cup {i}]]
      /\ UNCHANGED <<runList, exits, announced>>
  BY DEF Collect
<1>3. /\ exits[r] \in SiteMaps(Codes \cup {"going"}) /\ i \in DOMAIN exits[r]
      /\ record[r] \in RunRecords /\ record[r].sites \in SiteMaps(SiteStatuses)
      /\ DOMAIN record[r].sites = SitesOf(r)
      /\ thread[r] \in ThreadRecords
  BY <1>1 DEF RunsTyped, SitesOf, RunRecords, RunInv
<1>4. exits[r][i] \in Codes
  <2>1. PICK X \in SUBSET Sites : exits[r] \in [X -> Codes \cup {"going"}] BY <1>3, SiteMapTyping
  <2> QED BY <2>1, <1>2, <1>3
<1>5. StatusOf(exits[r][i]) \in SiteStatuses BY <1>4 DEF Codes, StatusOf, SiteStatuses
<1> DEFINE status == StatusOf(exits[r][i])
           map == [record[r].sites EXCEPT ![i] = status]
           closer == [record[r] EXCEPT !.sites = map]
<1>6. i \in Sites
  <2>1. PICK X \in SUBSET Sites : exits[r] \in [X -> Codes \cup {"going"}] BY <1>3, SiteMapTyping
  <2> QED BY <2>1, <1>3
<1>7. /\ thread' \in [Runs -> ThreadRecords]
      /\ thread'[r].at = "collecting" /\ thread'[r].collected = thread[r].collected \cup {i}
      /\ \A q \in Runs \ {r} : thread'[q] = thread[q]
  <2> DEFINE t == [thread[r] EXCEPT !.collected = thread[r].collected \cup {i}]
  <2>1. t \in ThreadRecords /\ t.at = "collecting" /\ t.collected = thread[r].collected \cup {i}
    BY <1>2, <1>3, <1>6 DEF ThreadRecords
  <2> HIDE DEF t
  <2>2. thread' = [thread EXCEPT ![r] = t] BY <1>2 DEF t
  <2> QED BY <2>1, <2>2, <1>1 DEF RunsTyped
<1>8. ListedOnce' /\ \A q : IsStored(q)' <=> IsStored(q) BY <1>1, <1>2 DEF ListedOnce, IsStored
<1>9. /\ map \in SiteMaps(SiteStatuses) /\ DOMAIN map = SitesOf(r) /\ map[i] = status
      /\ \A j \in SitesOf(r) \ {i} : map[j] = record[r].sites[j]
  <2> HIDE DEF status
  <2>1. status \in SiteStatuses BY <1>5 DEF status
  <2> QED BY <2>1, <1>3, SiteMapUpdate
<1>10. closer \in RunRecords /\ closer.status = record[r].status /\ closer.sites = map
  <2> HIDE DEF map
  <2> QED BY <1>3, <1>9 DEF RunRecords
<1>11. IF IsStored(r) THEN record' = [record EXCEPT ![r] = closer] ELSE record' = record
  BY DEF Collect
<1> HIDE DEF closer, map, status
<1>12. /\ record' \in [Runs -> RunRecords] /\ \A q \in Runs \ {r} : record'[q] = record[q]
       /\ IF IsStored(r) THEN record'[r] = closer ELSE record'[r] = record[r]
  BY <1>1, <1>10, <1>11 DEF RunsTyped
<1>13. RunsTyped' BY <1>1, <1>2, <1>7, <1>12 DEF RunsTyped
<1>14. \A q \in Runs \ {r} : RunInv(q)' BY <1>1, <1>2, <1>7, <1>8, <1>12, RunStays
<1>15. RunInv(r)'
  <2>1. SitesOf(r)' = SitesOf(r) /\ exits'[r] = exits[r] BY <1>2 DEF SitesOf
  <2>2. record'[r].status = "running" /\ DOMAIN record'[r].sites = SitesOf(r)
    BY <1>1, <1>2, <1>3, <1>9, <1>10, <1>12 DEF RunInv
  <2>3. ASSUME NEW j \in thread'[r].collected, IsStored(r)' PROVE Reports(r, j)'
    <3>1. IsStored(r) /\ record'[r].sites = map BY <2>3, <1>8, <1>10, <1>12
    <3>2. CASE j = i BY <3>1, <3>2, <2>1, <1>2, <1>9 DEF Reports, status, StatusOf
    <3>3. CASE j # i
      <4>1. Reports(r, j) /\ j \in SitesOf(r) BY <3>1, <3>3, <2>3, <1>1, <1>2, <1>7 DEF RunInv
      <4> QED BY <4>1, <3>1, <3>3, <2>1, <1>9 DEF Reports
    <3> QED BY <3>2, <3>3
  <2>4. thread'[r].collected \subseteq SitesOf(r) /\ SitesOf(r) # {}
    BY <1>1, <1>2, <1>7 DEF RunInv
  <2>5. record'[r].status \notin Verdicts BY <2>2 DEF Verdicts
  <2>6. announced'[r] = "none" BY <1>1, <1>2 DEF RunInv, Verdicts
  <2> QED BY <2>1, <2>2, <2>3, <2>4, <2>5, <2>6, <1>2, <1>7 DEF RunInv
<1> QED BY <1>8, <1>13, <1>14, <1>15 DEF RunsInv

\* What Overall makes of the sites is what their processes did.
LEMMA OverallIsVerdict ==
  ASSUME NEW r \in Runs, exits[r] \in SiteMaps(Codes \cup {"going"}),
         DOMAIN record[r].sites = SitesOf(r), SitesOf(r) # {},
         \A i \in SitesOf(r) : Reports(r, i)
  PROVE  Overall(record[r].sites) = VerdictOf(r) /\ VerdictOf(r) \in Verdicts
<1> DEFINE sites == record[r].sites
           Some(statuses) == \E i \in DOMAIN sites : sites[i] \in statuses
           good == {i \in SitesOf(r) : exits[r][i] = "zero"}
<1>1. ASSUME NEW i \in SitesOf(r)
      PROVE  \/ exits[r][i] = "zero" /\ sites[i] = "success"
             \/ exits[r][i] = "minusOne" /\ sites[i] = "error"
             \/ exits[r][i] = "other" /\ sites[i] = "failed"
  <2>1. PICK X \in SUBSET Sites : exits[r] \in [X -> Codes \cup {"going"}] BY SiteMapTyping
  <2>2. exits[r][i] \in Codes BY <2>1 DEF Reports, SitesOf
  <2> QED BY <2>2 DEF Reports, Codes, StatusOf
<1>2. Some({"success"}) <=> good # {}
  BY <1>1
<1>3. Some({"pending", "failed", "error"}) <=> good # SitesOf(r)
  BY <1>1
<1>4. Some({"failed", "error"}) <=> good # SitesOf(r)
  BY <1>1
<1>5. good = SitesOf(r) => good # {} OBVIOUS
<1>6. VerdictOf(r) = IF good = SitesOf(r) THEN "success" ELSE IF good = {} THEN "failed" ELSE "partial"
  BY <1>5 DEF VerdictOf
<1>7. Overall(sites) = IF ~Some({"pending", "failed", "error"}) THEN "success"
                       ELSE IF ~Some({"failed", "error"}) THEN "unknown"
                       ELSE IF Some({"success"}) THEN "partial" ELSE "failed"
  BY DEF Overall
<1> HIDE DEF good, Some
<1> QED BY <1>2, <1>3, <1>4, <1>6, <1>7 DEF Verdicts

\* The record is closed, or the thread of a run that is gone ends.
LEMMA CloseKeeps ==
  ASSUME RunsInv, NEW r \in Runs, Close(r) PROVE RunsInv'
<1>1. RunsTyped /\ ListedOnce /\ RunInv(r) /\ \A q \in Runs : RunInv(q) BY DEF RunsInv
<1>2. /\ thread[r].at = "collecting" /\ \A i \in SitesOf(r) : i \in thread[r].collected
      /\ UNCHANGED <<runList, exits>>
  BY DEF Close, Uncollected
<1>3. ListedOnce' /\ \A q : IsStored(q)' <=> IsStored(q) BY <1>1, <1>2 DEF ListedOnce, IsStored
<1>4. /\ exits[r] \in SiteMaps(Codes \cup {"going"}) /\ record[r] \in RunRecords
      /\ DOMAIN record[r].sites = SitesOf(r) /\ thread[r] \in ThreadRecords
      /\ SitesOf(r) # {} /\ thread[r].collected \subseteq SitesOf(r)
  BY <1>1, <1>2 DEF RunsTyped, RunInv
<1>5. CASE IsStored(r)
  <2> DEFINE overall == Overall(record[r].sites)
             closed == [record[r] EXCEPT !.status = overall]
             t == [thread[r] EXCEPT !.at = "closed"]
  <2>1. /\ record' = [record EXCEPT ![r] = closed]
        /\ announced' = announced
        /\ thread' = [thread EXCEPT ![r] = t]
    BY <1>5 DEF Close
  <2>0. record[r].status = "running" /\ announced[r] = "none" BY <1>1, <1>2 DEF RunInv, Verdicts
  <2>2. \A i \in SitesOf(r) : Reports(r, i) BY <1>1, <1>2, <1>5 DEF RunInv
  <2>3. overall = VerdictOf(r) /\ overall \in Verdicts BY <2>2, <1>4, OverallIsVerdict
  <2> HIDE DEF overall
  <2>4. closed \in RunRecords /\ closed.status = overall /\ closed.sites = record[r].sites
    BY <2>3, <1>4 DEF RunRecords
  <2>5. t \in ThreadRecords /\ t.at = "closed" /\ t.collected = thread[r].collected
    BY <1>4 DEF ThreadRecords
  <2> HIDE DEF closed, t
  <2>6. /\ record'[r] = closed /\ announced'[r] = announced[r] /\ thread'[r] = t
        /\ RunsTyped'
        /\ \A q \in Runs \ {r} : /\ record'[q] = record[q] /\ announced'[q] = announced[q]
                                 /\ thread'[q] = thread[q] /\ exits'[q] = exits[q]
    BY <2>1, <2>3, <2>4, <2>5, <1>1, <1>2 DEF RunsTyped
  <2>7. \A q \in Runs \ {r} : RunInv(q)' BY <2>6, <1>1, <1>3, RunStays
  <2>8. RunInv(r)'
    <3>1. SitesOf(r)' = SitesOf(r) /\ VerdictOf(r)' = VerdictOf(r) BY <1>2 DEF SitesOf, VerdictOf
    <3>2. \A i \in SitesOf(r) : Reports(r, i)' BY <2>2, <2>4, <2>6, <1>2 DEF Reports
    <3> QED BY <3>1, <3>2, <2>0, <2>3, <2>4, <2>5, <2>6, <1>4 DEF RunInv
  <2> QED BY <2>6, <2>7, <2>8, <1>3 DEF RunsInv
<1>6. CASE ~IsStored(r)
  <2> DEFINE t == [thread[r] EXCEPT !.at = "broken"]
  <2>1. thread' = [thread EXCEPT ![r] = t] /\ record' = record /\ announced' = announced
    BY <1>6 DEF Close
  <2>2. t \in ThreadRecords /\ t.at = "broken" /\ t.collected = thread[r].collected
    BY <1>4 DEF ThreadRecords
  <2> HIDE DEF t
  <2>3. /\ thread'[r] = t /\ RunsTyped' /\ \A q \in Runs \ {r} : thread'[q] = thread[q]
    BY <2>1, <2>2, <1>1, <1>2 DEF RunsTyped
  <2>4. \A q \in Runs \ {r} : RunInv(q)' BY <2>1, <2>3, <1>1, <1>2, <1>3, RunStays
  <2>5. RunInv(r)'
    <3>1. /\ SitesOf(r)' = SitesOf(r) /\ record[r].status \notin Verdicts
          /\ announced[r] = "none"
      BY <1>1, <1>2 DEF SitesOf, RunInv, Verdicts
    <3> QED BY <3>1, <2>1, <2>2, <2>3, <1>4 DEF RunInv
  <2> QED BY <2>3, <2>4, <2>5, <1>3 DEF RunsInv
<1> QED BY <1>5, <1>6

\* The webhook is told the status of the closed record, or the call fails.
LEMMA AnnounceKeeps ==
  ASSUME RunsInv, NEW r \in Runs, Announce(r) PROVE RunsInv'
<1>1. RunsTyped /\ ListedOnce /\ RunInv(r) /\ \A q \in Runs : RunInv(q) BY DEF RunsInv
<1>2. thread[r].at = "closed" /\ UNCHANGED <<runList, record, exits>> BY DEF Announce
<1>3. ListedOnce' /\ \A q : IsStored(q)' <=> IsStored(q) BY <1>1, <1>2 DEF ListedOnce, IsStored
<1>4. record[r].status \in Verdicts BY <1>1, <1>2 DEF RunInv
<1>5. PICK told \in {record[r].status, "none"} : announced' = [announced EXCEPT ![r] = told]
  BY DEF Announce
<1> DEFINE t == [thread[r] EXCEPT !.at = "ended"]
<1>6. thread' = [thread EXCEPT ![r] = t] BY DEF Announce
<1>7. t \in ThreadRecords /\ t.at = "ended" /\ t.collected = thread[r].collected
  BY <1>1 DEF RunsTyped, ThreadRecords
<1> HIDE DEF t
<1>8. /\ thread'[r] = t /\ announced'[r] = told /\ RunsTyped'
      /\ \A q \in Runs \ {r} : thread'[q] = thread[q] /\ announced'[q] = announced[q]
  BY <1>1, <1>2, <1>4, <1>5, <1>6, <1>7 DEF RunsTyped
<1>9. \A q \in Runs \ {r} : RunInv(q)' BY <1>1, <1>2, <1>3, <1>8, RunStays
<1>10. RunInv(r)'
  <2>1. SitesOf(r)' = SitesOf(r) /\ VerdictOf(r)' = VerdictOf(r) BY <1>2 DEF SitesOf, VerdictOf
  <2>2. \A i \in SitesOf(r) : Reports(r, i)' BY <1>1, <1>2, <1>4 DEF RunInv, Reports
  <2>3. record[r].status = VerdictOf(r) /\ SitesOf(r) # {} BY <1>1, <1>2, <1>4 DEF RunInv
  <2>4. DOMAIN record[r].sites = SitesOf(r) /\ thread[r].collected \subseteq SitesOf(r) BY <1>1 DEF RunInv
  <2> QED BY <2>1, <2>2, <2>3, <2>4, <1>2, <1>4, <1>7, <1>8 DEF RunInv
<1> QED BY <1>3, <1>8, <1>9, <1>10 DEF RunsInv

LEMMA ParallelRestartKeeps ==
  ASSUME RunsInv, ParallelRestart PROVE RunsInv'
<1>1. RunsTyped /\ ListedOnce /\ \A q \in Runs : RunInv(q) BY DEF RunsInv
<1>2. UNCHANGED <<runList, record, exits, announced>> BY DEF ParallelRestart
<1>3. ASSUME NEW r \in Runs
      PROVE  /\ thread'[r] \in ThreadRecords /\ thread'[r].collected = thread[r].collected
             /\ \/ thread[r].at \in {"collecting", "closed"} /\ thread'[r].at = "stranded"
                \/ thread'[r] = thread[r]
  BY <1>1 DEF ParallelRestart, RunsTyped, ThreadRecords
<1>4. thread' \in [Runs -> ThreadRecords]
  <2>1. thread' = [r \in Runs |-> thread'[r]] BY DEF ParallelRestart
  <2> QED BY <2>1, <1>3
<1>5. RunsTyped' BY <1>1, <1>2, <1>4 DEF RunsTyped
<1>6. ListedOnce' /\ \A q : IsStored(q)' <=> IsStored(q) BY <1>1, <1>2 DEF ListedOnce, IsStored
<1>7. ASSUME NEW r \in Runs PROVE RunInv(r)'
  <2>1. CASE thread'[r] = thread[r] BY <2>1, <1>1, <1>2, <1>6, RunStays
  <2>2. CASE thread[r].at \in {"collecting", "closed"} /\ thread'[r].at = "stranded"
    <3>1. /\ SitesOf(r)' = SitesOf(r) /\ VerdictOf(r)' = VerdictOf(r)
          /\ \A i \in SitesOf(r) : Reports(r, i)' <=> Reports(r, i)
          /\ record'[r] = record[r] /\ announced'[r] = announced[r]
      BY <1>2 DEF SitesOf, VerdictOf, Reports
    <3>2. RunInv(r) BY <1>1
    <3> QED BY <3>1, <3>2, <2>2, <1>3 DEF RunInv
  <2> QED BY <2>1, <2>2, <1>3
<1> QED BY <1>5, <1>6, <1>7 DEF RunsInv

\* Every step of the parallel runs keeps their invariant.
LEMMA RunsKeep == ASSUME RunsInv, ParallelAct PROVE RunsInv'
<1>1. CASE ParallelRequest BY <1>1, SubmitKeeps, DeleteKeeps DEF ParallelRequest
<1>2. CASE ParallelStep BY <1>2, SiteEndsKeeps, CollectKeeps, CloseKeeps, AnnounceKeeps DEF ParallelStep
<1>3. CASE ParallelRestart BY <1>3, ParallelRestartKeeps
<1>4. CASE UNCHANGED parallelVars
  <2>1. UNCHANGED <<runList, record, thread, exits, announced>> BY <1>4 DEF parallelVars
  <2>2. RunsTyped' /\ ListedOnce' BY <2>1 DEF RunsInv, RunsTyped, ListedOnce
  <2>3. \A r \in Runs : IsStored(r)' <=> IsStored(r) BY <2>1 DEF IsStored
  <2>4. \A r \in Runs : RunInv(r)' BY <2>1, <2>3, RunStays DEF RunsInv
  <2> QED BY <2>2, <2>4 DEF RunsInv
<1> QED BY <1>1, <1>2, <1>3, <1>4 DEF ParallelAct

LEMMA InvGivesRuns == ASSUME RunsInv PROVE ParallelTypeOK /\ VerdictOfSites
<1>1. ASSUME NEW r \in Runs
      PROVE  /\ SitesOf(r) \subseteq Sites /\ DOMAIN record[r].sites = SitesOf(r)
             /\ record[r].status \in {"none", "running", "success", "partial", "failed"}
             /\ \A i \in SitesOf(r) : /\ record[r].sites[i] \in SiteStatuses
                                      /\ exits[r][i] \in Codes \cup {"going"}
             /\ thread[r].collected \subseteq SitesOf(r)
             /\ thread[r].at \in {"none", "collecting", "closed", "ended", "broken", "stranded"}
             /\ announced[r] \in {"none", "success", "partial", "failed"}
  <2>1. /\ exits[r] \in SiteMaps(Codes \cup {"going"}) /\ record[r] \in RunRecords
        /\ record[r].sites \in SiteMaps(SiteStatuses) /\ thread[r] \in ThreadRecords
        /\ DOMAIN record[r].sites = SitesOf(r) /\ thread[r].collected \subseteq SitesOf(r)
        /\ announced[r] \in {"none"} \cup Verdicts
    BY DEF RunsInv, RunsTyped, RunRecords, RunInv
  <2>2. PICK X \in SUBSET Sites : exits[r] \in [X -> Codes \cup {"going"}] BY <2>1, SiteMapTyping
  <2>3. PICK Y \in SUBSET Sites : record[r].sites \in [Y -> SiteStatuses] BY <2>1, SiteMapTyping
  <2>4. \A i \in SitesOf(r) : record[r].sites[i] \in SiteStatuses /\ exits[r][i] \in Codes \cup {"going"}
    BY <2>1, <2>2, <2>3 DEF SitesOf
  <2>5. SitesOf(r) \subseteq Sites BY <2>2 DEF SitesOf
  <2> QED BY <2>1, <2>4, <2>5 DEF RunRecords, ThreadRecords, Verdicts
<1>2. ParallelTypeOK
  BY <1>1 DEF ParallelTypeOK, RunsInv, RunsTyped, SiteStatuses
<1>3. ASSUME NEW r \in Runs, record[r].status \notin {"none", "running"}
      PROVE  (\A i \in SitesOf(r) : Reports(r, i)) /\ record[r].status = VerdictOf(r)
  <2>1. record[r].status \in Verdicts BY <1>1, <1>3 DEF Verdicts
  <2> QED BY <2>1 DEF RunsInv, RunInv
<1>4. ASSUME NEW r \in Runs, announced[r] # "none"
      PROVE  record[r].status # "running" /\ announced[r] = record[r].status
  BY <1>4 DEF RunsInv, RunInv, Verdicts
<1>5. VerdictOfSites BY <1>3, <1>4 DEF VerdictOfSites, VerdictOf, Reports
<1> QED BY <1>2, <1>5

(***************************************************************************)
(* Steps of the desk.                                                      *)
(***************************************************************************)
LEMMA DeskStart == ASSUME OperationsInit PROVE DeskInv
<1>1. DeskTyped
  <2>1. maintenance \in BOOLEAN BY DEF OperationsInit
  <2>2. reconcile \in [RecoveryRuns -> 0 .. time] BY DEF OperationsInit
  <2> QED BY <2>1, <2>2 DEF OperationsInit, DeskTyped
<1>2. RowsInv BY DEF OperationsInit, RowsInv
<1>3. ViewsInv BY DEF OperationsInit, ViewsInv, ReviewedWasSeen
<1> QED BY <1>1, <1>2, <1>3 DEF DeskInv

\* What the views promise depends on the items, the revision and the views only.
LEMMA ViewsStay ==
  ASSUME ViewsInv, UNCHANGED <<attention, revision, views>> PROVE ViewsInv'
BY DEF ViewsInv, VersionOf, ReviewedWasSeen

\* A save that touches no item: the views of all users but the one who saved are
\* those of earlier revisions now.
LEMMA SaveKeepsViews ==
  ASSUME DeskTyped, ViewsInv, NEW u \in Users, Current(u), Saved(u),
         \A i \in Items : VersionOf(i)' = VersionOf(i)
  PROVE  /\ revision' \in Nat /\ views' \in [Users -> ViewRecords \cup {NoRecord}]
         /\ \A w \in Users : views'[w] # NoRecord =>
              /\ views'[w].revision <= revision'
              /\ views'[w].firm /\ views'[w].revision = revision' =>
                   \A i \in Items : views'[w].shown[i] = VersionOf(i)'
<1> DEFINE view == [views[u] EXCEPT !.revision = revision + 1]
<1>1. /\ revision \in Nat /\ revision' = revision + 1
      /\ views' = [views EXCEPT ![u] = view]
      /\ views \in [Users -> ViewRecords \cup {NoRecord}]
      /\ views[u] # NoRecord /\ views[u] \in ViewRecords /\ views[u].revision = revision
  BY DEF DeskTyped, Saved, Current
<1>2. /\ view \in ViewRecords /\ view.revision = revision + 1
      /\ view.firm = views[u].firm /\ view.shown = views[u].shown
  BY <1>1 DEF ViewRecords
<1> HIDE DEF view
<1>3. \A w \in Users \ {u} : views'[w] = views[w] BY <1>1
<1>4. ASSUME NEW w \in Users, views'[w] # NoRecord
      PROVE  /\ views'[w].revision <= revision'
             /\ views'[w].firm /\ views'[w].revision = revision' =>
                  \A i \in Items : views'[w].shown[i] = VersionOf(i)'
  <2>1. CASE w = u BY <2>1, <1>1, <1>2 DEF ViewsInv
  <2>2. CASE w # u
    <3>1. views[w] # NoRecord /\ views[w].revision \in Nat /\ views[w].revision <= revision
      BY <2>2, <1>1, <1>3, <1>4 DEF ViewsInv, ViewRecords
    <3> QED BY <3>1, <2>2, <1>1, <1>3
  <2> QED BY <2>1, <2>2
<1> QED BY <1>1, <1>2, <1>4

LEMMA RecordKeeps ==
  ASSUME DeskInv, NEW u \in Users, NEW c \in Clusters, NEW b \in Baselines, RecordCluster(u, c, b)
  PROVE  DeskInv'
<1>1. DeskTyped /\ RowsInv /\ ViewsInv BY DEF DeskInv
<1> DEFINE kept == IF rows[c] # NoRecord /\ rows[c].baseline = b THEN rows[c].observation ELSE NoRecord
           row == [baseline |-> b, updated |-> time, observation |-> kept]
<1>2. /\ Current(u) /\ Saved(u)
      /\ rows' = [rows EXCEPT ![c] = row] /\ time' = time + 1
      /\ UNCHANGED <<attention, readbacks, refreshes, failed, reconcile, aged, maintenance>>
  BY DEF RecordCluster
<1>3. kept \in Observations \cup {NoRecord}
      /\ (kept # NoRecord => kept.of = b /\ kept.at <= time)
  BY <1>1 DEF DeskTyped, RowsInv, Rows
<1> HIDE DEF kept
<1>4. row \in Rows /\ row.baseline = b /\ row.observation = kept /\ time \in Nat
  BY <1>1, <1>3 DEF Rows, DeskTyped
<1>5. row # NoRecord BY <1>4, OperationsAssumption
<1> HIDE DEF row
<1>6. /\ rows' \in [Clusters -> Rows \cup {NoRecord}] /\ rows'[c] = row
      /\ \A d \in Clusters \ {c} : rows'[d] = rows[d]
  BY <1>1, <1>2, <1>4 DEF DeskTyped
<1>7. \A i \in Items : VersionOf(i)' = VersionOf(i) BY <1>2 DEF VersionOf
<1>8. /\ revision' \in Nat /\ views' \in [Users -> ViewRecords \cup {NoRecord}]
      /\ \A w \in Users : views'[w] # NoRecord =>
           /\ views'[w].revision <= revision'
           /\ views'[w].firm /\ views'[w].revision = revision' =>
                \A i \in Items : views'[w].shown[i] = VersionOf(i)'
  BY <1>1, <1>2, <1>7, SaveKeepsViews
<1>9. DeskTyped' BY <1>1, <1>2, <1>4, <1>6, <1>8 DEF DeskTyped
<1>10. RowsInv'
  <2> SUFFICES ASSUME NEW d \in Clusters
               PROVE  /\ rows'[d] # NoRecord /\ rows'[d].observation # NoRecord =>
                           rows'[d].observation.of = rows'[d].baseline /\ rows'[d].observation.at <= time'
                      /\ readbacks[d] # NoRecord =>
                           /\ rows'[d] # NoRecord
                           /\ readbacks[d].at = "collected" =>
                                /\ readbacks[d].result \in Observations
                                /\ readbacks[d].result.of = readbacks[d].snapshot.baseline
                                /\ readbacks[d].result.at <= time'
    BY <1>2 DEF RowsInv
  <2>1. \A n \in Nat : n <= time => n <= time' BY <1>2, <1>4
  <2>2. \A o \in Observations : o.at \in Nat BY DEF Observations
  <2>3. /\ readbacks[d] # NoRecord => rows[d] # NoRecord
        /\ readbacks[d] # NoRecord /\ readbacks[d].at = "collected" =>
             /\ readbacks[d].result \in Observations
             /\ readbacks[d].result.of = readbacks[d].snapshot.baseline
             /\ readbacks[d].result.at <= time'
    BY <1>1, <2>1, <2>2 DEF RowsInv
  <2>4. CASE d = c
    BY <2>1, <2>2, <2>3, <2>4, <1>3, <1>4, <1>5, <1>6
  <2>5. CASE d # c
    <3>1. rows[d] # NoRecord /\ rows[d].observation # NoRecord => rows[d].observation \in Observations
      BY <1>1 DEF DeskTyped, Rows
    <3> QED BY <3>1, <2>1, <2>2, <2>3, <2>5, <1>1, <1>6 DEF RowsInv
  <2> QED BY <2>4, <2>5
<1>11. ViewsInv' BY <1>1, <1>2, <1>8 DEF ViewsInv, ReviewedWasSeen
<1> QED BY <1>9, <1>10, <1>11 DEF DeskInv

LEMMA BeginReadbackKeeps ==
  ASSUME DeskInv, NEW c \in Clusters, BeginReadback(c) PROVE DeskInv'
<1>1. DeskTyped /\ RowsInv /\ ViewsInv BY DEF DeskInv
<1> DEFINE begun == [at |-> "collecting", snapshot |-> rows[c], result |-> NoRecord]
<1>2. /\ rows[c] # NoRecord /\ readbacks' = [readbacks EXCEPT ![c] = begun]
      /\ UNCHANGED <<rows, attention, revision, refreshes, views, failed, reconcile, aged, maintenance, time>>
  BY DEF BeginReadback
<1>3. rows[c] \in Rows BY <1>1, <1>2 DEF DeskTyped
<1>4. begun \in ReadbackRecords /\ begun.at = "collecting" BY <1>3 DEF ReadbackRecords
<1> HIDE DEF begun
<1>5. /\ readbacks' \in [Clusters -> ReadbackRecords \cup {NoRecord}] /\ readbacks'[c] = begun
      /\ \A d \in Clusters \ {c} : readbacks'[d] = readbacks[d]
  BY <1>1, <1>2, <1>4 DEF DeskTyped
<1>6. DeskTyped' BY <1>1, <1>2, <1>5 DEF DeskTyped
<1>7. RowsInv' BY <1>1, <1>2, <1>4, <1>5 DEF RowsInv
<1> QED BY <1>1, <1>2, <1>6, <1>7, ViewsStay DEF DeskInv

LEMMA CollectedKeeps ==
  ASSUME DeskInv, NEW c \in Clusters, Collected(c) PROVE DeskInv'
<1>1. DeskTyped /\ RowsInv /\ ViewsInv BY DEF DeskInv
<1>2. PICK status \in Health :
        readbacks' = [readbacks EXCEPT ![c].at = "collected", ![c].result =
          [of |-> readbacks[c].snapshot.baseline, at |-> time, status |-> status]]
  BY DEF Collected
<1>3. /\ readbacks[c] # NoRecord /\ time' = time + 1
      /\ UNCHANGED <<rows, attention, revision, refreshes, views, failed, reconcile, aged, maintenance>>
  BY DEF Collected
<1>4. readbacks[c] \in ReadbackRecords /\ readbacks[c].snapshot \in Rows /\ time \in Nat
  BY <1>1, <1>3 DEF DeskTyped, ReadbackRecords
<1> DEFINE found == [of |-> readbacks[c].snapshot.baseline, at |-> time, status |-> status]
           brought == [readbacks[c] EXCEPT !.at = "collected", !.result = found]
<1>5. /\ found \in Observations /\ found.of = readbacks[c].snapshot.baseline /\ found.at = time
  BY <1>4 DEF Observations, Rows
<1>6. readbacks' = [readbacks EXCEPT ![c] = brought] BY <1>2
<1> HIDE DEF found
<1>7. /\ brought \in ReadbackRecords /\ brought.at = "collected" /\ brought.result = found
      /\ brought.snapshot = readbacks[c].snapshot
  BY <1>4, <1>5 DEF ReadbackRecords
<1> HIDE DEF brought
<1>8. /\ readbacks' \in [Clusters -> ReadbackRecords \cup {NoRecord}] /\ readbacks'[c] = brought
      /\ \A d \in Clusters \ {c} : readbacks'[d] = readbacks[d]
  BY <1>1, <1>6, <1>7 DEF DeskTyped
<1>9. DeskTyped' BY <1>1, <1>3, <1>4, <1>8 DEF DeskTyped
<1>10. \A o \in Observations : o.at <= time => o.at <= time'
  BY <1>3, <1>4 DEF Observations
<1>11. \A d \in Clusters : rows[d] # NoRecord /\ rows[d].observation # NoRecord => rows[d].observation \in Observations
  BY <1>1 DEF DeskTyped, Rows
<1>12. RowsInv'
  <2>1. found.at <= time' BY <1>3, <1>4, <1>5
  <2> SUFFICES ASSUME NEW d \in Clusters
               PROVE  /\ rows[d] # NoRecord /\ rows[d].observation # NoRecord =>
                           rows[d].observation.of = rows[d].baseline /\ rows[d].observation.at <= time'
                      /\ readbacks'[d] # NoRecord =>
                           /\ rows[d] # NoRecord
                           /\ readbacks'[d].at = "collected" =>
                                /\ readbacks'[d].result \in Observations
                                /\ readbacks'[d].result.of = readbacks'[d].snapshot.baseline
                                /\ readbacks'[d].result.at <= time'
    BY <1>3 DEF RowsInv
  <2>2. CASE d = c BY <2>1, <2>2, <1>1, <1>3, <1>5, <1>7, <1>8, <1>10, <1>11 DEF RowsInv
  <2>3. CASE d # c BY <2>3, <1>1, <1>8, <1>10, <1>11 DEF RowsInv
  <2> QED BY <2>2, <2>3
<1> QED BY <1>1, <1>3, <1>9, <1>12, ViewsStay DEF DeskInv

\* The result is stored with the record it was asked for, and only with that one.
LEMMA StoreKeeps ==
  ASSUME DeskInv, NEW c \in Clusters, StoreReadback(c) PROVE DeskInv'
<1>1. DeskTyped /\ RowsInv /\ ViewsInv BY DEF DeskInv
<1> DEFINE left == [readbacks[c] EXCEPT !.at = "leaving"]
           result == readbacks[c].result
           row == [rows[c] EXCEPT !.observation = result]
<1>2. /\ readbacks[c] # NoRecord /\ readbacks[c].at = "collected"
      /\ readbacks' = [readbacks EXCEPT ![c] = left]
      /\ UNCHANGED <<attention, refreshes, views, failed, reconcile, aged, maintenance, time>>
  BY DEF StoreReadback
<1>3. /\ readbacks[c] \in ReadbackRecords /\ rows[c] # NoRecord /\ rows[c] \in Rows
      /\ result \in Observations /\ result.of = readbacks[c].snapshot.baseline /\ result.at <= time
      /\ revision \in Nat
  BY <1>1, <1>2 DEF DeskTyped, RowsInv
<1>4. left \in ReadbackRecords /\ left.at = "leaving" BY <1>3 DEF ReadbackRecords
<1> HIDE DEF left
<1>5. /\ readbacks' \in [Clusters -> ReadbackRecords \cup {NoRecord}] /\ readbacks'[c] = left
      /\ \A d \in Clusters \ {c} : readbacks'[d] = readbacks[d]
  BY <1>1, <1>2, <1>4 DEF DeskTyped
<1>6. CASE rows[c] # readbacks[c].snapshot
  <2>1. UNCHANGED <<rows, revision>> BY <1>6 DEF StoreReadback
  <2>2. DeskTyped' BY <2>1, <1>1, <1>2, <1>5 DEF DeskTyped
  <2>3. RowsInv' BY <2>1, <1>1, <1>2, <1>3, <1>4, <1>5 DEF RowsInv
  <2> QED BY <2>1, <2>2, <2>3, <1>1, <1>2, ViewsStay DEF DeskInv
<1>7. CASE rows[c] = readbacks[c].snapshot
  <2>1. rows' = [rows EXCEPT ![c] = row] /\ revision' = revision + 1
    BY <1>7 DEF StoreReadback
  <2>2. row \in Rows /\ row.observation = result /\ row.baseline = result.of
    BY <1>3, <1>7 DEF Rows
  <2>3. row # NoRecord BY <2>2, OperationsAssumption
  <2> HIDE DEF row, result
  <2>4. /\ rows' \in [Clusters -> Rows \cup {NoRecord}] /\ rows'[c] = row
        /\ \A d \in Clusters \ {c} : rows'[d] = rows[d]
    BY <2>1, <2>2, <1>1 DEF DeskTyped
  <2>5. DeskTyped' BY <2>1, <2>4, <1>1, <1>2, <1>3, <1>5 DEF DeskTyped
  <2>6. RowsInv'
    <3> SUFFICES ASSUME NEW d \in Clusters
                 PROVE  /\ rows'[d] # NoRecord /\ rows'[d].observation # NoRecord =>
                             rows'[d].observation.of = rows'[d].baseline /\ rows'[d].observation.at <= time
                        /\ readbacks'[d] # NoRecord =>
                             /\ rows'[d] # NoRecord
                             /\ readbacks'[d].at = "collected" =>
                                  /\ readbacks'[d].result \in Observations
                                  /\ readbacks'[d].result.of = readbacks'[d].snapshot.baseline
                                  /\ readbacks'[d].result.at <= time
      BY <1>2 DEF RowsInv
    <3>1. CASE d = c BY <3>1, <2>2, <2>3, <2>4, <1>3, <1>4, <1>5 DEF result
    <3>2. CASE d # c BY <3>2, <2>4, <1>1, <1>5 DEF RowsInv
    <3> QED BY <3>1, <3>2
  <2>7. ViewsInv'
    <3>1. \A w \in Users : views[w] # NoRecord => views[w].revision \in Nat /\ views[w].revision <= revision
      BY <1>1 DEF DeskTyped, ViewRecords, ViewsInv
    <3>2. \A n \in Nat : n <= revision => n <= revision' /\ n # revision' BY <2>1, <1>3
    <3> QED BY <3>1, <3>2, <1>1, <1>2 DEF ViewsInv, ReviewedWasSeen
  <2> QED BY <2>5, <2>6, <2>7 DEF DeskInv
<1> QED BY <1>6, <1>7

LEMMA LeaveKeeps ==
  ASSUME DeskInv, UNCHANGED <<rows, attention, revision, views, failed, reconcile, aged, maintenance, time>>,
         readbacks' \in [Clusters -> ReadbackRecords \cup {NoRecord}],
         refreshes' \in [Users -> RefreshRecords \cup {NoRecord}],
         \A c \in Clusters : readbacks'[c] \in {readbacks[c], NoRecord}
  PROVE  DeskInv'
<1>1. DeskTyped /\ RowsInv /\ ViewsInv BY DEF DeskInv
<1>2. DeskTyped' BY <1>1 DEF DeskTyped
<1>3. RowsInv' BY <1>1 DEF RowsInv
<1> QED BY <1>1, <1>2, <1>3, ViewsStay DEF DeskInv

\* The version of a source is a number.
LEMMA VersionTyping ==
  ASSUME DeskTyped, NEW listed \in RefreshRecords, NEW i \in Items
  PROVE  SourceVersion(listed)[i] \in Nat
<1>1. listed.runs \in [RecoveryRuns -> Nat] BY DEF RefreshRecords
<1>2. CASE i \in Jobs
  <2>1. i \notin RecoveryRuns /\ i \notin Clusters BY <1>2, OperationsAssumption
  <2>2. SourceVersion(listed)[i] = IF i \in listed.jobs THEN 1 ELSE 0
    BY <2>1, <1>2 DEF SourceVersion
  <2> QED BY <2>2
<1>3. CASE i \in RecoveryRuns
  <2>1. i \notin Jobs /\ i \notin Clusters BY <1>3, OperationsAssumption
  <2>2. SourceVersion(listed)[i] = listed.runs[i] BY <2>1, <1>3 DEF SourceVersion
  <2> QED BY <2>2, <1>1, <1>3
<1>4. CASE i \in Clusters
  <2>1. i \notin Jobs /\ i \notin RecoveryRuns BY <1>4, OperationsAssumption
  <2>2. SourceVersion(listed)[i] = IF ~NeedsReview(i) THEN 0
                                   ELSE 2 * rows[i].observation.at
                                          + (IF rows[i].observation.at \in aged THEN 1 ELSE 0)
    BY <2>1, <1>4 DEF SourceVersion
  <2>3. NeedsReview(i) => rows[i].observation.at \in Nat
    BY <1>4 DEF NeedsReview, DeskTyped, Rows, Observations
  <2> QED BY <2>2, <2>3
<1> QED BY <1>2, <1>3, <1>4 DEF Items

\* Items stay as they are or are opened for a version that is a number but 0.
LEMMA MaterialisedTyping ==
  ASSUME DeskTyped, NEW listed \in RefreshRecords
  PROVE  LET items == Materialised(SourceVersion(listed))
         IN  /\ items \in [Items -> AttentionItems \cup {NoRecord}]
             /\ \A i \in Items : items[i] = attention[i] \/ items[i].status = "open"
<1> DEFINE versions == SourceVersion(listed)
           items == Materialised(versions)
<1>1. \A i \in Items : versions[i] \in Nat BY VersionTyping
<1> HIDE DEF versions
<1>2. items = [i \in Items |-> IF versions[i] = 0 \/ (attention[i] # NoRecord /\ attention[i].version = versions[i])
                               THEN attention[i] ELSE Opened(versions[i])]
  BY DEF Materialised
<1>3. \A n \in Nat \ {0} : Opened(n) \in AttentionItems /\ Opened(n).status = "open"
  BY DEF Opened, AttentionItems, Reviews
<1>4. ASSUME NEW i \in Items
      PROVE  /\ items[i] \in AttentionItems \cup {NoRecord}
             /\ items[i] = attention[i] \/ items[i].status = "open"
  BY <1>1, <1>2, <1>3 DEF DeskTyped
<1> HIDE DEF items
<1>5. items \in [Items -> AttentionItems \cup {NoRecord}] BY <1>2, <1>4
<1> QED BY <1>4, <1>5 DEF items, versions

\* A summary: its view shows what is stored, unless it could not be stored.
LEMMA RefreshKeeps ==
  ASSUME DeskInv, NEW u \in Users, Refresh(u) PROVE DeskInv'
<1>1. DeskTyped /\ RowsInv /\ ViewsInv BY DEF DeskInv
<1> DEFINE items == Materialised(SourceVersion(refreshes[u]))
           changed == items # attention
           shown == [i \in Items |-> IF items[i] = NoRecord THEN 0 ELSE items[i].version]
           firm == ~(changed /\ maintenance)
           view == [revision |-> revision', firm |-> firm, shown |-> shown]
<1>2. /\ refreshes[u] # NoRecord
      /\ attention' = IF maintenance THEN attention ELSE items
      /\ revision' = IF changed /\ ~maintenance THEN revision + 1 ELSE revision
      /\ views' = [views EXCEPT ![u] = view]
      /\ refreshes' = [refreshes EXCEPT ![u] = NoRecord]
      /\ UNCHANGED <<rows, readbacks, failed, reconcile, aged, maintenance, time>>
  BY DEF Refresh
<1>3. refreshes[u] \in RefreshRecords /\ revision \in Nat /\ maintenance \in BOOLEAN
  BY <1>1, <1>2 DEF DeskTyped
<1>4. /\ items \in [Items -> AttentionItems \cup {NoRecord}]
      /\ \A i \in Items : items[i] = attention[i] \/ items[i].status = "open"
  BY <1>1, <1>3, MaterialisedTyping
<1>5. attention \in [Items -> AttentionItems \cup {NoRecord}] BY <1>1 DEF DeskTyped
<1> HIDE DEF items
<1>6. shown \in [Items -> Nat] BY <1>4 DEF AttentionItems
<1>7. revision' \in Nat /\ revision <= revision' BY <1>2, <1>3
<1>8. firm \in BOOLEAN OBVIOUS
<1> HIDE DEF shown, firm
<1>9. /\ view \in ViewRecords /\ view.revision = revision' /\ view.firm = firm /\ view.shown = shown
  BY <1>6, <1>7, <1>8 DEF ViewRecords
<1> HIDE DEF view
<1>10. /\ views' \in [Users -> ViewRecords \cup {NoRecord}] /\ views'[u] = view
       /\ \A w \in Users \ {u} : views'[w] = views[w]
  BY <1>1, <1>2, <1>9 DEF DeskTyped
<1>11. attention' \in [Items -> AttentionItems \cup {NoRecord}] BY <1>2, <1>4, <1>5
<1>12. refreshes' \in [Users -> RefreshRecords \cup {NoRecord}] BY <1>1, <1>2 DEF DeskTyped
<1>13. maintenance' \in BOOLEAN BY <1>2, <1>3
<1>14. DeskTyped' BY <1>1, <1>2, <1>7, <1>10, <1>11, <1>12, <1>13 DEF DeskTyped
<1>15. RowsInv' BY <1>1, <1>2 DEF RowsInv
<1>16. ASSUME firm PROVE \A i \in Items : shown[i] = VersionOf(i)'
  <2>1. attention' = items BY <1>16, <1>2 DEF firm
  <2> QED BY <2>1 DEF shown, VersionOf
<1>17. ASSUME NEW w \in Users, views'[w] # NoRecord
       PROVE  /\ views'[w].revision <= revision'
              /\ views'[w].firm /\ views'[w].revision = revision' =>
                   \A i \in Items : views'[w].shown[i] = VersionOf(i)'
  <2>1. CASE w = u BY <2>1, <1>7, <1>9, <1>10, <1>16
  <2>2. CASE w # u
    <3>1. views[w] # NoRecord /\ views[w].revision \in Nat /\ views[w].revision <= revision
          /\ views'[w] = views[w]
      BY <2>2, <1>1, <1>10, <1>17 DEF DeskTyped, ViewRecords, ViewsInv
    <3>2. views[w].revision <= revision' BY <3>1, <1>3, <1>7
    <3>3. CASE changed /\ ~maintenance
      <4>1. views[w].revision # revision' BY <3>1, <3>3, <1>2, <1>3
      <4> QED BY <4>1, <3>1, <3>2
    <3>4. CASE ~(changed /\ ~maintenance)
      <4>1. attention' = attention /\ revision' = revision BY <3>4, <1>2
      <4>2. \A i \in Items : VersionOf(i)' = VersionOf(i) BY <4>1 DEF VersionOf
      <4> QED BY <4>1, <4>2, <3>1, <3>2, <1>1 DEF ViewsInv
    <3> QED BY <3>3, <3>4
  <2> QED BY <2>1, <2>2
<1>18. ReviewedWasSeen'
  <2>1. \A i \in Items : attention'[i] = attention[i] \/ attention'[i].status = "open"
    BY <1>2, <1>4
  <2> QED BY <2>1, <1>1 DEF ViewsInv, ReviewedWasSeen
<1> QED BY <1>14, <1>15, <1>17, <1>18 DEF DeskInv, ViewsInv

\* A review: of an item the reviewer sees in the version that is stored.
LEMMA ReviewKeeps ==
  ASSUME DeskInv, NEW u \in Users, NEW i \in Items, NEW status \in Reviews, Review(u, i, status)
  PROVE  DeskInv'
<1>1. DeskTyped /\ RowsInv /\ ViewsInv BY DEF DeskInv
<1> DEFINE item == [attention[i] EXCEPT !.status = status, !.seen = views[u].shown[i],
                                        !.firm = views[u].firm]
<1>2. /\ Current(u) /\ Saved(u) /\ attention[i] # NoRecord
      /\ UNCHANGED <<rows, readbacks, refreshes, failed, reconcile, aged, maintenance, time>>
  BY DEF Review
<1>3. attention' = [attention EXCEPT ![i] = item] BY DEF Review
<1>4. /\ attention[i] \in AttentionItems /\ views[u] # NoRecord /\ views[u].revision = revision
      /\ views[u].shown[i] \in Nat /\ views[u].firm \in BOOLEAN
  BY <1>1, <1>2 DEF DeskTyped, Current, ViewRecords
<1>5. /\ item \in AttentionItems /\ item.version = attention[i].version
      /\ item.seen = views[u].shown[i] /\ item.firm = views[u].firm
  <2> DEFINE seen == views[u].shown[i]
             firm == views[u].firm
  <2>1. seen \in Nat /\ firm \in BOOLEAN BY <1>4
  <2> HIDE DEF seen, firm
  <2>2. [attention[i] EXCEPT !.status = status, !.seen = seen, !.firm = firm] \in AttentionItems
    BY <2>1, <1>4 DEF AttentionItems
  <2>3. /\ [attention[i] EXCEPT !.status = status, !.seen = seen, !.firm = firm].version = attention[i].version
        /\ [attention[i] EXCEPT !.status = status, !.seen = seen, !.firm = firm].seen = seen
        /\ [attention[i] EXCEPT !.status = status, !.seen = seen, !.firm = firm].firm = firm
    BY <2>1, <1>4 DEF AttentionItems
  <2> QED BY <2>2, <2>3 DEF seen, firm
<1> HIDE DEF item
<1>6. item # NoRecord BY <1>5, OperationsAssumption
<1>7. /\ attention' \in [Items -> AttentionItems \cup {NoRecord}] /\ attention'[i] = item
      /\ \A j \in Items \ {i} : attention'[j] = attention[j]
  BY <1>1, <1>3, <1>5 DEF DeskTyped
<1>8. \A j \in Items : VersionOf(j)' = VersionOf(j)
  BY <1>2, <1>5, <1>6, <1>7 DEF VersionOf
<1>9. /\ revision' \in Nat /\ views' \in [Users -> ViewRecords \cup {NoRecord}]
      /\ \A w \in Users : views'[w] # NoRecord =>
           /\ views'[w].revision <= revision'
           /\ views'[w].firm /\ views'[w].revision = revision' =>
                \A j \in Items : views'[w].shown[j] = VersionOf(j)'
  BY <1>1, <1>2, <1>8, SaveKeepsViews
<1>10. DeskTyped' BY <1>1, <1>2, <1>7, <1>9 DEF DeskTyped
<1>11. RowsInv' BY <1>1, <1>2 DEF RowsInv
<1>12. views[u].firm => views[u].shown[i] = attention[i].version
  BY <1>1, <1>2, <1>4 DEF ViewsInv, VersionOf
<1>13. ReviewedWasSeen'
  BY <1>1, <1>5, <1>7, <1>12 DEF ViewsInv, ReviewedWasSeen
<1> QED BY <1>9, <1>10, <1>11, <1>13 DEF DeskInv, ViewsInv

\* Every step of the desk keeps its invariant.
LEMMA DeskKeep == ASSUME DeskInv, DeskAct PROVE DeskInv'
<1>1. DeskTyped /\ RowsInv /\ ViewsInv BY DEF DeskInv
<1>2. CASE \E u \in Users, c \in Clusters, b \in Baselines : RecordCluster(u, c, b)
  BY <1>2, RecordKeeps
<1>3. CASE \E c \in Clusters : BeginReadback(c) BY <1>3, BeginReadbackKeeps
<1>4. ASSUME NEW u \in Users, BeginRefresh(u) PROVE DeskInv'
  <2>1. [jobs |-> failed, runs |-> reconcile] \in RefreshRecords
    <3>1. reconcile \in [RecoveryRuns -> Nat] BY <1>1 DEF DeskTyped
    <3> QED BY <3>1, <1>1 DEF RefreshRecords, DeskTyped
  <2>2. refreshes' \in [Users -> RefreshRecords \cup {NoRecord}]
    BY <2>1, <1>1, <1>4 DEF BeginRefresh, DeskTyped
  <2> QED BY <2>2, <1>1, <1>4, LeaveKeeps DEF BeginRefresh, DeskTyped
<1>5. CASE \E u \in Users, i \in Items, status \in Reviews : Review(u, i, status)
  BY <1>5, ReviewKeeps
<1>6. CASE JobsChange
  <2>1. failed' \subseteq Jobs /\ UNCHANGED <<deskVars, reconcile, aged, maintenance, time>>
    BY <1>1, <1>6 DEF JobsChange, DeskTyped
  <2>2. DeskTyped' BY <2>1, <1>1 DEF DeskTyped, deskVars
  <2>3. RowsInv' BY <2>1, <1>1 DEF RowsInv, deskVars
  <2>4. ViewsInv' BY <2>1, <1>1, ViewsStay DEF deskVars
  <2> QED BY <2>2, <2>3, <2>4 DEF DeskInv
<1>7. \A d \in Clusters : rows[d] # NoRecord /\ rows[d].observation # NoRecord => rows[d].observation.at \in Nat
  BY <1>1 DEF DeskTyped, Rows, Observations
<1>8. CASE RecoveryChanges
  <2>1. /\ time' = time + 1 /\ time \in Nat
        /\ UNCHANGED <<deskVars, failed, aged, maintenance>>
    BY <1>1, <1>8 DEF RecoveryChanges, DeskTyped
  <2>2. reconcile' \in [RecoveryRuns -> 0 .. time'] BY <2>1, <1>1, <1>8 DEF RecoveryChanges, DeskTyped
  <2>3. aged' \subseteq 0 .. time' BY <2>1, <1>1 DEF DeskTyped
  <2>4. DeskTyped' BY <2>1, <2>2, <2>3, <1>1 DEF DeskTyped, deskVars
  <2>5. \A n \in Nat : n <= time => n <= time' BY <2>1
  <2>6. \A o \in Observations : o.at \in Nat BY DEF Observations
  <2>7. RowsInv' BY <2>1, <2>5, <2>6, <1>1, <1>7 DEF RowsInv, deskVars
  <2>8. ViewsInv' BY <2>1, <1>1, ViewsStay DEF deskVars
  <2> QED BY <2>4, <2>7, <2>8 DEF DeskInv
<1>9. CASE TimePasses
  <2>1. UNCHANGED <<deskVars, failed, reconcile, maintenance, time>> BY <1>9 DEF TimePasses
  <2>2. aged' \subseteq 0 .. time
    <3>1. PICK c \in Clusters : /\ rows[c] # NoRecord /\ rows[c].observation # NoRecord
                                /\ aged' = aged \cup {rows[c].observation.at}
      BY <1>9 DEF TimePasses
    <3>2. rows[c].observation.at \in 0 .. time BY <3>1, <1>1, <1>7 DEF RowsInv, DeskTyped
    <3> QED BY <3>1, <3>2, <1>1 DEF DeskTyped
  <2>3. DeskTyped' BY <2>1, <2>2, <1>1 DEF DeskTyped, deskVars
  <2>4. RowsInv' BY <2>1, <1>1 DEF RowsInv, deskVars
  <2>5. ViewsInv' BY <2>1, <1>1, ViewsStay DEF deskVars
  <2> QED BY <2>3, <2>4, <2>5 DEF DeskInv
<1>10. CASE MaintenanceTurns
  <2>1. UNCHANGED <<deskVars, failed, reconcile, aged, time>> BY <1>10 DEF MaintenanceTurns
  <2>2. maintenance' \in BOOLEAN BY <1>10 DEF MaintenanceTurns
  <2>3. DeskTyped' BY <2>1, <2>2, <1>1 DEF DeskTyped, deskVars
  <2>4. RowsInv' BY <2>1, <1>1 DEF RowsInv, deskVars
  <2>5. ViewsInv' BY <2>1, <1>1, ViewsStay DEF deskVars
  <2> QED BY <2>3, <2>4, <2>5 DEF DeskInv
<1>11. CASE OperationsStep
  <2>1. ASSUME NEW c \in Clusters, LeaveReadback(c) PROVE DeskInv'
    <3>1. /\ readbacks' \in [Clusters -> ReadbackRecords \cup {NoRecord}]
          /\ \A d \in Clusters : readbacks'[d] \in {readbacks[d], NoRecord}
      BY <2>1, <1>1 DEF LeaveReadback, DeskTyped
    <3> QED BY <3>1, <2>1, <1>1, LeaveKeeps DEF LeaveReadback, DeskTyped
  <2> QED BY <2>1, <1>11, CollectedKeeps, StoreKeeps, RefreshKeeps DEF OperationsStep
<1>12. CASE OperationsRestart BY <1>12, LeaveKeeps DEF OperationsRestart
<1>13. CASE UNCHANGED operationsVars BY <1>13, <1>1, LeaveKeeps DEF operationsVars, DeskTyped
<1> QED BY <1>2, <1>3, <1>4, <1>5, <1>6, <1>8, <1>9, <1>10, <1>11, <1>12, <1>13 DEF DeskAct

LEMMA InvGivesDesk == ASSUME DeskInv PROVE OperationsTypeOK /\ EvidenceOfBaseline /\ ReviewedWasSeen
<1>1. OperationsTypeOK
  <2>1. \A u \in Users : views[u] # NoRecord => views[u].revision \in 0 .. revision
    BY DEF DeskInv, DeskTyped, ViewsInv, ViewRecords
  <2> QED BY <2>1 DEF DeskInv, DeskTyped, RowsInv, OperationsTypeOK
<1>2. EvidenceOfBaseline BY DEF DeskInv, RowsInv, EvidenceOfBaseline
<1>3. ReviewedWasSeen BY DEF DeskInv, ViewsInv
<1> QED BY <1>1, <1>2, <1>3
=============================================================================
