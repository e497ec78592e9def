----------------------------- MODULE Operations -----------------------------
(***************************************************************************)
(* Cluster operations (cluster_operations.py): the managed-cluster records *)
(* with their health observations, and the attention items that stand for  *)
(* failed jobs, recovery runs to reconcile and observations to review.     *)
(* One document with a revision is read, changed and saved under one lock; *)
(* the readback of a cluster and the lists of jobs and recovery runs are   *)
(* taken outside it, and clients act on a view they got earlier.           *)
(***************************************************************************)
EXTENDS Integers, FiniteSets

CONSTANTS Clusters, Baselines, MaxClusters,
          Jobs, RecoveryRuns,   \* with Clusters: what an attention item is about
          Users, NoRecord

Items == Clusters \cup Jobs \cup RecoveryRuns
Health == {"good", "unknown", "not_good"}
Reviews == {"open", "acknowledged", "resolved"}
AttentionItems == [version : Nat \ {0}, status : Reviews, seen : Nat, firm : BOOLEAN]
Observations == [of : Baselines, at : Nat, status : Health]
Rows == [baseline : Baselines, updated : Nat, observation : Observations \cup {NoRecord}]

ASSUME OperationsAssumption ==
  /\ MaxClusters \in Nat /\ NoRecord \notin AttentionItems \cup Rows
  /\ Clusters \cap Jobs = {} /\ Clusters \cap RecoveryRuns = {} /\ Jobs \cap RecoveryRuns = {}

VARIABLES rows,         \* rows[c]: the stored record of a cluster, or NoRecord
          attention,    \* attention[i]: the stored attention item, or NoRecord
          revision,
          readbacks,    \* readbacks[c]: the readback of c under way (c in collecting)
          refreshes,    \* refreshes[u]: what u's summary has read outside the lock
          views,        \* views[u]: the summary user u looks at, or NoRecord
          failed,       \* jobs the queue reports as failed or interrupted
          reconcile,    \* reconcile[r]: updatedAt of a run to reconcile, else 0
          aged,         \* collection times more than 15 minutes ago
          maintenance,
          time          \* every stored time is a different number
operationsVars == <<rows, attention, revision, readbacks, refreshes, views,
                    failed, reconcile, aged, maintenance, time>>

OperationsInit ==
  /\ rows = [c \in Clusters |-> NoRecord]
  /\ attention = [i \in Items |-> NoRecord]
  /\ revision = 0 /\ time = 1
  /\ readbacks = [c \in Clusters |-> NoRecord]
  /\ refreshes = [u \in Users |-> NoRecord]
  /\ views = [u \in Users |-> NoRecord]
  /\ failed = {} /\ aged = {} /\ maintenance = FALSE
  /\ reconcile = [r \in RecoveryRuns |-> 0]

\* A save by user u, who is told the new revision.
Saved(u) ==
  /\ revision' = revision + 1
  /\ views' = [views EXCEPT ![u].revision = revision + 1]

\* Variant: the revision a client sends is not compared.
AnyView(u) == views[u] # NoRecord

\* The revision check: what u sends names the revision of u's view.
Current(u) == views[u] # NoRecord /\ views[u].revision = revision

\* record: a new or changed record.  Its endpoint must be nobody else's; an
\* observation is kept only when nothing that identifies the cluster changes.
RecordCluster(u, c, baseline) ==
  /\ Current(u)
  /\ \A d \in Clusters \ {c} : rows[d] # NoRecord => rows[d].baseline # baseline
  /\ rows[c] = NoRecord => Cardinality({d \in Clusters : rows[d] # NoRecord}) < MaxClusters
  /\ rows' = [rows EXCEPT ![c] =
       [baseline |-> baseline, updated |-> time,
        observation |-> IF rows[c] # NoRecord /\ rows[c].baseline = baseline
                        THEN rows[c].observation ELSE NoRecord]]
  /\ time' = time + 1
  /\ Saved(u)
  /\ UNCHANGED <<attention, readbacks, refreshes, failed, reconcile, aged, maintenance>>

(***************************************************************************)
(* observe: a snapshot of the record under the lock, the readback without  *)
(* it, the result stored under the lock if the record is still the same.   *)
(***************************************************************************)
BeginReadback(c) ==
  /\ rows[c] # NoRecord /\ readbacks[c] = NoRecord
  /\ readbacks' = [readbacks EXCEPT ![c] =
       [at |-> "collecting", snapshot |-> rows[c], result |-> NoRecord]]
  /\ UNCHANGED <<rows, attention, revision, refreshes, views, failed, reconcile, aged, maintenance, time>>

Collected(c) ==
  /\ readbacks[c] # NoRecord /\ readbacks[c].at = "collecting"
  /\ \E status \in Health :
       readbacks' = [readbacks EXCEPT ![c].at = "collected", ![c].result =
         [of |-> readbacks[c].snapshot.baseline, at |-> time, status |-> status]]
  /\ time' = time + 1
  /\ UNCHANGED <<rows, attention, revision, refreshes, views, failed, reconcile, aged, maintenance>>

\* Variant: only that there still is a record is looked at.
StoreUnchecked(c) ==
  /\ readbacks[c] # NoRecord /\ readbacks[c].at = "collected"
  /\ rows' = [rows EXCEPT ![c].observation = readbacks[c].result]
  /\ revision' = revision + 1
  /\ readbacks' = [readbacks EXCEPT ![c].at = "leaving"]
  /\ UNCHANGED <<attention, refreshes, views, failed, reconcile, aged, maintenance, time>>

StoreReadback(c) ==
  /\ readbacks[c] # NoRecord /\ readbacks[c].at = "collected"
  /\ IF rows[c] = readbacks[c].snapshot
     THEN /\ rows' = [rows EXCEPT ![c].observation = readbacks[c].result]
          /\ revision' = revision + 1
     ELSE UNCHANGED <<rows, revision>>
  /\ readbacks' = [readbacks EXCEPT ![c].at = "leaving"]
  /\ UNCHANGED <<attention, refreshes, views, failed, reconcile, aged, maintenance, time>>

\* The finally clause; it is also where an exception of the readback or of the
\* save leads.
LeaveReadback(c) ==
  /\ readbacks[c] # NoRecord
  /\ readbacks' = [readbacks EXCEPT ![c] = NoRecord]
  /\ UNCHANGED <<rows, attention, revision, refreshes, views, failed, reconcile, aged, maintenance, time>>

(***************************************************************************)
(* summary: jobs and recovery runs are listed before the lock is taken; the*)
(* items they and the observations call for are opened, or opened again    *)
(* when the version of their source is another one.                        *)
(***************************************************************************)
BeginRefresh(u) ==
  /\ refreshes[u] = NoRecord
  /\ refreshes' = [refreshes EXCEPT ![u] = [jobs |-> failed, runs |-> reconcile]]
  /\ UNCHANGED <<rows, attention, revision, readbacks, views, failed, reconcile, aged, maintenance, time>>

NeedsReview(c) ==
  /\ rows[c] # NoRecord /\ rows[c].observation # NoRecord
  /\ rows[c].observation.status # "good" \/ rows[c].observation.at \in aged

\* The version of each source that calls for attention; 0 where none does.  An
\* observation has a second version once it is stale.
SourceVersion(listed) ==
  [i \in Items |->
     CASE i \in Jobs -> IF i \in listed.jobs THEN 1 ELSE 0
       [] i \in RecoveryRuns -> listed.runs[i]
       [] i \in Clusters -> IF ~NeedsReview(i) THEN 0
                            ELSE 2 * rows[i].observation.at
                                   + (IF rows[i].observation.at \in aged THEN 1 ELSE 0)]

Opened(version) == [version |-> version, status |-> "open", seen |-> 0, firm |-> FALSE]

Materialised(versions) ==
  [i \in Items |-> IF versions[i] = 0 \/ (attention[i] # NoRecord /\ attention[i].version = versions[i])
                   THEN attention[i] ELSE Opened(versions[i])]

\* Under maintenance nothing is saved: the view then shows items, or versions of
\* items, that are not stored (it is not firm).
Refresh(u) ==
  /\ refreshes[u] # NoRecord
  /\ LET items == Materialised(SourceVersion(refreshes[u]))
         changed == items # attention
     IN  /\ attention' = IF maintenance THEN attention ELSE items
         /\ revision' = IF changed /\ ~maintenance THEN revision + 1 ELSE revision
         /\ views' = [views EXCEPT ![u] =
              [revision |-> revision', firm |-> ~(changed /\ maintenance),
               shown |-> [i \in Items |-> IF items[i] = NoRecord THEN 0 ELSE items[i].version]]]
  /\ refreshes' = [refreshes EXCEPT ![u] = NoRecord]
  /\ UNCHANGED <<rows, readbacks, failed, reconcile, aged, maintenance, time>>

\* attention: user u reviews an item of the view.
Review(u, i, status) ==
  /\ Current(u) /\ views[u].shown[i] # 0
  /\ attention[i] # NoRecord
  /\ attention' = [attention EXCEPT ![i].status = status, ![i].seen = views[u].shown[i],
                                    ![i].firm = views[u].firm]
  /\ Saved(u)
  /\ UNCHANGED <<rows, readbacks, refreshes, failed, reconcile, aged, maintenance, time>>

\* What the rest of the appliance does: jobs fail or are deleted, recovery runs come
\* to need reconciliation, are saved again or are reconciled, time passes, and
\* maintenance begins or ends.
deskVars == <<rows, attention, revision, readbacks, refreshes, views>>

JobsChange ==
  /\ \E j \in Jobs : failed' = (failed \ {j}) \cup ({j} \ failed)
  /\ UNCHANGED <<deskVars, reconcile, aged, maintenance, time>>

RecoveryChanges ==
  /\ \E r \in RecoveryRuns, to \in {0, time} :
       reconcile[r] # to /\ reconcile' = [reconcile EXCEPT ![r] = to]
  /\ time' = time + 1
  /\ UNCHANGED <<deskVars, failed, aged, maintenance>>

TimePasses ==
  /\ \E c \in Clusters :
       /\ rows[c] # NoRecord /\ rows[c].observation # NoRecord
       /\ rows[c].observation.at \notin aged
       /\ aged' = aged \cup {rows[c].observation.at}
  /\ UNCHANGED <<deskVars, failed, reconcile, maintenance, time>>

MaintenanceTurns ==
  /\ maintenance' = ~maintenance
  /\ UNCHANGED <<deskVars, failed, reconcile, aged, time>>

OperationsRestart ==
  /\ readbacks' = [c \in Clusters |-> NoRecord]
  /\ refreshes' = [u \in Users |-> NoRecord]
  /\ UNCHANGED <<rows, attention, revision, views, failed, reconcile, aged, maintenance, time>>

OperationsStep ==
  \/ \E c \in Clusters : Collected(c) \/ StoreReadback(c) \/ LeaveReadback(c)
  \/ \E u \in Users : Refresh(u)

OperationsTypeOK ==
  /\ rows \in [Clusters -> Rows \cup {NoRecord}]
  /\ attention \in [Items -> AttentionItems \cup {NoRecord}]
  /\ \A c \in Clusters : readbacks[c] # NoRecord => rows[c] # NoRecord
  /\ \A u \in Users : views[u] # NoRecord => views[u].revision \in 0 .. revision
  /\ failed \subseteq Jobs /\ aged \subseteq 0 .. time
  /\ reconcile \in [RecoveryRuns -> 0 .. time]
  /\ maintenance \in BOOLEAN

\* The observation of a record was made of the cluster the record describes now:
\* of its endpoint, credential, identity and nodes, however long the readback took
\* and whoever changed the record meanwhile (even back to what it was).
EvidenceOfBaseline ==
  \A c \in Clusters : rows[c] # NoRecord /\ rows[c].observation # NoRecord =>
    rows[c].observation.of = rows[c].baseline

\* Nobody reviews what he has not seen: an item that is acknowledged or resolved was
\* so by someone whose view showed the version of the source the item stands for
\* now; a newer failure, a stale observation or a newer state of a recovery run is
\* open again.  Exempt are views taken under maintenance that show what was not
\* stored.
ReviewedWasSeen ==
  \A i \in Items : attention[i] # NoRecord /\ attention[i].status # "open" /\ attention[i].firm =>
    attention[i].seen = attention[i].version
=============================================================================
