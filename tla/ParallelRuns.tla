---------------------------- MODULE ParallelRuns ----------------------------
(***************************************************************************)
(* Parallel multi-site runs (parallel_exec.py).  Each run has a thread that*)
(* takes its sites in the order in which they end, puts each result into   *)
(* the stored record and closes the record when all have ended.  The store *)
(* is read and written back under one lock each time, by identifier, and   *)
(* keeps the newest runs only, whatever their status.                      *)
(***************************************************************************)
EXTENDS Integers, Sequences

CONSTANTS Runs, Sites, MaxStoredRuns

ASSUME ParallelAssumption == MaxStoredRuns \in Nat \ {0}

VARIABLES runList,      \* identifiers of the stored runs, newest first
          record,       \* record[r]: what is (or was last) stored of run r
          thread,       \* thread[r]: where the thread of run r stands
          exits,        \* exits[r][i]: how the process of a site ended
          announced     \* announced[r]: the status given to the webhook
parallelVars == <<runList, record, thread, exits, announced>>

\* A return code of 0, one of -1 (nothing was run, or waiting failed), another.
Codes == {"zero", "minusOne", "other"}
StatusOf(code) == CASE code = "zero" -> "success"
                    [] code = "minusOne" -> "error"
                    [] code = "other" -> "failed"

NoRun == [status |-> "none", sites |-> <<>>]
IsStored(r) == \E k \in DOMAIN runList : runList[k] = r
SitesOf(r) == DOMAIN exits[r]
Uncollected(r) == {i \in SitesOf(r) : i \notin thread[r].collected}

ParallelInit ==
  /\ runList = <<>>
  /\ record = [r \in Runs |-> NoRun]
  /\ thread = [r \in Runs |-> [at |-> "none", collected |-> {}]]
  /\ exits = [r \in Runs |-> <<>>]
  /\ announced = [r \in Runs |-> "none"]

\* Variant: nothing falls off.
PutFirstUncut(r) == <<r>> \o runList

\* _save keeps the newest runs.
PutFirst(r) == SubSeq(<<r>> \o runList, 1, IF Len(runList) < MaxStoredRuns
                                           THEN Len(runList) + 1 ELSE MaxStoredRuns)

\* submit: the record is put in front, the oldest one too many falls off, and the
\* thread of the run is started.
Submit(r, sites) ==
  /\ thread[r].at = "none"
  /\ runList' = PutFirst(r)
  /\ record' = [record EXCEPT ![r] = [status |-> "running", sites |-> [i \in sites |-> "pending"]]]
  /\ thread' = [thread EXCEPT ![r].at = "collecting"]
  /\ exits' = [exits EXCEPT ![r] = [i \in sites |-> "going"]]
  /\ UNCHANGED announced

\* delete_run: at any time, whatever the thread of the run is doing.  A run is listed once.
DeleteRun(r) ==
  /\ \E k \in DOMAIN runList :
       /\ runList[k] = r
       /\ runList' = SubSeq(runList, 1, k - 1) \o SubSeq(runList, k + 1, Len(runList))
  /\ UNCHANGED <<record, thread, exits, announced>>

\* run_site returns: the process ended or was killed at the deadline, or the
\* configuration could not be written.
SiteEnds(r, i) ==
  /\ thread[r].at = "collecting"
  /\ exits[r][i] = "going"
  /\ \E code \in Codes : exits' = [exits EXCEPT ![r][i] = code]
  /\ UNCHANGED <<runList, record, thread, announced>>

\* Variant: a site whose process could not be waited for is never collected.
CollectRunOnly(r, i) ==
  /\ thread[r].at = "collecting"
  /\ i \in Uncollected(r) /\ exits[r][i] \in {"zero", "other"}
  /\ thread' = [thread EXCEPT ![r].collected = @ \cup {i}]
  /\ record' = IF IsStored(r) THEN [record EXCEPT ![r].sites[i] = StatusOf(exits[r][i])] ELSE record
  /\ UNCHANGED <<runList, exits, announced>>

\* The loop over as_completed: the result goes into the stored record, if there is
\* one, under the lock.
Collect(r, i) ==
  /\ thread[r].at = "collecting"
  /\ i \in Uncollected(r) /\ exits[r][i] # "going"
  /\ thread' = [thread EXCEPT ![r].collected = @ \cup {i}]
  /\ record' = IF IsStored(r) THEN [record EXCEPT ![r].sites[i] = StatusOf(exits[r][i])] ELSE record
  /\ UNCHANGED <<runList, exits, announced>>

\* Variant: a site in error is not a site that failed.
OverallWithoutErrors(sites) ==
  LET Some(statuses) == \E i \in DOMAIN sites : sites[i] \in statuses
  IN  IF ~Some({"pending", "failed"}) THEN "success"
      ELSE IF ~Some({"failed"}) THEN "unknown"
      ELSE IF Some({"success"}) THEN "partial" ELSE "failed"

\* The overall status of what the record says of its sites.
Overall(sites) ==
  LET Some(statuses) == \E i \in DOMAIN sites : sites[i] \in statuses
  IN  IF ~Some({"pending", "failed", "error"}) THEN "success"
      ELSE IF ~Some({"failed", "error"}) THEN "unknown"
      ELSE IF Some({"success"}) THEN "partial" ELSE "failed"

\* All sites are collected: the record is closed, under the lock.  A run that is no
\* longer stored leaves final_run unbound, which ends the thread.
Close(r) ==
  /\ thread[r].at = "collecting" /\ Uncollected(r) = {}
  /\ IF IsStored(r)
     THEN /\ record' = [record EXCEPT ![r].status = Overall(record[r].sites)]
          /\ thread' = [thread EXCEPT ![r].at = "closed"]
     ELSE /\ thread' = [thread EXCEPT ![r].at = "broken"]
          /\ UNCHANGED record
  /\ UNCHANGED <<runList, exits, announced>>

\* After the lock the webhook is told the status of final_run, which is the record
\* that was saved: nothing writes it again, though it may be deleted by now.  The
\* call may fail, and nobody repeats it.
Announce(r) ==
  /\ thread[r].at = "closed"
  /\ thread' = [thread EXCEPT ![r].at = "ended"]
  /\ \E told \in {record[r].status, "none"} : announced' = [announced EXCEPT ![r] = told]
  /\ UNCHANGED <<runList, record, exits>>

\* The server ends; nothing goes on with a run that was under way, and a closed one
\* that the webhook was not told of stays so.
ParallelRestart ==
  /\ thread' = [r \in Runs |-> IF thread[r].at \in {"collecting", "closed"}
                               THEN [thread[r] EXCEPT !.at = "stranded"] ELSE thread[r]]
  /\ UNCHANGED <<runList, record, exits, announced>>

ParallelRequest ==
  \E r \in Runs : \/ \E sites \in (SUBSET Sites) \ {{}} : Submit(r, sites)
                  \/ DeleteRun(r)
ParallelStep ==
  \E r \in Runs : \/ \E i \in SitesOf(r) : SiteEnds(r, i) \/ Collect(r, i)
                  \/ Close(r) \/ Announce(r)

ParallelTypeOK ==
  /\ runList \in Seq(Runs) /\ Len(runList) <= MaxStoredRuns
  /\ \A r \in Runs :
       /\ SitesOf(r) \subseteq Sites /\ DOMAIN record[r].sites = SitesOf(r)
       /\ record[r].status \in {"none", "running", "success", "partial", "failed"}
       /\ \A i \in SitesOf(r) : /\ record[r].sites[i] \in {"pending", "success", "failed", "error"}
                                /\ exits[r][i] \in Codes \cup {"going"}
       /\ thread[r].collected \subseteq SitesOf(r)
       /\ thread[r].at \in {"none", "collecting", "closed", "ended", "broken", "stranded"}
       /\ announced[r] \in {"none", "success", "partial", "failed"}

\* What a closed run says is what its processes did: all of them ended, it is a
\* success when all returned 0, failed when none did and partial otherwise, and
\* each site is reported with its own exit.  What the webhook was told of a run,
\* after the lock, is that verdict and nothing before it; it may have been told
\* nothing, when the call failed or the server ended first.
VerdictOfSites ==
  \A r \in Runs :
    /\ record[r].status \notin {"none", "running"} =>
         LET good == {i \in SitesOf(r) : exits[r][i] = "zero"}
         IN  /\ \A i \in SitesOf(r) : exits[r][i] # "going" /\ record[r].sites[i] = StatusOf(exits[r][i])
             /\ record[r].status = CASE good = SitesOf(r) -> "success"
                                     [] good = {} -> "failed"
                                     [] OTHER -> "partial"
    /\ announced[r] # "none" =>
         record[r].status # "running" /\ announced[r] = record[r].status

\* A stored run does not stay running: its processes end or are killed, and its
\* thread closes it, unless it is deleted or pushed out first or the server ends.
\* After a restart nobody closes it (the code has no step that would).
RunIsClosed ==
  \A r \in Runs : (IsStored(r) /\ record[r].status = "running")
                    ~> (~IsStored(r) \/ record[r].status # "running" \/ thread[r].at = "stranded")
=============================================================================
