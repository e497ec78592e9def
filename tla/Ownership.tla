----------------------------- MODULE Ownership -----------------------------
(***************************************************************************)
(* What recovery runs promise about Foundation endpoints and nodes: a run  *)
(* takes everything it needs at once, when nobody owns or images any of    *)
(* it, at most once in its life, and keeps it until it is over.            *)
(***************************************************************************)
CONSTANTS Runs, Resources, Needs

VARIABLES
  owners,   \* runs that own what they need
  over,     \* runs that will own nothing any more
  imaging   \* resources an active deployment works on

Init == owners = {} /\ over = {} /\ imaging = {}

Free(S) ==
  /\ S \cap imaging = {}
  /\ \A r \in owners : S \cap Needs[r] = {}

\* The deployment of the run may be refused by the queue after all.
Acquire(r) ==
  /\ r \notin owners \cup over
  /\ Free(Needs[r])
  /\ owners' = owners \cup {r}
  /\ imaging' \in {imaging, imaging \cup Needs[r]}
  /\ UNCHANGED over

\* A deployment outside recovery.
Image(S) ==
  /\ Free(S)
  /\ imaging' = imaging \cup S
  /\ UNCHANGED <<owners, over>>

Finish(S) == imaging' = imaging \ S /\ UNCHANGED <<owners, over>>

Release(r) ==
  /\ r \in owners
  /\ owners' = owners \ {r} /\ over' = over \cup {r}
  /\ UNCHANGED imaging

\* A run that never owned anything is closed.
Abandon(r) ==
  /\ r \notin owners
  /\ over' = over \cup {r}
  /\ UNCHANGED <<owners, imaging>>

Next ==
  \/ \E r \in Runs : Acquire(r) \/ Release(r) \/ Abandon(r)
  \/ \E S \in SUBSET Resources : Image(S) \/ Finish(S)

Spec == Init /\ [][Next]_<<owners, over, imaging>>
=============================================================================
