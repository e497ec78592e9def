\* A removal and a rotation approval, two submissions, a store that holds one
\* record, faults and a restart.
SPECIFICATION FairSpec
CONSTANTS
  Nobody = Nobody
  Ids = {a1, a2}
  Rotations = {a2}
  Subs = {s1, s2}
  MaxStored = 1
  MaxWrites = 2
  MaxRestarts = 1
  Faults = TRUE
INVARIANTS TypeOK SingleUse RevocationStopsWrites
PROPERTIES DecisionIsFinal PendingExpires GuardedJobEnds
\* Once every approval and submission of the instance was used, nothing is left.
CHECK_DEADLOCK FALSE
