\* The coordinator from before a reconciliation meets the one from after.
SPECIFICATION Spec
CONSTANTS
  r1 = r1
  Runs = {r1}
  Jobs <- ThreeJobs
  Threads = {t1, t2}
  Collectors = {c1}
  Resources <- AllResources
  Needs <- SharedNode
  ManualNeeds = {}
  Plan <- TwoAlike
  None = None
  MaxResumes = 1
  MaxCrashes = 0
  MaxFaults = 0
SYMMETRY ThreadSymmetry
INVARIANTS AcceptedIsComplete
\* A run that is over has nothing left to do.
CHECK_DEADLOCK FALSE
