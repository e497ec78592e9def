\* A readback that began before a reconciliation.
SPECIFICATION Spec
CONSTANTS
  r1 = r1
  Runs = {r1}
  Jobs <- ThreeJobs
  Threads = {t1}
  Collectors = {c1}
  Resources <- AllResources
  Needs <- SharedNode
  ManualNeeds = {}
  Plan <- OneStep
  None = None
  MaxResumes = 1
  MaxCrashes = 0
  MaxFaults = 0
SYMMETRY ThreadSymmetry
INVARIANTS HealthIsFresh
\* A run that is over has nothing left to do.
CHECK_DEADLOCK FALSE
