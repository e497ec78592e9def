\* Two initial access steps and two others of the same content, jobs submitted
\* by hand, and two coordinators that overlap after a reconciliation.
SPECIFICATION Spec
CONSTANTS
  r1 = r1
  Runs = {r1}
  Jobs <- FourJobs
  Threads = {t1, t2}
  Collectors = {c1}
  Resources <- AllResources
  Needs <- SharedNode
  ManualNeeds = {}
  Plan <- TwoAndTwo
  None = None
  MaxResumes = 1
  MaxCrashes = 0
  MaxFaults = 0
SYMMETRY ThreadSymmetry
INVARIANTS RestAfterBootstrap OneJobOneStep
\* A run that is over has nothing left to do.
CHECK_DEADLOCK FALSE
