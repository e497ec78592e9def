SPECIFICATION Spec
CONSTANTS
  s1 = s1  c1 = c1  c2 = c2  f1 = f1  f2 = f2  p1 = p1
  x1 = x1  x2 = x2  r1 = r1  r2 = r2  i1 = i1  i2 = i2  k1 = k1  k2 = k2
  b1 = b1  b2 = b2  j1 = j1  v1 = v1  u1 = u1  u2 = u2
  None = None
  NoRecord = NoRecord
  NoFile = NoFile
  Schedules = {s1}
  Calls = {c1, c2}
  Firings = {f1, f2}
  PipelineRuns = {p1}
  Recorders = {f1, f2, p1}
  MaxHistory = 2
  Files = {x1, x2}
  Contents <- MCContents
  Plans <- MCPlans
  Runs = {r1, r2}
  Sites = {i1, i2}
  MaxStoredRuns = 1
  Clusters = {k1, k2}
  Baselines = {b1, b2}
  MaxClusters = 2
  Jobs = {j1}
  RecoveryRuns = {v1}
  Users = {u1, u2}
  Budgets <- MCBudgets
INVARIANTS
  TypeOK
  RegistrationFollowsStore
  RecordsKept
  VerdictOfSites
  RunsWhatWasValidated
  EvidenceOfBaseline
  ReviewedWasSeen
PROPERTY RunIsClosed
CHECK_DEADLOCK FALSE
