\* Two runs that share a node and deployments outside recovery on one endpoint,
\* a step that changes the password, a reconciliation that goes on, a refused
\* write and a death of the process.
SPECIFICATION FairSpec
CONSTANTS
  r1 = r1
  Runs = {r1, r2}
  Jobs <- ThreeJobs
  Threads = {t1}
  Collectors = {c1}
  Resources <- AllResources
  Needs <- SharedNode
  ManualNeeds <- EndpointOne
  Plan <- OnePassword
  None = None
  MaxResumes = 1
  MaxCrashes = 1
  MaxFaults = 1
INVARIANTS TypeOK DeploymentExclusive PasswordOnce
PROPERTIES OwnershipHolds RunSettles
\* A run that is over has nothing left to do.
CHECK_DEADLOCK FALSE
