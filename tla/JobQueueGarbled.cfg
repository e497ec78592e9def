\* Output of a process may hold bytes that are not text.
SPECIFICATION FairSpec
CONSTANTS
  NoJob = NoJob
  Jobs = {j1}
  StepJobs = {}
  Workers = {w1}
  MaxKept = 1
  MaxSteps = 1
  Milestones = {}
  Garbled = TRUE
  MaxRestarts = 0
  MaxMaintenance = 0
PROPERTIES CancelTakesEffect
\* Once every submission of the instance was served, the queue is at rest.
CHECK_DEADLOCK FALSE
