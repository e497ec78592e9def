\* Two workers, a framework job and a post-foundation plan, one restore and one
\* restart with or after it, a file that holds every record.
SPECIFICATION FairSpec
CONSTANTS
  NoJob = NoJob
  Jobs = {j1, j2}
  StepJobs = {j2}
  Workers = {w1, w2}
  MaxKept = 2
  MaxSteps = 2
  Milestones = {65}
  Garbled = TRUE
  MaxRestarts = 1
  MaxMaintenance = 1
INVARIANTS TypeOK SingleExecution RestoreExcludesWork ReportedMeansStopped ReportIsTruthful
PROPERTIES TerminalIsFinal ProgressNeverRegresses ImplementsLifecycle EveryJobEnds
\* Once every submission of the instance was served, the queue is at rest.
CHECK_DEADLOCK FALSE
