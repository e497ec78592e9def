\* A preflight, an install and a rollback or a second attempt; one request sent
\* again, one job, one death of the service.
SPECIFICATION FairSpec
CONSTANTS
  Images = {v1, v2}
  First = v1
  Down = Down
  Nothing = Nothing
  Requests <- ThreeRequests
  MaxRetries = 1
  MaxJobs = 1
  MaxCrashes = 1
INVARIANTS TypeOK AtMostOnce UnprovenStaysLocked
PROPERTIES StopsOnlyIdle StartedIsNotUndone ComesToRest
\* An appliance all of whose requests were used has nothing left to do.
CHECK_DEADLOCK FALSE
