\* Two updates in a row; the service dies during the readiness of the second.
SPECIFICATION Spec
CONSTANTS
  Images = {v1, v2}
  First = v1
  Down = Down
  Nothing = Nothing
  Requests <- FourRequests
  MaxRetries = 0
  MaxJobs = 0
  MaxCrashes = 1
PROPERTIES ChangeNeedsApproval
CHECK_DEADLOCK FALSE
