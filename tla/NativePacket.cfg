\* Review packets and single reviews, with one change of the approval or the
\* evidence while a request is built.
SPECIFICATION Spec
CONSTANTS
  Requests <- MCRequests
  MaxChanges = 1
INVARIANTS
  NoReentry
  PermitJustified
  OffersJustified
PROPERTY RequestAnswered
