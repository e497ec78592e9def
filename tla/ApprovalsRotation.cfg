\* The store fails when the link of a rotation is recorded.
SPECIFICATION Spec
CONSTANTS
  Nobody = Nobody
  Ids = {a1}
  Rotations = {a1}
  Subs = {s1, s2}
  MaxStored = 1
  MaxWrites = 1
  MaxRestarts = 0
  Faults = TRUE
SYMMETRY SubSymmetry
INVARIANTS RotationSingleUse
\* Once every approval and submission of the instance was used, nothing is left.
CHECK_DEADLOCK FALSE
