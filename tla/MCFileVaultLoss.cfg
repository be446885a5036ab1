SPECIFICATION Spec
CONSTANTS
  a = a
  b = b
  Request = {a, b}
  Earlier = n0
  None = none
  Layouts = {TRUE}
  FaultAt = {}
  MaxFaults = 0
SYMMETRY VaultSymmetry
INVARIANTS ContentKept
