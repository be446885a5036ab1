SPECIFICATION Spec
CONSTANTS
  r1 = r1
  r2 = r2
  known = known
  custom = custom
  k = k
  c = c
  d = d
  Request = {r1, r2}
  Perm = {known, custom}
  Code = {k, c, d}
  Reserved = {k}
  Opens <- MCOpens
  None = None
  Ttl = 2
  MaxChanges = 3
SYMMETRY AccessSymmetry
INVARIANTS TypeOK NoStaleGrant
PROPERTIES StaleBounded LossIsAsked
