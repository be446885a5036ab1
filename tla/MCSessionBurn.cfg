SPECIFICATION Spec
CONSTANTS
  Request = {a}
  Revoker = {}
  Jti = {j1, j2}
  None = None
  RevokerOps = {}
  TicksPerSecond = 2
  MaxTime = 2
  MaxFaults = 1
  LostReplies = FALSE
INVARIANT UnavailableKeepsToken
