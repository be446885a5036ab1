SPECIFICATION Spec
CONSTANTS
  Request = {a, b, x, y}
  Revoker = {x, y}
  Jti = {j1, j2}
  None = None
  RevokerOps = {"setRole"}
  TicksPerSecond = 2
  MaxTime = 1
  MaxFaults = 0
  LostReplies = FALSE
INVARIANT RoleChangeRevokes
