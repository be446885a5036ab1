SPECIFICATION Spec
CONSTANTS
  Request = {a, x}
  Revoker = {x}
  Jti = {j1, j2}
  None = None
  RevokerOps = {"reset"}
  TicksPerSecond = 2
  MaxTime = 2
  MaxFaults = 0
  LostReplies = TRUE
INVARIANT PasswordCutsOff
