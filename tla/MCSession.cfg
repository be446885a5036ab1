SPECIFICATION Spec
CONSTANTS
  Request = {a, b, x}
  Revoker = {x}
  Jti = {j1, j2, j3}
  None = None
  RevokerOps = {"logout", "changePassword", "disable", "reset", "setRole", "remove", "restore", "enable", "unlock"}
  TicksPerSecond = 2
  MaxTime = 4
  MaxFaults = 1
  LostReplies = TRUE
SYMMETRY SessionSymmetry
INVARIANTS
  TypeOK
  SingleRotation
  LogoutCutsOff
  RevocationComplete
PROPERTY ImplementsRotation
