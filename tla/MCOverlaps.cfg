SPECIFICATION OverlapsSpec
CONSTANTS
  Runner = {m, n}
  File = {1, 2, 3}
  NoRunner = NoRunner
  MaxBackups = 1
  MaxBackupFaults = 1
  Attempt = {m, n, z}
  QuotaLimit = 1
  MaxUsed = 4
  MaxQuotaFaults = 1
  Entry = {m, n}
  Rule = {u}
  Pattern = {p1}
  CacheLife = 2
  MaxLogFaults = 1
  Request = {m, n}
  MaxCode = 2
  GuessLimit = 2
  MaxCodeFaults = 1
  Starter = {m, n, z}
  Seeder = {z}
  AdminRoleId = 1
  UserRoleId = 2
  MaxRoleId = 9
  MaxSetupFaults = 1
  Login = {m, n, z}
  QrState = {qr}
  NoState = NoState
  LoginLimit = 2
  MaxTries = 4
  MaxSignInFaults = 1
  Role = {m, n}
  Code = {u, v}
  NoRole = NoRole
  MaxDialogs = 2
  Click = {m, n, z}
  Image = {u, v}
  NoUrl = NoUrl
  NoImage = NoImage
  Socket = {m, n, z}
  MaxConnections = 2
  Ttl = 3
  MaxPresenceFaults = 1
  MaxSize = 3
  MaxNumber = 4
  Letter = {m, n, z}
  MaxMailFaults = 1
SYMMETRY OverlapsSymmetry
INVARIANTS
  OverlapsTypeOK
  Exclusive
  QuotaCovers
  WithdrawnWithinLife
  EvidenceKept
  OnceOnly
  OneFirstAdmin
  LimitsHold
  OnlyWhatWasTicked
  OneObjectUrl
  NoGhosts
  OpenIsReachable
  NotShownInVain
  AnswersTheRange
PROPERTY NewestKept
CHECK_DEADLOCK FALSE
