SPECIFICATION EventuallySpec
CONSTANTS
  a = a
  b = b
  Request = {a, b}
  Earlier = n0
  None = none
  Layouts = {TRUE, FALSE}
  FaultAt = {"restart", "insert", "discard", "lock", "verify", "stow", "unstow", "unlock", "rollback", "clear", "recheckRestored", "restow"}
  MaxFaults = 1
  Instance = {i, j}
  DayHours = 2
  Life = 5
  MaxWatchFaults = 2
  HitLimit = 2
  Window = 3
  Block = 3
  MaxHits = 5
  MaxManual = 2
  MaxSocketFaults = 3
  Socket = {i, j}
  MaxConnections = 2
  Ttl = 3
  MaxPresenceFaults = 1
  MaxRows = 3
  PageSize = 1
  AllSize = 1
  MaxOwn = 1
INVARIANTS
  EventuallyTypeOK
  Recoverable
  OneWayBack
PROPERTIES
  CleanupSpares
  StraysGo
  MissingIsReported
  BlockEnds
  SocketComesBack
  SetEmpties
  Settles
  ListsRest
CHECK_DEADLOCK FALSE
