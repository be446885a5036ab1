SPECIFICATION PresenceFairSpec
CONSTANTS
  Socket = {a, b}
  MaxConnections = 2
  Ttl = 2
  MaxPresenceFaults = 0
INVARIANTS ShownWhenOpen
