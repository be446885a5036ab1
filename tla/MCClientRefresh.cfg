SPECIFICATION FairSpec
CONSTANTS
  t1 = t1
  Tab = {t1, t2}
  Request = {r1, r2}
  Home <- Homes
  MaxUsers = 2
  NoTab = NoTab
  MaxPairs = 3
  MaxFaults = 1
INVARIANTS TypeOK NeverReused IdleTabsAgree
PROPERTIES Answers LateTokenIsShared
CHECK_DEADLOCK FALSE
