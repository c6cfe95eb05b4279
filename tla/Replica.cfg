SPECIFICATION Spec
CONSTANTS
  l1 = l1
  l2 = l2
  t1 = t1
  t2 = t2
  Ledgers <- MCLedgers
  Server = Server
  Garbage = Garbage
  Ticks <- MCTicks
  PageSize = 2
  Settings = {1}
  RestoreAnyTime = FALSE
  MaxEvents = 3
  MaxFaults = 2
SYMMETRY MCSymmetry
INVARIANTS
  TypeOK
  LogsAgree
  FollowedIsPrefix
PROPERTIES
  NoFalseAlarm
CHECK_DEADLOCK FALSE
