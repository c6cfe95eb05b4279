SPECIFICATION FairSpec
CONSTANTS
  l1 = l1
  l2 = l2
  t1 = t1
  t2 = t2
  Ledgers = {l1}
  Server = Server
  Garbage = Garbage
  Ticks <- MCTicks
  PageSize = 2
  Settings = {1}
  RestoreAnyTime = FALSE
  MaxEvents = 4
  MaxFaults = 2
PROPERTY
  CatchesUp
CHECK_DEADLOCK FALSE
