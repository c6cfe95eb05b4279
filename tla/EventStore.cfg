SPECIFICATION FairSpec
CONSTANTS
  a = a
  b = b
  w1 = w1
  w2 = w2
  w3 = w3
  Keys <- MCKeys
  Batches <- MCBatches
  Local <- MCLocal
  Remote <- MCRemote
  NoWriter = NoWriter
  MaxLog = 3
INVARIANTS
  TypeOK
  ProjectionsMatchLog
  LogReplays
PROPERTIES
  CommitsAtExpectedHead
  ImplementsLedgerLog
  EveryCommandEnds
CHECK_DEADLOCK FALSE
