SPECIFICATION LegacySpec
CONSTANTS
  url = url
  w1 = w1
  l1 = l1
  Keys <- MCKeys
  Batches <- MCBatches
  Local <- MCLocal
  Remote <- MCRemote
  NoWriter = NoWriter
  MaxLog = 3
  Legacy <- MCLegacy
  LegacyEvents <- MCLegacyEvents
INVARIANT
  ChecksSeeFoldedLog
CHECK_DEADLOCK FALSE
