SPECIFICATION FairSpec
CONSTANTS
  c1 = c1
  c2 = c2
  a1 = a1
  a2 = a2
  b1 = b1
  b2 = b2
  plain = plain
  bad = bad
  A = A
  B = B
  Clients = {c1, c2}
  Batch <- MCBatch
  Rows <- MCRows
  Ref <- MCRef
  NoRef = NoRef
  Dated = {a1, a2, b2}
  Malformed = {bad}
  Chunk = 2
  MaxRetries = 1
  MaxOthers = 1
  MaxFaults = 2
  MaxRuns = 5
INVARIANTS
  TypeOK
  PostedIsBooked
  OncePerRun
PROPERTY
  ImportsEnd
