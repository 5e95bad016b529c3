SPECIFICATION Spec
CONSTANTS
  r1 = r1
  r2 = r2
  t1 = t1
  b1 = b1
  Request <- MCRequest
  MaxId = 1
  Tid <- MCTid
  RingCap = 1
  Batch = 1
  NoSample = NoSample
  Client <- MCClient
  QueueCap = 1
  HitLimit = 1
  BroadcastCap = 1
  MaxOffered = 2
PROPERTIES
  DeleteReleases
CHECK_DEADLOCK FALSE
