SPECIFICATION Spec
CONSTANTS
  s1 = s1
  s2 = s2
  c1 = c1
  c2 = c2
  Sample <- MCSample
  Client <- MCClient
  NoSample = NoSample
  QueueCap = 2
  HitLimit = 2
  BroadcastCap = 2
  MaxOffered = 4
INVARIANTS
  Accounting
  HitsShownAreTheLast
  StreamFaithful
  StreamNeverAhead
PROPERTIES
  ImplementsLog
CHECK_DEADLOCK FALSE
