SPECIFICATION Spec
CONSTANTS
  w1 = w1
  t1 = t1
  t2 = t2
  WatchId <- MCWatchId
  Tid <- MCTid
  RingCap = 2
  Batch = 2
INVARIANTS
  EventsHaveReaders
  AtMostOneLate
PROPERTIES
  QuietAfterStop
  StopReturns
CHECK_DEADLOCK FALSE
