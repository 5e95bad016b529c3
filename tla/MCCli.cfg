SPECIFICATION Spec
CONSTANTS
  w1 = w1
  t1 = t1
  t2 = t2
  TheWatch = w1
  Tid <- MCTid
  RingCap = 1
  Batch = 1
INVARIANTS
  WaitingMeansWatching
  NothingOutlivesMain
PROPERTIES
  TimeoutExitsWhileThreadsLive
CHECK_DEADLOCK FALSE
