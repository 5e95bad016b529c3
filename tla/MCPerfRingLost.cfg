SPECIFICATION EventsSpec
CONSTANTS
  Size = 8
  Batch = 2
  MaxSamples = 4
  EventId = 7
  Tid = {t1, t2}
  Workers = 2
  MaxHits = 3
INVARIANT LostLogIsTheCount
CHECK_DEADLOCK FALSE
