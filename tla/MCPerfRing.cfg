SPECIFICATION EventsSpec
CONSTANTS
  Size = 8
  Batch = 2
  MaxSamples = 4
  EventId = 7
  Tid = {t1, t2}
  Workers = 2
  MaxHits = 3
INVARIANTS
  Integrity
  NeverLapped
  NoLostWakeup
PROPERTIES
  RunsAsTask
  EverySampleHandled
  ParksWhenDrained
  SpareWorkerServesAll
CHECK_DEADLOCK FALSE
