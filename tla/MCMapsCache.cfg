SPECIFICATION CountedSpec
CONSTANTS
  c1 = c1
  c2 = c2
  p1 = p1
  Caller <- MCCaller
  Pid <- MCPid
  TTL = 2
  MaxClock = 3
  NoEntry = NoEntry
INVARIANTS
  EntriesHonest
  ServedFresh
  MissIsFresh
PROPERTIES
  CallsReturn
CHECK_DEADLOCK FALSE
