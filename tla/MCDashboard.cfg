SPECIFICATION Spec
CONSTANTS
  Server = {a, b}
  MaxHits = 3
  Limits = {1, 2}
  Load = {k1, k2}
  Conn = {c1, c2}
  None = None
SYMMETRY Symmetry
INVARIANTS
  OneLiveStream
  
  
CHECK_DEADLOCK FALSE
