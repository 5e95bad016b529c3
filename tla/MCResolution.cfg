SPECIFICATION Spec
CONSTANTS
  Caller = {c1, c2}
  Pid = {p}
  TTL = 2
  MaxClock = 2
  NoEntry = NoEntry
  A = A
  B = B
  Anonymous = Anonymous
  None = None
  MaxAddr = 4
  Layouts <- MCLayouts
  Questions <- MCQuestions
  Modules <- MCModules
SYMMETRY Symmetry
INVARIANTS
  AnswersWereTrue
  ExpressionIsCurrent
  StillExpressionIsConsistent
CHECK_DEADLOCK FALSE
