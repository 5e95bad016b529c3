SPECIFICATION SeqSpec
CONSTANTS
  Call = {c1, c2}
  Slots = 1
  WordBits = 6
  PageBits = 2
  BufSizes = {0, 1, 2, 3, 4, 5, 6, 7}
  MaxText = 5
  MaxArgument = 5
  WordLimit = 64
  MaxTokens = 15
  MaxWord = 1
  MaxPid = 3
  MaxBirth = 4
  Matching = {1, 4}
  MatchPid = {3}
  Limits = {1, 9}
  Cap = 3
INVARIANTS
  RingAsAsked
  RegistersComeBack
  FiltersAreRead
  PredicatesReadRegisters
  ArgumentsAreRead
  ListsTheLiving
CHECK_DEADLOCK FALSE
