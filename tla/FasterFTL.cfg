SPECIFICATION Spec
CONSTANTS
  PagesPerBlk = 4
  DataBlks = 3
  LogBlks = 4
  IsolBlks = 5
  NumBad = 1
  BankNo = 0
  OPTION_ENABLE_ASSERT = TRUE
  BucketSize = 4
  ArenaSize = 36
  INVALID = INVALID
  Erased = Erased
  Old = Old
  Blank = Blank
  List = List
  Spoiled = Spoiled
  Hash <- MCHash
  Workloads <- MCWorkloads
INVARIANTS ReadsLastWrite TableAgrees BlocksApart NandRule CountsExact
PROPERTIES WriteEnds
CHECK_DEADLOCK FALSE
