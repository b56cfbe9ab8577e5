SPECIFICATION Spec
CONSTANTS
  PagesPerBlk = 4
  META_BLKS_PER_BANK = 4
  VBLKS_PER_BANK = 14
  BadBlks = {6}
  NumRegion = 3
  NumLpages = 12
  Lpns <- MCLpns
  ZeroVpns <- MCZeroVpns
  NumWrites = 95
  VC_FREE = VC_FREE
  VC_MAX = VC_MAX
  VC_ACTIVE = VC_ACTIVE
  INVALID16 = INVALID16
  Erased = Erased
  Old = Old
  List = List
  Spoiled = Spoiled
  Workloads <- MCWorkloads
INVARIANTS ReadsLastWrite CountsCoverLive BlocksInRole
PROPERTIES WriteEnds
CHECK_DEADLOCK FALSE
