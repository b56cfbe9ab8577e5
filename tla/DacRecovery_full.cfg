SPECIFICATION Spec
CONSTANTS
  NumBanks = 2
  PagesPerBlk = 4
  NumMetaBlks = 5
  Erased = Erased
  Spoiled = Spoiled
  TablePages <- MCTablePages
  NumVersions = 3
  MaxFlushes = 4
  None = None
  Mixed = Mixed
INVARIANTS MapInOwnBlock
