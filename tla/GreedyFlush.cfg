SPECIFICATION Spec
CONSTANTS
  NumBanks = 2
  PagesPerBlk = 3
  NumMetaBlks = 5
  Erased = Erased
  Spoiled = Spoiled
  MapVbn <- MCMapVbn
  MapBlksPerBank = 2
  TablePages = 3
  NumVersions = 3
  None = None
INVARIANTS FlushedIsLoaded OldImageKept MiscAfterMap NandRule
