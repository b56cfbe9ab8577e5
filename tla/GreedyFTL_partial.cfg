CONSTANTS
  NumBanks = 1
  VBlksPerBank = 6
  PagesPerBlk = 4
  MapBlksPerBank = 1
  BadBlks <- OneBank
  NumLpages = 2
  SectorsPerPage = 2
  d1 = d1
  d2 = d2
  Data <- Data2
  Blank = Blank
  Garbled = Garbled
  Erased = Erased
  Enc <- Swap
  EncSectors = 3
  MaxSectors = 3
  HostLpns = {0, 1}
SPECIFICATION Spec
PROPERTIES ImplementsDisk
