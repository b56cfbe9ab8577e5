CONSTANTS
  NumBanks = 2
  VBlksPerBank = 7
  PagesPerBlk = 3
  MapBlksPerBank = 1
  BadBlks <- TwoBanks
  NumLpages = 2
  SectorsPerPage = 1
  d1 = d1
  d2 = d2
  Data <- Data1
  Blank = Blank
  Garbled = Garbled
  Erased = Erased
  Enc <- Same
  EncSectors = 3
  MaxSectors = 1
  HostLpns = {0, 1}
SPECIFICATION Spec
PROPERTIES GcCopiesVcount
