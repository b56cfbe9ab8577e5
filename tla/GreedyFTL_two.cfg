CONSTANTS
  NumBanks = 2
  VBlksPerBank = 6
  PagesPerBlk = 4
  MapBlksPerBank = 1
  BadBlks <- TwoBanks
  NumLpages = 4
  SectorsPerPage = 1
  d1 = d1
  d2 = d2
  Data <- Data1
  Blank = Blank
  Garbled = Garbled
  Erased = Erased
  Enc <- Same
  EncSectors = 3
  MaxSectors = 2
  HostLpns = {1, 2, 3}
SPECIFICATION FairSpec
INVARIANTS TypeOK MapOwned VcountExact GcReserve FreeCountExact WriteFront OwnersHere
PROPERTIES GcCopiesVcount NandDiscipline CommandsEnd
