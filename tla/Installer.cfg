SPECIFICATION Spec
CONSTANTS
  NumBanks = 2
  VBlksPerBank = 2
  ScanListItems = 4
  EccUnit = 128
  Bad <- BadBlks
INVARIANTS MarksSurvive ListedWhereStamped
