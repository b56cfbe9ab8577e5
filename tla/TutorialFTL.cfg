SPECIFICATION Spec
CONSTANTS
  NumBanks = 2
  NumRdBuffers = 3
  NumWrBuffers = 4
  SectorsPerPage = 3
  RowsPerBank = 6
  PagesPerVblk = 2
  BadBlks <- MCBadBlks
  NumLpns = 3
  Requests <- MCRequests
  MaxWrites = 3
  MaxPending = 4
  Erased = 99
  Stale = 98
  None = None
  NULL = NULL
INVARIANTS HostGetsItsPages RingsAgree
PROPERTY CommandsServed
CHECK_DEADLOCK FALSE
