SPECIFICATION FairSpec
CONSTANTS
  EqFull = 3
  Impatient <- Enduring
  QuickHost = FALSE
INVARIANTS
  TypeOK
  FlagsOnce
  SlowOnce
  SlowIsLast
  EqBounded
PROPERTIES
  RequestsAnswered
