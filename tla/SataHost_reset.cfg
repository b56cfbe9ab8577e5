SPECIFICATION Spec
CONSTANTS
  EqFull = 2
  Impatient <- InFlush
  QuickHost = FALSE
PROPERTIES
  SrstExecuted
