SPECIFICATION FairSpec
CONSTANTS
  MaxRestarts = 2
INVARIANTS
  ShutdownIsComplete
PROPERTIES
  CloseEnds
CHECK_DEADLOCK FALSE
