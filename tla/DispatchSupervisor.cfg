SPECIFICATION FairSpec
CONSTANTS
  Dispatches = {d1, d2, d3}
  Tickets = {t1, t2}
  MaxActive = 2
  None = None
INVARIANTS
  TypeOK
  OnlyOverlapsBreakTheLock
  OneHonestOutcome
PROPERTIES
  EveryDispatchEnds
CHECK_DEADLOCK FALSE
