SPECIFICATION ReconcileSpec
CONSTANTS
  Channels = {main}
  Owners = {o1}
  Tickets = {t1}
  Ticket = t1
  Vanished = Vanished
  None = None
  RetryMax = 2
  MaxOrdinal = 2
  MaxTx = 2
  MaxCrashes = 1
  Tries = 2
  Samples = 2
INVARIANTS
  DriftNeedsChurn
PROPERTIES
  JudgedOnTruth
CHECK_DEADLOCK FALSE
