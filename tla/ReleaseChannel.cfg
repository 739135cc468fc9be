SPECIFICATION FairSpec
CONSTANTS
  Channels = {main, beta}
  Owners = {o1, o2}
  Tickets = {t1}
  None = None
  RetryMax = 2
  MaxOrdinal = 3
  MaxTx = 4
  MaxCrashes = 1
INVARIANTS
  TypeOK
  RecoveryReady
  EveryIntentLegal
  AtRestReadable
PROPERTIES
  HistoryIsImmutable
  PendingIsFinished
  ImplementsReleaseHistory
