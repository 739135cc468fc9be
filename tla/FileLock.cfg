SPECIFICATION FairSpec
CONSTANTS
  a = a  b = b  d = d  g = g
  pa = pa  pb = pb  pd = pd  pg = pg
  Callers = {a, b, g}
  Procs = {pa, pb, pg}
  ProcOf <- TwoProcOf
  Departed = {pg}
  Masked = {pa}
  Retries = 1
  RenameRetries = 1
  MaxCalls = 2
  MaxCrashes = 1
  NoTok = NoTok
INVARIANTS
  TypeOK
  MutualExclusion
  HolderIsMarked
  HeldRecordSurvives
  NoGhostAfterCall
PROPERTIES
  EveryCallEnds
  ImplementsAtomicLock
CHECK_DEADLOCK FALSE
