SPECIFICATION Spec
CONSTANTS
  a = a  b = b  d = d  g = g
  pa = pa  pb = pb  pd = pd  pg = pg
  Callers = {a, b, d, g}
  Procs = {pa, pb, pd, pg}
  ProcOf <- ThreeProcOf
  Departed = {pg}
  Masked = {}
  Retries = 1
  RenameRetries = 0
  MaxCalls = 1
  MaxCrashes = 0
  NoTok = NoTok
INVARIANTS
  MutualExclusion
CHECK_DEADLOCK FALSE
