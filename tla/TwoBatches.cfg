SPECIFICATION Spec
CONSTANTS
  Tickets = {t1, t2, t3, t4}
  Batches = {b1, b2}
  Runs = {r1}
  Branches = {p, q}
  Worktrees = {x, y}
  NoTree = NoTree
  None = None
  MaxCrashes = 1
  MaxPolicy = 0
INVARIANTS
  OneWriterPerWorkspace
  NoOrphanStamp
PROPERTIES
  ImplementsOwnership
SYMMETRY Interchangeable
CHECK_DEADLOCK FALSE
