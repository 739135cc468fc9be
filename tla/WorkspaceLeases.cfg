SPECIFICATION FairSpec
CONSTANTS
  Tickets = {t1, t2, t3}
  Batches = {b1}
  Runs = {r1, r2}
  Branches = {p, q}
  Worktrees = {x}
  NoTree = NoTree
  None = None
  MaxCrashes = 1
  MaxPolicy = 1
INVARIANTS
  TypeOK OneWriterPerWorkspace NoOrphanStamp StaysConsistent RollsForward
PROPERTIES
  ManifestLifecycle DeclarationCompletes ReleaseCompletes ImplementsOwnership
CHECK_DEADLOCK FALSE
