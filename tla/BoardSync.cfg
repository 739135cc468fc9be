SPECIFICATION FairSpec
CONSTANTS
  Mine = {m1}
  Theirs = {t1}
  Markers = Markers
  MaxContexts = 2
  MaxQueue = 2
INVARIANTS
  ConflictsStayLocal

  
CHECK_DEADLOCK FALSE
