SPECIFICATION Spec
CONSTANTS
  t1 = t1  t2 = t2
  Chunks = 3
  Nodes <- MixedReplicas
  Permits = 1
  Thread = {t1, t2}
  FlushAt = 2
  Faults = {"unreadable", "exception", "signal"}
INVARIANTS
  PermitsConserved
PROPERTIES
  MeetsContract
  
CHECK_DEADLOCK FALSE
