SPECIFICATION Spec
CONSTANTS
  Slice = {x, y}
  MaxSlices = 2
  MaxEdits = 2
  MaxFailures = 2
  Faults = {"saving"}
INVARIANTS
  CommittedIsSnapshot
  CompletedWasSent
PROPERTIES
  RetriesSucceed
CHECK_DEADLOCK FALSE
