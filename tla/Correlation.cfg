SPECIFICATION Spec
CONSTANTS
  Hash = {a, b}
  Lists <- ShortLists
  Others = TRUE
INVARIANTS
  CorrelationInv
  PlansConsumed
  MissingSent
  WalkExact
CHECK_DEADLOCK FALSE
