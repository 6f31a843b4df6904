SPECIFICATION NodeSpec
CONSTANTS
  MaxRequests = 2
  MaxTasks = 2
  SleepEnds = TRUE
  EarlySignal = FALSE
INVARIANTS
  
  QuietReturn

  
CHECK_DEADLOCK FALSE
