SPECIFICATION Spec
CONSTANTS
  Fronts = {"torch"}
  Ids = {1, 2}
  MaxBatch = 2
  MaxRuns <- MCMaxRuns
  Statuses = {"solved", "none"}
  NoRetry = {"solved"}
  FailedBackward = FALSE
INVARIANTS
  StatelessSolve
CHECK_DEADLOCK FALSE
