SPECIFICATION Spec
CONSTANTS
  Fronts = {"compiled"}
  Ids = {1, 2}
  MaxBatch = 2
  MaxRuns <- MCMaxRuns
  Statuses = {"solved", "none"}
  NoRetry = {"solved"}
  FailedBackward = TRUE
INVARIANTS
  GradientUsesWarmSolution
CHECK_DEADLOCK FALSE
