SPECIFICATION Spec
CONSTANTS
  Fronts = {"single", "compiled", "torch", "jax"}
  Ids = {1, 2}
  MaxBatch = 2
  MaxRuns <- MCMaxRuns
  Statuses = {"solved", "none"}
  NoRetry = {"solved"}
  FailedBackward = TRUE
INVARIANTS
  SolvesWhatItWasGiven
  MergeIsConsistent
  GradientIsAtTheAnswer
CHECK_DEADLOCK FALSE
