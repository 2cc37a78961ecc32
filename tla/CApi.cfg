SPECIFICATION CSpec
CONSTANTS
  NumThreads = 1
  MaxBatch = 2
  MaxCalls = 5
INVARIANTS
  SolveIndexesExist
  SolveUsesSetup
  GradientIsOfItsProblem
  HandleAgreesWithSolver
CHECK_DEADLOCK FALSE
