SPECIFICATION Spec
CONSTANTS
  NULL = NULL
  NDenseGenPow = 3
  Problems <- MCProblems
  Scalings <- MCScalings
  Taus <- MCTaus
  Bars <- MCBars
  Methods <- MCMethods
  SocNoExpansion = 3
  Steps <- MCSteps
  RayPoints <- MCRayPoints
  SocPoints <- MCSocPoints
  PowPoints <- MCPowPoints
  GenPowers <- MCGenPowers
  PowerProduct <- MCPowerProduct
  INF = 2000
  InfBound = 1000
INVARIANTS
  SolutionSolvesUsersProblem
  DataIsUsersProblem
  GradientIsOfSolutionMap
  AdjointIsTransposeOfForward
  PatternFits
  StepIsNewton
CHECK_DEADLOCK FALSE
