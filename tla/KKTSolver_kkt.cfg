SPECIFICATION Spec
CONSTANTS
  N = 4
  M = 5
  PDAxes = 1
  Problems <- PassProblems
  Orders <- BothOrders
  PDSignsSet <- Flips
  Norms = {1, 3, 4}
  Tolerance = 1
  StopRatio = 2
  MaxRefine = 2
  Regularizations = {TRUE, FALSE}
  MaxData = 1
  MaxScalings = 2
INVARIANTS
  AssemblyFits
  FactoredIsCurrent
  RefinementUsesTrueMatrix
  SignsMatchSentinels
  SymbolicFactorIsFill
  StepUsesOneFactor
