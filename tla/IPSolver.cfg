SPECIFICATION Spec
CONSTANTS
  NaN = NaN
  Iterates <- Few
  Starts <- Starting
  MaxIter = 2
  YoloIters = 2
  MaxRuns = 2
  TolGap <- Minus8
  TolFeas <- Minus8
  ReducedGap <- Minus4
  ReducedFeas <- Minus4
  ReducedKt <- Minus4
  TinyKt <- Minus13
  InfeasKt = 9
  AlmostInfeasKt = 7
INVARIANTS
  TypeOK
  ProgressTestsReadThisRun
  StatusIsHonest
  NoSolutionLost
  BestIsClosest
  YoloReturnsNumbers
PROPERTIES
  SolveReturns
  FulfilsContract
CHECK_DEADLOCK FALSE
