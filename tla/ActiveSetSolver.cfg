SPECIFICATION Spec
CONSTANTS
  Families <- AllFamilies
  ClockPeriod = 3
  MaxCalls = 4
  NONE = NONE
INVARIANTS
  SolvedIsOptimal
  InfeasibleIsProved
  FactorIsOfWorkingSet
  FlagsMatchWorkingSet
  GradientIsOfItsSolve
CHECK_DEADLOCK FALSE
