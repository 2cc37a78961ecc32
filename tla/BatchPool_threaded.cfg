SPECIFICATION Spec
CONSTANTS
  Workers = {w1, w2}
  MaxTasks = 3
  NumSlots = 3
  NumGrads = 2
  Nobody = Nobody
INVARIANTS
  OneGradStatePerThread
CHECK_DEADLOCK FALSE
