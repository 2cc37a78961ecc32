SPECIFICATION Spec
CONSTANTS
  Workers = {w1, w2}
  MaxTasks = 4
  NumSlots = 3
  NumGrads = 2
  Nobody = Nobody
INVARIANTS
  SequentialNeverSelfWaits
PROPERTIES
  SequentialBatchReturns
CHECK_DEADLOCK FALSE
