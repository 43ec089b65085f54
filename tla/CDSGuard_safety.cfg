SPECIFICATION Spec
CONSTANTS
  Nil = Nil
  w1 = w1
  w2 = w2
  GpsDecimals = 2
  Inputs <- MeshInputs
  Workers <- TwoWorkers
  MaxCapacity = 1
  MaxPackets = 3
  MaxCrashes = 1
SYMMETRY WorkerSymmetry
INVARIANTS OneOutcome EgressClean CountersSettle DLQShowsNewest SanitizedLeavesOnce
PROPERTY ImplementsFilter
CHECK_DEADLOCK FALSE
