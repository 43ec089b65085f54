SPECIFICATION FairSpec
CONSTANTS
  Nil = Nil
  w1 = w1
  w2 = w2
  GpsDecimals = 0
  Inputs <- AllInputs
  Workers <- TwoWorkers
  MaxCapacity = 0
  MaxPackets = 2
  MaxCrashes = 1
INVARIANTS EgressVerifies EgressAccurate InvalidNeverEgresses
PROPERTIES PacketsSettle
CHECK_DEADLOCK FALSE
