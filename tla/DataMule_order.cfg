SPECIFICATION Spec
CONSTANTS
  o1 = o1
  o2 = o2
  MaxBuffer = 2
  Operators <- Requests1
  MaxPackets = 2
  MaxFaults = 0
  MaxRestarts = 0
INVARIANTS BacklogGoesFirst
