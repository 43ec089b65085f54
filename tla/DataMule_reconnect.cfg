SPECIFICATION FairSpec
CONSTANTS
  o1 = o1
  o2 = o2
  MaxBuffer = 2
  Operators <- Requests1
  MaxPackets = 2
  MaxFaults = 1
  MaxRestarts = 0
PROPERTIES ReconnectDrains
