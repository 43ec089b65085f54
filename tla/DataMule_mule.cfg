SPECIFICATION FairSpec
CONSTANTS
  o1 = o1
  o2 = o2
  MaxBuffer = 2
  Operators <- Requests2
  MaxPackets = 3
  MaxFaults = 2
  MaxRestarts = 1
INVARIANTS NoSilentLoss Chronological SpoolCoversRing
PROPERTIES BlackoutHolds RestoreDrains ImplementsStoreAndForward
