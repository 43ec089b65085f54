SPECIFICATION FairSpec
CONSTANTS
  Messages <- MCMessages
  Strays <- MCStrays
  Autopilot = Autopilot
  Other = Other
  Nobody = Nobody
  Noise <- MCNoise
  MaxFrames = 2
  MaxFaults = 1
  MaxInflight = 2
  MaxPublish = 1
  MaxCommands = 1
INVARIANTS IntactFramesArrive StatusIsExplained FramesAreSent
PROPERTIES AutopilotRegained
CHECK_DEADLOCK FALSE
