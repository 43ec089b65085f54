SPECIFICATION Spec
CONSTANTS
  Messages <- MCMessages
  Strays <- MCStrays
  Autopilot = Autopilot
  Other = Other
  Nobody = Nobody
  Noise <- MCNoise
  MaxFrames = 2
  MaxFaults = 1
  MaxInflight = 2
  MaxPublish = 1
  MaxCommands = 1
INVARIANT CommandsGoToAutopilot
CHECK_DEADLOCK FALSE
