SPECIFICATION Spec
CONSTANTS
  RestartGap = 1
  RestartQuiet = 1
  MaxOvertake = 3
  MaxSequence = 9
  MaxRestarts = 1
  MaxInjects = 2
INVARIANTS FreezeIsBounded
CHECK_DEADLOCK FALSE
