SPECIFICATION Spec
CONSTANTS
  RestartGap = 1
  RestartQuiet = 1
  MaxOvertake = 3
  MaxSequence = 9
  MaxRestarts = 0
  MaxInjects = 0
PROPERTIES NeverBackwards
CHECK_DEADLOCK FALSE
