SPECIFICATION FairSpec
CONSTANTS
  CruiseAlt = 1000
  CruiseSpeed = 145
  Radius = 8891
  Dt = 1
PROPERTIES PatrolDrains
