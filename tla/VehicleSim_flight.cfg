SPECIFICATION FairSpec
CONSTANTS
  CruiseAlt = 0
  CruiseSpeed = 0
  Radius = 8891
  Dt = 10
PROPERTIES TravelBounded ReturnIsSafe LegsAdvance LegsEnd
