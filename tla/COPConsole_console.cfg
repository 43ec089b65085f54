SPECIFICATION FairSpec
CONSTANTS
  Vehicles = {v1, v2}
  None = None
  Markup = {v1, v2}
  Preselected = v2
  Highlighted = v1
  Posts = {p1, p2}
  MaxTicks = 1
INVARIANTS OffersBlueOnly
PROPERTIES PanelCatchesUp NoSilentRetarget
CHECK_DEADLOCK FALSE
