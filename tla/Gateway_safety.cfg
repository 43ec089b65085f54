SPECIFICATION Spec
CONSTANTS
  Vehicles = {v1, v2}
  Handlers = {sse}
  Clients = {c1, c2}
  BroadcastCap = 1
  SelectsAll = TRUE
  MaxPackets = 2
  MaxTicks = 1
SYMMETRY Symmetry
INVARIANTS NoFeedback StreamIntact MapIsOpen
PROPERTY ImplementsBroadcastLog
CHECK_DEADLOCK FALSE
