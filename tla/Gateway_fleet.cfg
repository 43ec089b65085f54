SPECIFICATION Spec
CONSTANTS
  Vehicles = {v1}
  Handlers = {h1, h2}
  Clients = {}
  BroadcastCap = 2
  SelectsAll = FALSE
  MaxPackets = 2
  MaxTicks = 0
INVARIANT FleetIsLatest
CHECK_DEADLOCK FALSE
