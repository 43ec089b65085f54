SPECIFICATION FairSpec
CONSTANTS
  Vehicles = {v1}
  Handlers = {sse}
  Clients = {c1, c2}
  BroadcastCap = 1
  SelectsAll = FALSE
  MaxPackets = 1
  MaxTicks = 1
PROPERTIES DeadLeave PacketsBroadcast
CHECK_DEADLOCK FALSE
