SPECIFICATION Spec
CONSTANTS
  PacketSize = 2
  QueueCapacity = 1
  NumNodes = 5
  Infinity = 20
  Topologies <- RoutingTopologies
  Flows <- NoFlows
  NewLinks <- RoutingNewLinks
  Metrics = {"Delay", "Bandwidth", "HopCount", "DelayBandwidth"}
  MaxPackets = 0
  MaxChanges = 3
  MaxTime = 0
CHECK_DEADLOCK FALSE
INVARIANTS RoutesBest NoRoutingLoops
