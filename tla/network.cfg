SPECIFICATION Spec
CONSTANTS
  PacketSize = 2
  QueueCapacity = 2
  NumNodes = 5
  Infinity = 20
  Topologies <- PacketTopologies
  Flows <- PacketFlows
  NewLinks <- PacketNewLinks
  Metrics = {"Delay", "Bandwidth"}
  MaxPackets = 3
  MaxChanges = 1
  MaxTime = 3
CHECK_DEADLOCK FALSE
INVARIANTS TypeOK TransitExact SlotsExact OneAtATime PacketsAccounted HopsBounded
