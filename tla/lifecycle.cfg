SPECIFICATION FairSpec
CONSTANTS
  PacketSize = 1
  QueueCapacity = 1
  Topologies <- MCTopologies
  EventsPerFrame = 2
  MaxEvents = 3
  MaxTime = 6
  MaxResets = 1
  MaxLoads = 1
INVARIANTS TypeOK EventsMatchState SlotsHeld InFlightShown
PROPERTY RunEnds
