SPECIFICATION Spec
CONSTANTS
  SeqSize = 8
  SendWindow = 7
  ReceiveWindow = 7
  MaxSynRetries = 1
  MaxRetransmissions = 1
  DupAckThreshold = 3
  PacketsPerRoute = 1
  ClientISNs = {0}
  Reordering = FALSE
  MaxRefusals = 0
  MaxLosses = 2
CHECK_DEADLOCK FALSE
INVARIANT HandshakeFailureDeclared
