SPECIFICATION Spec
CONSTANTS
  SeqSize = 8
  SendWindow = 2
  ReceiveWindow = 7
  MaxSynRetries = 0
  MaxRetransmissions = 1
  DupAckThreshold = 3
  PacketsPerRoute = 3
  ClientISNs = {0}
  Reordering = FALSE
  MaxRefusals = 0
  MaxLosses = 0
CHECK_DEADLOCK FALSE
INVARIANT NotLeftActive
