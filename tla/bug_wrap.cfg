SPECIFICATION Spec
CONSTANTS
  SeqSize = 8
  SendWindow = 7
  ReceiveWindow = 7
  MaxSynRetries = 0
  MaxRetransmissions = 1
  DupAckThreshold = 3
  PacketsPerRoute = 3
  ClientISNs = {5, 6, 7}
  Reordering = FALSE
  MaxRefusals = 0
  MaxLosses = 0
CHECK_DEADLOCK FALSE
PROPERTY ConsumedRejected
