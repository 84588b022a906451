SPECIFICATION CongestionSpec
CONSTANTS
  SeqSize = 8
  SendWindow = 3
  ReceiveWindow = 7
  MaxSynRetries = 0
  MaxRetransmissions = 1
  DupAckThreshold = 2
  PacketsPerRoute = 4
  ClientISNs = {0, 6}
  Reordering = TRUE
  MaxRefusals = 0
  MaxLosses = 0
  Mss = 3
  InitialSsthresh = 3
  MaxWindow = 20
  BetaPercent = 70
  CubicIncreases = {1}
  MaxBackoff = 4
CHECK_DEADLOCK FALSE
INVARIANTS CongestionTypeOK AckSoundness DeliveredExactly SendBufferExact WindowRespected FlightFitsWindow HistoryCurrent RecoveryPinned
PROPERTIES KarnRule
