SPECIFICATION FairSpec
CONSTANTS
  SeqSize = 8
  SendWindow = 7
  ReceiveWindow = 7
  MaxSynRetries = 1
  MaxRetransmissions = 2
  DupAckThreshold = 2
  PacketsPerRoute = 3
  ClientISNs = {0}
  Reordering = FALSE
  MaxRefusals = 1
  MaxLosses = 2
CHECK_DEADLOCK FALSE
INVARIANTS TypeOK SendBufferExact TimerCoverage
PROPERTIES NoDataAfterClose ServerStaysClosed LeavesEstablished HandshakeCompletes ClientFinishes TimeWaitFreesServer ImplementsStream
