SPECIFICATION ReportSpec
CONSTANTS
  Clients = {c1}
  Listing = TRUE
  SendQueueLen = 2
  BroadcastLen = 1
  Modulus = 4
INVARIANTS
  RegisteredOpen
  FrameNeverBlocks
  InOrder
PROPERTIES
  BrokerResponsive
  RemovedDisconnects
  DeadClientEvicted
