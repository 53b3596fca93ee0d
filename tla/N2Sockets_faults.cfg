SPECIFICATION FairSpec
CONSTANTS
  MaxSockets = 2
  ModemIds = {0}
  NextFreePort = 6000
  MaxPort = 6002
  Payloads = {a}
  MaxUnread = 1
  MaxLate = 1
  MaxLost = 1
  CloseMayFail = TRUE
  MayDrop = TRUE
INVARIANTS
  HeldPortsDistinct
PROPERTIES
  CallReturns
  EventuallyReadable
\* recv() waits for the network
CHECK_DEADLOCK FALSE
