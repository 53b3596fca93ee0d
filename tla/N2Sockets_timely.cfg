SPECIFICATION Spec
CONSTANTS
  MaxSockets = 2
  ModemIds = {0, 1}
  NextFreePort = 6000
  MaxPort = 6003
  Payloads = {a, b}
  MaxUnread = 2
  MaxLate = 0
  MaxLost = 0
  CloseMayFail = FALSE
  MayDrop = FALSE
INVARIANTS
  ModemAgreement
  NoPhantomData
PROPERTY ImplementsUdpSockets
