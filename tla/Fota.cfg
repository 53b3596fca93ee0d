SPECIFICATION FairSpec
CONSTANTS
  N = 4
  BufBlocks = 2
  MaxFaults = 4
INVARIANTS
  SocketsClosed
  UpgradeComplete
  FallbackKept
PROPERTY Upgraded
