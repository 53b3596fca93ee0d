SPECIFICATION FairSpec
CONSTANTS
  RxSize = 8
  UrcSize = 4
  MaxSent = 3
  MaxAsked = 1
INVARIANTS
  SemaphoresCount
  CalledInOrder
PROPERTY AllCalled
\* nothing more is sent or asked
CHECK_DEADLOCK FALSE
