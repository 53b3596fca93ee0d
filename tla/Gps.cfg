SPECIFICATION FairSpec
CONSTANTS
  BufferSize = 20
  RetryLimit = 2
  Acquire = 2
  MaxFix = 2
  MaxLost = 2
INVARIANTS
  RightFix
  SampleOrdered
PROPERTIES
  NeverBackwards
  FixReachesSample
