SPECIFICATION Spec
CONSTANTS
  OpcPolls = 1
  Channels = 2
  Window = 11
  RebootAfter = 3
  FotaCounter = 1
  PingRetries = 1
  CallMax = 1
  PollTime = 1
  FanTime = 1
  LaserTime = 0
  SampleTime = 0
  AdcTime = 0
  Interval = 1
  Slots = 3
INVARIANTS
  IterationFed
  UpdateChecked
  SocketsBack
  OwnReadings
  SwitchedOff
PROPERTIES
  Reports
