SPECIFICATION FairSpec
CONSTANTS
  Devices = {"d1", "d2"}
  Dates = {0, 1}
  Delay = 1
  PageSize = 2
  Instances <- ListeningMC
PROPERTY Reconnects
CHECK_DEADLOCK FALSE
