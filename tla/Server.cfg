SPECIFICATION Spec
CONSTANTS
  Devices = {"d1", "d2"}
  Dates = {0, 1}
  Delay = 1
  PageSize = 2
  Instances <- InstancesMC
INVARIANTS
  FetchComplete
  
  CalibratedInTime
  RightCalibration
CHECK_DEADLOCK FALSE
