CONSTANTS
  Serials = {"s1", "s2"}
  NoSerial = "none"
  Numbers = {1, 10, 16}
  MaxDevices = 2
  Nobody = Nobody
SPECIFICATION MCFairSpec
CHECK_DEADLOCK FALSE
INVARIANTS
  PickedAsAsked
  StorageIsOfPicked
  
  HandlesAreReleased
  ReportIsComplete
  LeftoversAreRemoved
PROPERTIES
  UnmountedLast
  
