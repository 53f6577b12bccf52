CONSTANTS
  Serials = {"s1", "s2"}
  NoSerial = "none"
  Numbers = {1, 2}
  MaxDevices = 2
  Nobody = Nobody
SPECIFICATION MCSpec
CHECK_DEADLOCK FALSE
INVARIANT OnlyRequestedDeviceIsUsed
