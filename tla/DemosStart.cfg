CONSTANTS
  DeviceNames = {"", "a", "b"}
  MaxDevices = 2
SPECIFICATION BootSpec
INVARIANTS
  DemosStart
CHECK_DEADLOCK FALSE
