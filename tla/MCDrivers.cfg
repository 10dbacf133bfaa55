SPECIFICATION DriversSpec
CONSTANTS
  Sector = {s1, s2}
  Value = {0, 1}
  Offers = {{}, {"FLUSH"}, {"RO", "FLUSH"}}
  Builds = {TRUE, FALSE}
  QUEUE_SIZE = 6
  MaxLosses = 1
  Displays = {1, 2}
  MaxRegions = 3
INVARIANTS
  FlushIsDurable
  DeviceReadsOwnMemory
  DrawsOnScreen
PROPERTIES
  ReadsLastWrite
CHECK_DEADLOCK FALSE
