SPECIFICATION FairSpec
CONSTANTS
  MAX_DEVICES = 2
  MAX_FUNCTIONS = 2
  WORD = 8192
  Queue = {0, 1}
  Buses <- SmallBuses
  Absent = Absent
INVARIANTS
  EnumerationComplete
  BarsKept
  FirstOfEachKind
  RegionsInBars
PROPERTIES
  ReachesOwnDevice
  NewReturns
CHECK_DEADLOCK FALSE
