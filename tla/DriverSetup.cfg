SPECIFICATION FairSpec
CONSTANTS
  Drivers = {"blk", "console", "gpu", "input", "net_raw", "net"}
  Faulty = {"blk", "console", "gpu", "input"}
  BASE = 8192
  Sizes = {2, 16, 32, 256, 1024, 32768}
  BufLens = {1, 4096, 4097}
  MaxRegions = 4
INVARIANTS
  RegionsDisjoint
  AreasFit
  LegacyDeviceAgrees
  NoAccessAfterFree
  RunsOnlyWhenSetUp
  LiveQueueIsComplete
  CleanHandover
PROPERTIES
  CallsReturn
CHECK_DEADLOCK FALSE
