SPECIFICATION FairSpec
CONSTANTS
  SIZE = 2
  MaxPackets = 2
PROPERTIES
  EveryPacketEchoed
CHECK_DEADLOCK FALSE
