SPECIFICATION FairSpec
CONSTANTS
  SIZE = 3
  HDR = 2
  Lens = {2, 4}
  MaxPackets = 5
INVARIANTS
  NothingLostOrTorn
  SameTokenAgain
PROPERTIES
  EveryPacketTaken
