SPECIFICATION FairSpec
CONSTANTS
  SIZE = 2
  MaxPackets = 4
INVARIANTS
  NeverStuck
  MaskedWhileLocked
  LoopOwnsBuffer
PROPERTIES
  InterruptsComeBack
  TimerEndsWfi
CHECK_DEADLOCK FALSE
