SPECIFICATION FairSpec
CONSTANTS
  MaxLen = 3
  NotifyFails = TRUE
INVARIANTS
  UnreadIsFresh
PROPERTIES
  RecvReturns
