SPECIFICATION Spec
CONSTANTS
  MaxLen = 2
  NotifyFails = TRUE
INVARIANTS
  BufferNotShared
