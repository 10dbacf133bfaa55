SPECIFICATION FairSpec
CONSTANT
  Token = {t1, t2, t3}
CONSTRAINT
  WithinContract
INVARIANTS
  NoLostKick
  BuffersOutliveRequest
  FreeIsFree
PROPERTIES
  BlockingCallReturns
  RequestsAreServed
