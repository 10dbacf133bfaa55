SPECIFICATION FairSpec
CONSTANTS
  SIZE = 2
  IdxMod = 4
  a = a
  b = b
  Buf = {a, b}
  NoBuf = NoBuf
  Requests <- OneOrTwo
  Lens = {1, 2}
  DrainFirst = TRUE
INVARIANTS
  DescriptorsPartitioned
  DeviceSeesRequest
  RingsNotOverrun
  SeenCanBePopped
PROPERTIES
  CallsReturn
  ImplementsRequestQueue
