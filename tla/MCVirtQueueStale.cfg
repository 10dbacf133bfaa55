SPECIFICATION Spec
CONSTANTS
  SIZE = 2
  IdxMod = 4
  a = a
  b = b
  Buf = {a, b}
  NoBuf = NoBuf
  Requests <- OneOrTwo
  Lens = {1, 2}
  DrainFirst = FALSE
PROPERTIES
  PopsWhatDeviceUsed
