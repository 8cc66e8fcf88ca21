SPECIFICATION Spec
CONSTANTS
  String = {s1}
  Buffer = {b1}
  Block = {k1, k2}
  MaxLive = 1
  Byte = {0, 1}
  Literal <- MCLiteral
  Room = 2
  MaxCapacity = 3
  WordSize = 8
INVARIANT SubviewInside
