SPECIFICATION Spec
CONSTANTS
  String = {s1, s2}
  Buffer = {b1}
  Block = {k1, k2}
  MaxLive = 2
  Byte = {0, 1}
  Literal <- MCLiteral
  Room = 2
  MaxCapacity = 3
  WordSize = 8
SYMMETRY StringsSymmetry
INVARIANTS TypeOK Owned Terminated FindsFirst IInv
PROPERTY ImplementsText
