SPECIFICATION Spec
CONSTANTS
  Capacity = 4
  WordSize = 8
  N = 9
  PartialCommits = TRUE
  Bytewise = TRUE
INVARIANTS TypeOK NoDataRace InOrder SizesAreSafe IInv
PROPERTY ImplementsChannel
