SPECIFICATION Spec
CONSTANTS
  Capacity = 2
  WordSize = 4
  N = 6
  Bytewise = TRUE
  PartialCommits = TRUE
INVARIANT FreeIsWritable
