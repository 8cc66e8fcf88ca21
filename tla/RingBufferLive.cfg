SPECIFICATION FairSpec
CONSTANTS
  Capacity = 4
  WordSize = 8
  N = 10
  Bytewise = FALSE
  PartialCommits = FALSE
INVARIANT FreeIsWritable
PROPERTY AllDelivered
