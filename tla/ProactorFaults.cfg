SPECIFICATION Spec
CONSTANTS
  Client = {c1, c2}
  Entries = 2
  MaxFd = 2
  HandleMod = 8
  MaxLen = 1
  MaxCalls = 3
  AllocFailures = 1
  SubmitFailures = 1
  WithStop = TRUE
  EarlyStop = FALSE
SYMMETRY ClientSymmetry
INVARIANTS NoneStranded DescriptorsOwned IInv
CHECK_DEADLOCK FALSE
