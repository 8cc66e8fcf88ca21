SPECIFICATION Spec
CONSTANTS
  Client = {c1, c2}
  Entries = 1
  MaxFd = 2
  HandleMod = 8
  MaxLen = 1
  MaxCalls = 4
  AllocFailures = 0
  SubmitFailures = 0
  WithStop = TRUE
  EarlyStop = TRUE
SYMMETRY ClientSymmetry
INVARIANTS TypeOK OneWakeup RightConnection CallIInv
PROPERTIES ClosesOwn ImplementsCalls
CHECK_DEADLOCK FALSE
