SPECIFICATION Spec
CONSTANTS
  Client = {c1}
  Entries = 1
  MaxFd = 1
  HandleMod = 8
  MaxLen = 1
  MaxCalls = 2
  AllocFailures = 0
  SubmitFailures = 1
  WithStop = FALSE
  EarlyStop = FALSE
INVARIANTS HonestResult
CHECK_DEADLOCK FALSE
