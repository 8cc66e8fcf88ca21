SPECIFICATION FairSpec
CONSTANTS
  Client = {c1, c2}
  Entries = 1
  MaxFd = 1
  HandleMod = 8
  MaxLen = 1
  MaxCalls = 3
  AllocFailures = 0
  SubmitFailures = 0
  WithStop = TRUE
  EarlyStop = FALSE
PROPERTIES CallsReturn StopEndsRun
CHECK_DEADLOCK FALSE
