SPECIFICATION FairSpec
CONSTANTS
  Thread = {"main", "loop"}
  Detached = {"sender", "receiver"}
  MaxDepth = 3
  Pieces = 2
  Length = {0, 2}
  PipeSize = 2
  MaxFaults = 1
INVARIANTS TypeOK OneActivation AwaitsPaired SentOrGivenUp ReceivedInOrder StackBounded IInv
PROPERTIES Finishes
CHECK_DEADLOCK FALSE
