SPECIFICATION Spec
CONSTANTS
  MaxLabel = 4
  MaxName = 5
  Puny <- MCPuny
  Letter = {"a", "x"}
  Digit = {"1"}
  Literal <- MCLiteral
  Object = {o1, o2}
  Name <- MCName
  Ip <- MCIp
  Port = {0, 1}
  None = None
  Char = {"a", "x", "1", "-", "."}
  MaxText = 7
  Known <- MCKnown
  MaxAnswer = 4
INVARIANTS TypeOK OriginNamesIp KindFollowsRule PicksPreferred IInv
PROPERTIES FailureChangesNothing PortKept
CHECK_DEADLOCK FALSE
