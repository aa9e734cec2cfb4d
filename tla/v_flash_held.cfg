SPECIFICATION Spec
CONSTANTS
  None = None
  d1 = d1  d2 = d2
  DataWord = {d1}
  Programmers <- MCProgrammers
  Jobs <- MCInfo
  MaxCalls = 1
  MaxUnread = 1
  Faults = {"late"}
  FlashBlocks = 1
INVARIANT FlashReleased
CHECK_DEADLOCK FALSE
