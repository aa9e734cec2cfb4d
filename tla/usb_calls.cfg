SPECIFICATION Spec
CONSTANTS
  None = None
  d1 = d1  d2 = d2
  DataWord = {d1, d2}
  Programmers <- MCProgrammers
  Jobs <- MCJobs
  MaxCalls = 3
  MaxUnread = 3
  Faults = {"usb", "late", "other", "kill"}
  FlashBlocks = 2
INVARIANTS TypeOK DriverGivenBack AnswersItsQuestion ReleasedAfterInit OkLeavesNothing OkReadMatches XsvfOkMeansRun
PROPERTIES BlocksAreNotCommands ImplementsTransfer
CHECK_DEADLOCK FALSE
