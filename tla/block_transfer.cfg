SPECIFICATION Spec
CONSTANTS
  U32Max = 7
  None = None
  d1 = d1  d2 = d2
  Missing = Missing
  DeviceBlocks = 3
  BlockLimit = 2
  DataWord = {d1, d2}
  BlockBytes = 2
  Files <- MCFiles
  Calls <- MCCalls
  MaxCalls = 2
  SilentBlocks = {1}
  Faults = {"device", "file", "die"}
INVARIANTS TypeOK OutcomeHonest OkReadMatches
PROPERTY ImplementsTransfer
CHECK_DEADLOCK FALSE
