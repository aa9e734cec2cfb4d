SPECIFICATION FairSpec
CONSTANTS
  d1 = d1  d2 = d2
  None = None
  NumClients = 2
  DeviceBlocks = 1
  DataWord = {d1, d2}
  MaxRequests = 2
  Requests <- AllRequests
  Careful = TRUE
  Execs = TRUE
  Faults = {"usb", "late", "cut", "status"}
INVARIANTS TypeOK WriteAnswerHonest ReadAnswerHonest
PROPERTY EveryClientServed
CHECK_DEADLOCK FALSE
