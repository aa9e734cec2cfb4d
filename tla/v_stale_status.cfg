SPECIFICATION Spec
CONSTANTS
  d1 = d1  d2 = d2
  None = None
  NumClients = 1
  DeviceBlocks = 1
  DataWord = {d1, d2}
  MaxRequests = 2
  Requests <- ReadsAndWrites
  Careful = FALSE
  Execs = FALSE
  Faults = {"late", "status"}
INVARIANT StatusMeansWritten
CHECK_DEADLOCK FALSE
