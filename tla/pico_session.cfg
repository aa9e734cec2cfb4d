SPECIFICATION Spec
CONSTANTS
  U32Max = 7
  None = None
  d1 = d1  d2 = d2  zero = zero  err = err  version = version
  config = config  bigConfig = bigConfig
  DeviceBlocks = 2
  Word <- MCWord
  DataWord = {d1, d2}
  Zero = zero
  ErrWord = err
  VersionWord = version
  ConfigWords <- MCConfigWords
  NandSize <- MCNandSize
  SecCount <- MCSecCount
  BlockBytes = 2
  Calls <- MixedCalls
  MaxCalls = 2
  Faults = {"send", "timeout", "status", "file", "die"}
  SilentMedia = {"emmc"}
  LateReplies = FALSE
INVARIANTS TypeOK PartialImageHeld OkWriteMatches OkReadMatches
PROPERTY ImplementsTransfer
CHECK_DEADLOCK FALSE
