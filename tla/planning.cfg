SPECIFICATION Spec
CONSTANTS
  U32Max = 5
  None = None
  BlockBytes = 2
  MaxInputLen = 13
  Pending = Pending
  Unsupported = Unsupported
  NotRecognized = NotRecognized
INVARIANTS PlanIsSafe PlanIsExact CapacityFollowsFields BackendsAgree ImagesInterchangeable ChipsAreAddressable
CHECK_DEADLOCK FALSE
