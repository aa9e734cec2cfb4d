SPECIFICATION Spec
CONSTANTS
  t1 = t1  t2 = t2
  None = None
  Threads = {t1, t2}
  MaxCalls = 3
  MaxDepth = 2
SYMMETRY Symmetry
INVARIANTS LastErrorIsCurrent RefusedWithoutEffect
CHECK_DEADLOCK FALSE
