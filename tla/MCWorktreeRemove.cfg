SPECIFICATION Spec
CONSTANTS
  Wt = {w1, w2}
  Job = {j1}
  Control = Control
  MaxPerSession = 2
  MaxWork = 2
INVARIANT NothingWasted
CHECK_DEADLOCK FALSE
