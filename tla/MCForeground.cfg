CONSTANTS
  i1 = i1
  i2 = i2
  i3 = i3
  NoItem = NoItem
  Item <- MCItems
  FrontEnd = {"terminal", "server"}
  MaxPauses = 1
SPECIFICATION Spec
INVARIANTS
  QueueAgrees
  ClosedRunsNothing
PROPERTIES
  CancelledStays
SYMMETRY MCSymmetry
