CONSTANTS
  a1 = a1
  a2 = a2
  p1 = p1
  h1 = h1
  Msg <- MCMixed
  Actionable <- MCMixedActionable
  Hist <- MCNone
  Limit = 2
  Priority = 1
  BudgetBinds = TRUE
  ManualReads = FALSE
  MaxRuns = 2
SPECIFICATION Spec
INVARIANTS
  TypeOK
  AckedIsSaved
  CheckpointBeforeModel
  InjectedOnce
  InjectedInOrder
PROPERTIES
  FinishDrains
  ImplementsContract
SYMMETRY MCSymmetry
