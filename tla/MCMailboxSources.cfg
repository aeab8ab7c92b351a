CONSTANTS
  a1 = a1
  a2 = a2
  p1 = p1
  h1 = h1
  Msg <- MCUpgraded
  Actionable <- MCUpgraded
  Hist <- MCReceipts
  Limit = 2
  Priority = 1
  BudgetBinds = TRUE
  ManualReads = TRUE
  MaxRuns = 2
SPECIFICATION Spec
INVARIANTS
  SourcesAgree
SYMMETRY MCSymmetry
