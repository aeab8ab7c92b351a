CONSTANTS
  a1 = a1
  a2 = a2
  p1 = p1
  h1 = h1
  Msg <- MCPair
  Actionable <- MCPair
  Hist <- MCNone
  Limit = 1
  Priority = 1
  BudgetBinds = FALSE
  ManualReads = TRUE
  MaxRuns = 1
SPECIFICATION FairSpec
PROPERTIES
  MailReachesContext
