CONSTANTS
  NoAction = NoAction
  x = x
  y = y
  c = c
  k1 = k1
  k2 = k2
  Action <- MCOneAction
  Child <- MCNone
  Command <- MCCommands
  MaxCalls = 1
SPECIFICATION Spec
INVARIANTS
  RestartRecoverable
