CONSTANTS
  NoAction = NoAction
  x = x
  y = y
  c = c
  k1 = k1
  k2 = k2
  Action <- MCWithChild
  Child <- MCChild
  Command <- MCCommands
  MaxCalls = 2
SPECIFICATION Spec
SYMMETRY MCSymmetry
INVARIANTS
  RecordsAgree
  EffectsMatchRecords
  ContinuationComplete
PROPERTIES
  EndedIsFinal
