CONSTANTS
  i1 = i1
  i2 = i2
  i3 = i3
  NoItem = NoItem
  Item <- MCPair
  FrontEnd = {"server"}
  MaxPauses = 1
SPECIFICATION FairSpec
PROPERTIES
  AnsweredIsResumed
  SubmittedIsServed
