SPECIFICATION Spec
CONSTANTS
  Task = {t1, t2}
  Worker = {w1}
  NoWorker = NoWorker
  Tool = Tool
  MaxChildren = 1
  MaxConcurrency = 1
  MaxPauses = 1
  MaxCalls = 2
SYMMETRY Symmetry
INVARIANTS AttemptsAgree WorkersAgree
PROPERTIES OneProcess
