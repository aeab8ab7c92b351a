SPECIFICATION Spec
CONSTANTS
  Focus = {"memory", "jobs", "database", "archive", "artifacts", "tasks"}
  Mem = {p1, p2}
  NoMem = None
  MaxRev = 3
  Cand = {q1, q2}
  Drain = {r}
  None = None
  MaxAttempts = 2
  Proc = {p1, p2}
  Child = {r}
  Nobody = None
  Leased = TRUE
  Oldest = 1
  Current = 3
  MaxWrites = 2
  Importer = {r}
  MaxCrashes = 1
  Ses = {p1, p2}
  Content = {"text"}
  Put = {q1, q2, r}
  Task = {q1, q2, r}
  Call = {p1, p2}
  Statuses = {"completed"}
SYMMETRY Symmetry
INVARIANTS MemoryIndexAgrees MemoryAdoptedOnce UpgradeSafe 
           ArtifactsKept SomeTaskFree
CHECK_DEADLOCK FALSE
