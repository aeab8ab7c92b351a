SPECIFICATION Spec
CONSTANTS
  Focus = {"publish", "plugins", "mcp", "lsp", "registry", "worktree", "shell",
           "application"}
  Path = {p1, p2}
  Child = {r}
  Act = {r}
  Txt = {q1, q2}
  Absent = None
  Allowed = {p1, p2}
  MaxEdits = 1
  Call = {q1, q2, r}
  MaxProc = 2
  Grant = {}
  Asked = {"web"}
  McpCall = {p1, p2}
  Tool = {"read", "write", "resource"}
  Hints = {{"read"}, {}}
  Configs = {{"read", "write"}, {"write"}}
  MaxConn = 2
  MaxChanges = 1
  Req = {q1, q2, r}
  Change = {p1, p2}
  MaxStarts = 2
  MaxTextEdits = 2
  Ws = {p1, p2}
  Ver = {q1, q2}
  Digest = {"d1", "d2"}
  Resident = {"d1"}
  None = None
  MaxOps = 4
  Wt = {p1, p2}
  Job = {q1, q2}
  Control = None
  MaxPerSession = 2
  MaxWork = 2
  Cmd = {p1, p2}
  Main = {p1, p2}
SYMMETRY Symmetry
INVARIANTS PublishHolds OwnReply NoReplay RunsWhatWasEnabled StandsOnGround
           NothingLeftOpen
CHECK_DEADLOCK FALSE
