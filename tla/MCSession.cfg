SPECIFICATION Spec
CONSTANTS
  Focus = {"context", "budget", "routing", "plans", "permissions", "tools", "rewind"}
  InputBudget = 8
  Triggers = {5, 7}
  SummaryMax = 2
  RecentTurns = 2
  MaxFailures = 2
  MaxTurns = 5
  MaxRounds = 1
  MaxRev = 2
  Kid = {k1, k2}
  Calls = {"work", "poll"}
  Polls = {"poll"}
  CallLimit = 2
  RoundLimit = 1
  FailedRetries = 2
  ConsecutiveRepeats = 2
  CycleRepetitions = 2
  MaxCycle = 2
  MaxRuns = 2
  MaxExtensions = 1
  Route <- MCRoute
  Policies = {"a", "b"}
  Retries = 1
  RequestSize = 1
  MaxOutput = 2
  Useful = 1
  Limit = 4
  Ceiling = 6
  MaxExcess = 1
  PlanId = {p1, p2}
  Text = {"a", "b"}
  None = None
  First = "a"
  MaxRequests = 2
  MaxPlanRuns = 1
  Client = {"c"}
  Call = {"x", "y", "z"}
  Risky = {"y", "z"}
  HardAsk = {"z"}
  HardDeny = {}
  Rules <- MCRules
  Preset <- MCPreset
  Legacy = FALSE
  MaxCalls = 3
  MaxReads = 2
  MaxRepair = 1
  MaxAnswers = 2
  Path = {r, q}
  MaxTurnRuns = 2
  MaxWrites = 3
  MaxRewinds = 1
SYMMETRY Symmetry
INVARIANTS ContextIsExact BudgetHolds RoutingHolds ImplementsApproved
           RestrictionsStand ToolRoundHolds RewindIsExact
CHECK_DEADLOCK FALSE
