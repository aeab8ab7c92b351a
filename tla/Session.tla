------------------------------ MODULE Session -------------------------------
(***************************************************************************)
(* The parts that decide what a run may do and what it is told: the        *)
(* context that is built for the model, budgets and routing, plan mode,    *)
(* permission rules, the rounds of tool calls, and the rewind of the       *)
(* session.  As in Stores, the components share no state; focus names the  *)
(* one a behaviour is of.                                                  *)
(***************************************************************************)
EXTENDS Naturals, FiniteSets

CONSTANTS
  Focus,                                   \* the components to look at
  InputBudget, Triggers, SummaryMax, RecentTurns, MaxFailures,   \* Context
  MaxTurns, MaxRounds, MaxRev,
  Kid, Calls, Polls, CallLimit, RoundLimit, FailedRetries,       \* Budget
  ConsecutiveRepeats, CycleRepetitions, MaxCycle, MaxRuns,
  MaxExtensions,
  Route, Policies, Retries, RequestSize, MaxOutput, Useful, Limit, \* Routing
  Ceiling, MaxExcess,
  PlanId, Text, None, First, MaxRequests, MaxPlanRuns,           \* Plans
  Client, Call, Risky, HardAsk, HardDeny, Rules, Preset, Legacy, \* Permissions
  MaxCalls, MaxReads, MaxRepair, MaxAnswers,                     \* ToolRound
  Path, MaxTurnRuns, MaxWrites, MaxRewinds               \* Rewind

\* None is no plan; a rule allows, asks or denies, and one of the preset allows;
\* tokens and attempts are counted in natural numbers.
ASSUME SessionAssumption ==
  /\ None \notin PlanId
  /\ \A r \in Rules : r.behavior \in {"allow", "ask", "deny"}
  /\ \A r \in Preset : r.behavior = "allow"
  /\ InputBudget \in Nat /\ Triggers \subseteq 0..InputBudget /\ SummaryMax \in Nat
  /\ RequestSize \in Nat /\ MaxOutput \in Nat /\ Useful \in Nat /\ MaxExcess \in Nat
  /\ Limit \in Nat /\ Retries \in Nat /\ MaxRepair \in Nat
  /\ "command" \notin Path
  /\ IsFiniteSet(Kid) /\ CallLimit \in Nat /\ ConsecutiveRepeats \in Nat \ {0}

VARIABLES
  focus,  \* the component that runs
  turns, stale, rev, profile, auto, active, failures, run,
  gov, saved, itemRun, open, kids, made, loose, late,
  conf, hard, call, used, base, chain, allowed, heard, excess,
  plans, recent, requests, impl, runs, model, user, approved, exited,
  files, session, trusted, mode, edit, kept,
  calls, at, msgs, loop, attempt, directive, round,
  onDisk, log, turnRuns, history, summary, child, rw, rewinds, astray

Context == INSTANCE Context WITH
  Budget <- InputBudget
Budget == INSTANCE Budget WITH
  run <- itemRun
Routing == INSTANCE Routing WITH
  runs <- chain, Estimate <- RequestSize
Plans == INSTANCE Plans WITH
  Plan <- PlanId, MaxRuns <- MaxPlanRuns
Permissions == INSTANCE Permissions
Round == INSTANCE ToolRound WITH
  MaxRounds <- MaxAnswers
Rewind == INSTANCE Rewind WITH
  files <- onDisk, runs <- turnRuns, msgs <- history, MaxRuns <- MaxTurnRuns

ContextVars == <<turns, stale, rev, profile, auto, active, failures, run>>
BudgetVars == <<gov, saved, itemRun, open, kids, made, loose, late>>
RoutingVars == <<conf, hard, call, used, base, chain, allowed, heard, excess>>
PlansVars == <<plans, recent, requests, impl, runs, model, user, approved,
               exited>>
PermissionsVars == <<files, session, trusted, mode, edit, kept>>
RoundVars == <<calls, at, msgs, loop, attempt, directive, round>>
RewindVars == <<onDisk, log, turnRuns, history, summary, child, rw, rewinds,
                astray>>

\* The variables of a component that does not run stay 0.
ContextOff ==
  /\ turns = 0 /\ stale = 0 /\ rev = 0 /\ profile = 0 /\ auto = 0 /\ active = 0
  /\ failures = 0 /\ run = 0
BudgetOff ==
  /\ gov = 0 /\ saved = 0 /\ itemRun = 0 /\ open = 0 /\ kids = 0 /\ made = 0
  /\ loose = 0 /\ late = 0
RoutingOff ==
  /\ conf = 0 /\ hard = 0 /\ call = 0 /\ used = 0 /\ base = 0 /\ chain = 0
  /\ allowed = 0 /\ heard = 0 /\ excess = 0
PlansOff ==
  /\ plans = 0 /\ recent = 0 /\ requests = 0 /\ impl = 0 /\ runs = 0
  /\ model = 0 /\ user = 0 /\ approved = 0 /\ exited = 0
PermissionsOff ==
  /\ files = 0 /\ session = 0 /\ trusted = 0 /\ mode = 0 /\ edit = 0
  /\ kept = 0
RoundOff ==
  /\ calls = 0 /\ at = 0 /\ msgs = 0 /\ loop = 0 /\ attempt = 0
  /\ directive = 0 /\ round = 0
RewindOff ==
  /\ onDisk = 0 /\ log = 0 /\ turnRuns = 0 /\ history = 0 /\ summary = 0
  /\ child = 0 /\ rw = 0 /\ rewinds = 0 /\ astray = 0

Init ==
  /\ focus \in Focus
  /\ IF focus = "context" THEN Context!Init ELSE ContextOff
  /\ IF focus = "budget" THEN Budget!Init ELSE BudgetOff
  /\ IF focus = "routing" THEN Routing!Init ELSE RoutingOff
  /\ IF focus = "plans" THEN Plans!Init ELSE PlansOff
  /\ IF focus = "permissions" THEN Permissions!Init ELSE PermissionsOff
  /\ IF focus = "tools" THEN Round!Init ELSE RoundOff
  /\ IF focus = "rewind" THEN Rewind!Init ELSE RewindOff

Next ==
  \/ /\ focus = "context" /\ Context!Next
     /\ UNCHANGED <<focus, BudgetVars, RoutingVars, PlansVars,
                    PermissionsVars, RoundVars, RewindVars>>
  \/ /\ focus = "budget" /\ Budget!Next
     /\ UNCHANGED <<focus, ContextVars, RoutingVars, PlansVars,
                    PermissionsVars, RoundVars, RewindVars>>
  \/ /\ focus = "routing" /\ Routing!Next
     /\ UNCHANGED <<focus, ContextVars, BudgetVars, PlansVars,
                    PermissionsVars, RoundVars, RewindVars>>
  \/ /\ focus = "plans" /\ Plans!Next
     /\ UNCHANGED <<focus, ContextVars, BudgetVars, RoutingVars,
                    PermissionsVars, RoundVars, RewindVars>>
  \/ /\ focus = "permissions" /\ Permissions!Next
     /\ UNCHANGED <<focus, ContextVars, BudgetVars, RoutingVars, PlansVars,
                    RoundVars, RewindVars>>
  \/ /\ focus = "tools" /\ Round!Next
     /\ UNCHANGED <<focus, ContextVars, BudgetVars, RoutingVars, PlansVars,
                    PermissionsVars, RewindVars>>
  \/ /\ focus = "rewind" /\ Rewind!Next
     /\ UNCHANGED <<focus, ContextVars, BudgetVars, RoutingVars, PlansVars,
                    PermissionsVars, RoundVars>>

vars == <<focus, ContextVars, BudgetVars, RoutingVars, PlansVars,
          PermissionsVars, RoundVars, RewindVars>>

Spec == Init /\ [][Next]_vars

-----------------------------------------------------------------------------
(***************************************************************************)
(* Properties.  Each is stated, with the code it is about, in the module   *)
(* of the component.                                                       *)
(***************************************************************************)

\* What the model is sent fits its input budget and is the conversation, every
\* turn once, in full or in the summary, without runs whose memory was purged.
ContextIsExact == focus = "context" => Context!FitsBudget /\ Context!ContextIsExact

\* A work item and the children that its ledger covers make no more tool calls
\* than its limit, over all its runs, and no loop of calls goes on undetected.
BudgetHolds == focus = "budget" => Budget!WithinLimit /\ Budget!NoEndlessLoop

\* A request is answered by one attempt of one profile, and a chain of runs
\* passes its limit by one wrong estimate at most, unless somebody authorised it.
RoutingHolds == focus = "routing" => Routing!OneAnswer /\ Routing!SpentWithinLimit

\* Only the text that was on screen when a plan was approved is implemented.
ImplementsApproved == focus = "plans" => Plans!ImplementsApproved

\* A restriction somebody added keeps its effect until somebody removes it.
RestrictionsStand == focus = "permissions" => Permissions!RestrictionsStand

\* A call reported as not started had no effect, and every call of a round has
\* one answer, in the model's order, when the model is asked again.
ToolRoundHolds == focus = "tools" => Round!EffectsAreKnown /\ Round!AnsweredInOrder

\* A rewind restores files and conversation exactly, or changes nothing.
RewindIsExact == focus = "rewind" => Rewind!RewindIsExact
=============================================================================
