------------------------------- MODULE Budget --------------------------------
(***************************************************************************)
(* The governor of a run: tool rounds and tool calls against their limits, *)
(* the budget reserved for and settled by child agents, loop detection on  *)
(* the history of calls, and the snapshot a continuation starts from.      *)
(* Tokens, cost and time are limited the way tool calls are and left out,  *)
(* as are the rounds of the children.                                      *)
(***************************************************************************)
EXTENDS Integers, Sequences, FiniteSets, Functions

CONSTANTS Kid,          \* child attempts
          Calls,        \* fingerprints of tool calls
          Polls,        \* those that poll a running process
          CallLimit,    \* limits.max_tool_calls
          RoundLimit,   \* limits.max_tool_rounds
          FailedRetries, ConsecutiveRepeats, CycleRepetitions, MaxCycle,
          MaxRuns, MaxExtensions  \* bounds

VARIABLES gov,    \* RunGovernor: snapshot, history and accounted child usage
          saved,  \* run_governance, as the last _save left it
          run,    \* number of the current run of the work item
          open,   \* tool attempts that have not finished, as history indexes
          kids,   \* agent_attempts with reservation and usage
          made,   \* history: every tool call of the work item
          loose,  \* history: children that the budget of the run does not cover
          late    \* history: children that completed since the last _save

vars == <<gov, saved, run, open, kids, made, loose, late>>

\* A child is "shared" while delegate holds a share for it that is not claimed
\* yet, and "planned" as a task that create_agent_task made; "failed" stands for
\* cancelled as well.
NoKid == [state |-> "none", run |-> 0, share |-> 0, used |-> 0, usage |-> 0]
Fresh == [rounds |-> 0, limit |-> RoundLimit, calls |-> 0, child |-> 0,
          history |-> <<>>, extensions |-> 0, stopped |-> FALSE]

Init ==
  /\ gov = Fresh /\ saved = Fresh /\ run = 1 /\ open = {}
  /\ kids = [k \in Kid |-> NoKid]
  /\ made = <<>> /\ loose = {} /\ late = {}
----------------------------------------------------------------------------
Live == {"created", "running", "suspended"}
Shared == {k \in Kid : kids[k].state = "shared"}

\* parent_budget: usage written by attempts of this run, and what is left of
\* the reservations of those that are not over.
Mine(r) ==
  {k \in Kid : kids[k].run = r /\ kids[k].state \notin {"none", "shared", "planned"}}
Settled(r) == SumFunctionOnSet([k \in Kid |-> kids[k].usage], Mine(r))
Remaining(k) == IF kids[k].share > kids[k].usage THEN kids[k].share - kids[k].usage ELSE 0
Reserved(r) ==
  SumFunctionOnSet([k \in Kid |-> Remaining(k)], {k \in Mine(r) : kids[k].state \in Live})

\* current: the usage of the children since the last call is added.
Current(g) == [g EXCEPT !.calls = @ + Settled(run) - g.child, !.child = Settled(run)]

\* Mutant of AvailableCalls: the reservations of children are not subtracted.
AvailableCallsAll(g) == IF CallLimit > g.calls THEN CallLimit - g.calls ELSE 0

\* available_remaining, for tool calls and for rounds.
AvailableCalls(g) ==
  LET left == CallLimit - g.calls - Reserved(run) IN IF left > 0 THEN left ELSE 0
AvailableRounds(g) == IF g.limit > g.rounds THEN g.limit - g.rounds ELSE 0

Save(g) == gov' = g /\ saved' = g /\ late' = {}

\* stop: the snapshot is saved, the run ends; tools in flight are cancelled.
Stop(g) == /\ Save([g EXCEPT !.stopped = TRUE])
           /\ open' = {} /\ UNCHANGED <<run, kids, made, loose>>
----------------------------------------------------------------------------
\* A successful poll of a running process is never the repetition of another.
Shown(history) ==
  [i \in DOMAIN history |->
     IF history[i].call \in Polls /\ history[i].ok = "ok" THEN <<"poll", i>>
     ELSE <<history[i].call>>]

Suffix(seq, n) == SubSeq(seq, Len(seq) - n + 1, Len(seq))

\* failed_retry: the call failed the last n times in a row.
FailedRun(history, call) ==
  LET Failing(n) == \A i \in (Len(history) - n + 1)..Len(history) :
                      history[i].call = call /\ history[i].ok = "failed"
  IN  CHOOSE n \in 0..Len(history) : Failing(n) /\ (n < Len(history) => ~Failing(n + 1))

\* The last width calls repeat the last period ones.
Repeats(seq, period, times) ==
  /\ Len(seq) >= period * times
  /\ \A i \in 1..(period * times) :
       Suffix(seq, period * times)[i] = Suffix(seq, period)[((i - 1) % period) + 1]

\* _loop_detail.
LoopPattern(history, call) ==
  LET prospective == Append(Shown(history), <<call>>) IN
  IF FailedRun(history, call) + 1 >= FailedRetries THEN "failed_retry"
  ELSE IF Repeats(prospective, 1, ConsecutiveRepeats) THEN "consecutive"
  ELSE IF \E p \in 2..MaxCycle : Repeats(prospective, p, CycleRepetitions) THEN "cycle"
  ELSE "none"

\* before_tool: a trusted poll of a running process replaces every pattern
\* but failed_retry by the check that the process makes progress.
LoopDetail(history, call, stalled) ==
  LET pattern == LoopPattern(history, call) IN
  IF call \in Polls /\ pattern # "failed_retry" THEN (IF stalled THEN "process_stalled" ELSE "none")
  ELSE pattern
----------------------------------------------------------------------------
\* before_model: without rounds left the run stops, or the user extends it.
BeforeModel(extend) ==
  LET g == Current(gov) IN
  /\ ~gov.stopped /\ open = {} /\ Shared = {} /\ AvailableRounds(g) = 0
  /\ IF extend
     THEN /\ g.extensions < MaxExtensions
          /\ Save([g EXCEPT !.limit = @ + RoundLimit, !.extensions = @ + 1])
          /\ UNCHANGED <<run, open, kids, made, loose>>
     ELSE Stop(g)

\* A model response with tool calls: record_round.
Round ==
  LET g == Current(gov) IN
  /\ ~gov.stopped /\ open = {} /\ Shared = {} /\ AvailableRounds(g) > 0
  /\ Save([g EXCEPT !.rounds = @ + 1])
  /\ UNCHANGED <<run, open, kids, made, loose>>

\* before_tool, under the lock of the governor; reads run concurrently.
BeforeTool(call, stalled) ==
  LET g == Current(gov) IN
  /\ ~gov.stopped /\ gov.rounds > 0 /\ Shared = {}
  /\ IF AvailableCalls(g) = 0 \/ LoopDetail(g.history, call, stalled) # "none"
     THEN Stop(g)
     ELSE /\ Save([g EXCEPT !.calls = @ + 1,
                            !.history = Append(@, [call |-> call, ok |-> "none"])])
          /\ open' = open \union {Len(g.history) + 1}
          /\ made' = Append(made, call)
          /\ UNCHANGED <<run, kids, loose>>

FinishTool(i, ok) ==
  /\ ~gov.stopped /\ i \in open
  /\ Save(Current([gov EXCEPT !.history[i].ok = ok]))
  /\ open' = open \ {i}
  /\ UNCHANGED <<run, kids, made, loose>>
----------------------------------------------------------------------------
\* _reserve_parent_budget for n children.
Share(n) == AvailableCalls(Current(gov)) \div n

\* delegate, a tool call that runs alone: the shares are fixed first, then
\* every child is claimed in a transaction of its own.
Delegate(S) ==
  /\ ~gov.stopped /\ open = {} /\ Shared = {} /\ S # {}
  /\ \A k \in S : kids[k].state = "none"
  /\ Share(Cardinality(S)) > 0
  /\ kids' = [k \in Kid |-> IF k \in S
                            THEN [NoKid EXCEPT !.state = "shared", !.run = run,
                                               !.share = Share(Cardinality(S))]
                            ELSE kids[k]]
  /\ Save(Current(gov))
  /\ UNCHANGED <<run, open, made, loose>>

ClaimShared(k) ==
  /\ kids[k].state = "shared"
  /\ kids' = [kids EXCEPT ![k].state = "created"]
  /\ UNCHANGED <<gov, saved, run, open, made, loose, late>>

\* What a delegation that goes no further leaves of the children.
Unshared == [k \in Kid |-> IF k \in Shared THEN NoKid ELSE kids[k]]

\* A claim or a workspace fails: the children claimed before keep their budget.
DelegateFails ==
  /\ Shared # {} /\ kids' = Unshared
  /\ UNCHANGED <<gov, saved, run, open, made, loose, late>>

\* create_agent_task fixes the share and reserves nothing.
PlanTask(k) ==
  /\ ~gov.stopped /\ open = {} /\ Shared = {} /\ kids[k].state = "none" /\ Share(1) > 0
  /\ kids' = [kids EXCEPT ![k] = [NoKid EXCEPT !.state = "planned", !.run = run,
                                               !.share = Share(1)]]
  /\ Save(Current(gov))
  /\ UNCHANGED <<run, open, made, loose>>

\* The share is still there for the run that would pay for it.
Fits(k) ==
  /\ kids[k].run = run
  /\ kids[k].share + SumFunctionOnSet([j \in Kid |-> kids[j].share], Shared)
       <= CallLimit - Current(gov).calls - Reserved(run)

\* The scheduler claims a task, at any time and whatever has become of the
\* budget (claim_task): only then the share is reserved.
ClaimTask(k) ==
  /\ kids[k].state = "planned"
  /\ kids' = [kids EXCEPT ![k].state = "created"]
  /\ loose' = IF Fits(k) THEN loose ELSE loose \union {k}
  /\ UNCHANGED <<gov, saved, run, open, made, late>>

\* start_attempt and resume_attempt.
StartAttempt(k) ==
  /\ kids[k].state \in {"created", "suspended"}
  /\ kids' = [kids EXCEPT ![k].state = "running"]
  /\ UNCHANGED <<gov, saved, run, open, made, loose, late>>

\* prepare_resume_attempt: the reservation comes back unchecked, for the run
\* that a restart has ended.  A task that is claimed anew is the same here.
Reopen(k) ==
  /\ kids[k].state = "interrupted"
  /\ kids' = [kids EXCEPT ![k].state = "created"]
  /\ loose' = loose \union {k}
  /\ UNCHANGED <<gov, saved, run, open, made, late>>

\* The child's own governor holds it to its share.
KidCalls(k) ==
  /\ kids[k].state = "running" /\ kids[k].used < kids[k].share
  /\ kids' = [kids EXCEPT ![k].used = @ + 1]
  /\ UNCHANGED <<gov, saved, run, open, made, loose, late>>

\* Mutant of FinishAttempt: a completed attempt stores no usage either.
FinishAttemptUncharged(k, state) ==
  /\ kids[k].state \in (IF state = "failed" THEN Live ELSE {"running"})
  /\ kids' = [kids EXCEPT ![k].state = state]
  /\ late' = IF state = "completed" /\ kids[k].run = run THEN late \union {k} ELSE late
  /\ UNCHANGED <<gov, saved, run, open, made, loose>>

\* finish_attempt: only a completed attempt comes with its usage.  A suspended
\* one keeps its reservation; a failed or cancelled one gives all of it back.
FinishAttempt(k, state) ==
  /\ kids[k].state \in (IF state = "failed" THEN Live ELSE {"running"})
  /\ kids' = [kids EXCEPT ![k].state = state,
                          ![k].usage = IF state = "completed" THEN kids[k].used ELSE 0]
  /\ late' = IF state = "completed" /\ kids[k].run = run THEN late \union {k} ELSE late
  /\ UNCHANGED <<gov, saved, run, open, made, loose>>
----------------------------------------------------------------------------
\* Mutant of Continue: the calls of the earlier run are forgotten.
ContinueAfresh(crash) ==
  /\ run < MaxRuns /\ run' = run + 1
  /\ gov' = [saved EXCEPT !.child = 0, !.stopped = FALSE, !.history = <<>>]
  /\ saved' = gov' /\ open' = {} /\ late' = {}
  /\ kids' = Unshared /\ loose' = loose
  /\ UNCHANGED made

\* interrupt_active, after a restart.
Interrupted ==
  [k \in Kid |-> IF kids[k].state \in Live
                 THEN [kids[k] EXCEPT !.state = "interrupted"] ELSE Unshared[k]]

\* The run pauses or stops, or the process crashes; the next run of the work
\* item starts from the row of its parent (GovernanceRepository.start).
\* Attempts of children belong to the run that started them, so those that go
\* on, and what the row has not seen, are lost to the next one.
Continue(crash) ==
  /\ run < MaxRuns /\ run' = run + 1
  /\ Save([saved EXCEPT !.child = 0, !.stopped = FALSE])
  /\ open' = {}
  /\ kids' = IF crash THEN Interrupted ELSE Unshared
  /\ loose' = loose \union late
                \union {k \in Kid : ~crash /\ kids[k].state \in Live}
  /\ UNCHANGED made

Next ==
  \/ \E e \in BOOLEAN : BeforeModel(e)
  \/ Round
  \/ \E c \in Calls, stalled \in BOOLEAN : (stalled => c \in Polls) /\ BeforeTool(c, stalled)
  \/ \E i \in open, ok \in {"ok", "failed"} : FinishTool(i, ok)
  \/ \E S \in SUBSET Kid : Delegate(S)
  \/ DelegateFails
  \/ \E k \in Kid : \/ ClaimShared(k) \/ PlanTask(k) \/ ClaimTask(k)
                    \/ StartAttempt(k) \/ Reopen(k) \/ KidCalls(k)
                    \/ \E s \in {"completed", "failed", "suspended"} : FinishAttempt(k, s)
  \/ \E crash \in BOOLEAN : Continue(crash)

Spec == Init /\ [][Next]_vars
----------------------------------------------------------------------------
\* Children that are alive or have completed, of those the budget covers.
Counted == {k \in Kid \ loose : kids[k].state \in Live \union {"completed"}}

\* The tool calls of a work item, and those of the children that are alive or
\* have completed, never exceed the limit: across concurrent reads, delegations
\* of which some claims fail, tasks claimed meanwhile, children that settle at
\* any moment, restarts and continuations.  Not counted is what the code does
\* not charge: attempts that failed or were interrupted, a task that was claimed
\* or reopened when its share was no longer there, and a child that is alive, or
\* completed after the last save, when its run is continued.
WithinLimit ==
  Len(made) + SumFunction([k \in Kid |-> IF k \in Counted THEN kids[k].used ELSE 0])
    <= CallLimit

\* No call is made ConsecutiveRepeats times in a row, whatever interleaving of
\* concurrent calls, pauses and continuations: polls of a running process do
\* not count.
NoEndlessLoop ==
  \A i \in 1..(Len(made) - ConsecutiveRepeats + 1) :
    ~ \A j \in i..(i + ConsecutiveRepeats - 1) : made[j] = made[i] /\ made[j] \notin Polls
=============================================================================
