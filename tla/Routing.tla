------------------------------ MODULE Routing ------------------------------
(***************************************************************************)
(* The model router (capslock/runtime/routing.py) and the audit rows it    *)
(* writes (storage/repositories/models.py): one call of a run is planned   *)
(* over the configured profiles, each attempt passes the budget gate, has  *)
(* its own model_calls row, and may be answered, fail, be cancelled or be  *)
(* abandoned by its consumer.  A run that stops can be continued by a      *)
(* later run, which inherits the tokens spent so far as its budget base.   *)
(*                                                                         *)
(* Providers are external: they answer within the requested output, count  *)
(* an input that the estimate may miss, may omit the usage, and fail at    *)
(* any point of a stream.                                                  *)
(***************************************************************************)
EXTENDS Integers, Sequences, FiniteSets, SequencesExt, FiniteSetsExt

CONSTANTS
    Route,       \* the profiles of the role, in the configured order
    Policies,    \* provider data policies
    Retries,     \* retries of one profile after its first attempt
    Estimate,    \* estimated input tokens of the request
    MaxOutput,   \* max_output_tokens of every profile
    Useful,      \* the remainder under which no turn is worth starting (16)
    Limit,       \* the run's token limit
    MaxExcess,   \* bound: tokens an input may count beyond its estimate
    MaxRuns,     \* bound: runs of one continuation chain
    Ceiling      \* bound: tokens of a chain after which nobody authorises more

VARIABLES
    conf,    \* profile -> eligibility, data policy and client
    hard,    \* hard_budget: nobody may authorise more (exec mode)
    call,    \* the router call in progress, or Idle
    used,    \* tokens the settled model_calls rows of the current run record
    base,    \* tokens the earlier runs of the chain spent
    runs,    \* runs of the chain so far
    allowed, \* somebody authorised a call over the limit
    heard,   \* attempts of the current call whose output reached its consumer
    excess   \* history: the most one report was over what its gate let pass

vars == <<conf, hard, call, used, base, runs, allowed, heard,
          excess>>

Profiles == Range(Route)

(* What _candidates may find about a profile: usable, usable only with the *)
(* schema in the prompt, or excluded (window, credential, price, tools).   *)
Gates == {"ok", "prompt", "out"}
Clients == {"none", "complete", "stream"}

Idle == [pc |-> "idle"]
Busy == call.pc # "idle"

(* Eligible profiles first, then the prompt fallbacks, each in the order   *)
(* of the route.                                                           *)
Candidates ==
    LET At(gate) == SelectSeq(Route, LAMBDA p : conf[p].gate = gate)
    IN  At("ok") \o At("prompt")

(* The policy of the first configured profile, eligible or not.            *)
BaselinePolicy == conf[Route[1]].policy

(* What ModelAuditRepository.usage sums: a row still running counts zero.  *)
Usage == used

(* The output a call may ask for: the remainder of the limit when that     *)
(* remainder is worth a turn, the profile's own maximum otherwise.         *)
OutputCap(cap) ==
    LET remaining == Limit - (Usage + base) - Estimate
    IN  IF remaining >= Min({Useful, cap}) THEN Max({1, Min({cap, remaining})})
        ELSE cap

(* A gate that forgets what the earlier runs of the chain spent.           *)
OutputCapFresh(cap) ==
    LET remaining == Limit - Usage - Estimate
    IN  IF remaining >= Min({Useful, cap}) THEN Max({1, Min({cap, remaining})})
        ELSE cap

Fits(cap) == Usage + base + Estimate + cap <= Limit

FitsRun(cap) == Usage + Estimate + cap <= Limit

Init ==
    /\ conf \in [Profiles -> [gate : Gates, policy : Policies, client : Clients]]
    /\ hard \in BOOLEAN
    /\ call = Idle /\ used = 0 /\ base = 0 /\ runs = 1
    /\ allowed = FALSE /\ heard = 0 /\ excess = 0

(* RoutePlanner.plan: without candidates the failed decision is recorded   *)
(* and the call raises.                                                    *)
Plan(stream) ==
    /\ ~Busy
    /\ Candidates # <<>>
    /\ call' = [pc |-> "select", stream |-> stream, left |-> Candidates,
                attempt |-> 1, cap |-> MaxOutput, emitted |-> FALSE, usage |-> 0,
                known |-> FALSE]
    /\ heard' = 0
    /\ UNCHANGED <<conf, hard, used, base, runs, allowed, excess>>

Profile == Head(call.left)

NextProfile(c) ==
    LET left == Tail(c.left)
    IN  IF left = <<>> THEN Idle
        ELSE [c EXCEPT !.pc = "select", !.left = left, !.attempt = 1, !.cap = MaxOutput,
                       !.emitted = FALSE, !.usage = 0, !.known = FALSE]

(* RoutePlanner.select: a profile of another data policy, or without a     *)
(* client for this kind of call, is passed over; the last one exhausts     *)
(* the plan.                                                               *)
Selectable ==
    /\ conf[Profile].policy = BaselinePolicy
    /\ conf[Profile].client \in (IF call.stream THEN {"stream"} ELSE {"complete", "stream"})

Select ==
    /\ call.pc = "select"
    /\ call' = IF Selectable THEN [call EXCEPT !.pc = "gate"] ELSE NextProfile(call)
    /\ UNCHANGED <<conf, hard, used, base, runs, allowed, heard, excess>>

(* _budget_gate and _start_call: the attempt gets its row.                 *)
StartCall(cap) ==
    call' = [call EXCEPT !.pc = "provider", !.cap = cap, !.emitted = FALSE,
                          !.usage = 0, !.known = FALSE]

(* The same gate with the inherited tokens left out.                       *)
GatePassesFresh ==
    /\ call.pc = "gate"
    /\ FitsRun(OutputCapFresh(call.cap))
    /\ StartCall(OutputCapFresh(call.cap))
    /\ UNCHANGED <<conf, hard, used, base, runs, allowed, heard, excess>>

GatePasses ==
    /\ call.pc = "gate"
    /\ Fits(OutputCap(call.cap))
    /\ StartCall(OutputCap(call.cap))
    /\ UNCHANGED <<conf, hard, used, base, runs, allowed, heard, excess>>

(* Over the limit: the person at the terminal may allow this one attempt.  *)
GateAsks ==
    /\ call.pc = "gate"
    /\ ~hard /\ Usage + base < Ceiling
    /\ ~Fits(OutputCap(call.cap))
    /\ StartCall(OutputCap(call.cap))
    /\ allowed' = TRUE
    /\ UNCHANGED <<conf, hard, used, base, runs, heard, excess>>

(* Over the limit and not allowed: ModelBudgetExceeded, no other profile   *)
(* is tried.                                                               *)
GateStops ==
    /\ call.pc = "gate"
    /\ ~Fits(OutputCap(call.cap))
    /\ call' = Idle
    /\ UNCHANGED <<conf, hard, used, base, runs, allowed, heard, excess>>

(* finish_call settles the attempt's row with the tokens known by then.    *)
FinishCall(tokens) == used' = used + tokens

(* A delta of the stream: content, reasoning or a tool call.               *)
Chunk ==
    /\ call.pc = "provider" /\ call.stream /\ ~call.emitted
    /\ call' = [call EXCEPT !.emitted = TRUE]
    /\ heard' = heard + 1
    /\ UNCHANGED <<conf, hard, used, base, runs, allowed, excess>>

(* The provider reports the usage of the attempt, whatever was estimated.  *)
ReportUsage(n) ==
    /\ call.pc = "provider" /\ ~call.known
    /\ n <= Estimate + MaxExcess + call.cap
    /\ call' = [call EXCEPT !.usage = n, !.known = TRUE]
    /\ excess' = IF n > Estimate + call.cap + excess THEN n - (Estimate + call.cap)
                 ELSE excess
    /\ UNCHANGED <<conf, hard, used, base, runs, allowed, heard>>

(* _finish_success: a budget is configured, so an answer without usage is  *)
(* an error although its text has been delivered.                          *)
Succeed ==
    /\ call.pc = "provider"
    /\ IF call.known
       THEN /\ FinishCall(call.usage)
            /\ heard' = IF call.emitted THEN heard ELSE heard + 1
       ELSE /\ FinishCall(0)
            /\ UNCHANGED heard
    /\ call' = Idle
    /\ UNCHANGED <<conf, hard, base, runs, allowed, excess>>

(* A router that retries although a delta is out.                          *)
AfterFailureAnyway(retryable) ==
    IF ~retryable THEN Idle
    ELSE IF call.attempt <= Retries
    THEN [call EXCEPT !.pc = "gate", !.attempt = @ + 1]
    ELSE NextProfile(call)

(* What follows a failed attempt: nothing once output was delivered or     *)
(* when the error is not retryable, else a retry, else the next profile.   *)
AfterFailure(retryable) ==
    IF call.emitted \/ ~retryable THEN Idle
    ELSE IF call.attempt <= Retries
    THEN [call EXCEPT !.pc = "gate", !.attempt = @ + 1]
    ELSE NextProfile(call)

(* The provider fails; _classify_error tells rate limits and unavailable   *)
(* providers from errors a retry cannot mend.                              *)
Fail(retryable) ==
    /\ call.pc = "provider"
    /\ FinishCall(call.usage)
    /\ call' = AfterFailure(retryable)
    /\ UNCHANGED <<conf, hard, base, runs, allowed, heard, excess>>

(* The task is cancelled, or the run's deadline passes, inside the router. *)
Cancel ==
    /\ call.pc = "provider"
    /\ FinishCall(call.usage)
    /\ call' = Idle
    /\ UNCHANGED <<conf, hard, base, runs, allowed, heard, excess>>

(* The consumer leaves the stream while the router waits in its yield:     *)
(* neither except clause runs and the row stays "running" with no usage.   *)
Abandon ==
    /\ call.pc = "provider" /\ call.stream
    /\ call.emitted \/ call.known
    /\ call' = Idle
    /\ UNCHANGED <<conf, hard, used, base, runs, allowed, heard, excess>>

(* RunService.start of a continuation: the governor's snapshot becomes the *)
(* base of the new run, whose own rows start empty.                        *)
Continue ==
    /\ ~Busy
    /\ runs < MaxRuns
    /\ runs' = runs + 1
    /\ base' = base + Usage
    /\ used' = 0 /\ heard' = 0
    /\ UNCHANGED <<conf, hard, call, allowed, excess>>

Next ==
    \/ \E stream \in BOOLEAN : Plan(stream)
    \/ Select \/ GatePasses \/ GateAsks \/ GateStops
    \/ Chunk \/ \E n \in 1..(Estimate + MaxExcess + MaxOutput) : ReportUsage(n)
    \/ Succeed \/ \E retryable \in BOOLEAN : Fail(retryable)
    \/ Cancel \/ Abandon \/ Continue

Spec == Init /\ [][Next]_vars

(* One call of the router delivers the output of at most one attempt: a    *)
(* retry or a fallback after the first delta would mix two answers.        *)
OneAnswer == heard <= 1

(* What the providers reported over the whole chain of runs passes the     *)
(* limit by one wrong estimate at most, however many attempts, retries,    *)
(* fallbacks and continuations there were: the errors never add up.  Only  *)
(* a call that somebody authorised goes further; nobody can in exec mode.  *)
SpentWithinLimit == Usage + base <= Limit + excess \/ (allowed /\ ~hard)
=============================================================================
