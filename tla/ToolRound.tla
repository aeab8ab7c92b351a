------------------------------ MODULE ToolRound ------------------------------
(***************************************************************************)
(* The tool calls of one model answer: how the tool loop groups them into  *)
(* batches, how each call is prepared (journalled, validated, authorised,  *)
(* run, post-processed, delivered), how the results are committed to the   *)
(* conversation, and what a pause, an interrupt or a stop does to the      *)
(* calls that are under way.                                               *)
(*   runtime/tool_loop.py, runtime/tool_invocation.py,                     *)
(*   runtime/tool_delivery.py, tooling/executor.py                         *)
(*                                                                         *)
(* A call is "read" (a concurrency-safe policy: local, read-only, CANCEL), *)
(* "act" (a policy with external, destructive or context effects), "edit"  *)
(* (a file tool: the default policy, which declares no effect at all; both *)
(* run with COMPLETE) or "bad" (arguments that do not parse, or an unknown *)
(* tool).                                                                  *)
(***************************************************************************)
EXTENDS Integers, FiniteSets, Sequences

CONSTANTS MaxCalls,     \* tool calls of one model answer
          MaxReads,     \* max_read_concurrency
          MaxRepair,    \* max_argument_repair_attempts
          MaxRounds     \* bound: model answers with tool calls

VARIABLES calls,        \* the calls of this round, in the model's order
          at,           \* position of the first call of the current batch
          msgs,         \* the calls answered by a tool message, in order
          loop,         \* what the loop is doing
          attempt,      \* repair_attempt of this round's calls
          directive,    \* pending_repair: the calls offered for correction
          round

vars == <<calls, at, msgs, loop, attempt, directive, round>>

Kinds == {"read", "act", "edit", "bad"}
HasEffect(c) == c.kind \in {"act", "edit"}
\* "arguments" stands for a path that they name, too.
Repairable == {"arguments", "unsupported"}

\* A call nothing has been done for; `did` says its effect happened.
NewCall(k) == [kind |-> k, row |-> "none", phase |-> "idle", did |-> FALSE,
               code |-> "none", exec |-> "not_started",
               interrupted |-> FALSE]

Init ==
  /\ calls = <<>> /\ at = 1 /\ msgs = <<>> /\ loop = "model"
  /\ attempt = 0 /\ directive = {} /\ round = 0

\* What ModelStepExecutor.invoke can return; its errors end the loop.
Answers == UNION {[1..n -> Kinds] : n \in 1..MaxCalls}

\* The model answers with tool calls; after a repair directive all of them
\* carry the next repair attempt.
Answer ==
  /\ loop = "model" /\ round < MaxRounds
  /\ \E ks \in Answers : calls' = [i \in DOMAIN ks |-> NewCall(ks[i])]
  /\ attempt' = IF directive # {} THEN attempt + 1 ELSE 0
  /\ directive' = {} /\ msgs' = <<>> /\ at' = 1 /\ round' = round + 1
  /\ loop' = "batch"

\* _execution_batches: a run of safe reads is cut into chunks of at most
\* MaxReads, any other call is a batch of its own.
StartsBatch(i) ==
  \/ i = 1 \/ calls[i].kind # "read" \/ calls[i - 1].kind # "read"
  \/ \E s \in 1..(i - 1) :
       /\ \A j \in s..i : calls[j].kind = "read"
       /\ s = 1 \/ calls[s - 1].kind # "read"
       /\ (i - s) % MaxReads = 0

Batch ==
  {i \in at..Len(calls) : \A j \in (at + 1)..i : ~StartsBatch(j)}

Alone == Batch = {at}

\* One task of the batch takes a step.
Task(i, new) ==
  /\ loop = "batch" /\ i \in Batch
  /\ calls' = [calls EXCEPT ![i] = new]
  /\ UNCHANGED <<at, msgs, loop, attempt, directive, round>>

Returned(c, code, exec) ==
  [c EXCEPT !.phase = "returned", !.code = code, !.exec = exec]

\* The rows of tool_invocations: start_tool_invocation, finish_tool_invocation.
StartRow(c) == [c EXCEPT !.row = "open"]
FinishRow(c, status) == [c EXCEPT !.row = status]

\* prepare: the invocation row is written first; malformed arguments and
\* unknown tools never reach the executor.  The governor may stop the run.
Begin(i) ==
  LET c == StartRow(calls[i]) IN
  /\ c.phase = "idle"
  /\ \/ /\ c.kind = "bad"
        /\ \E code \in {"arguments", "unsupported"} :
             Task(i, Returned(c, code, "not_started"))
     \/ c.kind # "bad" /\ Task(i, [c EXCEPT !.phase = "validating"])
     \/ Task(i, [FinishRow(c, "failed") EXCEPT !.phase = "raised"])

\* normalise, schema and the tool's own validation, before the policy is known
Validate(i) ==
  LET c == calls[i] IN
  /\ c.phase = "validating"
  /\ \/ Task(i, [c EXCEPT !.phase = "authorizing"])
     \/ \E code \in {"arguments", "denied", "error"} :
          Task(i, Returned(c, code, "not_started"))

\* the permission middleware: allow, deny, or ask (the call pauses: its row
\* and step are parked for the answer)
Authorize(i) ==
  LET c == calls[i] IN
  /\ c.phase = "authorizing"
  /\ \/ Task(i, [c EXCEPT !.phase = "running"])
     \/ Task(i, Returned(c, "denied", "not_started"))
     \/ Task(i, [c EXCEPT !.phase = "paused", !.row = "paused"])

\* The handler does what the tool is for.
Effect(i) ==
  LET c == calls[i] IN
  /\ c.phase = "running" /\ HasEffect(c) /\ ~c.did
  /\ Task(i, [c EXCEPT !.did = TRUE])

\* The handler returns an outcome of its own.
Return(i) ==
  LET c == calls[i] IN
  /\ c.phase = "running"
  /\ \/ /\ HasEffect(c) => c.did
        /\ Task(i, [c EXCEPT !.phase = "post",
                             !.code = "ok", !.exec = "committed"])
     \/ Task(i, [c EXCEPT !.phase = "post",
                 !.code = "tool_failed",
                 !.exec = IF c.did \/ c.kind = "read" THEN "committed"
                                                      ELSE "not_started"])

\* Mutant of Unsure: the errors that name a bad argument keep their code.
UnsureUnlessArguments(c, err) == c.kind = "act" /\ err \in {"timeout", "error"}

\* An error out of a running handler whose policy declares effects leaves it
\* unknown whether they happened: timeouts and other errors by their except branch, argument,
\* path and policy errors by the check that follows them.
Unsure(c, err) == c.kind = "act"

\* A file tool has no timeout, and checks its arguments before it writes.
MayThrow(c, err) ==
  c.kind = "edit" => err # "timeout" /\ (c.did => err = "error")

\* The handler raises, or its timeout expires.
Throw(i) ==
  LET c == calls[i] IN
  /\ c.phase = "running"
  /\ \E err \in {"arguments", "denied", "timeout", "error"} :
       /\ MayThrow(c, err)
       /\ Task(i, IF Unsure(c, err) THEN Returned(c, "unknown", "unknown")
                                    ELSE Returned(c, err, "not_started"))

\* Mutant of Judged: a post-processing error replaces the handler's outcome.
JudgedAfresh(c, err) == Returned(c, err, "not_started")

\* What output validation or the `after` middleware failed on does not erase
\* what the handler did, and is not offered for repair.
Judged(c, err) ==
  Returned(c, IF err \in {"arguments", "timeout"}
                THEN "postprocessing" ELSE err, c.exec)

PostProcess(i) ==
  LET c == calls[i] IN
  /\ c.phase = "post"
  /\ \/ Task(i, [c EXCEPT !.phase = "returned"])
     \/ \E err \in {"arguments", "timeout", "error"} :
          Task(i, Judged(c, err))

\* The repair bookkeeping of prepare: argument errors count as not started,
\* and past the last attempt they are final.
Repaired(c) ==
  IF c.code \in Repairable
    THEN [c EXCEPT !.exec = "not_started",
                   !.code = IF attempt >= MaxRepair THEN "exhausted" ELSE @]
    ELSE c

\* Suspicious content that cannot be quarantined replaces the outcome of an
\* executed call; a result too large to inline becomes an artifact or a
\* preview and leaves it alone.  The row is closed.
Deliver(i) ==
  LET c == Repaired(calls[i]) IN
  /\ c.phase = "returned"
  /\ \/ Task(i, [FinishRow(c, IF c.code = "ok" THEN "completed" ELSE "failed")
                 EXCEPT !.phase = "prepared"])
     \/ /\ c.exec = "committed" /\ c.code = "ok"
        /\ Task(i, [FinishRow(c, "failed") EXCEPT !.phase = "prepared",
                                                  !.code = "quarantine"])

\* A task that is cancelled: its row is closed if it has one (and stays
\* parked if the call had paused); what was prepared or raised stays so.
Cancelled(c) ==
  IF c.phase \in {"idle", "prepared", "answered", "raised", "paused"}
    THEN c
    ELSE [FinishRow(c, "cancelled") EXCEPT !.phase = "cancelled",
                                           !.code = "cancelled"]

CancelBatch ==
  calls' = [i \in DOMAIN calls |-> IF i \in Batch THEN Cancelled(calls[i])
                                                  ELSE calls[i]]

\* The user interrupts.  A running handler with COMPLETE behaviour is let
\* finish and the round ends after its commit; everything else is cancelled
\* on the spot.
Interrupt ==
  /\ loop = "batch"
  /\ IF Alone /\ calls[at].phase = "running" /\ HasEffect(calls[at])
       THEN /\ ~calls[at].interrupted
            /\ calls' = [calls EXCEPT ![at].interrupted = TRUE]
            /\ UNCHANGED loop
       ELSE CancelBatch /\ loop' = "cancelled"
  /\ UNCHANGED <<at, msgs, attempt, directive, round>>

\* A task of the batch raised: its siblings are cancelled, nothing is
\* committed and the run is stopped.
StopBatch ==
  /\ loop = "batch"
  /\ \E i \in Batch : calls[i].phase = "raised"
  /\ CancelBatch /\ loop' = "stopped"
  /\ UNCHANGED <<at, msgs, attempt, directive, round>>

\* A task of the batch paused: its siblings are cancelled, nothing of the
\* batch is committed, and every later call of the round gets a row and a
\* cancelled answer - unless it has a row already, which the unique index on
\* (run_id, tool_call_id) refuses.
PauseRound ==
  /\ loop = "batch"
  /\ \E b \in Batch :
       LET later == (b + 1)..Len(calls) IN
       /\ calls[b].phase = "paused"
       /\ IF \E j \in later : calls[j].row # "none"
            THEN CancelBatch /\ loop' = "clash" /\ UNCHANGED msgs
            ELSE /\ calls' = [i \in DOMAIN calls |->
                      IF i \in later
                        THEN [calls[i] EXCEPT !.phase = "answered",
                              !.row = "cancelled", !.code = "barrier"]
                        ELSE IF i \in Batch THEN Cancelled(calls[i])
                                            ELSE calls[i]]
                 /\ msgs' = msgs \o [k \in 1..(Len(calls) - b) |-> b + k]
                 /\ loop' = "paused"
  /\ UNCHANGED <<at, attempt, directive, round>>

\* Mutant of MayCommit: results are committed as the tasks finish.
MayCommitAny(i) == calls[i].phase = "prepared"

\* When all tasks of a batch have ended, their results are committed in the
\* order of the calls.
MayCommit(i) ==
  /\ calls[i].phase = "prepared"
  /\ \A j \in Batch : calls[j].phase = IF j < i THEN "answered" ELSE "prepared"

\* The calls whose failure _repair_directive offers to the model again.
Offered == {i \in DOMAIN calls :
              calls[i].code \in Repairable /\ calls[i].exec = "not_started"}

\* A result is appended as a tool message; after the last one of a batch the
\* loop goes on to the next batch, to the next model call, or - after an
\* interrupt - ends.
Commit(i) ==
  LET last == \A j \in Batch \ {i} : calls[j].phase = "answered"
      next == at + Cardinality(Batch)
      done == last /\ next > Len(calls)
  IN
  /\ loop = "batch" /\ i \in Batch /\ MayCommit(i)
  /\ msgs' = Append(msgs, i)
  /\ calls' = [calls EXCEPT ![i].phase = "answered"]
  /\ at' = IF last THEN next ELSE at
  /\ loop' = IF calls[i].interrupted THEN "cancelled"
             ELSE IF done THEN "model" ELSE "batch"
  /\ directive' = IF done THEN Offered ELSE {}
  /\ attempt' = IF done /\ Offered = {} THEN 0 ELSE attempt
  /\ UNCHANGED round

Next ==
  \/ Answer \/ Interrupt \/ StopBatch \/ PauseRound
  \/ \E i \in 1..MaxCalls :
       /\ i \in DOMAIN calls
       /\ \/ Begin(i) \/ Validate(i) \/ Authorize(i) \/ Effect(i)
          \/ Return(i) \/ Throw(i) \/ PostProcess(i) \/ Deliver(i)
          \/ Commit(i)

Spec == Init /\ [][Next]_vars

(***************************************************************************)
(* Properties.                                                             *)
(***************************************************************************)

\* A call of a file tool that ended in an error.
Undeclared(c) == c.kind = "edit" /\ c.code = "error"

\* A prepared call that is reported as not started had no effect, and in
\* particular no call the model is asked to correct and send again: an error
\* after the effect (a handler that raises, a timeout, output validation,
\* the `after` middleware) is reported as unknown or committed.  The one
\* exception is a file tool that fails after its write: its policy declares
\* no effect, so the call counts as not started, but is not offered again.
\* (executor._run, InvocationPreparer.prepare, ToolLoop._repair_directive)
EffectsAreKnown ==
  /\ \A i \in DOMAIN calls :
       /\ calls[i].phase \in {"prepared", "answered"}
       /\ calls[i].exec = "not_started"
       => ~calls[i].did \/ Undeclared(calls[i])
  /\ \A i \in directive : ~calls[i].did /\ attempt < MaxRepair

\* When the model is asked again, every call it made has exactly one answer,
\* in the order it made them, although reads run concurrently and finish in
\* any order.  (ToolLoop._execution_batches, BatchScheduler.run)
AnsweredInOrder ==
  loop = "model" /\ round > 0 => msgs = [i \in DOMAIN calls |-> i]

\* A pause is a barrier: the calls before it are committed, the calls after
\* it get a cancelled answer.  (BatchScheduler.run, _cancel_after_barrier)
BarrierHolds ==
  /\ loop # "clash"
  /\ loop = "paused" =>
       \A i \in DOMAIN calls :
         (\E k \in DOMAIN msgs : msgs[k] = i) <=> calls[i].phase # "paused"
=============================================================================
