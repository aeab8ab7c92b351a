------------------------------ MODULE Workflow ------------------------------
(***************************************************************************)
(* One work item and its run: the transactions of the workflow unit of     *)
(* work (storage/repositories/workflow_uow.py), the tool loop that drives  *)
(* the run and pauses it (runtime/tool_invocation.py, runtime/agent.py),   *)
(* the action coordinator (application/action_system/core.py), permission  *)
(* requests (runtime/session_services.py) and input requests, and the      *)
(* tasks that decide them while the run goes on, waits or ends.            *)
(*                                                                         *)
(* An action of this module is one database transaction or one stretch of  *)
(* code between two awaits: a task can be cancelled, and the process can   *)
(* die, between any two.                                                   *)
(***************************************************************************)
EXTENDS Naturals, FiniteSets

CONSTANTS
  Action,       \* identifiers of actions of this run
  NoAction,     \* no action
  Child,        \* the ones that stand for a child Agent's approval
  Command,      \* slash commands that decide requests (one live at a time)
  MaxCalls      \* bound: tool calls of the run that ask for something

ASSUME WorkflowAssumption ==
  /\ Child \subseteq Action /\ NoAction \notin Action
  /\ "loop" \notin Command /\ "modal" \notin Command
  /\ MaxCalls \in Nat

VARIABLES
  \* --- workspace database -------------------------------------------------
  item,         \* work_items.status
  run,          \* runs.status, "none" before start_run
  last,         \* kind of the last terminal event of the run
  terminals,    \* number of terminal events of the run
  inv,          \* status of the tool invocation that asks
  step,         \* status of its run_steps row
  kind,         \* what it asks for: "user_input", "action" or "permission"
  target,       \* the action it asks for
  req,          \* its permission or input request
  result,       \* the request has a result_json
  grant,        \* permission_grants row: "none", "open" or "consumed"
  act,          \* actions.status
  child,        \* a child Agent's approval: "none", "waiting" or "decided"
  \* --- tasks ----------------------------------------------------------------
  loop,         \* where the run's own task is
  endAs,        \* the status an exception makes it finalize with
  calls,        \* number of calls that asked for something
  dpc, dact,    \* deciders: where each is, and its action
  outcome,      \* what the handler returned to each
  \* --- effects outside the database (history) --------------------------------
  performed,    \* how often each action's handler ran
  invoked,      \* how often the tool of the latest permission request ran
  \* --- the environment ---------------------------------------------------------
  calm          \* nobody interrupts a command and the process does not die

rows  == <<item, run, last, terminals>>
pause == <<inv, step, kind, target, req, result, grant>>
tasks == <<loop, endAs, calls, dpc, dact, outcome>>
hist  == <<performed, invoked>>
env   == <<hist, calm>>
vars  == <<rows, pause, act, child, tasks, env>>

Decider == Command \cup {"loop", "modal"}

Ended == {"completed", "failed", "cancelled", "stopped"}
Waiting == {"waiting_approval", "waiting_input"}
Undecided == {"pending", "approved", "running"}
Decided == {"completed", "failed", "cancelled", "rejected"}

Init ==
  /\ item = "queued" /\ run = "none" /\ last = "none" /\ terminals = 0
  /\ inv = "none" /\ step = "none" /\ kind = "none" /\ target = NoAction
  /\ req = "none" /\ result = FALSE /\ grant = "none"
  /\ act = [a \in Action |-> "none"] /\ child = [a \in Child |-> "none"]
  /\ loop = "off" /\ endAs = "none" /\ calls = 0
  /\ dpc = [d \in Decider |-> "idle"] /\ dact = [d \in Decider |-> NoAction]
  /\ outcome = [d \in Decider |-> "none"]
  /\ performed = [a \in Action |-> 0] /\ invoked = 0
  /\ calm \in BOOLEAN

\* A run changes its status together with its work item, and appends an event.
Become(s) == run' = s /\ item' = s
Emit(s) == last' = s /\ terminals' = terminals + 1
NoEvent == UNCHANGED <<last, terminals>>

\* ActionRepository.create and transition: an action starts pending, and moves
\* only from the status that was read to one its table allows.
CreateAction(a) ==
  act[a] = "none" /\ act' = [act EXCEPT ![a] = "pending"]

Allowed(from, to) ==
  \/ from = "pending" /\ to \in {"approved", "rejected", "cancelled"}
  \/ from = "approved" /\ to \in {"running", "cancelled"}
  \/ from = "running" /\ to \in {"completed", "failed", "cancelled"}

Transition(a, s) == Allowed(act[a], s) /\ act' = [act EXCEPT ![a] = s]

-----------------------------------------------------------------------------
(***************************************************************************)
(* The queue: WorkflowUnitOfWork.start_run, and cancel_queued_work_item.   *)
(***************************************************************************)
StartRun ==
  /\ item = "queued" /\ run = "none" /\ loop = "off"
  /\ Become("running") /\ NoEvent
  /\ loop' = "model"
  /\ UNCHANGED <<pause, act, endAs, calls, dpc, dact, outcome, child, env>>

CancelQueued ==
  /\ item = "queued"
  /\ item' = "cancelled"
  /\ UNCHANGED <<run, last, terminals, pause, act, tasks, child, env>>

(***************************************************************************)
(* WorkflowUnitOfWork.cancel_waiting: one transaction ends the run, its    *)
(* item, its open steps and invocation, its pending requests and every     *)
(* action that is not decided.                                             *)
(***************************************************************************)
CancelPending(S, to) ==
  act' = [a \in Action |-> IF act[a] = "pending" THEN to ELSE act[a]]

CancelUndecided(S, to) ==
  act' = [a \in Action |-> IF act[a] \in S THEN to ELSE act[a]]

CancelWaitingSilent ==
  /\ run \in Waiting
  /\ Become("cancelled") /\ NoEvent
  /\ inv' = IF inv = "waiting" THEN "done" ELSE inv
  /\ step' = IF step \in {"running", "waiting"} THEN "done" ELSE step
  /\ req' = IF req = "pending" THEN "cancelled" ELSE req
  /\ CancelUndecided(Undecided, "cancelled")
  /\ UNCHANGED <<kind, target, result, grant, tasks, child, env>>

CancelWaiting ==
  /\ run \in Waiting
  /\ Become("cancelled") /\ Emit("cancelled")
  /\ inv' = IF inv = "waiting" THEN "done" ELSE inv
  /\ step' = IF step \in {"running", "waiting"} THEN "done" ELSE step
  /\ req' = IF req = "pending" THEN "cancelled" ELSE req
  /\ CancelUndecided(Undecided, "cancelled")
  /\ UNCHANGED <<kind, target, result, grant, tasks, child, env>>

-----------------------------------------------------------------------------
(***************************************************************************)
(* The tool loop.  A tool asks for input, for a permission or for an       *)
(* action; the four writes that pause the run follow one by one:           *)
(* pause_tool_invocation, create_input_request, pause_step, pause.         *)
(***************************************************************************)
Ask(k, a) ==
  /\ loop = "model" /\ calls < MaxCalls
  /\ calls' = calls + 1
  /\ loop' = "asked"
  /\ inv' = "running" /\ step' = "running" /\ kind' = k /\ target' = a
  /\ result' = FALSE /\ grant' = "none" /\ invoked' = 0
  /\ UNCHANGED <<rows, endAs, dpc, dact, outcome, child, performed, calm>>

AskInput ==
  /\ Ask("user_input", NoAction)
  /\ req' = "none"
  /\ UNCHANGED act

\* The permission middleware stores its request before it returns the pause.
AskPermission ==
  /\ Ask("permission", NoAction)
  /\ req' = "pending"
  /\ UNCHANGED act

\* ActionCoordinator.propose without an authorizer: the action stays pending.
AskAction(a) ==
  /\ a \notin Child /\ CreateAction(a)
  /\ Ask("action", a)
  /\ req' = "none"

PauseInvocationUnasked ==
  /\ loop = "asked"
  /\ inv' = "waiting" /\ loop' = "step"
  /\ UNCHANGED <<rows, step, kind, target, req, result, grant, act, child, endAs,
                 calls, dpc, dact, outcome, env>>

PauseInvocation ==
  /\ loop = "asked"
  /\ inv' = "waiting"
  /\ loop' = IF kind = "user_input" THEN "request" ELSE "step"
  /\ UNCHANGED <<rows, step, kind, target, req, result, grant, act, endAs,
                 calls, dpc, dact, outcome, child, env>>

CreateInputRequest ==
  /\ loop = "request"
  /\ req' = "pending"
  /\ loop' = "step"
  /\ UNCHANGED <<rows, inv, step, kind, target, result, grant, act, endAs,
                 calls, dpc, dact, outcome, child, env>>

PauseStep ==
  /\ loop = "step"
  /\ step' = "waiting"
  /\ loop' = "pause"
  /\ UNCHANGED <<rows, inv, kind, target, req, result, grant, act, endAs,
                 calls, dpc, dact, outcome, child, env>>

PauseStatusOfKind == IF kind = "user_input" THEN "waiting_input" ELSE kind

PauseStatus == IF kind = "user_input" THEN "waiting_input" ELSE "waiting_approval"

PauseCommitWithoutItem ==
  /\ loop = "pause" /\ run = "running"
  /\ run' = PauseStatus /\ UNCHANGED item
  /\ Emit(PauseStatus)
  /\ loop' = "publish"
  /\ UNCHANGED <<pause, act, child, endAs, calls, dpc, dact, outcome, env>>

PauseCommit ==
  /\ loop = "pause" /\ run = "running"
  /\ Become(PauseStatus) /\ Emit(PauseStatus)
  /\ loop' = "publish"
  /\ UNCHANGED <<pause, act, child, endAs, calls, dpc, dact, outcome, env>>

\* A child Agent that waits for approval leaves a proxy action in its parent's run.
ChildApproval(a) ==
  /\ run # "none" /\ a \in Child /\ child[a] = "none"
  /\ CreateAction(a)
  /\ child' = [child EXCEPT ![a] = "waiting"]
  /\ UNCHANGED <<rows, pause, tasks, env>>

(***************************************************************************)
(* The answer is complete: the open actions and the waiting children are   *)
(* read, and the run is finalized with what was read.                      *)
(***************************************************************************)
ReadPending ==
  /\ loop = "model"
  /\ loop' = IF \/ \E a \in Action : act[a] \in Undecided
                \/ \E a \in Child : child[a] = "waiting"
             THEN "finishWaiting" ELSE "finish"
  /\ UNCHANGED <<rows, pause, act, endAs, calls, dpc, dact, outcome, child, env>>

FinishRun ==
  /\ loop \in {"finish", "finishWaiting"} /\ run = "running"
  /\ LET s == IF loop = "finish" THEN "completed" ELSE "waiting_approval"
     IN Become(s) /\ Emit(s)
  /\ loop' = "publish"
  /\ UNCHANGED <<pause, act, endAs, calls, dpc, dact, outcome, child, env>>

\* The event is delivered, the mailbox closed and the engine's lock released.
Publish ==
  /\ loop = "publish"
  /\ loop' = "off"
  /\ UNCHANGED <<rows, pause, act, child, endAs, calls, dpc, dact, outcome, env>>

(***************************************************************************)
(* An exception or a cancellation leaves the loop.  Until ToolLoopPaused   *)
(* is raised the invocation and its step are closed on the way out.        *)
(***************************************************************************)
InTool == {"asked", "request", "step"}

Abort(s) ==
  /\ loop \in {"model", "finish", "finishWaiting", "publish"} \cup InTool
  /\ s = "stopped" => loop = "model"
  /\ loop' = "ending" /\ endAs' = s
  /\ IF loop \in InTool
     THEN inv' = "done" /\ step' = "done"
     ELSE UNCHANGED <<inv, step>>
  /\ UNCHANGED <<rows, kind, target, req, result, grant, act, child, calls, dpc,
                 dact, outcome, env>>

\* A cancellation inside an exception handler (the one that pauses the run, or
\* the one that ends it) is caught by no other handler of the same statement.
Abandon ==
  /\ loop \in {"pause", "ending"} /\ dpc["loop"] = "idle"
  /\ loop' = "off" /\ endAs' = "none"
  /\ UNCHANGED <<rows, pause, act, child, calls, dpc, dact, outcome, env>>

(***************************************************************************)
(* fail_if_running and WorkflowUnitOfWork.finalize: open steps and open    *)
(* actions end with the run.                                               *)
(***************************************************************************)
EndRunAlways ==
  /\ loop = "ending" /\ dpc["loop"] = "idle"
  /\ Become(endAs) /\ Emit(endAs)
  /\ step' = IF step = "running" THEN "done" ELSE step
  /\ CancelUndecided(Undecided, "cancelled")
  /\ loop' = "off" /\ endAs' = "none"
  /\ UNCHANGED <<inv, kind, target, req, result, grant, child, calls, dpc, dact,
                 outcome, env>>

EndRun ==
  /\ loop = "ending" /\ dpc["loop"] = "idle"
  /\ IF run = "running"
     THEN /\ Become(endAs) /\ Emit(endAs)
          /\ step' = IF step = "running" THEN "done" ELSE step
          /\ CancelUndecided(Undecided, IF endAs = "cancelled" THEN "cancelled"
                                                               ELSE "failed")
     ELSE UNCHANGED <<rows, step, act>>
  /\ loop' = "off" /\ endAs' = "none"
  /\ UNCHANGED <<inv, kind, target, req, result, grant, calls, dpc, dact,
                 outcome, child, env>>

-----------------------------------------------------------------------------
(***************************************************************************)
(* Deciders.  d goes through ActionCoordinator.approve_and_execute: the    *)
(* action is approved, then running, then its handler performs the effect, *)
(* then the outcome is recorded; each write expects the status before it.  *)
(***************************************************************************)
Live(d) == dpc[d] \notin {"idle", "cleanup"}
CommandFree(d) == d \in Command /\ \A e \in Command : ~Live(e)

At(d, p) == dpc' = [dpc EXCEPT ![d] = p]

Quit(d) == At(d, "idle") /\ dact' = [dact EXCEPT ![d] = NoAction]

\* A new command: the exclusive worker group has no other live one, and the
\* loop's approval dialog is modal.
NewCommand(d, a, p) ==
  /\ CommandFree(d) /\ dpc[d] = "idle"
  /\ dpc["loop"] = "asking" => dact["loop"] # a
  /\ At(d, p) /\ dact' = [dact EXCEPT ![d] = a]
  /\ UNCHANGED <<rows, pause, loop, endAs, calls, outcome, invoked, calm>>

ApproveAction(d, a) ==
  /\ NewCommand(d, a, "approved")
  /\ a \notin Child /\ act[a] \in {"pending", "approved"}
  /\ act' = [act EXCEPT ![a] = "approved"]
  /\ UNCHANGED <<child, performed>>

RejectAction(d, a) ==
  /\ NewCommand(d, a, "settle")
  /\ a \notin Child /\ Transition(a, "rejected")
  /\ UNCHANGED <<child, performed>>

(***************************************************************************)
(* The approval a child waits for: decide_child_approval first decides the *)
(* link and lets the child go on; only then is the proxy action moved.     *)
(***************************************************************************)
DecideChild(d, a, approve) ==
  /\ a \in Child /\ child[a] = "waiting"
  /\ NewCommand(d, a, IF approve THEN "mark" ELSE "refuse")
  /\ child' = [child EXCEPT ![a] = "decided"]
  /\ performed' = [performed EXCEPT ![a] = IF approve THEN @ + 1 ELSE @]
  /\ UNCHANGED act

MarkChild(d) ==
  /\ dpc[d] \in {"mark", "refuse"}
  /\ IF act[dact[d]] # "pending"
     THEN Quit(d) /\ UNCHANGED act
     ELSE /\ Transition(dact[d], IF dpc[d] = "mark" THEN "approved" ELSE "rejected")
          /\ At(d, IF dpc[d] = "mark" THEN "approved" ELSE "settle")
          /\ UNCHANGED dact
  /\ UNCHANGED <<rows, pause, loop, endAs, calls, outcome, child, env>>

\* The loop's own proposal, when an authorizer can be asked at once.
ProposeHere(a) ==
  /\ loop = "model" /\ calls < MaxCalls /\ a \notin Child
  /\ calls' = calls + 1 /\ loop' = "acting"
  /\ CreateAction(a)
  /\ At("loop", "asking") /\ dact' = [dact EXCEPT !["loop"] = a]
  /\ UNCHANGED <<rows, pause, endAs, outcome, child, env>>

ApproveHere ==
  /\ dpc["loop"] = "asking"
  /\ Transition(dact["loop"], "approved")
  /\ At("loop", "approved")
  /\ UNCHANGED <<rows, pause, loop, endAs, calls, dact, outcome, child, env>>

\* Rejected by the user, or because the loop is cancelled while it asks.
RejectHere ==
  /\ dpc["loop"] = "asking"
  /\ Transition(dact["loop"], "rejected")
  /\ Quit("loop")
  /\ \/ UNCHANGED <<loop, endAs>>
     \/ loop' = "ending" /\ endAs' = "cancelled"
  /\ UNCHANGED <<rows, pause, calls, outcome, child, env>>

StartUnguarded(d) ==
  /\ dpc[d] = "approved"
  /\ act' = [act EXCEPT ![dact[d]] = "running"] /\ At(d, "execute")
  /\ UNCHANGED <<rows, pause, loop, endAs, calls, dact, outcome, child, env>>

\* execute_approved: only an approved action starts; otherwise the decider gives up.
StartAction(d) ==
  /\ dpc[d] = "approved"
  /\ IF act[dact[d]] = "approved"
     THEN /\ Transition(dact[d], "running")
          /\ At(d, IF dact[d] \in Child THEN "record" ELSE "execute")
          /\ UNCHANGED dact
     ELSE Quit(d) /\ UNCHANGED act
  /\ UNCHANGED <<rows, pause, loop, endAs, calls, outcome, child, env>>

\* The transition to running fails because another decider got there between
\* the check and the write: the exception handler records a failure.
StartLate(d) ==
  /\ dpc[d] = "approved" /\ dact[d] \notin Child /\ act[dact[d]] = "running"
  /\ act' = [act EXCEPT ![dact[d]] = "failed"]
  /\ IF d = "loop" THEN Quit(d) ELSE At(d, "settle") /\ UNCHANGED dact
  /\ UNCHANGED <<rows, pause, loop, endAs, calls, outcome, child, env>>

Perform(d) ==
  /\ dpc[d] = "execute"
  /\ performed' = [performed EXCEPT ![dact[d]] = @ + 1]
  /\ \E r \in {"completed", "failed"} : outcome' = [outcome EXCEPT ![d] = r]
  /\ At(d, "record")
  /\ UNCHANGED <<rows, pause, act, loop, endAs, calls, dact, child, invoked, calm>>

\* The outcome is recorded if the action still runs; a command then settles.
RecordAction(d) ==
  /\ dpc[d] = "record"
  /\ outcome' = [outcome EXCEPT ![d] = "none"]
  /\ IF act[dact[d]] = "running"
     THEN /\ Transition(dact[d], IF dact[d] \in Child THEN "completed" ELSE outcome[d])
          /\ IF d = "loop" THEN Quit(d) ELSE At(d, "settle") /\ UNCHANGED dact
     ELSE Quit(d) /\ UNCHANGED act
  /\ UNCHANGED <<rows, pause, loop, endAs, calls, child, env>>

\* The loop's tool call is over, and the model goes on.
ActionDone ==
  /\ loop = "acting" /\ dpc["loop"] = "idle"
  /\ loop' = "model"
  /\ UNCHANGED <<rows, pause, act, endAs, calls, dpc, dact, outcome, child, env>>

(***************************************************************************)
(* A decider is cancelled.  execute_approved catches it up to the end of   *)
(* the handler and records the cancellation; before and after that, and in *)
(* every other decision, nothing is recorded.                              *)
(***************************************************************************)
Interrupt(d) ==
  /\ d = "loop" \/ ~calm
  /\ Live(d) /\ dpc[d] # "asking"
  /\ \/ /\ dpc[d] \in {"approved", "execute"} /\ dact[d] \notin Child
        /\ At(d, "cleanup") /\ UNCHANGED dact
     \/ /\ dpc[d] # "execute" \/ dact[d] \in Child
        /\ Quit(d)
  /\ outcome' = [outcome EXCEPT ![d] = "none"]
  /\ IF d = "loop" THEN loop' = "ending" /\ endAs' = "cancelled"
                   ELSE UNCHANGED <<loop, endAs>>
  /\ UNCHANGED <<rows, pause, act, calls, child, env>>

(***************************************************************************)
(* _record_cancellation, and cancel_waiting_action if the run waits: the   *)
(* action, the other actions that did not start and the run are cancelled. *)
(***************************************************************************)
CancelWaitingAction(a) ==
  /\ Become("cancelled") /\ Emit("cancelled")
  /\ act' = [b \in Action |-> IF b = a \/ act[b] \in {"pending", "approved"}
                              THEN "cancelled" ELSE act[b]]

CleanUp(d) ==
  /\ dpc[d] = "cleanup"
  /\ IF act[dact[d]] \in Decided
     THEN UNCHANGED <<rows, act>>
     ELSE IF run = "waiting_approval"
     THEN CancelWaitingAction(dact[d])
     ELSE Transition(dact[d], "cancelled") /\ UNCHANGED rows
  /\ Quit(d)
  /\ UNCHANGED <<pause, loop, endAs, calls, outcome, child, env>>

-----------------------------------------------------------------------------
(***************************************************************************)
(* WorkflowUnitOfWork.settle_approval, after a decision on an action.  The *)
(* run ends here when nothing waits any more and no invocation is paused.  *)
(***************************************************************************)
OpenRequest == kind = "permission" /\ req = "pending"
Settleable ==
  /\ run = "waiting_approval"
  /\ \A a \in Action : act[a] \notin Undecided
  /\ ~OpenRequest /\ inv # "waiting"

SettledAs ==
  IF \E a \in Action : act[a] \in {"failed", "cancelled"}
  THEN {act[a] : a \in {b \in Action : act[b] \in {"failed", "cancelled"}}}
  ELSE {"completed"}

Settle(d) ==
  /\ dpc[d] = "settle"
  /\ IF Settleable
     THEN \E s \in SettledAs : Become(s) /\ Emit(s)
     ELSE UNCHANGED rows
  /\ LET known == run \in {"waiting_approval", "completed", "failed", "cancelled"}
     IN \/ /\ known /\ (dact[d] \in Child => act[dact[d]] = "rejected")
           /\ At(d, "resume") /\ UNCHANGED dact
        \/ (~known \/ dact[d] \in Child) /\ Quit(d)
  /\ UNCHANGED <<pause, act, loop, endAs, calls, outcome, child, env>>

(***************************************************************************)
(* WorkflowUnitOfWork.resume_paused, under the engine's lock: the answer   *)
(* becomes the invocation's result and the same run goes on.  The caller   *)
(* does nothing if the run does not wait or the request has no outcome.    *)
(***************************************************************************)
AnswerReady ==
  \/ kind = "user_input" /\ req \in {"answered", "cancelled"}
  \/ kind = "action" /\ act[target] \in Decided
  \/ kind = "permission" /\ req # "pending" /\ result

Resumable ==
  run \in Waiting /\ inv = "waiting" /\ step = "waiting" /\ AnswerReady

Resume(d) ==
  /\ dpc[d] = "resume" /\ loop = "off"
  /\ IF Resumable /\ (dact[d] = NoAction \/ run = "waiting_approval")
     THEN /\ Become("running") /\ NoEvent
          /\ inv' = "done" /\ step' = "done"
          /\ loop' = "model"
     ELSE UNCHANGED <<rows, inv, step, loop>>
  /\ Quit(d)
  /\ UNCHANGED <<kind, target, req, result, grant, act, endAs, calls, outcome,
                 child, env>>

-----------------------------------------------------------------------------
(***************************************************************************)
(* Permission requests: decide_permission_request commits the decision and *)
(* a grant, the tool consumes the grant and runs, the result is stored.    *)
(* The dialog of the paused run and a command may both decide.             *)
(***************************************************************************)
MayDecide(d) ==
  /\ dpc[d] = "idle"
  /\ d = "modal" \/ CommandFree(d)
  /\ d = "modal" => run \in Waiting

DecidePermissionAgain(d, approve) ==
  /\ MayDecide(d)
  /\ kind = "permission" /\ req # "none" /\ inv = "waiting"
  /\ req' = IF approve THEN "approved" ELSE "rejected"
  /\ grant' = IF approve THEN "open" ELSE grant
  /\ At(d, IF approve THEN "invoke" ELSE "complete")
  /\ UNCHANGED <<rows, inv, step, kind, target, result, act, loop, endAs, calls,
                 dact, outcome, child, env>>

DecidePermission(d, approve) ==
  /\ MayDecide(d)
  /\ kind = "permission" /\ req = "pending" /\ inv = "waiting"
  /\ req' = IF approve THEN "approved" ELSE "rejected"
  /\ grant' = IF approve THEN "open" ELSE grant
  /\ At(d, IF approve THEN "invoke" ELSE "complete")
  /\ UNCHANGED <<rows, inv, step, kind, target, result, act, loop, endAs, calls,
                 dact, outcome, child, env>>

Invoke(d) ==
  /\ dpc[d] = "invoke" /\ grant = "open"
  /\ grant' = "consumed"
  /\ invoked' = invoked + 1
  /\ At(d, "complete")
  /\ UNCHANGED <<rows, inv, step, kind, target, req, result, act, loop, endAs,
                 calls, dact, outcome, child, performed, calm>>

CompletePermissionUnstored(d) ==
  /\ dpc[d] = "complete"
  /\ At(d, "resume")
  /\ UNCHANGED <<rows, pause, act, loop, endAs, calls, dact, outcome, child, env>>

CompletePermission(d) ==
  /\ dpc[d] = "complete"
  /\ result' = TRUE
  /\ At(d, "resume")
  /\ UNCHANGED <<rows, inv, step, kind, target, req, grant, act, loop, endAs,
                 calls, dact, outcome, child, env>>

\* Input requests: answer_input_request and cancel_input_request.
AnswerInput(d, answer) ==
  /\ MayDecide(d)
  /\ kind = "user_input" /\ req = "pending"
  /\ answer \in {"answered", "cancelled"}
  /\ req' = answer
  /\ At(d, "resume")
  /\ UNCHANGED <<rows, inv, step, kind, target, result, grant, act, loop, endAs,
                 calls, dact, outcome, child, env>>

-----------------------------------------------------------------------------
(***************************************************************************)
(* The process dies and starts again: RunJournalRepository.interrupt_active*)
(* closes running invocations and steps; everything else is as committed.  *)
(***************************************************************************)
Crash ==
  /\ ~calm
  /\ loop # "off" \/ \E d \in Decider : dpc[d] # "idle"
  /\ inv' = IF inv = "running" THEN "done" ELSE inv
  /\ step' = IF step = "running" THEN "done" ELSE step
  /\ loop' = "off" /\ endAs' = "none"
  /\ dpc' = [d \in Decider |-> "idle"] /\ dact' = [d \in Decider |-> NoAction]
  /\ outcome' = [d \in Decider |-> "none"]
  /\ UNCHANGED <<rows, kind, target, req, result, grant, act, calls, child, env>>

-----------------------------------------------------------------------------
Queue == StartRun \/ CancelQueued \/ CancelWaiting

Loop == \/ AskInput \/ AskPermission
        \/ \E a \in Action : AskAction(a) \/ ChildApproval(a) \/ ProposeHere(a)
        \/ PauseInvocation \/ CreateInputRequest \/ PauseStep \/ PauseCommit
        \/ ApproveHere \/ RejectHere \/ ActionDone
        \/ ReadPending \/ FinishRun \/ Publish \/ EndRun \/ Abandon
        \/ \E s \in {"failed", "cancelled", "stopped"} : Abort(s)

Decide(d) == \/ \E a \in Action : ApproveAction(d, a) \/ RejectAction(d, a)
             \/ \E a \in Child, b \in BOOLEAN : DecideChild(d, a, b)
             \/ \E b \in BOOLEAN : DecidePermission(d, b)
             \/ \E r \in {"answered", "cancelled"} : AnswerInput(d, r)

Continue(d) == \/ MarkChild(d) \/ StartAction(d) \/ StartLate(d) \/ Perform(d)
               \/ RecordAction(d) \/ CleanUp(d)
               \/ Settle(d) \/ Resume(d) \/ Invoke(d) \/ CompletePermission(d)

\* Nothing is left to do, or only a decision nobody makes.
Quiescent ==
  /\ loop = "off" /\ item # "queued" /\ \A d \in Decider : dpc[d] = "idle"
  /\ UNCHANGED vars

Next == \/ Queue \/ Loop
        \/ \E d \in Decider : Decide(d) \/ Continue(d) \/ Interrupt(d)
        \/ Crash \/ Quiescent

Spec == Init /\ [][Next]_vars

-----------------------------------------------------------------------------
(***************************************************************************)
(* Properties.                                                             *)
(***************************************************************************)
RowTypes ==
  /\ item \in {"queued", "running"} \cup Waiting \cup Ended
  /\ run \in {"none", "running"} \cup Waiting \cup Ended
  /\ last \in {"none"} \cup Waiting \cup Ended
  /\ terminals \in Nat
PauseTypes ==
  /\ inv \in {"none", "running", "waiting", "done"}
  /\ step \in {"none", "running", "waiting", "done"}
  /\ kind \in {"none", "user_input", "action", "permission"}
  /\ target \in Action \cup {NoAction}
  /\ req \in {"none", "pending", "answered", "approved", "rejected", "cancelled"}
  /\ result \in BOOLEAN /\ grant \in {"none", "open", "consumed"}
TaskTypes ==
  /\ loop \in {"off", "model", "asked", "request", "step", "pause", "acting",
               "finish", "finishWaiting", "publish", "ending"}
  /\ endAs \in {"none", "failed", "cancelled", "stopped"}
  /\ calls \in Nat
  /\ dpc \in [Decider -> {"idle", "asking", "mark", "refuse", "approved", "execute", "record",
                          "settle", "resume", "invoke", "complete", "cleanup"}]
  /\ dact \in [Decider -> Action \cup {NoAction}]
  /\ outcome \in [Decider -> {"none", "completed", "failed"}]

\* The types of the variables.
TypeOK ==
  /\ RowTypes /\ PauseTypes /\ TaskTypes
  /\ act \in [Action -> {"none"} \cup Undecided \cup Decided]
  /\ child \in [Child -> {"none", "waiting", "decided"}]
  /\ performed \in [Action -> Nat] /\ invoked \in Nat /\ calm \in BOOLEAN

(***************************************************************************)
(* The rows are well typed.  Whichever transaction moved a run last        *)
(* (start_run, finalize, pause, resume_paused, settle_approval,            *)
(* cancel_waiting, cancel_waiting_action), its work item has the same      *)
(* status, the last terminal event a client can replay is of that status   *)
(* unless the run goes on, and a run that ended has no action somebody     *)
(* could still approve.                                                    *)
(***************************************************************************)
RecordsAgree ==
  /\ TypeOK
  /\ run # "none" => item = run
  /\ run # "running" => last = run
  /\ run \in Ended => \A a \in Action \ Child : act[a] \notin {"pending", "approved"}

(***************************************************************************)
(* An ended run stays ended, with its item and without a further terminal  *)
(* event, whatever deciders, cancellations and cleanups are still under    *)
(* way: settling an ended run again produces no second event.              *)
(***************************************************************************)
EndedIsFinal == [][(run \in Ended) => UNCHANGED rows]_vars

(***************************************************************************)
(* The record of an action tells what happened: its handler ran at most    *)
(* once, never before an approval or after a rejection, and "completed" is *)
(* recorded only of a handler that ran, through cancelled commands,        *)
(* crashes and concurrent cancellation of the run.  The tool of a          *)
(* permission request runs at most once, and only after the approval,      *)
(* although a dialog and a command may both decide (the grant is consumed  *)
(* once).                                                                  *)
(***************************************************************************)
EffectsMatchRecords ==
  /\ \A a \in Action :
       /\ performed[a] <= 1
       /\ act[a] = "completed" => performed[a] = 1
       /\ act[a] \in {"none", "rejected"} => performed[a] = 0
       /\ a \notin Child /\ act[a] \in {"pending", "approved"} => performed[a] = 0
  /\ invoked <= 1 /\ (invoked = 1 => req = "approved" /\ grant = "consumed")

AtRest == loop = "off" /\ \A d \in Decider : dpc[d] = "idle"

(***************************************************************************)
(* A run that waits can be continued: its invocation, its step and its     *)
(* request were all stored before the status, so resume_paused never finds *)
(* "paused run continuation is incomplete".  And without crashes and       *)
(* cancelled commands no interleaving of the loop and its deciders leaves  *)
(* a dead continuation: when all is at rest, what the paused call asks for *)
(* is still open, or resume_paused would succeed.                          *)
(***************************************************************************)
ContinuationComplete ==
  /\ run \in Waiting => (inv = "waiting" <=> step = "waiting")
  /\ run = "waiting_input" => inv = "waiting" /\ kind = "user_input" /\ req # "none"
  /\ run = "waiting_approval" /\ inv = "waiting" =>
       \/ kind = "action" /\ act[target] # "none"
       \/ kind = "permission" /\ req # "none"
  /\ (calm /\ run \in Waiting /\ inv = "waiting" /\ AtRest) =>
       \/ kind = "action" /\ act[target] \in {"pending", "approved"}
       \/ kind \in {"permission", "user_input"} /\ req = "pending"
       \/ Resumable

(***************************************************************************)
(* docs/reference.md:25 says that tool requests and actions can both be    *)
(* recovered after a restart: a waiting run with no task at work can still *)
(* be decided or resumed.                                                  *)
(***************************************************************************)
RestartRecoverable ==
  (run \in Waiting /\ AtRest) =>
     \/ \E a \in Action \ Child : act[a] \in {"pending", "approved"}
     \/ \E a \in Child : child[a] = "waiting"
     \/ req = "pending"
     \/ Resumable

(***************************************************************************)
(* docs/reference.md:277 says that each stream produces exactly one        *)
(* terminal event: when the run's task is gone the run has ended or waits. *)
(***************************************************************************)
StreamSettlesRun == (calm /\ loop = "off" /\ run # "none") => run # "running"
=============================================================================
