-------------------------------- MODULE Team --------------------------------
(***************************************************************************)
(* Tasks of child agents: CollaborationService (collaboration/service.py), *)
(* ChildAgentRunner (collaboration/runner.py) and the tables they keep     *)
(* (storage/repositories/collaboration.py).                                *)
(*                                                                         *)
(* A task is created, claimed by a worker, run by a process of its own     *)
(* that may be suspended for an approval, and ends.  Its row, the row of   *)
(* its attempt, the row of its worker and its output are written by        *)
(* different transactions, while other callers assign, cancel, decide,     *)
(* stop and resume, and the application may die between any two.           *)
(*                                                                         *)
(* assign_agent_task inserts a workspace row before it claims, and that    *)
(* row is never removed, so a task is claimed at most once (ClaimedOnce)   *)
(* and att[t] is the only attempt of t.  Workspaces are private ones        *)
(* (snapshot or worktree), so a path belongs to one worker; choices the    *)
(* code makes by priority and age are left open.                           *)
(***************************************************************************)
EXTENDS Naturals, FiniteSets

CONSTANTS
  Task, Worker,
  NoWorker,        \* assigned_worker_id IS NULL
  Tool,            \* the caller that runs the collaboration tools
  MaxChildren,     \* max_children
  MaxConcurrency,  \* max_concurrency
  MaxPauses,       \* bound: suspensions of all tasks
  MaxCalls         \* bound: interventions, see Call

ASSUME TeamAssumption ==
  /\ NoWorker \notin Worker /\ Tool \notin Task
  /\ MaxChildren \in Nat \ {0} /\ MaxConcurrency \in Nat \ {0}
  /\ MaxPauses \in Nat /\ MaxCalls \in Nat

VARIABLES
  \* the workspace database
  task,        \* agent_tasks.state, "none" before the row exists
  deps,        \* agent_task_dependencies
  assigned,    \* agent_tasks.assigned_worker_id
  att,         \* agent_attempts.state of the task's attempt
  claims,      \* agent_tasks.attempt_count
  ckpt,        \* the attempt has a resumable checkpoint
  link,        \* state of the attempt's newest approval link
  output,      \* agent_outputs.state
  ws,          \* agent_workspaces: "none", "open" or "cleaned"
  wsBy,        \* agent_workspaces.worker_id
  worker,      \* agent_workers.state
  persistent,  \* agent_workers.persistent
  \* the memory of the service and of the runner
  proc,        \* where the task's process is
  kind,        \* which operation created the process
  out,         \* the outcome the process records
  permits,     \* processes inside the semaphore
  tracked,     \* what _tasks[t] is: "none", the process, or its last steps
  cont,        \* tasks in _suspended
  op,          \* callers inside assign_agent_task or _schedule_team
  canc,        \* where a call of cancel(t) is
  dec,         \* decide_child_approval has decided the link only
  stop,        \* the task whose cancellation stop_agent(w) waits for
  adm,         \* the holder of _admission_lock
  \* bounds
  pauses, calls

db     == <<task, deps, assigned, att, claims, ckpt, link, output,
            ws, wsBy, worker, persistent>>
mem    == <<proc, kind, out, permits, tracked, cont, op, canc, dec, stop, adm>>
vars   == <<db, mem, pauses, calls>>

Active   == {"created", "claimed", "running", "waiting_approval"}
Ended    == {"completed", "failed", "cancelled"}
TaskState == {"none", "interrupted"} \union Active \union Ended
Attempt  == {"none", "created", "running", "suspended", "interrupted"} \union Ended
Caller   == Task \union {Tool}

\* Where a caller is, the pairs it may still try, the pair it tries, and
\* whether _run_next_for_worker chose that one.
At(pc, q, p, first) == [pc |-> pc, q |-> q, p |-> p, first |-> first]
Idle == At("off", {}, <<>>, FALSE)
Free == <<>>

\* Failures of a child, assignments by the tool, cancellations, stops,
\* cleanups, aborts and restarts are counted, to bound how often the outside
\* intervenes.
Call == calls < MaxCalls /\ calls' = calls + 1

Init ==
  /\ task = [t \in Task |-> "none"] /\ deps = [t \in Task |-> {}]
  /\ assigned = [t \in Task |-> NoWorker]
  /\ att = [t \in Task |-> "none"] /\ claims = [t \in Task |-> 0]
  /\ ckpt = [t \in Task |-> FALSE]
  /\ link = [t \in Task |-> "none"] /\ output = [t \in Task |-> "none"]
  /\ ws = [t \in Task |-> "none"] /\ wsBy = [t \in Task |-> NoWorker]
  /\ worker = [w \in Worker |-> "none"]
  /\ persistent = [w \in Worker |-> FALSE]
  /\ proc = [t \in Task |-> "off"] /\ kind = [t \in Task |-> "none"]
  /\ out = [t \in Task |-> "none"] /\ permits = {}
  /\ tracked = [t \in Task |-> "none"] /\ cont = {}
  /\ op = [c \in Caller |-> Idle] /\ canc = [t \in Task |-> "off"]
  /\ dec = {} /\ stop = [w \in Worker |-> {}] /\ adm = Free
  /\ pauses = 0 /\ calls = 0

-----------------------------------------------------------------------------
(* Transactions of CollaborationRepository.                                 *)

\* The transitions set_state allows; a state may always be set again.
Allowed(from, to) ==
  \/ from = "created" /\ to \in {"claimed", "running", "failed", "cancelled"}
  \/ from = "claimed" /\ to \in {"running", "cancelled"}
  \/ from = "running" /\ to \in {"waiting_approval"} \union Ended
  \/ from = "waiting_approval" /\ to \in {"running"} \union Ended

CanSetAny(t, s) == TRUE
CanSet(t, s) == s = task[t] \/ Allowed(task[t], s)

Set(f, x, v) == [f EXCEPT ![x] = v]

\* agent_workers.state := s, where the attempt's worker still has a row.
SetWorker(w, s) == worker' = Set(worker, w, s)

\* create_worker: a new row, idle; a delegate's worker is not persistent.
CreateWorker(w, p) ==
  worker[w] = "none" /\ SetWorker(w, "idle") /\ persistent' = Set(persistent, w, p)

\* link_approval and decide_approval_link: a link is decided once.
AddLink(t) == link' = Set(link, t, "pending")
DecideLink(t) == link[t] = "pending" /\ link' = Set(link, t, "decided")

\* claim_task: the conditions under which it does not raise.
Claimable(t, w) ==
  /\ worker[w] \notin {"none", "stopped"}
  /\ task[t] \in {"created", "interrupted"}
  /\ \A d \in deps[t] : task[d] = "completed"

ClaimTask(t, w) ==
  /\ task' = Set(task, t, "claimed") /\ assigned' = Set(assigned, t, w)
  /\ claims' = [claims EXCEPT ![t] = @ + 1]
  /\ att' = Set(att, t, "created")
  /\ SetWorker(w, "starting")

\* finish_attempt: a finished attempt is left alone, otherwise the rows of
\* the attempt, the task and the worker follow the outcome, whatever they are.
FinishOverSameName(t, s) ==
  /\ att' = Set(att, t, s) /\ task' = Set(task, t, s)
  /\ SetWorker(assigned[t], IF persistent[assigned[t]] THEN "idle" ELSE "stopped")

FinishOverKeepsWorker(t, s) ==
  /\ att' = Set(att, t, s) /\ UNCHANGED worker
  /\ task' = Set(task, t, IF s = "suspended" THEN "waiting_approval" ELSE s)

FinishOver(t, s) ==
  /\ att' = Set(att, t, s)
  /\ task' = Set(task, t, IF s = "suspended" THEN "waiting_approval" ELSE s)
  /\ SetWorker(assigned[t],
       IF s = "suspended" THEN "waiting_approval"
       ELSE IF persistent[assigned[t]] THEN "idle" ELSE "stopped")

FinishAttempt(t, s) ==
  IF att[t] \in Ended \union {"interrupted", "none"}
  THEN UNCHANGED <<att, task, worker>>
  ELSE FinishOver(t, s)

-----------------------------------------------------------------------------
(* Workers and tasks come into being.                                       *)

Live == {w \in Worker : worker[w] \notin {"none", "stopped"}}

\* start_agent
StartAgent(w) ==
  /\ adm = Free /\ Cardinality(Live) < MaxChildren
  /\ CreateWorker(w, TRUE)
  /\ UNCHANGED <<task, deps, assigned, att, claims, ckpt, link, output,
                 ws, wsBy, mem, pauses, calls>>

\* create_task as create_agent_task calls it: dependencies are older tasks, and
\* the task is not the one delegate is about to create.
CreateTask(t, d, w) ==
  /\ task[t] = "none" /\ op[Tool].pc = "off"
  /\ \A v \in Worker : adm # <<"task", t, v>>
  /\ \A x \in d : task[x] # "none"
  /\ w # NoWorker => worker[w] \notin {"none", "stopped"}
  /\ task' = Set(task, t, "created") /\ deps' = Set(deps, t, d)
  /\ assigned' = Set(assigned, t, w)
  /\ UNCHANGED <<att, claims, ckpt, link, output, ws, wsBy, worker,
                 persistent, proc, kind, out, permits, tracked, cont, canc, dec,
                 stop, adm, pauses, calls>>

\* A caller starts to try one pair of task and worker.
Try(t, w, first) ==
  At("attach", {}, <<t, w>>, first)

\* create_agent_task; without an assignee _schedule_team runs at once.
CreateAgentTask(t, d, w) ==
  /\ CreateTask(t, d, w)
  /\ op' = IF w = NoWorker THEN Set(op, Tool, At("schedule", {}, <<>>, FALSE)) ELSE op

\* follow_up_agent: the worker's state is read before the task is created.
FollowUpAgent(t, w) ==
  /\ w # NoWorker /\ CreateTask(t, {}, w)
  /\ op' = IF worker[w] \in {"idle", "interrupted"}
           THEN Set(op, Tool, Try(t, w, FALSE)) ELSE op

\* The tool assign_agent_task, for any task and any worker.
ToolAssign(t, w) ==
  /\ op[Tool].pc = "off" /\ task[t] # "none" /\ Call
  /\ op' = Set(op, Tool, Try(t, w, FALSE))
  /\ UNCHANGED <<db, proc, kind, out, permits, tracked, cont, canc, dec, stop, adm,
                 pauses>>

-----------------------------------------------------------------------------
(* assign_agent_task and _schedule_team.                                    *)

rest == <<out, permits, cont, canc, dec, stop, adm, pauses, calls>>

\* A caller is done: the tool returns, a process ends with its callback.
Done(c) == At(IF c = Tool THEN "off" ELSE "end", {}, <<>>, FALSE)

\* _schedule_team reads the idle workers and the queued tasks once.
Pairs ==
  {p \in Task \X Worker :
     task[p[1]] = "created" /\ worker[p[2]] = "idle" /\ assigned[p[1]] \in {NoWorker, p[2]}}

OpSchedule(c) ==
  /\ op[c].pc = "schedule"
  /\ op' = Set(op, c, At("pick", Pairs, <<>>, FALSE))
  /\ UNCHANGED <<db, proc, kind, tracked, rest>>

OpPick(c) ==
  /\ op[c].pc = "pick"
  /\ \/ op[c].q = {} /\ op' = Set(op, c, Done(c))
     \/ \E p \in op[c].q :
          op' = Set(op, c, At("attach", op[c].q, p, FALSE))
  /\ UNCHANGED <<db, proc, kind, tracked, rest>>

\* The caller goes on after a ValueError: with the team's queue, or with the
\* next pair.
Refused(c) ==
  IF op[c].first THEN At("schedule", {}, <<>>, FALSE)
  ELSE At("pick", op[c].q \ {op[c].p}, <<>>, FALSE)

\* The worker is read, the workspace row is inserted.  agent_workspaces has
\* one row per task: the second insertion raises an IntegrityError, which
\* no caller catches.
HasWorkspaceNever(t) == FALSE
HasWorkspace(t) == ws[t] # "none"

OpAttach(c, t, w) ==
  /\ op[c].pc = "attach" /\ op[c].p = <<t, w>>
  /\ \/ /\ worker[w] \in {"none", "stopped"}
        /\ op' = Set(op, c, Refused(c)) /\ UNCHANGED <<ws, wsBy>>
     \/ /\ worker[w] \notin {"none", "stopped"} /\ HasWorkspace(t)
        /\ op' = Set(op, c, Done(c)) /\ UNCHANGED <<ws, wsBy>>
     \/ /\ worker[w] \notin {"none", "stopped"} /\ ~HasWorkspace(t)
        /\ ws' = Set(ws, t, "open") /\ wsBy' = Set(wsBy, t, w)
        /\ op' = Set(op, c, At("claim", op[c].q, <<t, w>>, op[c].first))
  /\ UNCHANGED <<task, deps, assigned, att, claims, ckpt, link, output,
                 worker, persistent, proc, kind, tracked, rest>>

\* A process for t is created and entered in _tasks.
Spawn(t, k) ==
  /\ proc' = Set(proc, t, "queued") /\ kind' = Set(kind, t, k)
  /\ tracked' = Set(tracked, t, "proc")

\* claim_task; the pairs of a task or worker that is taken are dropped.
OpClaim(c, t, w) ==
  /\ op[c].pc = "claim" /\ op[c].p = <<t, w>>
  /\ \/ /\ Claimable(t, w) /\ ClaimTask(t, w) /\ Spawn(t, "assign")
        /\ op' = Set(op, c,
              At("pick", {p \in op[c].q : p[1] # t /\ p[2] # w}, <<>>, FALSE))
     \/ /\ ~Claimable(t, w) /\ op' = Set(op, c, Refused(c))
        /\ UNCHANGED <<task, assigned, claims, att, worker, proc, kind, tracked>>
  /\ UNCHANGED <<deps, ckpt, link, output, ws, wsBy, persistent, rest>>

-----------------------------------------------------------------------------
(* delegate: worker, task and claim under _admission_lock.                  *)

DelegateWorker(t, w) ==
  /\ adm = Free /\ task[t] = "none" /\ Cardinality(Live) < MaxChildren
  /\ CreateWorker(w, FALSE) /\ adm' = <<"task", t, w>>
  /\ UNCHANGED <<task, deps, assigned, att, claims, ckpt, link, output,
                 ws, wsBy, proc, kind, out, permits, tracked, cont, op,
                 canc, dec, stop, pauses, calls>>

\* create_task with its workspace, unless the worker was stopped meanwhile.
DelegateTask(t, w) ==
  /\ adm = <<"task", t, w>>
  /\ \/ /\ worker[w] # "stopped"
        /\ task' = Set(task, t, "created") /\ assigned' = Set(assigned, t, w)
        /\ ws' = Set(ws, t, "open") /\ wsBy' = Set(wsBy, t, w)
        /\ adm' = <<"claim", t, w>>
     \/ /\ worker[w] = "stopped"
        /\ adm' = Free /\ UNCHANGED <<task, assigned, ws, wsBy>>
  /\ UNCHANGED <<deps, att, claims, ckpt, link, output, worker, persistent,
                 proc, kind, out, permits, tracked, cont, op, canc, dec, stop,
                 pauses, calls>>

DelegateClaim(t, w) ==
  /\ adm = <<"claim", t, w>>
  /\ \/ Claimable(t, w) /\ ClaimTask(t, w) /\ adm' = <<"spawn", t, w>>
     \/ /\ ~Claimable(t, w) /\ adm' = Free
        /\ UNCHANGED <<task, assigned, claims, att, worker>>
  /\ UNCHANGED <<deps, ckpt, link, output, ws, wsBy, persistent, proc, kind,
                 out, permits, tracked, cont, op, canc, dec, stop, pauses, calls>>

DelegateSpawn(t, w) ==
  /\ adm = <<"spawn", t, w>> /\ adm' = Free
  /\ Spawn(t, "delegate")
  /\ UNCHANGED <<db, out, permits, cont, op, canc, dec, stop, pauses, calls>>

\* The parent run is cancelled inside delegate, or a later contract of the
\* same call is refused: what is stored stays.
DelegateAbort ==
  /\ adm # Free /\ adm' = Free /\ Call
  /\ UNCHANGED <<db, proc, kind, out, permits, tracked, cont, op, canc, dec, stop,
                 pauses>>

-----------------------------------------------------------------------------
(* The process of a task: _run_one around the runner's _execute, and        *)
(* continue_child around resume_approval.                                   *)

quiet == <<deps, claims, ws, wsBy, persistent, canc, dec, stop, adm, calls>>

\* The process ends.  Those of assign_agent_task and resume_agent still run
\* _run_next_for_worker; the entry in _tasks goes with the last step.
Leave(t) ==
  /\ proc' = Set(proc, t, "off") /\ permits' = permits \ {t}
  /\ IF kind[t] \in {"assign", "resume"}
     THEN /\ op' = Set(op, t, At("next", {}, <<>>, FALSE))
          /\ tracked' = IF tracked[t] = "proc" THEN Set(tracked, t, "tail") ELSE tracked
     ELSE op' = op /\ tracked' = Set(tracked, t, "none")
  /\ kind' = Set(kind, t, "none") /\ out' = Set(out, t, "none")

Stay(t, pc) ==
  /\ proc' = Set(proc, t, pc) /\ UNCHANGED <<permits, op, tracked, kind, out>>

\* The process will record the outcome o, beginning with the task's state.
Record(t, o) ==
  /\ proc' = Set(proc, t, "state") /\ out' = Set(out, t, o)
  /\ UNCHANGED <<permits, op, tracked, kind>>

\* The semaphore is entered and start_attempt reopens all three rows; a
\* continuation needs the child kept in _suspended.
Acquire(t) ==
  /\ proc[t] = "queued" /\ Cardinality(permits) < MaxConcurrency
  /\ \/ /\ kind[t] # "continue" /\ att[t] = "created"
        /\ att' = Set(att, t, "running") /\ task' = Set(task, t, "running")
        /\ SetWorker(assigned[t], "running")
        /\ proc' = Set(proc, t, "open") /\ permits' = permits \union {t}
        /\ UNCHANGED <<op, tracked, kind, out>>
     \/ /\ kind[t] # "continue" /\ att[t] # "created"
        /\ Leave(t) /\ UNCHANGED <<att, task, worker>>
     \/ /\ kind[t] = "continue" /\ t \in cont /\ CanSet(t, "running")
        /\ task' = Set(task, t, "running")
        /\ proc' = Set(proc, t, "child") /\ permits' = permits \union {t}
        /\ UNCHANGED <<att, worker, op, tracked, kind, out>>
     \/ /\ kind[t] = "continue" /\ (t \notin cont \/ ~CanSet(t, "running"))
        /\ Leave(t) /\ UNCHANGED <<att, task, worker>>
  /\ UNCHANGED <<assigned, ckpt, link, output, cont, pauses, quiet>>

\* _execute: the child application is open, checkpoint_attempt commits.
Open(t) ==
  /\ proc[t] = "open" /\ ckpt' = Set(ckpt, t, TRUE) /\ Stay(t, "child")
  /\ UNCHANGED <<task, assigned, att, link, output, worker, cont, pauses, quiet>>

\* _authorize: an interactive approval inside the child's run.
Ask(t) ==
  /\ proc[t] = "child" /\ CanSet(t, "waiting_approval")
  /\ task' = Set(task, t, "waiting_approval") /\ Stay(t, "asking")
  /\ UNCHANGED <<assigned, att, ckpt, link, output, worker, cont, pauses, quiet>>

Reopened(t) == IF task[t] = "waiting_approval" THEN Set(task, t, "running") ELSE task

Answered(t) ==
  /\ proc[t] = "asking" /\ task' = Reopened(t) /\ Stay(t, "child")
  /\ UNCHANGED <<assigned, att, ckpt, link, output, worker, cont, pauses, quiet>>

\* _record_pending, first part: the child is kept, the task waits.
Pause(t) ==
  /\ proc[t] = "child" /\ pauses < MaxPauses /\ CanSet(t, "waiting_approval")
  /\ cont' = cont \union {t} /\ task' = Set(task, t, "waiting_approval")
  /\ ckpt' = Set(ckpt, t, TRUE) /\ pauses' = pauses + 1
  /\ Stay(t, "linking")
  /\ UNCHANGED <<assigned, att, link, output, worker, quiet>>

\* _record_pending, second part: the proxy action and its link.
LinkApproval(t) ==
  /\ proc[t] = "linking" /\ AddLink(t) /\ Stay(t, "pausing")
  /\ UNCHANGED <<task, assigned, att, ckpt, output, worker, cont, pauses, quiet>>

\* ChildApprovalPending: finish_attempt(suspended).
Suspend(t) ==
  /\ proc[t] = "pausing" /\ FinishAttempt(t, "suspended") /\ Leave(t)
  /\ UNCHANGED <<assigned, ckpt, link, output, cont, pauses, quiet>>

\* The child answers and its output is verified and published.
Succeed(t) ==
  /\ proc[t] = "child" /\ CanSet(t, "running")
  /\ Record(t, "completed") /\ cont' = cont \ {t}
  /\ UNCHANGED <<task, assigned, att, ckpt, link, output, worker, pauses, quiet>>

\* The child fails, or its output is rejected; it must fail when the task
\* cannot be set running.  A continuation catches only the second.
Fail(t) ==
  /\ IF CanSet(t, "running") THEN Call ELSE UNCHANGED calls
  /\ \/ proc[t] = "open" /\ Record(t, "failed") /\ cont' = cont
     \/ proc[t] = "child" /\ Record(t, "failed") /\ cont' = cont \ {t}
     \/ proc[t] = "child" /\ kind[t] = "continue" /\ Leave(t) /\ cont' = cont
  /\ UNCHANGED <<task, assigned, att, ckpt, link, output, worker, pauses,
                 deps, claims, ws, wsBy, persistent, canc, dec, stop, adm>>

\* The first transaction of an ending: set_state, which _record_cancelled
\* skips for a task that is not active.
EndState(t) ==
  /\ proc[t] = "state"
  /\ \/ /\ out[t] = "cancelled" /\ task[t] \notin Active
        /\ Stay(t, "output") /\ task' = task
     \/ /\ out[t] # "cancelled" /\ ~CanSet(t, out[t]) /\ Leave(t) /\ task' = task
     \/ /\ CanSet(t, out[t]) /\ (out[t] = "cancelled" => task[t] \in Active)
        /\ task' = Set(task, t, out[t]) /\ Stay(t, "output")
  /\ UNCHANGED <<assigned, att, ckpt, link, output, worker, cont, pauses, quiet>>

\* record_output: one row per task.
EndOutput(t) ==
  /\ proc[t] = "output"
  /\ \/ output[t] = "none" /\ output' = Set(output, t, out[t]) /\ Stay(t, "finish")
     \/ /\ output[t] # "none" /\ output' = output
        /\ IF out[t] = "cancelled" THEN Stay(t, "finish") ELSE Leave(t)
  /\ UNCHANGED <<task, assigned, att, ckpt, link, worker, cont, pauses, quiet>>

\* finish_attempt; _run_one removes the workspace of a delegate that succeeded.
EndFinish(t) ==
  /\ proc[t] = "finish" /\ FinishAttempt(t, out[t]) /\ Leave(t)
  /\ ws' = IF out[t] = "completed" /\ kind[t] # "continue" /\ ~persistent[assigned[t]]
           THEN Set(ws, t, "cleaned") ELSE ws
  /\ UNCHANGED <<deps, assigned, claims, ckpt, link, output, wsBy, persistent, cont,
                 canc, dec, stop, adm, pauses, calls>>

\* _run_next_for_worker, in the process that ends.
RunNext(t) ==
  /\ op[t].pc = "next"
  /\ LET w == assigned[t]
         mine == {x \in Task : assigned[x] = w /\ task[x] = "created"}
     IN \/ /\ ~(persistent[w] /\ worker[w] = "idle")
           /\ op' = Set(op, t, Done(t))
        \/ /\ persistent[w] /\ worker[w] = "idle" /\ mine = {}
           /\ op' = Set(op, t, At("schedule", {}, <<>>, FALSE))
        \/ /\ persistent[w] /\ worker[w] = "idle"
           /\ \E x \in mine : op' = Set(op, t, Try(x, w, TRUE))
  /\ UNCHANGED <<db, proc, kind, tracked, rest>>

\* The done callback removes _tasks[t] by its key, whatever is there now.
TailDone(t) ==
  /\ op[t].pc = "end"
  /\ op' = Set(op, t, Idle) /\ tracked' = Set(tracked, t, "none")
  /\ UNCHANGED <<db, proc, kind, rest>>

-----------------------------------------------------------------------------
(* cancel and _record_cancelled.                                            *)

Unstarted == {"created", "claimed"}

\* CancelledError reaches the process where it waits.  _run_one catches it
\* around the runner only, delegate's wrapper while the task has not started;
\* _authorize reopens the task on the way out; a continuation never catches
\* it.
Deliver(t) ==
  \/ /\ proc[t] = "off" /\ op[t].pc # "off" /\ op' = Set(op, t, Done(t))
     /\ UNCHANGED <<proc, kind, out, permits, tracked, task>>
  \/ /\ proc[t] = "queued" /\ UNCHANGED task
     /\ IF kind[t] = "delegate" /\ task[t] \in Unstarted
        THEN Record(t, "cancelled") ELSE Leave(t)
  \/ /\ proc[t] \in {"open", "child", "asking", "linking"}
     /\ IF kind[t] = "continue" THEN Leave(t) ELSE Record(t, "cancelled")
     /\ task' = IF proc[t] = "asking" THEN Reopened(t) ELSE task
  \/ proc[t] \in {"pausing", "state", "output", "finish"} /\ Leave(t) /\ UNCHANGED task

calm == <<deps, assigned, att, claims, ckpt, link, output, ws, wsBy, worker,
          persistent, dec, adm, pauses>>

\* cancel: a process that is still in _tasks is interrupted and awaited, any
\* other active task gives up its continuation and is recorded as cancelled.
CancelBegin(t) ==
  /\ canc[t] \in {"off", "wait"}
  /\ \/ /\ tracked[t] # "none" /\ Deliver(t)
        /\ canc' = Set(canc, t, "wait") /\ UNCHANGED cont
     \/ /\ tracked[t] = "none" /\ canc[t] = "off" /\ task[t] \in Active
        /\ cont' = cont \ {t} /\ canc' = Set(canc, t, "state")
        /\ UNCHANGED <<proc, kind, out, permits, tracked, op, task>>
  /\ UNCHANGED calm

Cancel(t) == CancelBegin(t) /\ Call /\ UNCHANGED stop

\* The process has ended; a task it never started is recorded here.
CancelWaited(t) ==
  /\ canc[t] = "wait" /\ proc[t] = "off" /\ tracked[t] = "none"
  /\ canc' = Set(canc, t, IF task[t] \in Unstarted THEN "state" ELSE "off")
  /\ UNCHANGED <<db, proc, kind, out, permits, tracked, cont, op, dec, stop, adm,
                 pauses, calls>>

\* The three transactions of _record_cancelled, in the caller of cancel.
CancelState(t) ==
  /\ canc[t] = "state" /\ canc' = Set(canc, t, "output")
  /\ task' = IF task[t] \in Active THEN Set(task, t, "cancelled") ELSE task
  /\ UNCHANGED <<calm, proc, kind, out, permits, tracked, cont, op, stop, calls>>

CancelOutput(t) ==
  /\ canc[t] = "output" /\ canc' = Set(canc, t, "finish")
  /\ output' = IF output[t] = "none" THEN Set(output, t, "cancelled") ELSE output
  /\ UNCHANGED <<task, deps, assigned, att, claims, ckpt, link, ws, wsBy,
                 worker, persistent, proc, kind, out, permits, tracked, cont, op, dec,
                 stop, adm, pauses, calls>>

CancelFinish(t) ==
  /\ canc[t] = "finish" /\ canc' = Set(canc, t, "off")
  /\ FinishAttempt(t, "cancelled")
  /\ UNCHANGED <<deps, assigned, claims, ckpt, link, output, ws, wsBy, persistent,
                 proc, kind, out, permits, tracked, cont, op, dec, stop, adm,
                 pauses, calls>>

-----------------------------------------------------------------------------
(* Approvals, workers, workspaces, restarts.                                *)

\* decide_child_approval decides the link in one transaction ...
Decide(t) ==
  /\ DecideLink(t) /\ dec' = dec \union {t}
  /\ UNCHANGED <<task, deps, assigned, att, claims, ckpt, output, ws, wsBy,
                 worker, persistent, proc, kind, out, permits, tracked, cont, op, canc,
                 stop, adm, pauses, calls>>

\* ... and reopens the attempt in the next, or raises.
ResumableAlsoRunning(t) == att[t] \in {"running", "suspended"}
Resumable(t) == att[t] = "suspended"

DecideResume(t) ==
  /\ t \in dec /\ dec' = dec \ {t}
  /\ \/ /\ Resumable(t) /\ att' = Set(att, t, "running")
        /\ task' = Reopened(t) /\ SetWorker(assigned[t], "running")
        /\ Spawn(t, "continue")
     \/ /\ ~Resumable(t)
        /\ UNCHANGED <<att, task, worker, proc, kind, tracked>>
  /\ UNCHANGED <<deps, assigned, claims, ckpt, link, output, ws, wsBy,
                 persistent, out, permits, cont, op, canc, stop, adm, pauses, calls>>

\* The worker's workspace rows are marked and the worker's row is stopped.
Stopped(w) ==
  /\ ws' = [t \in Task |-> IF wsBy[t] = w THEN "cleaned" ELSE ws[t]]
  /\ SetWorker(w, "stopped")
  /\ UNCHANGED <<task, deps, assigned, att, claims, ckpt, link, output, wsBy,
                 persistent, proc, kind, out, permits, tracked, cont, op, canc, dec,
                 adm, pauses>>

ActiveOf(w) == {t \in Task : assigned[t] = w /\ task[t] \in Active}

\* stop_agent: one active task of the worker is cancelled first.
StopAgent(w) ==
  /\ worker[w] # "none" /\ stop[w] = {} /\ Call
  /\ \/ /\ ActiveOf(w) = {} /\ Stopped(w) /\ UNCHANGED stop
     \/ \E t \in ActiveOf(w) : CancelBegin(t) /\ stop' = Set(stop, w, {t})

StopEnd(w) ==
  /\ stop[w] # {} /\ \A t \in stop[w] : canc[t] = "off"
  /\ Stopped(w) /\ stop' = Set(stop, w, {}) /\ UNCHANGED calls

\* prepare_resume_attempt: the interrupted attempt is reopened.
PrepareResume(t) ==
  /\ task[t] = "interrupted" /\ att[t] = "interrupted"
  /\ worker[assigned[t]] = "interrupted" /\ ckpt[t]
  /\ att' = Set(att, t, "created") /\ task' = Set(task, t, "claimed")
  /\ SetWorker(assigned[t], "starting")

\* resume_agent
ResumeAgent(t) ==
  /\ ws[t] = "open" /\ PrepareResume(t) /\ Spawn(t, "resume")
  /\ UNCHANGED <<deps, assigned, claims, ckpt, link, output, ws, wsBy,
                 persistent, rest, op>>

\* cleanup refuses some of the active states.
Cleanup(t) ==
  /\ task[t] \notin {"none", "created", "running", "waiting_approval"}
  /\ ws[t] = "open" /\ ws' = Set(ws, t, "cleaned") /\ Call
  /\ UNCHANGED <<task, deps, assigned, att, claims, ckpt, link, output, wsBy,
                 worker, persistent, mem, pauses>>

InterruptibleRunning == {"created", "running"}
Interruptible == {"created", "running", "suspended"}

\* The application dies; the next one that owns the workspace runs
\* interrupt_active.
Crash ==
  /\ Call
  /\ task' = [t \in Task |-> IF task[t] \in Active THEN "interrupted" ELSE task[t]]
  /\ att' = [t \in Task |-> IF att[t] \in Interruptible
                           THEN "interrupted" ELSE att[t]]
  /\ worker' = [w \in Worker |->
                  IF worker[w] \in {"starting", "running", "waiting_approval"}
                  THEN "interrupted" ELSE worker[w]]
  /\ proc' = [t \in Task |-> "off"] /\ kind' = [t \in Task |-> "none"]
  /\ out' = [t \in Task |-> "none"] /\ permits' = {}
  /\ tracked' = [t \in Task |-> "none"] /\ cont' = {}
  /\ op' = [c \in Caller |-> Idle] /\ canc' = [t \in Task |-> "off"]
  /\ dec' = {} /\ stop' = [w \in Worker |-> {}] /\ adm' = Free
  /\ UNCHANGED <<deps, assigned, claims, ckpt, link, output, ws, wsBy,
                 persistent, pauses>>

\* Nobody is at work: no process, caller, canceller, decider or admission.
Quiescent ==
  /\ \A t \in Task : proc[t] = "off" /\ canc[t] = "off"
  /\ \A c \in Caller : op[c] = Idle
  /\ \A w \in Worker : stop[w] = {}
  /\ dec = {} /\ adm = Free

Rest == Quiescent /\ UNCHANGED vars

-----------------------------------------------------------------------------
Next ==
  \/ \E w \in Worker : StartAgent(w) \/ StopAgent(w) \/ StopEnd(w)
  \/ \E t \in Task, w \in Worker : ToolAssign(t, w) \/ DelegateWorker(t, w)
                                  \/ FollowUpAgent(t, w) \/ DelegateTask(t, w)
                                  \/ DelegateClaim(t, w) \/ DelegateSpawn(t, w)
  \/ \E t \in Task, w \in Worker \union {NoWorker}, d \in SUBSET Task :
       CreateAgentTask(t, d, w)
  \/ DelegateAbort
  \/ \E c \in Caller : OpSchedule(c) \/ OpPick(c)
  \/ \E c \in Caller, t \in Task, w \in Worker : OpAttach(c, t, w) \/ OpClaim(c, t, w)
  \/ \E t \in Task :
       \/ Acquire(t) \/ Open(t) \/ Ask(t) \/ Answered(t) \/ Pause(t)
       \/ LinkApproval(t) \/ Suspend(t) \/ Succeed(t) \/ Fail(t)
       \/ EndState(t) \/ EndOutput(t) \/ EndFinish(t) \/ RunNext(t) \/ TailDone(t)
       \/ Cancel(t) \/ CancelWaited(t) \/ CancelState(t) \/ CancelOutput(t)
       \/ CancelFinish(t) \/ Decide(t) \/ DecideResume(t) \/ ResumeAgent(t)
       \/ Cleanup(t)
  \/ Crash \/ Rest

Spec == Init /\ [][Next]_vars

-----------------------------------------------------------------------------
(* Properties.                                                              *)

\* Every column holds a state of its table, every caller a point of its code.
RowTypes ==
  /\ task \in [Task -> TaskState] /\ deps \in [Task -> SUBSET Task]
  /\ assigned \in [Task -> Worker \union {NoWorker}] /\ att \in [Task -> Attempt]
  /\ claims \in [Task -> Nat] /\ ckpt \in [Task -> BOOLEAN]
  /\ link \in [Task -> {"none", "pending", "decided"}]
  /\ output \in [Task -> {"none"} \union Ended]
  /\ ws \in [Task -> {"none", "open", "cleaned"}]
  /\ wsBy \in [Task -> Worker \union {NoWorker}]
  /\ worker \in [Worker -> {"none", "idle", "starting", "running", "waiting_approval",
                            "interrupted", "stopped"}]
  /\ persistent \in [Worker -> BOOLEAN]

ProcTypes ==
  /\ proc \in [Task -> {"off", "queued", "open", "child", "asking", "linking",
                        "pausing", "state", "output", "finish"}]
  /\ kind \in [Task -> {"none", "assign", "delegate", "resume", "continue"}]
  /\ out \in [Task -> {"none"} \union Ended]
  /\ permits \subseteq Task /\ cont \subseteq Task /\ dec \subseteq Task
  /\ tracked \in [Task -> {"none", "proc", "tail"}]

CallerState ==
  [pc : {"off", "next", "schedule", "pick", "attach", "claim", "end"},
   q : SUBSET (Task \X Worker), p : (Task \X Worker) \union {<<>>},
   first : BOOLEAN]

CallTypes ==
  /\ op \in [Caller -> CallerState]
  /\ canc \in [Task -> {"off", "wait", "state", "output", "finish"}]
  /\ stop \in [Worker -> SUBSET Task]
  /\ adm = Free \/ adm \in {"task", "claim", "spawn"} \X Task \X Worker
  /\ pauses \in 0 .. MaxPauses /\ calls \in 0 .. MaxCalls

TypeOK == RowTypes /\ ProcTypes /\ CallTypes

\* An ended attempt is the last word on its task: no late transaction of the
\* process, of a canceller or of a decider moves the task away, and a
\* completed attempt has its verified output.  A task is claimed once, however
\* many callers assign it and however often the application restarts: its
\* only attempt is reopened, never repeated.
AttemptsAgree ==
  /\ TypeOK
  /\ \A t \in Task :
       /\ claims[t] <= 1
       /\ att[t] \in Ended => task[t] = att[t]
       /\ att[t] = "completed" => output[t] = "completed"

\* A worker whose row says it is busy has an attempt that is open; otherwise
\* _run_next_for_worker and _schedule_team never give it work again.  And a
\* suspended attempt still has the child application it will continue in,
\* unless the task is being cancelled.
WorkersAgree ==
  /\ \A w \in Worker :
       worker[w] \in {"starting", "running", "waiting_approval"} =>
         \E t \in Task :
            assigned[t] = w /\ att[t] \in {"created", "running", "suspended"}
  /\ \A t \in Task : att[t] = "suspended" => t \in cont \/ canc[t] # "off"

\* No second process is started for a task whose process has not ended, not
\* even while that one still waits for the semaphore.
OneProcess ==
  [][\A t \in Task : proc[t] # "off" /\ proc'[t] = "queued" =>
       proc[t] = "queued" /\ kind'[t] = kind[t]]_vars
=============================================================================
