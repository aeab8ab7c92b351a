# A TLA+ model of CapsLock

CapsLock is an interactive coding agent: a Python program that keeps its work in
SQLite, runs a model in a tool loop, pauses when a tool needs an approval or an
answer, and lets agents write to each other.  What is hard in it is not any
single function but the order of steps: several asyncio tasks, two databases,
cancellation at any `await`, and a process that can die and start again.  These
modules model the parts of the program that keep state, check them with TLC on
small instances, and prove every safety property that the passing runs check with
TLAPS, for instances of any size (three of them for the case named under
"Assumptions").

Paths below are relative to `src/capslock/`.

## The system and its parts

| part | state | operations | interacts with |
| --- | --- | --- | --- |
| foreground controller (`application/foreground.py`) | deque of items, active item and task, `_idle`, shutdown flag | submit, enqueue, recall, cancel, start_queued, retry, shutdown, worker | run engine; terminals and app server call it and consume its events |
| run execution (`runtime/agent.py`, `engine.py`, `session_services.py`, `run_support.py`) | one task per run, engine lock | start, tool loop, pause, finish, fail, resume, decide a permission | workflow unit of work, journal, mailbox receiver |
| tool loop (`runtime/tool_loop.py`, `tool_invocation.py`) | live context, step checkpoints | poll, model step, tool batch, pause, finish | journal, action system, permission middleware |
| workflow unit of work (`storage/repositories/workflow_uow.py`, `application/workflow.py`) | `work_items`, `runs`, `run_events` | start_run, finalize, pause, resume_paused, settle_approval, cancel_waiting(_action) | everything that changes a run's status |
| action system (`application/action_system/`) | `actions` | propose, approve, execute, reject, record a cancellation | handlers with effects outside the program |
| run journal (`storage/repositories/journal/`) | `run_steps`, `tool_invocations`, `tool_input_requests`, `permission_requests`, `permission_grants` | create, pause, answer, decide, complete, consume, recover | tool loop, workflow |
| agent mailbox (`runtime/mailbox.py`, `storage/repositories/mailbox.py`, `collaboration/wakeup.py`, `components.py`) | `agent_mailbox` in the workspace database, receipts in the recipient's, registry in memory | send, notify, receive, poll, read by tool, acknowledge, finish, close | senders, tool loop |
| collaboration (`collaboration/service.py`, `runner.py`, `storage/repositories/collaboration.py`) | teams, workers, tasks, attempts, approval links, budget ledger | create, claim, start, checkpoint, finish, resume, decide a child's approval | child sessions, parent run, mailbox |
| budgets (`runtime/governance.py`, `storage/repositories/governance.py`) | limits, usage and history of a run, its saved snapshot, children's reservations | begin and finish a call, reserve, settle, extend, continue | tool loop, collaboration |
| model routing (`runtime/routing.py`, `storage/repositories/models.py`) | rows of model calls, tokens used by a chain of runs | plan, gate, attempt, settle, fall back | tool loop, providers |
| context and compaction (`runtime/context.py`, `storage/repositories/compactions.py`) | stored summaries and the active one, failures | build, prepare a round, compact, resume | run execution, memory |
| tool executor and delivery (`tooling/executor.py`, `runtime/tool_delivery.py`) | rows of a round's calls, batches | group, validate, run, judge, commit, repair | journal, permission engine |
| plan mode (`storage/repositories/plans.py`, `tooling/tools/plans.py`, `cli/plans.py`) | plans, revisions, requests, implementations | enter, edit, submit, decide, implement, reconcile | workflow, controller |
| permission engine (`tooling/permission_policy/`) | rule files, session rules, trust in the project's file | decide, add, remove, apply a preset, trust | tool executor, every process of the workspace |
| memory (`memory/`, `storage/memory_repositories/`) | memories, revisions, index, accesses, jobs, candidates | create, edit, undo, purge, recall, consolidate, extract, adopt | runs, every process of the user |
| lifecycle (`lifecycle/`) | two databases, journal, recovery backups | import, restore, repair | storage |
| storage core (`storage/async_database.py`, `ownership.py`, `upgrades.py`) | file, lease, backups | open, upgrade, restore, recover, close | everything |
| artifacts (`storage/artifacts.py`), task list (`storage/repositories/misc.py`) | files and rows; tasks and dependencies | put, quarantine, delete; create, update | tools, sessions |
| sessions and rewind (`storage/repositories/sessions.py`, `cli/command_handlers/rewind.py`) | runs, messages, changes of files | undo, branch, rewind | files, compaction |
| child workspaces and file actions (`collaboration/workspace.py`, `application/action_system/files.py`) | snapshots, the parent's files | snapshot, verify, publish, roll back, edit, create, undo | workspace lock |
| worktrees and commands (`application/action_system/worktrees.py`, `commands.py`, `shell/processes.py`) | the session's root, processes | create, keep, remove; run, poll, stop, cancel | Git, the operating system |
| application life cycle (`bootstrap.py`, `composition/`) | an exit stack, the components it has opened, references of the workspace lease | open, unwind, close | everything; children open applications of their own |
| plugins, MCP, LSP (`plugins/`, `mcp/`, `lsp/`) | processes, pools, registry and grants | call, restart, reload, enable, uninstall | external programs |
| skills, configuration, other tools, command line, evaluation | see `PROJECT.json` | | |

`PROJECT.json` lists every part with its status; `hazards` there lists what can
go wrong at which line, and which property would notice.

What makes each part correct, in short: the controller serves every item once
and lets go of everything when it closes; a run, its work item and its last
event agree at all times and an ended run stays ended; what an action's record
says is what happened; a paused run can be continued; a message between
agents is neither lost nor repeated, whatever dies when; a child's task has
one attempt, whose end is the task's end; what the model is shown is its
conversation, within its limits; what was approved, and nothing else, is done;
and several steps that belong together (an upgrade, an import, a rewind, a
publication) happen together or not at all.

## Modules

| module | models | extends |
| --- | --- | --- |
| `MailboxContract` | the promise of `docs/agent-communication.md`: sent, then saved, then acknowledged | - |
| `Mailbox` | one address: senders, registry, receiver, tool loop, timer, crashes | - |
| `MailboxProofs` | theorems about `Mailbox`, and that it implements `MailboxContract` | `Mailbox`, TLAPS |
| `Workflow` | one work item and its run: transactions, the run's task, actions, requests, deciders, crashes | - |
| `Foreground` | the controller, its worker and its clients | - |
| `Team` | tasks of child agents: attempts, workers, approvals, cancellation, restarts | - |
| `MemoryStore`, `MemoryJobs` | memories and their index; the queue that extracts them | - |
| `Database`, `Lifecycle`, `Artifacts` | opening and upgrading; importing; files shared by rows | - |
| `Tasks`, `Rewind` | the task list; taking a session and its files back | - |
| `Context`, `Budget`, `Routing` | what the model is sent, how much may be done, who answers | - |
| `Plans`, `Permissions`, `ToolRound` | plan mode, rules, the calls of one model answer | - |
| `Publish`, `Worktree`, `Shell` | writes to the workspace, roots of a session, commands | - |
| `Application` | opening and closing applications that share a process and its lease | - |
| `PluginPool`, `PluginGrants`, `Mcp`, `Lsp` | external programs | - |
| `WorkflowProofs`, `ForegroundProofs`, `TeamProofs` | theorems about the module of that name | it, TLAPS |
| `Stores` | `MemoryStore`, `MemoryJobs`, `Database`, `Lifecycle`, `Artifacts` and `Tasks` side by side | instantiates them |
| `Session` | `Context`, `Budget`, `Routing`, `Plans`, `Permissions`, `ToolRound` and `Rewind` side by side | instantiates them |
| `Tools` | `Publish`, `Worktree`, `Shell`, `Application`, `PluginPool`, `PluginGrants`, `Mcp` and `Lsp` side by side | instantiates them |
| `ToolsProofs` | theorems about the components of `Tools` | `Tools`, TLAPS |
| `StoresProofs` | theorems about the components of `Stores` | `Stores`, TLAPS |
| `SessionProofs` | theorems about the `Permissions`, `Plans`, `Routing` and `ToolRound` of `Session` | `Session`, TLAPS |
| `HistoryProofs` | theorems about the `Rewind`, `Budget` and `Context` of `Session` | `SessionProofs` |
| `MCMailbox`, `MCWorkflow`, `MCForeground`, `MCTeam`, `MCStores`, `MCSession`, `MCTools` | small instances for TLC | the module of that name |

Definitions whose name appears as `"as"` in `PROJECT.json` (`TrimNewest`,
`EndRunAlways`, ...) are deliberate faults.  Nothing uses them; they stand
beside the definition they would replace and show that a property notices.

### Mailbox

A context is a bag of messages (how often each message is in it); `messages` is
the live one, `ckpt` the last stable checkpoint of the run, `archived` what
stable checkpoints of older runs hold.  The workspace database (`created`,
`acked`) and the recipient's (`ids`, `hist`, `ckpt`) are different files, so
`PollCommit`, `PollDeliver` and `ReceiverAck` are three steps with a possible
`Crash` between any two.  `op` is the operation that holds the receiver's
`_lock` and `pc` where it is, so the timer and the loop interleave exactly at
the code's awaits; `lk` is `mailbox_lock(address)`.  The revision counters of
the registry are abstracted to `dirty`: the set of observers (the receiver's
`_version`, the local snapshot of `_receive`, the one of `try_finish`) whose
value differs from the current one, which is all the code ever asks of them.
The 64 KiB bound may cut a batch anywhere after its first message, and the
context budget may stop a delivery anywhere (`BudgetBinds`).  A run that
completes has read its mail (`FinishDrains`): every actionable message that was
inserted before the address closed, and every one whose sender was told that
the receiver is active, is saved (`Drained`), unless the last read returned
nothing but mail whose acknowledgement was lost while `_has_more` says that
there is a backlog (`Backlog`).

Not modelled: the task scope filter, messages of kind `cancel`, suspended
delivery, `wait_for_message`, and rows of the old status `delivered`.

### Workflow

Every action is one transaction, or one stretch of code between two awaits.
`loop` is the run's own task; `dpc[d]` is where decider `d` is: a slash command
(the fullscreen terminal lets the next command cancel the one before), the
dialog of the paused run (`"modal"`), or the run's task itself when it asks an
authorizer.  `performed` and `invoked` count effects outside the database.
`Interrupt` cancels a decider at an await, `Abort` and `Abandon` the run's
task, `Crash` ends the process and runs the recovery of the next start.
`calm`, chosen once in `Init`, says that commands are never interrupted and the
process never crashes; the second half of `ContinuationComplete` and
`StreamSettlesRun` speak of that case, everything else of both.  Child
agents appear through their proxy actions (`Child`): deciding the link lets the
child go on, and only then does the proxy move.

Not modelled here: plan requests (`Plans`), the contents of results, usage
and cost.

### Foreground

`lock` is held only by clients that keep `_queue_changed` across a database
call (`recall_latest`, `cancel`); every other critical section is one action.
`frontEnd`, chosen once in `Init` from `FrontEnd`, is the client: the terminals answer inside the consumer and
call `enqueue_item` there, the app server waits for the item to leave
(`wait_item`) first.  The run inside the worker is the abstraction of
`Workflow` that the controller can see: it starts, pauses, ends, is refused or
is cancelled.  A retry, and the implementation item a finished plan enqueues,
are submissions like any other.

### Team

A row of `agent_tasks`, of its attempt, of its worker, of its output and of its
workspace are functions of the task or worker; every transaction of
`storage/repositories/collaboration.py` is one action or part of one.  `proc[t]`
is where the task's process is: `queued` at the semaphore, `open` while the
child application opens, `child` while it runs, `asking` in `_authorize`,
`linking` and `pausing` in `_record_pending` and after it, then the three
transactions of an ending (`state`, `output`, `finish`).  `op[c]` is where a
caller is inside `assign_agent_task` or `_schedule_team`: the tool, or a process
that ends and looks for the next task (`_run_next_for_worker`).  `canc[t]` is
where a call of `cancel` is, `dec` holds the approvals whose link is decided and
whose attempt is not reopened yet, `adm` is `_admission_lock` with the point
`delegate` has reached.  `tracked[t]` says what `_tasks` holds under the key
`t`, because the done callback removes whatever is there.

`FinishOver` writes attempt, task and worker whatever the last two are, as
`finish_attempt` does; `CanSet` is the check of `set_state`, and both are used
by the process and by cancellers at the same time.  Where the code takes the
oldest or the most urgent task the model takes any.

Not modelled: the budget ledger (`Budget`), contract digests and profiles, several
contracts in one delegation (a later one that is refused is `DelegateAbort`),
workspaces of mode `shared_read`, and more than one approval per pause.

### What the model is told and may do: Context, Budget, Routing, ToolRound

`Context`: a text is the set of turns and rounds it tells about, and a size.
`active` is the summary `session_context_state` points to; a stored summary is
used again only for the same memory revision, model and policy (`Usable`),
`BuildActive`, `BuildFull` and `BuildCompacted` follow the order of the code
(reuse, send all, summarise, give up), and `Checkpoint` compacts the rounds of
the run itself between two requests.  A purge
can fall between the reading of the exclusions and of the revision; such
contexts are marked `raced` and the exactness property does not speak of them.

`Budget`: `gov` is the governor in memory, `saved` its row, `kids` the
reservations of child attempts.  A call is admitted against what is left after
reservations (`AvailableCalls`), the history of calls is examined for failures,
repeats and cycles, and a continuation starts from the saved snapshot.
`Delegate` fixes the shares of several children and `ClaimShared` reserves them
one by one; `PlanTask` fixes a share that `ClaimTask` or `Reopen` reserve later
without a check (`loose` when it is no longer there).  Only a completed attempt
stores what it used (`FinishAttempt`), as in the code.  `WithinLimit` counts the
children that the ledger covers (`Counted`).

`Routing`: one call passes through profiles and attempts; the gate lets an
attempt start when its estimate and its capped output fit what is left, or when
the person at the terminal allows it, and the attempt's row is settled with
what the provider reports, which may be more than was estimated.  `used` and `base` are
the tokens the rows of this and of earlier runs record, `heard` the attempts
whose output reached the consumer, `excess` the largest error of an estimate so
far: `SpentWithinLimit` says that errors never add up.

`ToolRound`: `calls` holds for each call its kind, the row of its invocation
and whether its effect happened; batches of reading calls run in any order, an
acting call runs alone, results are committed in the model's order.  A time-out
or cancellation is classified by how far the executor had come (`Unsure`).  A
call of kind `edit` is a file tool, whose policy declares no effect although it
writes (`tooling/contracts.py:133`): what it reports when it fails is its own.

### Approval and rules: Plans, Permissions

`Plans` has the tables of plan mode, `model` for what the model read last and
`user` for the slash command between its steps (show, confirm, decide); every
operation of `PlanRepository` that writes is an action or part of one.  A
revision is its text, so the digest that `submit` compares is the text.

`Permissions`: a rule covers a set of calls; deciding goes through hard checks,
restrictions, modes and allowances in the code's order.  A file is updated in
two steps by a client; `kept` remembers the restrictions people added.

### Rows, files and indexes: MemoryStore, MemoryJobs, Database, Lifecycle, Artifacts, Tasks, Rewind

`MemoryStore` has the tables of one memory database and the triggers of its
index; commands read first and write later (`cmd`, `tidy`).  `MemoryJobs` has
the job, the drain tasks that may run in several processes, and the candidate
between storing, adopting and review.  `Database` opens, leases, upgrades,
restores and recovers one file; rows are marks.  `Lifecycle` merges an archive
into two databases, then commits, restores or repairs.  Each kind of row that
the merge treats in its own way is one table with an archived row and at most
one local row of the same id: a record is imported, skipped, remapped or
blocked (`Disposition`); references are rewritten before it is compared
(`Rewritten`), afterwards in rows that were skipped as well (`RewriteDeferred`,
`Rebind`), and archived mail always differs from a local mail that is active,
because it comes suspended.  `Artifacts`
has one file per content and one row per session and content, with puts and
deletions in progress; a put that finds a row takes over its record
(`FoundRecord`).  `torn` is a file unlinked under a put or a row that came after
the deletion's look at the rows, `late` the puts that index from a record older
than a quarantine.  `Tasks` looks a task up and updates it later.
`Rewind` numbers writes, so that a restored file is the same file exactly when
it has the same number, and cuts runs, messages and the summary at a turn.  A
restore goes file by file (`RestoreFile`), remembers what it found (`Remember`),
marks the actions in one transaction (`MarkReversed`), and may be cancelled or
fail before or after that, while it puts the files back (`PutBack`), or die.

### Outside the program: Application, Publish, Worktree, Shell, PluginPool, PluginGrants, Mcp, Lsp

`Publish` and `Worktree` let the user's editor write at any moment beside the
code's own steps.  A publication that fails is undone file by file: a check, then
the backup takes the target's place, and either may raise (`CheckBack`,
`PutBack`, `CannotPutBack`); `aside` are the backups that stay, `stands` the
originals of files that stand replaced by a publication that did not end.
`Shell` has one process group per command; a time-out sends
TERM, waits and kills.  A template runs without sandbox and temporary directory;
only shell commands have them.  `Application` opens resources one by one, each pushed on
the exit stack (`stack`, `held`); any step of it may raise, which unwinds the
stack, or be cancelled, which the handler does not catch, so that nothing is
released.  Closing goes through the components in order (`todo`) and then
through the nested `finally` clauses: jobs (`drains`), workspace database with
its reference of the lease (`refs`), memory database.  `PluginPool` separates the lock of the table from the
lock of a session, because a caller may drop a session it does not hold.
`PluginGrants` has two files written by several workspaces.  A call reads the
registry, the grants and the package, hashes the package again, and spawns, each
in a step of its own, or is answered by the process its session keeps for the
digest (`Resident` are the digests of packages with that life cycle).  `Mcp` has one
server whose tools and configuration change; `Lsp` one server with its reader.
Processes, Git and servers are external and may do what their callers allow
for: answer late, in another order, or not at all, and die.

### The joint modules

The components of the last four groups share no state with one another, so
they are put side by side: in `Stores`, `Session` and `Tools` the variable
`focus` is chosen once in `Init` and names the component the behaviour is of;
that component's variables change as its module says, and those of the others
stay 0.  A component's parameters and variables have their names, except where
two would clash (`mcpCall`, `cmdProc`, `turnRuns`, ...; the `WITH` says which).
Each property says what it says of its component.  Nothing is composed by
this: the state space is the disjoint union of the components' state spaces.

## Runs

| run | instance | shows |
| --- | --- | --- |
| `mailbox_delivery` | 2 actionable messages and 1 that informs, batch of 2 with 1 priority slot, 2 runs, budget may refuse | no loss, no repetition, order, the finish barrier, and the refinement |
| `mailbox_sources` | 2 new messages and a receipt from before the upgrade, the model also reads mail by a tool | a tool's read and the automatic injection exclude each other within a process; old receipts are delivered once and never lost |
| `mailbox_live` | 2 messages, batch of 1, fairness | actionable mail reaches a checkpoint or the run ends |
| `workflow` | 2 actions, 1 child approval, 2 commands, 2 asking calls, calm and not | run, item, events, effects and continuations agree; when calm, no continuation is dead |
| `workflow_restart` | 1 action, 2 commands, 1 asking call | **violated**: a restart can strand a decided permission |
| `foreground` | 3 items, 1 pause each, both front ends | no duplicates, idle is quiet and quiet is idle, cancelled items never run, shutdown completes |
| `foreground_live` | 2 items, app server, fairness | every item is served, every answer resumes its run |
| `team` | 2 tasks that may depend on each other, 1 worker, 1 permit, 1 suspension, 2 interventions | one attempt and one process per task, ended attempts are final, no worker or continuation is lost |
| `stores` | 2 memories with 3 revisions each; 2 memories, 2 candidates, 1 drain task, 2 attempts; 2 processes, 1 child, 3 schema versions; 1 import with a crash, 7 kinds of row; 2 sessions and 3 puts; 3 tasks | indexes, adoption, upgrades, imports, artifacts and dependencies |
| `session` | 5 turns against room for less than 4, 1 round, 2 revisions; 2 calls, 2 children, 2 runs; 2 profiles, 1 retry, 2 runs, estimates wrong by 1; 2 plans, 2 texts, 2 requests; 3 calls, 2 rules; 3 calls in a round, 2 rounds; 2 paths, 2 runs, 3 writes, 1 rewind | contexts, budgets, routing, plans, rules, rounds and rewinds |
| `tools` | 2 paths, 1 child, 1 action; 3 callers, 2 processes; 2 calls, 2 connections, 1 change; 3 requests, 2 changes, 2 servers; 2 workspaces, 2 versions, 2 contents of which 1 is kept for the session, 4 commands; 2 worktrees, 2 jobs; 2 commands; 2 applications one after the other and 1 child | publications, replies, retries, grants, roots, processes and the end of an application |
| `worktree_remove` | 2 worktrees, 1 job, 2 pieces of work | **violated**: a commit made while a removal awaits approval is deleted |

**Bounds.**  Three messages with a batch of two make a batch overflow, a trim
of `_pending`, and mail of both kinds compete; two runs make every crash or
abort be followed by a restart.  Two asking calls let a second pause meet the
leftovers of the first, two commands let a cancelled one overlap the next, two
actions let one still run while the run is ended for the other, and
one child approval is enough to interleave its two commits with everything
else.  Two items suffice for the controller's queue against its active item, a
third makes recall and reinsertion positions differ; one pause per item makes
every item pass once through the dialog or the resume request.  Two tasks on
one worker make the tail of one process claim the other task while the tool
assigns it and a canceller ends it; the single permit makes them wait for each
other.  `MaxCalls` counts what comes from outside (`Call`): two of them let a
restart be followed by a resumption and a cancellation or a second
assignment, and a cancellation meet a stop.

In the joint modules: three revisions let an undo follow an edit and a purge
follow both, two memories let consolidation merge them; two attempts make a job
fail, be claimed again and succeed, two candidates let the second attempt store
what the first has stored (a second drain task only works on the job once
another process has recovered it, where the property is silent; the theorem has
any number of them); three schema versions make an
upgrade fail half-way; three puts let two share a content while the third is
of a session being deleted; three tasks make the shortest cycle that a check of
direct dependencies misses; five turns force a second summary on top of a
first; two calls for two children make a delegation of both fit exactly, and
whatever one gives back be taken by a call of the parent or by a task claimed
later; two paths let a restore of one file fail after the other; two profiles with one retry each reach every order of failure; three calls in a
round make a batch of two reads and an act after it; three callers over two
processes let one caller drop the session that a second waits for while a third
uses the new one.

**Conditions.**  Some constants leave out a case the code does not cover, so
that the rest can be checked; each is listed with what it hides under
"Observations": `Leased = TRUE` (Database), `MaxCrashes = 1` and one process
(Lifecycle), one client and `Legacy = FALSE` (Permissions).  Elsewhere the case
happens in the model, and a history says which file, command, put, child or
process it has spoiled, about which alone the property is then silent: `raced`
(Context, Rewind, Worktree), `torn` and `late` (Artifacts), `loose` and `late` (Budget),
`astray` (Rewind), `adrift` (Shell), `swapped` (PluginGrants) and
`crossed` (MemoryJobs).

**Fairness.**  Only what the event loop and the code guarantee: a task that can
run does run (weak fairness); `asyncio.Lock` is first in, first out, so whoever
waits for a lock that becomes free again and again obtains it (strong
fairness); a model request ends; the timer's sleep ends.  Nobody is obliged to
send, submit, answer, cancel or close, and crashes are never obliged to happen.

Deadlock is checked in the runs of `Mailbox`, `Workflow`, `Foreground` and
`Team`: the only states without a further step of the system are those in which
it may rest (`Quiescent`, `Rest`), so a shutdown, a receiver or a task at the
semaphore that waits for ever would be reported.  It is not checked in the
joint modules, whose components stop when their bounds are used up.

## What the violated runs show

| run | statement | behaviour |
| --- | --- | --- |
| `workflow_restart` | `docs/reference.md:25` | crash between a permission decision and its stored result |
| `worktree_remove` | `docs/sessions/v2.3.0.md:1417`, `:1179` | the state of a worktree is checked when its removal is proposed; what is committed before the approval is deleted by `branch -D` |

## Observations

Further definitions state what a document, a comment or a test says and do
**not** hold in the model.  They have no run of their own; each can be
reproduced by checking the property named here on the module named here.

| module, property | statement | behaviour |
| --- | --- | --- |
| `Mailbox`, `ManualNotInjectedAgain` (`ManualReads = TRUE`) | `tests/test_mailbox_receiver.py:138`, `docs/agent-communication.md:33` | a tool reads a message, a later call of the round pauses the run; the checkpoint has the message, `confirm_manual` was skipped, the resumed run injects it again |
| `Mailbox`, `FinishDrainsAlways` (4 actionable messages, `Limit = 3`, `MaxRuns = 2`) | `docs/agent-communication.md:7` | messages that a run saved and whose acknowledgements were lost fill the first batch of the next run, which completes without the mail behind them |
| `Workflow`, `StreamSettlesRun` | `docs/reference.md:277` | a cancellation inside an exception handler leaves the run `running` |
| `Foreground`, `AnsweredIsResumed` under a terminal | comment at `storage/repositories/workflow_uow.py:516` | `enqueue_item` finds the item still active and returns |
| `MemoryStore`, `StaleRunExcluded` | `docs/releases/v2.5.0.md:15` | a purge deletes the accesses that would exclude the run which saw the memory |
| `Database`, `UpgradeKeepsRows` with `Leased = FALSE` | - | the memory database has no lease: a failed upgrade restores its backup over rows another process wrote |
| `Lifecycle`, `ImportedTogether` with two crashes or two processes | `docs/sessions/v1.9.0.md:81`, `:311` | a second crash during the repair, or a command that does not look at the journal, leaves one database imported |
| `Context`, `ResumeKeepsContext` | `docs/releases/v2.7.3.md:10` | `normalize_checkpoint` drops the summary when a run is resumed |
| `Plans`, `ExitIsFinal` | the prompt at `cli/plans.py:48` | `/plan exit` leaves a pending submission, whose approval implements the plan |
| `Permissions`, `AmbiguousStaysAsk` with `Legacy = TRUE` | `README.md:188` | a rule that an old file held as ambiguous, and that was read as ask, allows once the file has been rewritten in the new version |
| `ToolRound`, `BarrierHolds` | `docs/sessions/v2.3.0.md:1302` | two calls of a batch of reads pause and meet the unique index on pending requests, or a call after the pause gets no answer |
| `Publish`, `PublishKeepsEdits` | docstring at `collaboration/workspace.py:194` | the snapshot copies a file and then reads the parent's file again for its digest: an edit in between is in the manifest, not in the copy, and the publication overwrites it |
| `PluginPool`, `OneCallPerProcess`, `NoStrayProcess` | `plugins/client.py:115`, `:216` | a caller that re-opens the session holds the old session's lock and shares the new process with the next; a cancellation during initialization leaves its process |
| `Mcp`, `OnlyAllowed`, `NoStrayConnection` | `mcp/manager.py:171` | a retry does not look at the new configuration; of two callers that connect at once one connection is left behind |
| `Lsp`, `SeesLastVersion` | `docs/sessions/v2.3.0.md:1382` | the text that an open or a change read is old when it is sent |
| `PluginGrants`, `NotRemovedWhileEnabled` | `plugins/service.py:151` | a lost update of the registry, or a crash between the two writes of `enable`, hides a workspace that has the package enabled |
| `Artifacts`, `QuarantineHolds` | `docs/development/v2/v2.7.md:51` | a text indexed before a later put quarantined it stays in the index |
| `Shell`, `CommandsContained` without its exception (`adrift`) | - | a cancellation during the grace period after a time-out skips the kill (`application/action_system/commands.py:273`), and nobody knows of the process any more |
| `Application`, `WorkspaceFreeAgain` | docstring at `app_server.py:343` | `open` releases what it has opened on an `Exception`, which a cancellation is not: a child stopped while it opens keeps its reference of the lease |
| `Rewind`, `RewindIsExact` without its exception (`astray`) | "Compensated atomically on failure." (`cli/command_handlers/rewind.py:175`) | a failure or cancellation after the marks are committed (line 179) puts the files back while their actions stay reversed; a crash, or an error of the compensation itself, leaves some files restored, others not, and the derived session; an edit between the check and the restore is overwritten |
| `PluginGrants`, `RunsWhatWasEnabled` without its exception (`swapped`) | - | contents swapped between the second hash and the spawn (`plugins/client.py:215`) run, and a process so started answers the session's later calls |
| `Artifacts`, `ArtifactsKept` without its exceptions (`torn`, `late`) | `docs/development/v2/v2.7.md:51` | an unlink between a put's look at the file and its row, or between the deletion's look at the rows and the unlink, leaves a row without a file; a put indexes from a record read before another quarantined it |
| `Budget`, `WithinLimit` with every child counted | - | failed, cancelled, suspended and interrupted attempts store no usage, so their reservation is given back although calls were made (`collaboration/service.py:1438`, `1464`, `1499`, `1578`); a planned task that is claimed, and an attempt that is resumed, reserve without a check (`storage/repositories/collaboration.py:985`, `1211`); children that are alive, or completed after the last save, when a run is continued are not charged to the next |
| `Lifecycle`, `LocalRowsKept` without its exception | `docs/reference.md:318` (identical rows are skipped) | an identical local `run_steps` row is skipped and then rewritten to name the archive's suspended copy of its mail (`import_merge.py:158`), so `delivered_ids` no longer finds that the local mail was delivered; an identical memory is rebound to this project |

Others came out of reading for the models.  Every pause writes a terminal event
of the same run, so a run has several (`README.md:142` speaks of one).  An
action's transition and the settlement of its run are two transactions
(`docs/reference.md:123`).  A sender's notification that arrives between the
receiver's read and its own `notify` is covered by the version taken
afterwards, so that mail waits for the timer (`runtime/mailbox.py:134`, `160`).
`recall_latest` empties the queue without setting `_idle`
(`application/foreground.py:150`), which is why quiet is idle only without
recalls.  After a crash a run stays `running`, and `retryable` does not offer
it (`storage/repositories/runs.py:37`).  `answer_input_request` does not look at
the row count of its update, so the second of two answers reports success
(`journal/input_requests.py:106`).  A manual `/compact` stores an empty digest
and is never reused while memory is on.  An answer without usage counts as
nothing when the call failed and as an error when a budget is set: the row of an
abandoned stream, and of a call that a crash ends, keeps no usage, so what those
spent is not counted.  A file tool that fails after its write is reported as not
started, because its policy declares no effect (`tooling/executor.py:287`).  A
publication whose process dies leaves its `.capslock-backup` files, which nothing
reports or removes; of a new file that could not be removed only the error
message tells.  A memory database restored half-way by `backup restore` does not
say that it has an archive, which is then merged into it once more
(`lifecycle/coordinator.py:86` asks the workspace database only).
`plugin verify` starts packages that are not enabled, with the `trusted_native`
of whatever grant is there.  A plan
cannot go back to an earlier text of its own (`UNIQUE(plan_id, sha256)`).  A
crash in the middle of a publication or of a rewind's restoration has no
compensation, and an edit between a publication's last look at a file and its
replacement, or between the check and the put-back of its roll-back, is
overwritten.  A failed exit from a worktree leaves the session at the control
root while the row says active.

`Team` reaches further states that a reader of `collaboration/service.py` may
not expect.  No document excludes most of them, and they have no run:

* A worker can run two tasks at once: neither `assign_agent_task` nor
  `claim_task` asks whether it is idle, although `docs/reference.md:286` and
  `docs/development/v2/current.md:68` say it runs one ("同一 worker
  同时只运行一个任务").
* `cancel` reads a `created` task, the task is claimed, `cancel` records
  `cancelled`, and `start_attempt` sets it `running` (`service.py:433`): the
  attempt is the last word, not the task's row, which is why `AttemptsAgree`
  speaks of attempts.
* A link that is decided between `link_approval` and `finish_attempt` stays
  decided, and its task waits until somebody cancels it (`service.py:1289`).
* A cancellation between `set_state(COMPLETED)` and `record_output` leaves a
  completed task without output, with its attempt and its worker `running`
  (`service.py:1502`).
* A continuation does not catch `CancelledError` or the child's failure: the
  task stays `running` without a process.
* The workspace row is inserted before the claim and never removed, so a task
  refused for its dependencies cannot be assigned again (the second insertion
  raises), although the comment at `service.py:335` says it remains queued.
* `cleanup` accepts a `claimed` task, whose process then starts without its
  directory; `stop_agent` cancels one active task of the worker only, and
  `finish_attempt` of another sets the stopped worker idle again.

## What is proved

Each theorem holds for every value of the constants, under the assumptions
named with it.  Its proof has one inductive invariant, `Init` implies it, every
action keeps it, and it implies the property; the invariant is a conjunction of
named parts, each with a comment that says what it is for.  `PROJECT.json`
lists the theorems with the property each one states.

| component | theorems (property) | what the invariant adds |
| --- | --- | --- |
| `Mailbox` | `TypeCorrect` (`TypeOK`), `NoAckedMailLost` (`AckedIsSaved`), `ModelSeesCheckpointedMail` (`CheckpointBeforeModel`), `InjectedAtMostOnce` (`InjectedOnce`), `Refinement` (`ImplementsContract`) | an acknowledgement is sent from the receiver's memory: all it holds in `unacked` or `delivered`, or a half-finished delivery selected, is in `ids` and in a checkpoint, and the live context never has less than the checkpoint; what is pending or selected is in no context yet |
| `Mailbox` | `DeliveredInOrder` (`InjectedInOrder`) | a set that holds a message of the queue (`pending`, the batch just read, `ids`) holds, or has passed on, every older one (`Ordered`); rows are dated by their number (`Dated`) |
| `Mailbox` | `AllSourcesAgree` (`SourcesAgree`) | during the first run of a process the context holds a message once, recorded or read by a tool (`FirstRun`); a receipt goes only when its message is in a checkpoint (`ReceiptsNotLost`) |
| `Mailbox` | `CompletedRunDrained` (`FinishDrains`) | under the lock of the address (`Locked`) the batch that `try_finish` reads accounts for all actionable mail unless it reports more (`LastBatch`), and with nothing pending only such a backlog, or a new notification, is left (`LastLook`) |
| `Workflow` | `RecordsAlwaysAgree` (`RecordsAgree`), `EndedStaysEnded` (`EndedIsFinal`), `EffectsAlwaysMatch` (`EffectsMatchRecords`), `ContinuationAlwaysComplete` (`ContinuationComplete`) | `WInv`: where the loop and each decider are and what that says of the rows; one decider at most is about to run a handler (`HandlerOnce`, `ChildOnce`, `GrantOnce`); how far the four writes of a pause have come (`PauseOrder`); whatever is asked for and is neither open nor complete has somebody at work on it (`AskedAgrees`) |
| `Foreground` | `QueueAlwaysAgrees` (`QueueAgrees`), `NothingRunsAfterClose` (`ClosedRunsNothing`), `CancelledForGood` (`CancelledStays`) | `FInv`: a client that holds the lock across an await holds an item whose request is still queued, the worker returns only after the shutdown asked, and only the worker's item is recorded as running |
| `Team` | `AttemptsAlwaysAgree` (`AttemptsAgree`), `WorkersAlwaysAgree` (`WorkersAgree`), `OneProcessAtATime` (`OneProcess`) | `TInv`: the workspace row is inserted before the claim and never removed, so one caller at most is about to claim (`ClaimedOnce`); what a process will still record (`ProcAgrees`); which tasks callers and the admission lock name (`NamesExist`) |
| `PluginPool` | `PoolSafe`, for `RepliesReachTheirCalls` (`OwnReply`) | a process that was not started is known to nobody, and one started for a single invocation is reached by that call alone, so that its first reply, taken without a look at the request's number, is the call's |
| `PluginGrants` | `OnlyEnabledContentsRun` (`RunsWhatWasEnabled`) | what a call has read by each of its points was granted while it went on (`GrantsAgree`, `CallAgrees`), and a process kept for a digest runs these contents unless they were swapped when it was started (`ProcAgrees`) |
| `Mcp` | `WritesAreNotReplayed` (`NoReplay`) | how often a call may have run at each of its points |
| `Lsp` | `LspSafe`, for `RepliesReachTheirCalls` (`OwnReply`) | ids grow while a server lives, so what it was asked under the id a request waits for is that request's question; nobody waits for a server that is gone |
| `Publish` | `WritersKeepEachOther` (`PublishHolds`) | one writer holds the workspace lock (`OneWriter`), what it compared under it is still so (`StillExpected`, `ChildStands`), a backup holds what the child was given (`Backed`), and which files have been replaced, put back and kept at each point of the roll-back (`Undoing`, `OriginalsHeld`) |
| `Worktree` | `NothingStandsInARemovedTree` (`StandsOnGround`) | what each point of an operation has left or created |
| `Shell` | `ShellSafe`, for `NothingIsLeftOpen` (`NothingLeftOpen`) | a process has a caller or a job from start to end, and a shell command's a directory; only a cut-off stop takes them away |
| `Application` | `ApplicationSafe`, for `NothingIsLeftOpen` (`NothingLeftOpen`) | what is open is on the stack, in `todo` or in a `finally` that is still to come |
| `Tasks` | `TasksNeverBlockEachOther` (`SomeTaskFree`) | a new dependency is on a task that does not reach the task back, which keeps every set of tasks well-founded |
| `Database` | `OpeningIsSafe` (`UpgradeSafe`) | references of the lease are the open instances (`LeaseCounts`), the first opener is alone (`FirstIsAlone`), and an image it holds has every committed row (`StagesAgree`) |
| `MemoryStore` | `IndexAlwaysAgrees` (`MemoryIndexAgrees`) | types of the command in progress |
| `MemoryJobs` | `AdoptsOnce` (`MemoryAdoptedOnce`) | one task at a time works on the job, and a task about to create a memory knows that there is none of its text |
| `Artifacts` | `ArtifactsAreKept` (`ArtifactsKept`) | who is about to write or to unlink a file (`FilesThere`), that a deletion about to unlink has seen no row unless one came since (`FreshKnown`), and which puts hold an outdated record (`LateKnown`) |
| `Lifecycle` | `ImportsKeepLocalRows`, `ImportsAreWhole` (`ImportSafe`) | for any commands, that a database is as it was before the first one or as one merge leaves it, and so is every image of it; with one importer and at most one crash, how far the two commits and the repair have come and what the recovery copies hold |
| `Permissions` | `RestrictionsAlwaysStand` (`RestrictionsStand`) | where a restriction is stored, and that a document read for a change holds what was stored |
| `Plans` | `OnlyApprovedIsImplemented` (`ImplementsApproved`) | a plan has one standing submission and none while it is a draft (`OneSubmission`), the command shows the text of the submission it asks about (`ShowsIt`), and a run implements only what was queued |
| `Routing` | `OneAnswerWithinBudget` (`RoutingHolds`) | a call in progress has reserved what its attempts may still use, but for the error of one estimate, and who may still be heard |
| `ToolRound` | `RoundsAreExact` (`ToolRoundHolds`) | what the row, the effect and the message of each call say of one another at each point of the round |
| `Rewind` | `RewindsAreExact` (`RewindIsExact`) | a file holds the last of its writes that stands (`Chained`, `DiskInv`), so a list that nothing blocks holds the last writes of its files (`Reversible`, `ListInv`); during a restore and its compensation, which files are restored, which are back, and what is kept of them (`Restored`, `Undone`, `FoundInv`) |
| `Budget` | `BudgetsHold` (`BudgetHolds`) | calls made, what covered children have used or may still use, and shares promised to a delegation add up to the limit at most (`Ledger`, from `Booked`, `Held`, `Owed` and `Unsaved`), with lemmas on sums over a finite set |
| `Context` | `ContextsAreExact` (`ContextIsExact`) | a summary made under the current revision covers the turns up to its last that are not excluded (`ActiveIsExact`), the same as a run that has read that revision excludes (`RunReads`), and what a run covers stays what it was told while it goes on, pauses or is compacted (`RunIsTold`) |

**Assumptions.**  `MailboxAssumption`, `WorkflowAssumption`,
`ForegroundAssumption` and `TeamAssumption`; and `StoresAssumption`,
`SessionAssumption` and `ToolsAssumption`.  They say that names differ from the
values that stand for "none", that a rule allows, asks or denies and one of the
preset allows, that limits, sizes and estimates are natural numbers, that a
work item has finitely many children, and that the soft trigger of the context
is not above its hard limit (`runtime/context.py:307`).  TLC evaluates them in
the runs.  Three theorems speak of the case the code covers, the same as their
run does (see "Conditions"): `Leased = TRUE` (`OpeningIsSafe`), one client that
edits rule files (`RestrictionsAlwaysStand`), and one importer and at most one
crash (`ImportsAreWhole`; `ImportsKeepLocalRows` has any number of both).

**How the proofs are laid out.**  A lemma says what a step may touch (one call,
one command, one application) and that the rest of the invariant then stays; the
theorem has one step per action.  In the joint modules that theorem is a lemma
about the component's own specification (`PoolSafe`, `DatabaseSafe`, ...), and
the theorem carries it over: while `focus` names the component the joint
behaviour is one of the component's, and otherwise the property says nothing;
`focus` never changes.  Untyped sequences are handled by
`IsSequence`, `Appended` and `Replaced` of `SessionProofs`, deques by the lemmas
at the head of `ForegroundProofs`, sets with a count by `FiniteSetTheorems`,
sums by `SumIs` and `SumOrder` of `HistoryProofs`, and the units a conversation
keeps by `PickedAre`: a recursive function is characterised there by the
equation of its steps, and what follows for every index by induction.

**What the proofs changed.**  `RecordsAgree` said that an ended run leaves no
action of its own undecided; with two actions one may still be `running` in
another command when the run is cancelled for the other, which an instance with
one action cannot reach.  It now speaks of actions that are pending or
approved, and the `workflow` run has two actions.  `OneProcess` now also excludes
that a process waiting at the semaphore is replaced.  `Worktree` leaves the tree
in a step of its own (`LeaveTree`), after the preflight, as `execute` does.
`FinishDrains` said that a completed run has every actionable message in its
context; the proof did not go through for a backlog whose acknowledgements were
lost, and TLC confirmed it with a fourth message (`FinishDrainsAlways`, see
"Observations").  It now names that backlog.  `Application`, `Budget`, `Context`,
`Foreground`, `Lifecycle` and `Publish` say the same with operators that the
provers know (no `SelectSeq`, no `CASE`, no nested `@`, sums over a set).

**Only model-checked.**  Liveness under fairness (`MailReachesContext`,
`AnsweredIsResumed`, `SubmittedIsServed`), which the proof system does not
reach: the bounds of `mailbox_live` and `foreground_live` limit these, and only
these, to small instances.  The violated runs and the observations are
counterexamples on small instances.

## Where the project can grow

`Plans` composed with `Foreground` (the implementation item that a finished
plan enqueues), the scope filter of the mailbox, several contracts in one
delegation, and the ledger of `Budget` composed with `Team`.

## Not modelled

Rendering, views, prompts, parsing of configuration and manifests, the skill
catalogue, embeddings and ranking, estimates of tokens and prices, formats of
archives and the SQL of single upgrade steps (presentation, data or numbers
without interleavings); the evaluation harness and the editor bridge
(measurement and transport); read-only tools (Git, web, documents), which have
no state of their own; and what processes and servers outside the program do,
which appears as counters and as free choices.
