------------------------------ MODULE Mailbox ------------------------------
(***************************************************************************)
(* Agent mail for one recipient address: the source mailbox table          *)
(* (storage/repositories/collaboration.py), the in-process wake-up         *)
(* registry (collaboration/wakeup.py), the MailboxReceiver of the          *)
(* recipient's run (runtime/mailbox.py), the receipts the receiver keeps   *)
(* in its own database (storage/repositories/mailbox.py), and the part of  *)
(* the tool loop that calls it (runtime/tool_loop.py).                     *)
(*                                                                         *)
(* The two databases are different files, so a commit in one and a commit  *)
(* in the other are two steps, and the process may die between them.       *)
(* Every await at which another task can run, or at which the process can  *)
(* die, separates two actions.                                             *)
(***************************************************************************)
EXTENDS Integers, FiniteSets

CONSTANTS
  Msg,          \* message identifiers
  Actionable,   \* instruction, question, response (the rest only inform)
  Hist,         \* pre-v23 receipts held in run_steps.mailbox_pending_json
  Limit,        \* messages per batch and in _pending (32 in the code)
  Priority,     \* actionable messages per batch when others wait (24)
  BudgetBinds,  \* whether the context budget can refuse a message
  ManualReads,  \* whether the model calls the message-reading tool
  MaxRuns       \* bound: how many times a run of this session starts

ASSUME MailboxAssumption ==
  /\ IsFiniteSet(Msg)
  /\ Actionable \subseteq Msg
  /\ Hist \subseteq Msg
  /\ "free" \notin Msg /\ "main" \notin Msg
  /\ Limit \in Nat \ {0}
  /\ Priority \in 1..Limit
  /\ BudgetBinds \in BOOLEAN
  /\ ManualReads \in BOOLEAN
  /\ MaxRuns \in Nat

VARIABLES
  \* --- workspace database: agent_mailbox -------------------------------
  created,      \* created_at of each row, 0 for a message not yet sent
  acked,        \* rows with status 'acknowledged'
  \* --- recipient database: run_steps ------------------------------------
  ids,          \* union of mailbox_ids_json over the session's steps
  hist,         \* rows that still have a mailbox_pending_json
  ckpt,         \* how often the last stable checkpoint of the run has each message
  archived,     \* messages in stable checkpoints of the session's older runs
  \* --- in-process: MailboxWakeupRegistry, mailbox_lock, senders ----------
  reg,          \* "absent", "open" or "closed"
  dirty,        \* observers whose snapshot differs from the current one
  lk,           \* holder of mailbox_lock(address): "free", "main" or a message
  told,         \* messages whose sender was told receiver_active
  \* --- in-process: MailboxReceiver ---------------------------------------
  pending, hasMore, manual, unacked, delivered, histIds, closed, bgErr, timer,
  op,           \* operation holding the receiver's _lock, or "none"
  pc,           \* where that operation is
  changed,      \* its local `changed`
  batch,        \* its local `batch`: [msgs, more]
  selected,     \* its local `selected`
  \* --- the run -----------------------------------------------------------
  phase,        \* where the tool loop is
  status,       \* how the latest run stands
  messages,     \* how often the live context has each message
  toolOut,      \* mail in a tool result that is not yet in the context
  readByTool,   \* messages a tool has ever read (history variable)
  runs          \* number of runs started

durable  == <<created, acked, ids, hist, ckpt, archived>>
registry == <<reg, dirty, lk, told>>
receiver == <<pending, hasMore, manual, unacked, delivered, histIds, closed,
              bgErr, timer>>
local    == <<op, pc, changed, batch, selected>>
run      == <<phase, status, messages, toolOut, readByTool, runs>>
vars     == <<durable, registry, receiver, local, run>>

Observers == {"version", "snapshot", "finish"}

\* A context is a bag of messages: what a list of them is, up to order.
NoMail == [m \in Msg |-> 0]
Holds(c) == {m \in Msg : c[m] > 0}
Plus(c, S) == [m \in Msg |-> IF m \in S THEN c[m] + 1 ELSE c[m]]

Stored == {m \in Msg : created[m] # 0}
Rows == Stored \ Hist

\* The n oldest of S ("ORDER BY created_at,id LIMIT n"; a slice s[:n]).
Oldest(S, n) ==
  {m \in S : Cardinality({k \in S : created[k] < created[m]}) < n}

Smaller(a, b) == IF a < b THEN a ELSE b

(***************************************************************************)
(* active[:slots] + passive + active[slots:], cut after n messages.        *)
(***************************************************************************)
ByPriority(S, n) ==
  LET active == S \cap Actionable
      passive == S \ Actionable
      slots == IF passive # {} THEN Priority ELSE Limit
      first == Oldest(active, Smaller(slots, n))
      second == Oldest(passive, n - Cardinality(first))
      third == Oldest(active \ first,
                      n - Cardinality(first) - Cardinality(second))
  IN first \cup second \cup third

(***************************************************************************)
(* read_mailbox_batch and bounded_messages.  Unacknowledged rows, oldest   *)
(* first, the actionable group before the other but leaving room for it.   *)
(* The 64 KiB bound may cut a batch anywhere but before its first message, *)
(* because one message has at most 32,000 bytes: n is where it is cut.     *)
(***************************************************************************)
EmptyBatchUntyped == [msgs |-> {}]
EmptyBatch == [msgs |-> {}, more |-> FALSE]

Unread == Rows \ acked

Batches ==
  LET read == Oldest(Unread \cap Actionable, Limit + 1)
                \cup Oldest(Unread \ Actionable, Limit + 1)
      Cut(n) == [msgs |-> ByPriority(read, n), more |-> n < Cardinality(read)]
  IN IF read = {} THEN {EmptyBatch}
     ELSE {Cut(n) : n \in 1..Smaller(Limit, Cardinality(read))}

(***************************************************************************)
(* The last part of MailboxReceiver._receive: at most Limit messages are   *)
(* kept, the actionable ones first, each group by created_at.              *)
(***************************************************************************)
TrimNewest(S) ==
  {m \in S : Cardinality({k \in S : created[k] > created[m]}) < Limit}

Trim(S) == IF Cardinality(S) <= Limit THEN S ELSE ByPriority(S, Limit)

\* MailboxReceiver.actionable_count is not zero.
ActionablePending == pending \cap Actionable # {}

-----------------------------------------------------------------------------
(***************************************************************************)
(* Initially no run exists and the table is empty, save for receipts an    *)
(* upgrade moved into run_steps.                                           *)
(***************************************************************************)
ReceiverOff ==
  /\ pending = {} /\ hasMore = FALSE /\ manual = {} /\ unacked = {}
  /\ delivered = {} /\ histIds = {} /\ closed = FALSE /\ bgErr = FALSE
  /\ timer = FALSE

Init ==
  /\ created \in [Msg -> 0..Cardinality(Hist)]
  /\ \A m \in Msg : created[m] # 0 <=> m \in Hist
  /\ \A m, k \in Hist : created[m] = created[k] => m = k
  /\ acked = {} /\ ids = {} /\ hist = Hist /\ ckpt = NoMail /\ archived = {}
  /\ reg = "absent" /\ dirty = {} /\ lk = "free" /\ told = {}
  /\ ReceiverOff
  /\ op = "none" /\ pc = "idle" /\ changed = FALSE /\ batch = EmptyBatch
  /\ selected = {}
  /\ phase = "off" /\ status = "none" /\ messages = NoMail /\ toolOut = {}
  /\ readByTool = {} /\ runs = 0

\* MailboxWakeupRegistry.notify: an open registration gets a new revision.
Notify == dirty' = IF reg = "open" THEN Observers ELSE dirty

-----------------------------------------------------------------------------
(***************************************************************************)
(* CollaborationMailbox._send.  Under mailbox_lock(address) the row is     *)
(* inserted and committed, then the registry is notified.  The sending     *)
(* task can be cancelled between the two: the row stays, the notification  *)
(* is lost.                                                                *)
(***************************************************************************)
SendInsert(m) ==
  /\ created[m] = 0
  /\ lk = "free"
  /\ created' = [created EXCEPT ![m] = Cardinality(Stored) + 1]
  /\ lk' = m
  /\ UNCHANGED <<acked, ids, hist, ckpt, archived, reg, dirty, told, receiver,
                 local, run>>

SendNotify(m) ==
  /\ lk = m
  /\ Notify
  /\ told' = IF reg = "open" THEN told \cup {m} ELSE told
  /\ lk' = "free"
  /\ UNCHANGED <<durable, reg, receiver, local, run>>

SendCancelled(m) ==
  /\ lk = m
  /\ lk' = "free"
  /\ UNCHANGED <<durable, reg, dirty, told, receiver, local, run>>

-----------------------------------------------------------------------------
(***************************************************************************)
(* A run starts.  It continues from the last stable checkpoint (a paused   *)
(* run that was answered, or a retry of a run that did not complete), or   *)
(* it is a new run whose context holds no mail.  MailboxReceiver.start     *)
(* loads the delivered ids, registers, and takes _lock to receive.         *)
(***************************************************************************)
StartReceiver ==
  /\ phase = "off" /\ runs < MaxRuns
  /\ runs' = runs + 1
  /\ phase' = "starting" /\ status' = "running"
  /\ delivered' = ids
  /\ reg' = "open" /\ dirty' = {}
  /\ op' = "start" /\ pc' = "load"
  /\ UNCHANGED <<created, acked, ids, hist, lk, told, pending, hasMore, manual,
                 unacked, histIds, closed, bgErr, timer, changed, batch,
                 selected, toolOut, readByTool>>

StartNew ==
  /\ StartReceiver
  /\ messages' = NoMail /\ ckpt' = NoMail
  /\ archived' = archived \cup Holds(ckpt)

StartFromCheckpoint ==
  /\ StartReceiver
  /\ status \in {"paused", "failed"}
  /\ messages' = ckpt
  /\ UNCHANGED <<ckpt, archived>>

(***************************************************************************)
(* MailboxReceiver._load_historical: receipts already delivered are        *)
(* cleared, the others join _pending.                                      *)
(***************************************************************************)
HistRows == Oldest(hist, Limit)

LoadHistoricalTwice ==
  /\ histIds' = histIds \cup HistRows
  /\ pending' = pending \cup HistRows
  /\ UNCHANGED hist

LoadHistoricalTaken ==
  /\ histIds' = histIds \cup HistRows
  /\ hist' = hist \ HistRows
  /\ pending' = pending \cup (HistRows \ delivered)

LoadHistorical ==
  /\ histIds' = histIds \cup HistRows
  /\ hist' = hist \ (HistRows \cap delivered)
  /\ pending' = pending \cup (HistRows \ delivered)

StartLoad ==
  /\ op = "start" /\ pc = "load"
  /\ LoadHistorical
  /\ pc' = "snapshot"
  /\ UNCHANGED <<created, acked, ids, ckpt, archived, registry, hasMore, manual,
                 unacked, delivered, closed, bgErr, timer, op, changed, batch,
                 selected, run>>

(***************************************************************************)
(* The timer task: MailboxReceiver._reconcile takes _lock every 30 s.      *)
(***************************************************************************)
BeginReconcile ==
  /\ timer /\ op = "none"
  /\ op' = "reconcile" /\ pc' = "snapshot"
  /\ UNCHANGED <<durable, registry, receiver, changed, batch, selected, run>>

\* A database error in the timer task is kept for the next safe boundary.
ReconcileFails ==
  /\ op = "reconcile"
  /\ bgErr' = TRUE /\ timer' = FALSE
  /\ Notify
  /\ op' = "none" /\ pc' = "idle" /\ changed' = FALSE /\ batch' = EmptyBatch
  /\ UNCHANGED <<durable, reg, lk, told, pending, hasMore, manual, unacked,
                 delivered, histIds, closed, selected, run>>

-----------------------------------------------------------------------------
(***************************************************************************)
(* MailboxReceiver._receive, for whoever holds _lock.                      *)
(***************************************************************************)
ForcedRead == op \in {"start", "reconcile", "manual", "finish"}
AfterReceive == IF op \in {"poll", "finish"} THEN "select" ELSE "end"

ReceiveSnapshot ==
  /\ pc = "snapshot" /\ ~bgErr
  /\ pc' = IF closed THEN AfterReceive ELSE "retry"
  /\ changed' = ("version" \in dirty)
  /\ dirty' = dirty \ {"snapshot"}
  /\ UNCHANGED <<durable, reg, lk, told, receiver, op, batch, selected, run>>

\* ACK what an earlier attempt left, drain old receipts, decide whether to read.
ReceiveRetry(due) ==
  /\ pc = "retry"
  /\ acked' = acked \cup unacked /\ unacked' = {}
  /\ IF pending = {}
     THEN LoadHistorical
     ELSE UNCHANGED <<hist, histIds, pending>>
  /\ LET wanted == ForcedRead \/ changed \/ due \/ (hasMore /\ pending' = {})
         full == pending' # {} /\ ~(ForcedRead \/ changed)
     IN pc' = IF wanted /\ ~full THEN "read" ELSE AfterReceive
  /\ UNCHANGED <<created, ids, ckpt, archived, registry, hasMore, manual, delivered,
                 closed, bgErr, timer, op, changed, batch, selected, run>>

ReceiveRead ==
  /\ pc = "read"
  /\ batch' \in Batches
  /\ pc' = "merge"
  /\ UNCHANGED <<durable, registry, receiver, op, changed, selected, run>>

(***************************************************************************)
(* After the read: the version becomes the snapshot taken before it, mail  *)
(* that is already in a checkpoint is acknowledged again, the rest joins   *)
(* _pending, and actionable mail that no notification announced is         *)
(* announced to the waiters of this address, after which the version is    *)
(* taken afresh.                                                           *)
(***************************************************************************)
EveryMessageRead == batch.msgs
AlreadyDelivered == batch.msgs \cap delivered

MergedPendingAgain == pending \cup batch.msgs
MergedPending == pending \cup (batch.msgs \ delivered)

SelfNotify == batch.msgs \cap Actionable # {} /\ ~changed

ReceiveMerge ==
  /\ pc = "merge"
  /\ acked' = acked \cup unacked \cup AlreadyDelivered
  /\ unacked' = {}
  /\ pending' = Trim(MergedPending)
  /\ hasMore' = (batch.more \/ Cardinality(MergedPending) > Limit)
  /\ dirty' = IF SelfNotify
              THEN Observers \ {"version"}
              ELSE IF "snapshot" \in dirty THEN dirty \cup {"version"}
                                           ELSE dirty \ {"version"}
  /\ pc' = AfterReceive
  /\ batch' = EmptyBatch
  /\ UNCHANGED <<created, ids, hist, ckpt, archived, reg, lk, told, manual,
                 delivered, histIds, closed, bgErr, timer, op, changed,
                 selected, run>>

-----------------------------------------------------------------------------
(***************************************************************************)
(* MailboxReceiver.poll after _receive.  The messages that fit the context *)
(* are committed with the checkpoint that contains them; then the live     *)
(* context and the receiver's sets follow; then the source is ACKed.       *)
(***************************************************************************)
Eligible ==
  (IF op = "finish" THEN pending \cap Actionable ELSE pending) \ manual

\* What the context budget lets in: the oldest of each kind, or everything.
Fitting ==
  IF BudgetBinds
  THEN {S \in SUBSET Eligible : \E i, j \in 0..Cardinality(S) :
          S = Oldest(Eligible \cap Actionable, i) \cup Oldest(Eligible \ Actionable, j)}
  ELSE {Eligible}

\* commit_delivery: one transaction stores the ids and the checkpoint.
CheckpointBeforeDelivery(S) == messages
CheckpointWith(S) == Plus(messages, S)
ReceiptWithoutIds(S) == ids
ReceiptOf(S) == ids \cup S

PollCommit(S) ==
  /\ pc = "select" /\ S \in Fitting /\ S # {}
  /\ selected' = S
  /\ ids' = ReceiptOf(S)
  /\ ckpt' = CheckpointWith(S)
  /\ pc' = "deliver"
  /\ UNCHANGED <<created, acked, hist, archived, registry, receiver, op, changed,
                 batch, run>>

PollDeliver ==
  /\ op \in {"poll", "finish"} /\ pc = "deliver"
  /\ messages' = Plus(messages, selected)
  /\ delivered' = delivered \cup selected
  /\ pending' = pending \ delivered'
  /\ hist' = hist \ (selected \cap histIds)
  /\ unacked' = unacked \cup (selected \ histIds)
  /\ pc' = "ack"
  /\ UNCHANGED <<created, acked, ids, ckpt, archived, registry, hasMore, manual,
                 histIds, closed, bgErr, timer, op, changed, batch, selected,
                 phase, status, toolOut, readByTool, runs>>

ReceiverAck ==
  /\ pc = "ack"
  /\ acked' = acked \cup unacked /\ unacked' = {}
  /\ pc' = "end"
  /\ UNCHANGED <<created, ids, hist, ckpt, archived, registry, pending, hasMore,
                 manual, delivered, histIds, closed, bgErr, timer, op, changed,
                 batch, selected, run>>

\* Nothing selected: poll returns 0 and changes nothing.
PollNothing ==
  /\ op = "poll" /\ pc = "select" /\ {} \in Fitting
  /\ pc' = "end"
  /\ UNCHANGED <<durable, registry, receiver, op, changed, batch, selected, run>>

-----------------------------------------------------------------------------
(***************************************************************************)
(* The tool loop around the receiver.                                      *)
(***************************************************************************)
Begin(kind, at) ==
  /\ op = "none"
  /\ op' = kind /\ pc' = at
  /\ UNCHANGED <<changed, batch, selected>>

EndLocal ==
  /\ op' = "none" /\ pc' = "idle" /\ changed' = FALSE /\ selected' = {}
  /\ UNCHANGED batch

\* An operation without further effect returns and releases _lock.
EndStartWithoutTimer ==
  /\ op = "start" /\ pc = "end"
  /\ EndLocal
  /\ phase' = "round"
  /\ UNCHANGED <<durable, registry, receiver, status, messages, toolOut,
                 readByTool, runs>>

EndStart ==
  /\ op = "start" /\ pc = "end"
  /\ EndLocal
  /\ timer' = TRUE /\ phase' = "round"
  /\ UNCHANGED <<durable, registry, pending, hasMore, manual, unacked,
                 delivered, histIds, closed, bgErr, status, messages, toolOut,
                 readByTool, runs>>

EndReconcile ==
  /\ op = "reconcile" /\ pc = "end"
  /\ EndLocal
  /\ UNCHANGED <<durable, registry, receiver, run>>

\* Top of the loop: poll before every model request.
BeginPoll ==
  /\ phase = "round"
  /\ Begin("poll", "snapshot")
  /\ UNCHANGED <<durable, registry, receiver, run>>

EndPoll ==
  /\ op = "poll" /\ pc = "end"
  /\ EndLocal
  /\ phase' = "model"
  /\ UNCHANGED <<durable, registry, receiver, status, messages, toolOut,
                 readByTool, runs>>

\* The model step completes and saves {"messages": messages}; it either calls
\* tools or answers.
ModelStep ==
  /\ phase = "model"
  /\ phase' \in {"tools", "answer"}
  /\ ckpt' = messages
  /\ UNCHANGED <<created, acked, ids, hist, archived, registry, receiver, local,
                 status, messages, toolOut, readByTool, runs>>

(***************************************************************************)
(* A tool that reads messages: receive_messages returns the pending mail   *)
(* the filters let through and remembers it in _manual; the result joins   *)
(* the context and the tool step's checkpoint.                             *)
(***************************************************************************)
BeginManual ==
  /\ ManualReads /\ phase = "tools" /\ toolOut = {}
  /\ Begin("manual", "snapshot")
  /\ UNCHANGED <<durable, registry, receiver, run>>

EndManual ==
  /\ op = "manual" /\ pc = "end"
  /\ toolOut' \in SUBSET (pending \ manual)
  /\ manual' = manual \cup toolOut'
  /\ readByTool' = readByTool \cup toolOut'
  /\ EndLocal
  /\ UNCHANGED <<durable, registry, pending, hasMore, unacked, delivered,
                 histIds, closed, bgErr, timer, phase, status, messages, runs>>

ToolResult ==
  /\ phase = "tools" /\ toolOut # {} /\ op # "manual"
  /\ messages' = Plus(messages, toolOut)
  /\ ckpt' = messages'
  /\ toolOut' = {}
  /\ UNCHANGED <<created, acked, ids, hist, archived, registry, receiver, local,
                 phase, status, readByTool, runs>>

\* The round is complete: confirm_manual commits what the tools read.
BeginConfirmEarly ==
  /\ phase = "tools"
  /\ Begin("confirm", IF manual = {} THEN "end" ELSE "confirm")
  /\ UNCHANGED <<durable, registry, receiver, run>>

BeginConfirm ==
  /\ phase = "tools" /\ toolOut = {}
  /\ Begin("confirm", IF manual = {} THEN "end" ELSE "confirm")
  /\ UNCHANGED <<durable, registry, receiver, run>>

ConfirmCommit ==
  /\ pc = "confirm"
  /\ ids' = ReceiptOf(manual)
  /\ ckpt' = messages
  /\ pc' = "deliver"
  /\ UNCHANGED <<created, acked, hist, archived, registry, receiver, op, changed,
                 batch, selected, run>>

ConfirmDeliverKeepsPending ==
  /\ op = "confirm" /\ pc = "deliver"
  /\ hist' = hist \ (manual \cap histIds)
  /\ unacked' = unacked \cup (manual \ histIds)
  /\ manual' = {}
  /\ pc' = "ack"
  /\ UNCHANGED <<created, acked, ids, ckpt, archived, registry, hasMore, histIds,
                 closed, bgErr, timer, op, changed, batch, selected, run, pending,
                 delivered>>

ConfirmDeliver ==
  /\ op = "confirm" /\ pc = "deliver"
  /\ delivered' = delivered \cup manual
  /\ hist' = hist \ (manual \cap histIds)
  /\ unacked' = unacked \cup (manual \ histIds)
  /\ manual' = {}
  /\ pending' = pending \ delivered'
  /\ pc' = "ack"
  /\ UNCHANGED <<created, acked, ids, ckpt, archived, registry, hasMore, histIds,
                 closed, bgErr, timer, op, changed, batch, selected, run>>

EndConfirm ==
  /\ op = "confirm" /\ pc = "end"
  /\ EndLocal
  /\ phase' = "round"
  /\ UNCHANGED <<durable, registry, receiver, status, messages, toolOut,
                 readByTool, runs>>

\* A later tool of the round waits for approval or input: the paused step's
\* checkpoint takes the context as it is and the run leaves the loop.
PauseRun ==
  /\ phase = "tools" /\ toolOut = {} /\ op \notin {"manual", "confirm"}
  /\ ckpt' = messages
  /\ phase' = "closing" /\ status' = "paused"
  /\ UNCHANGED <<created, acked, ids, hist, archived, registry, receiver, local,
                 messages, toolOut, readByTool, runs>>

-----------------------------------------------------------------------------
(***************************************************************************)
(* MailboxReceiver.try_finish, under mailbox_lock(address).                *)
(***************************************************************************)
\* The completion barrier may send the answer back for another round.
AnswerContinues ==
  /\ phase = "answer"
  /\ phase' = "round"
  /\ UNCHANGED <<durable, registry, receiver, local, status, messages, toolOut,
                 readByTool, runs>>

BeginFinishUnlocked ==
  /\ phase = "answer"
  /\ phase' = "finishing"
  /\ dirty' = dirty \ {"finish"}
  /\ UNCHANGED <<durable, reg, lk, told, receiver, local, status, messages,
                 toolOut, readByTool, runs>>

BeginFinish ==
  /\ phase = "answer" /\ lk = "free"
  /\ lk' = "main" /\ phase' = "finishing"
  /\ dirty' = dirty \ {"finish"}
  /\ UNCHANGED <<durable, reg, told, receiver, local, status, messages, toolOut,
                 readByTool, runs>>

FinishPoll ==
  /\ phase = "finishing"
  /\ Begin("finish", "snapshot")
  /\ UNCHANGED <<durable, registry, receiver, run>>

\* Late actionable mail was delivered: the loop goes on.
FinishDelivered ==
  /\ op = "finish" /\ pc = "end"
  /\ EndLocal
  /\ lk' = "free" /\ phase' = "round"
  /\ UNCHANGED <<durable, reg, dirty, told, receiver, status, messages, toolOut,
                 readByTool, runs>>

\* Nothing was delivered and nothing actionable waits: close, unless the
\* address was notified since the snapshot.
FinishClose ==
  /\ op = "finish" /\ pc = "select" /\ {} \in Fitting /\ ~ActionablePending
  /\ EndLocal
  /\ lk' = "free"
  /\ IF "finish" \in dirty
     THEN /\ phase' = "round"
          /\ UNCHANGED <<reg, dirty, closed, status>>
     ELSE /\ phase' = "closing" /\ status' = "finished"
          /\ reg' = "closed" /\ closed' = TRUE
          /\ dirty' = Observers
  /\ UNCHANGED <<durable, told, pending, hasMore, manual, unacked, delivered,
                 histIds, bgErr, timer, messages, toolOut, readByTool, runs>>

\* Actionable mail waits that does not fit: ContextBudgetExceeded.
FinishOverBudget ==
  /\ op = "finish" /\ pc = "select" /\ {} \in Fitting /\ ActionablePending
  /\ EndLocal
  /\ lk' = "free" /\ phase' = "closing" /\ status' = "failed"
  /\ UNCHANGED <<durable, reg, dirty, told, receiver, messages, toolOut,
                 readByTool, runs>>

-----------------------------------------------------------------------------
(***************************************************************************)
(* A run ends.  An exception or a cancellation can hit the tool loop at    *)
(* any await; agent.py then closes the receiver in its finally clause.     *)
(***************************************************************************)
MainOps == {"start", "poll", "manual", "confirm", "finish"}

Abort ==
  /\ phase \notin {"off", "closing"}
  /\ phase' = "closing" /\ status' = "failed"
  /\ lk' = IF lk = "main" THEN "free" ELSE lk
  /\ IF op \in MainOps
     THEN /\ op' = "none" /\ pc' = "idle" /\ changed' = FALSE
          /\ batch' = EmptyBatch /\ selected' = {}
     ELSE UNCHANGED local
  /\ toolOut' = {}
  /\ UNCHANGED <<durable, reg, dirty, told, receiver, messages, readByTool, runs>>

\* A stored background error surfaces at the next receive of the loop.
BackgroundError ==
  /\ pc = "snapshot" /\ bgErr /\ op \in MainOps
  /\ Abort

ReceiverGone ==
  /\ pending' = {} /\ hasMore' = FALSE /\ manual' = {} /\ unacked' = {}
  /\ delivered' = {} /\ histIds' = {} /\ closed' = FALSE /\ bgErr' = FALSE
  /\ timer' = FALSE
  /\ op' = "none" /\ pc' = "idle" /\ changed' = FALSE /\ batch' = EmptyBatch
  /\ selected' = {}

\* MailboxReceiver.close: the timer is cancelled, the address unregistered.
CloseReceiver ==
  /\ phase = "closing"
  /\ ReceiverGone
  /\ reg' = "absent" /\ dirty' = {}
  /\ phase' = "off" /\ messages' = NoMail /\ toolOut' = {}
  /\ UNCHANGED <<durable, lk, told, status, readByTool, runs>>

\* The process dies: only the two databases survive.  The recovery at the next
\* start closes the journal's open records but leaves the run's row 'running',
\* which runs.retryable does not offer: its checkpoint stays, and is not resumed.
Crash ==
  /\ phase # "off" \/ lk # "free"
  /\ ReceiverGone
  /\ reg' = "absent" /\ dirty' = {} /\ lk' = "free"
  /\ phase' = "off" /\ messages' = NoMail /\ toolOut' = {}
  /\ status' = IF status = "running" THEN "orphaned" ELSE status
  /\ UNCHANGED <<durable, told, readByTool, runs>>

-----------------------------------------------------------------------------
Sender == \E m \in Msg : SendInsert(m) \/ SendNotify(m) \/ SendCancelled(m)

Timer == BeginReconcile \/ ReconcileFails \/ EndReconcile

Receive == \/ ReceiveSnapshot \/ ReceiveRead \/ ReceiveMerge \/ ReceiverAck
           \/ \E due \in BOOLEAN : ReceiveRetry(due)

Poll == \/ PollDeliver \/ PollNothing
        \/ \E S \in SUBSET pending : PollCommit(S)

Loop == \/ StartLoad \/ EndStart \/ BeginPoll \/ EndPoll \/ ModelStep
        \/ BeginManual \/ EndManual \/ ToolResult
        \/ BeginConfirm \/ ConfirmCommit \/ ConfirmDeliver \/ EndConfirm
        \/ AnswerContinues \/ BeginFinish \/ FinishPoll \/ FinishDelivered
        \/ FinishClose \/ FinishOverBudget

\* Every message is sent and no further run starts: the end of the bounded model.
Quiescent ==
  /\ phase = "off" /\ runs = MaxRuns /\ lk = "free"
  /\ Rows = Msg \ Hist
  /\ UNCHANGED vars

Next == \/ Sender \/ Timer \/ Receive \/ Poll \/ Loop
        \/ StartNew \/ StartFromCheckpoint
        \/ PauseRun \/ Abort \/ BackgroundError \/ CloseReceiver \/ Crash
        \/ Quiescent


(***************************************************************************)
(* Fairness: every task of the event loop that can run does run, a model   *)
(* request ends, and a tool round does not last for ever.  asyncio.Lock    *)
(* serves its waiters in order, so the loop and the timer, whose sleep     *)
(* always ends, both obtain _lock although the other keeps taking it.      *)
(***************************************************************************)
Fairness ==
  /\ WF_vars(Receive) /\ WF_vars(Poll) /\ WF_vars(Loop)
  /\ WF_vars(BackgroundError) /\ WF_vars(CloseReceiver) /\ WF_vars(EndReconcile)
  /\ SF_vars(BeginReconcile) /\ SF_vars(BeginPoll) /\ SF_vars(FinishPoll)
  /\ SF_vars(BeginConfirm)
  /\ \A m \in Msg : WF_vars(SendNotify(m) \/ SendCancelled(m))

Spec == Init /\ [][Next]_vars
FairSpec == Spec /\ Fairness

-----------------------------------------------------------------------------
(***************************************************************************)
(* Properties.                                                             *)
(***************************************************************************)
Phases == {"off", "starting", "round", "model", "tools", "answer", "finishing",
           "closing"}
Ops == {"none", "reconcile"} \cup MainOps
Points == {"idle", "load", "snapshot", "retry", "read", "merge", "select",
           "confirm", "deliver", "ack", "end"}

DurableTypes ==
  /\ created \in [Msg -> Nat] /\ acked \subseteq Msg
  /\ ids \subseteq Msg /\ hist \subseteq Msg
  /\ ckpt \in [Msg -> Nat] /\ archived \subseteq Msg
RegistryTypes ==
  /\ reg \in {"absent", "open", "closed"} /\ dirty \subseteq Observers
  /\ lk \in {"free", "main"} \cup Msg
  /\ told \subseteq Msg
ReceiverTypes ==
  /\ pending \subseteq Msg /\ hasMore \in BOOLEAN /\ manual \subseteq Msg
  /\ unacked \subseteq Msg /\ delivered \subseteq Msg /\ histIds \subseteq Msg
  /\ closed \in BOOLEAN /\ bgErr \in BOOLEAN /\ timer \in BOOLEAN
LocalTypes ==
  /\ op \in Ops /\ pc \in Points /\ changed \in BOOLEAN
  /\ batch \in [msgs : SUBSET Msg, more : BOOLEAN] /\ selected \subseteq Msg
RunTypes ==
  /\ phase \in Phases
  /\ status \in {"none", "running", "paused", "failed", "finished", "orphaned"}
  /\ messages \in [Msg -> Nat] /\ toolOut \subseteq Msg
  /\ readByTool \subseteq Msg /\ runs \in Nat

\* The types of the variables, in the groups they are kept in.
TypeOK ==
  DurableTypes /\ RegistryTypes /\ ReceiverTypes /\ LocalTypes /\ RunTypes

(***************************************************************************)
(* A message is acknowledged in the source mailbox only when the           *)
(* recipient's database accounts for it, and then some stable checkpoint   *)
(* really holds its body: whatever is cut off after the ACK, no mail is    *)
(* lost (_ack after commit_delivery, in poll and in confirm_manual).       *)
(***************************************************************************)
AckedIsSaved ==
  \A m \in acked : m \in ids /\ m \in Holds(ckpt) \cup archived

(***************************************************************************)
(* Mail is in a durable checkpoint before any model request can see it     *)
(* (poll commits before it extends `messages`; a crash then resumes from a *)
(* context that has it).                                                   *)
(***************************************************************************)
CheckpointBeforeModel ==
  phase \in {"model", "tools", "answer"} => Holds(messages) \subseteq Holds(ckpt)

(***************************************************************************)
(* A message that no tool read is in a context, live or saved, at most     *)
(* once, through crashes between checkpoint and ACK, retries and resumed   *)
(* runs (mailbox_ids_json is what makes the second delivery recognisable). *)
(***************************************************************************)
InjectedOnce ==
  \A m \in Msg \ readByTool : messages[m] <= 1 /\ ckpt[m] <= 1

(***************************************************************************)
(* tests/test_mailbox_receiver.py: "manual delivery is not also injected   *)
(* automatically".  No message is twice in the context of a run, whoever   *)
(* put it there.                                                           *)
(***************************************************************************)
ManualNotInjectedAgain == \A m \in Msg : messages[m] <= 1

\* The same, as long as the process that read the message by a tool goes on:
\* poll leaves out what receive_messages handed to a tool and has not yet
\* been confirmed.
ManualNotInjectedInSameRun == runs = 1 => ManualNotInjectedAgain

(***************************************************************************)
(* Receipts from before the upgrade are deleted only once a checkpoint     *)
(* accounts for them (clear_historical after commit_delivery).             *)
(***************************************************************************)
ReceiptsNotLost == Hist \subseteq hist \cup ids

(***************************************************************************)
(* Through every way in (injection, a tool's read, receipts of an upgrade) *)
(* nothing is acknowledged unsaved, injected twice, or deleted before a    *)
(* checkpoint accounts for it (confirm_manual, poll, _load_historical).    *)
(***************************************************************************)
SourcesAgree ==
  /\ AckedIsSaved /\ InjectedOnce
  /\ ManualNotInjectedInSameRun /\ ReceiptsNotLost

(***************************************************************************)
(* Actionable mail that the runtime injects enters the context in the      *)
(* order it was created, across batches, trims of _pending and restarts    *)
(* (stable sort of read_mailbox_batch and of _receive).                    *)
(***************************************************************************)
InjectedInOrder ==
  \A m, k \in (Rows \cap Actionable) \ readByTool :
     created[m] < created[k] /\ k \in ids => m \in ids

(***************************************************************************)
(* A run that completes leaves no actionable mail behind that was sent     *)
(* before it closed its address, and none whose sender was told that the   *)
(* receiver is active: try_finish reads under the same lock the senders    *)
(* take, and closes only if nothing arrived since.  There is one gap, when *)
(* a notification is outstanding and the read it caused (forced, cut) has  *)
(* returned nothing but mail whose ACK was lost: `_has_more` then says     *)
(* that there is a backlog, and try_finish does not ask.                   *)
(***************************************************************************)
Drained == (Rows \cup told) \cap Actionable \subseteq ids
Backlog == hasMore /\ changed

FinishDrains ==
  [][status' = "finished" /\ status # "finished" => Drained \/ Backlog]_vars

(***************************************************************************)
(* The same without the gap, which docs/agent-communication.md:7 promises  *)
(* to every active run: false from four messages and Limit = 3 on.         *)
(***************************************************************************)
FinishDrainsAlways ==
  [][status' = "finished" /\ status # "finished" => Drained]_vars

(***************************************************************************)
(* While a run is active, actionable mail reaches a checkpoint of the      *)
(* session or the run ends: the reconciliation timer covers every lost or  *)
(* overlooked notification.                                                *)
(***************************************************************************)
Active == phase \notin {"off", "closing"}

MailReachesContext ==
  \A m \in Actionable : (m \in Rows /\ Active) ~> (m \in ids \/ ~Active)

\* The mailbox implements its contract.
Contract == INSTANCE MailboxContract WITH sent <- Stored, saved <- ids

\* Delivery is saved before it is acknowledged, and nothing is taken back:
\* the steps of senders, receiver and crashes map to steps of the contract.
ImplementsContract == Contract!Spec
=============================================================================
