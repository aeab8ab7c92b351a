----------------------------- MODULE Foreground -----------------------------
(***************************************************************************)
(* ForegroundRunController (application/foreground.py): the queue of work  *)
(* items, its worker, and the clients that submit, recall, cancel, answer  *)
(* and close.  The terminal front ends answer a paused run from inside the *)
(* controller's consumer; the app server answers from a request handler    *)
(* that waits for the item to leave the controller first.                  *)
(*                                                                         *)
(* A run itself is what Workflow models; here it starts, pauses, ends, or  *)
(* is cancelled.                                                           *)
(***************************************************************************)
EXTENDS Naturals, Sequences, FiniteSets

CONSTANTS
  Item,         \* work items
  NoItem,       \* active_item_id is None
  FrontEnd,     \* the front ends considered: "terminal", "server"
  MaxPauses     \* bound: how often the run of an item pauses

ASSUME ForegroundAssumption ==
  /\ NoItem \notin Item
  /\ FrontEnd \subseteq {"terminal", "server"} /\ MaxPauses \in Nat

VARIABLES
  frontEnd,     \* the front end of this process
  status,       \* work_items.status, "none" before the item exists
  answered,     \* the request the item's run waits for has an answer
  pauses,       \* number of pauses so far
  queue,        \* the controller's deque
  active,       \* active_item_id
  wpc,          \* where the worker is
  cancelReq,    \* active_task.cancel() was called
  idle,         \* the _idle event
  lock,         \* holder of _queue_changed across an await: "free" or a client
  held,         \* what that client took or wants to take out of the queue
  answering,    \* items whose answer the server passes on
  entering,     \* items some client is about to pass to enqueue_item
  blocked,      \* items whose enqueue_item waits for _queue_changed
  closing,      \* where shutdown is
  victims       \* what shutdown took out of the queue

data    == <<status, answered, pauses>>
worker  == <<active, wpc, cancelReq>>
clients == <<lock, held, answering, entering, blocked>>
close   == <<closing, victims, frontEnd>>
vars    == <<data, queue, worker, idle, clients, close>>

Terminal == frontEnd = "terminal"

Init ==
  /\ frontEnd \in FrontEnd
  /\ status = [i \in Item |-> "none"] /\ answered = [i \in Item |-> FALSE]
  /\ pauses = [i \in Item |-> 0]
  /\ queue = <<>> /\ active = NoItem /\ wpc = "wait" /\ cancelReq = FALSE
  /\ idle = TRUE
  /\ lock = "free" /\ held = NoItem
  /\ answering = {} /\ entering = {} /\ blocked = {}
  /\ closing = "no" /\ victims = {}

Shutdown == closing # "no"          \* _shutdown_requested
InQueue == {queue[k] : k \in 1..Len(queue)}
Contains(i) == active = i \/ i \in InQueue
InTask == {"run", "paused", "returning"}   \* active_task exists and is not done

CancelItemTypo(i) ==
  status' = [status EXCEPT ![i] = IF @ \in {"queued", "waiting"} THEN "canceled"
                                                                 ELSE @]

\* AgentSession.cancel_queued_work_item.
CancelItem(i) ==
  status' = [status EXCEPT ![i] = IF @ \in {"queued", "waiting"} THEN "cancelled"
                                                                 ELSE @]

-----------------------------------------------------------------------------
(***************************************************************************)
(* enqueue_item.  It looks at _shutdown_requested, then takes the lock;    *)
(* only a client that holds the lock across an await makes it wait there.  *)
(***************************************************************************)
Submit(i) ==                                          \* session.enqueue
  /\ status[i] = "none"
  /\ status' = [status EXCEPT ![i] = "queued"]
  /\ entering' = entering \cup {i}
  /\ UNCHANGED <<answered, pauses, queue, worker, idle, lock, held, answering, blocked, close>>

StartQueued(i) ==                                     \* /queue start, run/start again
  /\ status[i] = "queued" /\ i \notin entering \cup blocked
  /\ entering' = entering \cup {i}
  /\ UNCHANGED <<data, queue, worker, idle, lock, held, answering, blocked, close>>

InsertTwice(i) ==
  /\ \E k \in 0..Len(queue) :
        queue' = SubSeq(queue, 1, k) \o <<i>> \o SubSeq(queue, k + 1, Len(queue))
  /\ idle' = FALSE

\* At the end, or where the recalled item was; nothing if the item is there.
Insert(i) ==
  IF Contains(i)
  THEN UNCHANGED <<queue, idle>>
  ELSE /\ \E k \in (IF Terminal THEN 0 ELSE Len(queue))..Len(queue) :
            queue' = SubSeq(queue, 1, k) \o <<i>> \o SubSeq(queue, k + 1, Len(queue))
       /\ idle' = FALSE

Enqueue(i) ==
  /\ i \in entering /\ lock = "free" /\ ~Shutdown
  /\ Insert(i)
  /\ entering' = entering \ {i}
  /\ UNCHANGED <<data, worker, lock, held, answering, blocked, close>>

EnqueueBlocks(i) ==
  /\ i \in entering /\ lock # "free" /\ ~Shutdown
  /\ entering' = entering \ {i} /\ blocked' = blocked \cup {i}
  /\ UNCHANGED <<data, queue, worker, idle, lock, held, answering, close>>

EnqueueUnblocks(i) ==
  /\ i \in blocked /\ lock = "free"
  /\ Insert(i)
  /\ blocked' = blocked \ {i}
  /\ UNCHANGED <<data, worker, lock, held, answering, entering, close>>

EnqueueRefused(i) ==                  \* "foreground controller is closed"
  /\ i \in entering /\ Shutdown
  /\ entering' = entering \ {i}
  /\ UNCHANGED <<data, queue, worker, idle, lock, held, answering, blocked, close>>

-----------------------------------------------------------------------------
(***************************************************************************)
(* recall_latest pops the newest request and cancels its item, cancel      *)
(* cancels an item and then removes its request: both hold the lock while  *)
(* the database works.                                                     *)
(***************************************************************************)
Recall ==
  /\ Terminal /\ lock = "free" /\ queue # <<>>
  /\ lock' = "recall" /\ held' = queue[Len(queue)]
  /\ queue' = SubSeq(queue, 1, Len(queue) - 1)
  /\ UNCHANGED <<data, worker, idle, answering, entering, blocked, close>>

Recalled ==
  /\ lock = "recall"
  /\ CancelItem(held)
  /\ lock' = "free" /\ held' = NoItem
  /\ UNCHANGED <<answered, pauses, queue, worker, idle, answering, entering, blocked, close>>

CancelQueued(i) ==
  /\ ~Terminal /\ lock = "free" /\ i \in InQueue
  /\ lock' = "cancel" /\ held' = i
  /\ UNCHANGED <<data, queue, worker, idle, answering, entering, blocked, close>>

\* deque.remove: the first request for the item.
RemoveHeld ==
  \E k \in 1..Len(queue) :
    /\ queue[k] = held /\ \A j \in 1..(k - 1) : queue[j] # held
    /\ queue' = SubSeq(queue, 1, k - 1) \o SubSeq(queue, k + 1, Len(queue))

CancelledQueuedBusy ==
  /\ lock = "cancel"
  /\ CancelItem(held)
  /\ RemoveHeld
  /\ lock' = "free" /\ held' = NoItem
  /\ UNCHANGED <<answered, pauses, worker, idle, answering, entering, blocked, close>>

CancelledQueued ==
  /\ lock = "cancel"
  /\ CancelItem(held)
  /\ RemoveHeld
  /\ idle' = (idle \/ (queue' = <<>> /\ active = NoItem))
  /\ lock' = "free" /\ held' = NoItem
  /\ UNCHANGED <<answered, pauses, worker, answering, entering, blocked, close>>

\* cancel with the active item: a client that comes before the task exists gets
\* False, and nothing happens.
CancelActive ==
  /\ wpc \in InTask
  /\ cancelReq' = TRUE
  /\ UNCHANGED <<data, queue, active, wpc, idle, clients, close>>

\* /queue cancel writes to the database without asking the controller.
CancelDirectly(i) ==
  /\ Terminal /\ status[i] \in {"queued", "waiting"}
  /\ CancelItem(i)
  /\ UNCHANGED <<answered, pauses, queue, worker, idle, clients, close>>

-----------------------------------------------------------------------------
(***************************************************************************)
(* _worker.                                                                *)
(***************************************************************************)
Pop ==
  /\ wpc = "wait" /\ lock = "free" /\ queue # <<>>
  /\ active' = Head(queue) /\ queue' = Tail(queue)
  /\ wpc' = "started"
  /\ UNCHANGED <<data, cancelReq, idle, clients, close>>

WorkerReturns ==
  /\ wpc = "wait" /\ lock = "free" /\ queue = <<>> /\ Shutdown
  /\ wpc' = "done"
  /\ UNCHANGED <<data, queue, active, cancelReq, idle, clients, close>>

\* After the STARTED event: the item is cancelled if the controller closes.
RunOrCancel ==
  /\ wpc = "started"
  /\ IF Shutdown THEN CancelItem(active) /\ wpc' = "finish"
                 ELSE wpc' = "run" /\ UNCHANGED status
  /\ UNCHANGED <<answered, pauses, queue, active, cancelReq, idle, clients, close>>

Task(p) == wpc' = p /\ UNCHANGED <<queue, active, cancelReq, idle, clients, close>>

\* prepare: an item that is queued starts, an answered one goes on.
Startable(i) == status[i] = "queued" \/ (status[i] = "waiting" /\ answered[i])

StartAnything ==
  /\ wpc = "run" /\ ~cancelReq /\ status[active] # "running"
  /\ status' = [status EXCEPT ![active] = "running"]
  /\ answered' = [answered EXCEPT ![active] = FALSE]
  /\ UNCHANGED pauses
  /\ Task("run")

RunStarts ==
  /\ wpc = "run" /\ ~cancelReq /\ Startable(active)
  /\ status' = [status EXCEPT ![active] = "running"]
  /\ answered' = [answered EXCEPT ![active] = FALSE]
  /\ UNCHANGED pauses
  /\ Task("run")

RunRefused ==                         \* "work item is not queued in this session"
  /\ wpc = "run" /\ ~cancelReq /\ status[active] # "running" /\ ~Startable(active)
  /\ UNCHANGED data
  /\ Task("finish")

RunEnds ==
  /\ wpc = "run" /\ ~cancelReq /\ status[active] = "running"
  /\ \E s \in {"completed", "failed"} : status' = [status EXCEPT ![active] = s]
  /\ UNCHANGED <<answered, pauses>>
  /\ Task("returning")

\* The terminals' consumer opens a dialog and keeps the task waiting.
RunPauses ==
  /\ wpc = "run" /\ ~cancelReq /\ status[active] = "running"
  /\ pauses[active] < MaxPauses
  /\ status' = [status EXCEPT ![active] = "waiting"]
  /\ pauses' = [pauses EXCEPT ![active] = @ + 1]
  /\ UNCHANGED answered
  /\ Task(IF Terminal THEN "paused" ELSE "returning")

RunReturns ==
  /\ wpc = "returning" /\ ~cancelReq
  /\ UNCHANGED data
  /\ Task("finish")

\* The task is cancelled: a running run ends as cancelled, and the handler of
\* the worker cancels an item whose run did not start or waits.
RunCancelled ==
  /\ wpc \in InTask /\ cancelReq
  /\ status' = [status EXCEPT ![active] = IF @ = "running" THEN "cancelled" ELSE @]
  /\ UNCHANGED <<answered, pauses>>
  /\ Task("cancelled")

HandleCancelled ==
  /\ wpc = "cancelled"
  /\ CancelItem(active)
  /\ UNCHANGED <<answered, pauses>>
  /\ Task("finish")

\* finally: the item leaves the controller, FINISHED is sent, then idle is set.
Leave ==
  /\ wpc = "finish"
  /\ active' = NoItem /\ cancelReq' = FALSE
  /\ wpc' = "finished"
  /\ UNCHANGED <<data, queue, idle, clients, close>>

SetIdleAlways ==
  /\ wpc = "finished" /\ lock = "free"
  /\ idle' = TRUE
  /\ wpc' = "wait"
  /\ UNCHANGED <<data, queue, active, cancelReq, clients, close>>

SetIdleAndReturn ==
  /\ wpc = "finished" /\ lock = "free"
  /\ idle' = (idle \/ queue = <<>>)
  /\ wpc' = "done"
  /\ UNCHANGED <<data, queue, active, cancelReq, clients, close>>

SetIdle ==
  /\ wpc = "finished" /\ lock = "free"
  /\ idle' = (idle \/ queue = <<>>)
  /\ wpc' = "wait"
  /\ UNCHANGED <<data, queue, active, cancelReq, clients, close>>

-----------------------------------------------------------------------------
(***************************************************************************)
(* Answers.  A dialog answers inside the consumer and calls enqueue_item   *)
(* there; approval/answer and input/answer wait until the item has left.   *)
(***************************************************************************)
AnswerInDialog ==
  /\ wpc = "paused" /\ status[active] = "waiting" /\ lock = "free"
  /\ answered' = [answered EXCEPT ![active] = TRUE]
  /\ IF Shutdown THEN UNCHANGED <<queue, idle>> ELSE Insert(active)
  /\ wpc' = "returning"
  /\ UNCHANGED <<status, pauses, active, cancelReq, clients, close>>

DismissDialog ==
  /\ wpc = "paused"
  /\ UNCHANGED data
  /\ Task("returning")

Answer(i) ==
  /\ ~Terminal /\ status[i] = "waiting" /\ ~answered[i]
  /\ answered' = [answered EXCEPT ![i] = TRUE]
  /\ answering' = answering \cup {i}
  /\ UNCHANGED <<status, pauses, queue, worker, idle, lock, held, entering,
                 blocked, close>>

PassOnAtOnce(i) ==
  /\ i \in answering
  /\ answering' = answering \ {i} /\ entering' = entering \cup {i}
  /\ UNCHANGED <<data, queue, worker, idle, lock, held, blocked, close>>

\* AppServer._resume: wait_item, then enqueue_item.
PassOn(i) ==
  /\ i \in answering /\ ~Contains(i) /\ lock = "free"
  /\ answering' = answering \ {i} /\ entering' = entering \cup {i}
  /\ UNCHANGED <<data, queue, worker, idle, lock, held, blocked, close>>

-----------------------------------------------------------------------------
(***************************************************************************)
(* shutdown.                                                               *)
(***************************************************************************)
Close ==
  /\ closing = "no" /\ lock = "free"
  /\ closing' = "cancelling"
  /\ victims' = InQueue /\ queue' = <<>>
  /\ UNCHANGED <<data, worker, idle, clients, frontEnd>>

CloseCancels(i) ==
  /\ closing = "cancelling" /\ i \in victims
  /\ CancelItem(i)
  /\ victims' = victims \ {i}
  /\ UNCHANGED <<answered, pauses, queue, worker, idle, clients, closing, frontEnd>>

CloseActive ==
  /\ closing = "cancelling" /\ victims = {}
  /\ cancelReq' = (cancelReq \/ wpc \in InTask)
  /\ closing' = "joining"
  /\ UNCHANGED <<data, queue, active, wpc, idle, clients, victims, frontEnd>>

ClosedAtOnce ==
  /\ closing = "joining"
  /\ idle' = TRUE /\ closing' = "closed"
  /\ UNCHANGED <<data, queue, worker, clients, victims, frontEnd>>

Closed ==
  /\ closing = "joining" /\ wpc = "done"
  /\ idle' = TRUE /\ closing' = "closed"
  /\ UNCHANGED <<data, queue, worker, clients, victims, frontEnd>>

-----------------------------------------------------------------------------
WorkerStep == \/ Pop \/ WorkerReturns \/ RunOrCancel \/ RunStarts \/ RunRefused
              \/ RunEnds \/ RunPauses \/ RunReturns \/ RunCancelled
              \/ HandleCancelled \/ Leave \/ SetIdle

Call(i) == \/ Enqueue(i) \/ EnqueueBlocks(i) \/ EnqueueUnblocks(i)
           \/ EnqueueRefused(i) \/ PassOn(i)

Client == \/ \E i \in Item : \/ Submit(i) \/ StartQueued(i) \/ CancelQueued(i)
                             \/ CancelDirectly(i) \/ Answer(i)
          \/ Recall \/ CancelActive \/ AnswerInDialog \/ DismissDialog

Locked == Recalled \/ CancelledQueued

Closing == Close \/ (\E i \in Item : CloseCancels(i)) \/ CloseActive \/ Closed

\* The only place where everything may stop for good: TLC's deadlock check says
\* that shutdown can always go on.
Rest == closing = "closed" /\ UNCHANGED vars

Next == \/ WorkerStep \/ (\E i \in Item : Call(i)) \/ Client \/ Locked
        \/ Closing \/ Rest

Spec == Init /\ [][Next]_vars

(***************************************************************************)
(* The event loop runs every task that is ready, calls in progress return, *)
(* and a model that is asked ends its run or pauses.  Nobody has to        *)
(* submit, answer, cancel or close.                                        *)
(***************************************************************************)
FairSpec ==
  /\ Spec
  /\ SF_vars(WorkerStep) /\ WF_vars(Locked)
  /\ \A i \in Item : /\ SF_vars(Enqueue(i)) /\ SF_vars(EnqueueUnblocks(i))
                     /\ SF_vars(PassOn(i))

-----------------------------------------------------------------------------
(***************************************************************************)
(* Properties.                                                             *)
(***************************************************************************)
\* The types of the variables.
TypeOK ==
  /\ frontEnd \in FrontEnd
  /\ status \in [Item -> {"none", "queued", "running", "waiting", "completed",
                          "failed", "cancelled"}]
  /\ answered \in [Item -> BOOLEAN] /\ pauses \in [Item -> 0..MaxPauses]
  /\ queue \in Seq(Item) /\ active \in Item \cup {NoItem}
  /\ wpc \in InTask \cup {"wait", "started", "cancelled", "finish", "finished",
                          "done"}
  /\ cancelReq \in BOOLEAN /\ idle \in BOOLEAN
  /\ lock \in {"free", "recall", "cancel"} /\ held \in Item \cup {NoItem}
  /\ answering \subseteq Item /\ entering \subseteq Item /\ blocked \subseteq Item
  /\ closing \in {"no", "cancelling", "joining", "closed"} /\ victims \subseteq Item

(***************************************************************************)
(* An item is at most once in the controller, queued or active, whoever    *)
(* submits, starts, retries or answers it at the same time (enqueue_item's *)
(* contains).  wait_idle returns only when nothing is queued and nothing   *)
(* is active, up to the end of shutdown; and it does return: when the      *)
(* worker waits and nothing is queued, the event is set.  Every way out of *)
(* the queue but recall_latest, which only the terminals call, keeps this. *)
(***************************************************************************)
QueueAgrees ==
  /\ TypeOK
  /\ \A j, k \in 1..Len(queue) : queue[j] = queue[k] => j = k
  /\ active \notin InQueue
  /\ (idle /\ closing # "closed") => queue = <<>> /\ active = NoItem
  /\ (~Terminal /\ wpc = "wait" /\ queue = <<>> /\ lock = "free" /\ ~Shutdown) => idle

(***************************************************************************)
(* A cancelled item never runs, although its request may still be in the   *)
(* queue, be popped, or be put there once more.                            *)
(***************************************************************************)
CancelledStays ==
  [][\A i \in Item : status[i] = "cancelled" => status'[i] = "cancelled"]_vars

(***************************************************************************)
(* shutdown returns after the worker, and nothing runs then: what was      *)
(* queued or active was cancelled or had ended by itself.                  *)
(***************************************************************************)
ClosedRunsNothing ==
  closing = "closed" => /\ active = NoItem
                        /\ \A i \in Item : status[i] # "running"

(***************************************************************************)
(* An answered run goes on or is cancelled, unless the controller closes.  *)
(***************************************************************************)
AnsweredIsResumed ==
  \A i \in Item : (answered[i] /\ status[i] = "waiting")
                    ~> (status[i] # "waiting" \/ Shutdown)

(***************************************************************************)
(* A submitted item is run, refused or cancelled, unless the controller    *)
(* closes.                                                                 *)
(***************************************************************************)
SubmittedIsServed ==
  \A i \in Item : status[i] = "queued" ~> (status[i] # "queued" \/ Shutdown)
=============================================================================
