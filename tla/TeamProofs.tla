------------------------------ MODULE TeamProofs ------------------------------
(***************************************************************************)
(* Proofs about Team: the rows of a task, of its attempt and of its worker *)
(* agree at every moment although different transactions of different      *)
(* callers write them, and a task never has two processes.  The theorems   *)
(* hold for any sets of tasks and workers, any limits and any number of    *)
(* crashes.                                                                *)
(*                                                                         *)
(* What the properties say is not inductive by itself.  That an attempt is *)
(* created once rests on the workspace row, which the callers in front of  *)
(* claim_task have each seen; that nobody moves an ended task rests on     *)
(* what the process still intends to record; and that a busy worker has an *)
(* open attempt on which tasks the admission lock and the callers name.    *)
(***************************************************************************)
EXTENDS Team, TLAPS

(***************************************************************************)
(* The inductive invariant.                                                *)
(***************************************************************************)

Unended == {"created", "running", "suspended"}
Busy == {"starting", "running", "waiting_approval"}

\* A task that does not exist has neither workspace nor attempt, a task without
\* a workspace no attempt, and a task is claimed when its attempt is created.
RowsExist ==
  /\ \A t \in Task : task[t] = "none" => ws[t] = "none" /\ att[t] = "none"
  /\ \A t \in Task : ws[t] = "none" => wsBy[t] = NoWorker /\ att[t] = "none"
  /\ \A t \in Task : claims[t] = IF att[t] = "none" THEN 0 ELSE 1

\* The pairs a caller still has to deal with.
Tries(c, t, w) ==
  \/ op[c].pc \in {"attach", "claim"} /\ op[c].p = <<t, w>>
  \/ <<t, w>> \in op[c].q
Claims(c, t, w) == op[c].pc = "claim" /\ op[c].p = <<t, w>>

\* Callers and the holder of the admission lock name tasks that exist, except
\* for the task that delegate is about to create.
NamesExist ==
  /\ \A c \in Caller, t \in Task, w \in Worker : Tries(c, t, w) => task[t] # "none"
  /\ \A t \in Task, w \in Worker :
       /\ adm = <<"task", t, w>> => task[t] = "none"
       /\ adm \in {<<"claim", t, w>>, <<"spawn", t, w>>} => task[t] # "none"

\* The workspace row is inserted before the claim and never removed, so at most
\* one caller is about to claim a task, and only before its attempt exists.
ClaimedOnce ==
  /\ \A c \in Caller, t \in Task, w \in Worker : Claims(c, t, w) =>
       /\ ws[t] # "none" /\ att[t] = "none"
       /\ \A e \in Caller, v \in Worker : Claims(e, t, v) => e = c
       /\ \A v \in Worker : adm # <<"claim", t, v>>
  /\ \A t \in Task, w \in Worker : adm = <<"claim", t, w>> =>
       ws[t] # "none" /\ att[t] = "none"

\* A task has a process only while its attempt runs, or has been ended by
\* somebody else; the process knows what it records.
ProcAgrees ==
  /\ \A t \in Task : att[t] \in {"none", "suspended", "interrupted"} => proc[t] = "off"
  /\ \A t \in Task : proc[t] \in {"state", "output", "finish"} => out[t] \in Ended
  /\ \A t \in Task : proc[t] = "finish" /\ out[t] # "cancelled" => output[t] = out[t]
  /\ \A t \in Task, w \in Worker : adm = <<"spawn", t, w>> =>
       proc[t] = "off" /\ att[t] \in {"created"} \union Ended

\* _run_next_for_worker runs at the end of an attempt.
TailAgrees == \A t \in Task : op[t].pc = "next" => att[t] # "none"

\* An ended attempt has given its task its state, a completed one its output.
EndedAgrees ==
  \A t \in Task : /\ att[t] \in Ended => task[t] = att[t]
                  /\ att[t] = "completed" => output[t] = "completed"

\* An attempt belongs to a worker, and a busy worker has an open one.
BusyAgrees ==
  /\ \A t \in Task : att[t] # "none" => assigned[t] \in Worker
  /\ \A w \in Worker : worker[w] \in Busy =>
       \E t \in Task : assigned[t] = w /\ att[t] \in Unended

\* From the moment a child is kept until its attempt ends or is reopened, it is
\* kept or the cancellation that dropped it is under way.
ChildKept ==
  \A t \in Task :
    (proc[t] \in {"linking", "pausing"} \/ att[t] = "suspended") =>
      t \in cont \/ canc[t] \in {"state", "output", "finish"} \/ att[t] \notin Unended

TInv == /\ TypeOK /\ RowsExist /\ NamesExist /\ ClaimedOnce /\ ProcAgrees
        /\ TailAgrees /\ EndedAgrees /\ BusyAgrees /\ ChildKept

\* No second process is started for a task whose process has not ended.
OneStart ==
  \A t \in Task : proc[t] # "off" /\ proc'[t] = "queued" =>
    proc[t] = "queued" /\ kind'[t] = kind[t]

-----------------------------------------------------------------------------
(***************************************************************************)
(* What the operations that several actions share do.                      *)
(***************************************************************************)

\* No caller begins to try or to claim a pair.
CallersCalm ==
  \A c \in Caller : \/ op'[c] = op[c]
                    \/ op'[c].pc \notin {"attach", "claim"} /\ op'[c].q = {}

\* The process of a task ends, and a caller takes over its last steps.
LEMMA LeaveEffect ==
  ASSUME TypeOK, NEW t \in Task, Leave(t)
  PROVE  /\ proc' = Set(proc, t, "off") /\ out' = Set(out, t, "none")
         /\ kind' = Set(kind, t, "none") /\ permits' = permits \ {t}
         /\ tracked' \in [Task -> {"none", "proc", "tail"}]
         /\ op' \in [Caller -> CallerState] /\ CallersCalm
         /\ \A c \in Caller \ {t} : op'[c] = op[c]
<1> USE DEF TypeOK, ProcTypes, CallTypes, CallerState, Caller, Set, At, Leave
<1>1. op' \in [Caller -> CallerState]
  <2>1. At("next", {}, <<>>, FALSE) \in CallerState
    OBVIOUS
  <2>2. op' = op \/ op' = Set(op, t, At("next", {}, <<>>, FALSE))
    OBVIOUS
  <2> HIDE DEF CallerState, At, Leave
  <2> QED BY <2>1, <2>2
<1>2. CallersCalm
  BY DEF CallersCalm
<1>3. tracked' \in [Task -> {"none", "proc", "tail"}]
  OBVIOUS
<1>4. \A c \in Caller \ {t} : op'[c] = op[c]
  OBVIOUS
<1> QED BY <1>1, <1>2, <1>3, <1>4

\* CancelledError ends the process of one task or makes it record that, and
\* the task's row is at most reopened.
Interrupts(t) ==
  /\ task' \in [Task -> TaskState] /\ ProcTypes' /\ op' \in [Caller -> CallerState]
  /\ CallersCalm /\ \A c \in Caller \ {t} : op'[c] = op[c]
  /\ proc[t] = "off" /\ op'[t].pc = "next" => op[t].pc = "next"
  /\ \A x \in Task \ {t} : /\ proc'[x] = proc[x] /\ kind'[x] = kind[x]
                            /\ out'[x] = out[x] /\ task'[x] = task[x]
  /\ \/ proc'[t] = proc[t] /\ kind'[t] = kind[t] /\ out'[t] = out[t]
     \/ proc'[t] = "off"
     \/ proc[t] # "off" /\ proc'[t] = "state" /\ out'[t] = "cancelled"
  /\ task'[t] = task[t] \/ (task[t] = "waiting_approval" /\ task'[t] = "running")

LEMMA DeliverEffect ==
  ASSUME TypeOK, NEW t \in Task, Deliver(t), UNCHANGED <<cont, dec>>
  PROVE  Interrupts(t)
<1> USE DEF TypeOK, RowTypes, ProcTypes, CallTypes, Caller, Set, Ended, Active, TaskState
<1>1. CASE /\ proc[t] = "off" /\ op[t].pc # "off" /\ op' = Set(op, t, Done(t))
           /\ UNCHANGED <<proc, kind, out, permits, tracked, task>>
  <2>1. /\ op' \in [Caller -> CallerState] /\ CallersCalm
        /\ op'[t].pc # "next" /\ \A c \in Caller \ {t} : op'[c] = op[c]
    BY <1>1 DEF CallerState, CallersCalm, Done, At
  <2> QED BY <1>1, <2>1 DEF Interrupts
<1>2. ASSUME Record(t, "cancelled"), proc[t] # "off",
             UNCHANGED task \/ task' = Reopened(t)
      PROVE  Interrupts(t)
  BY <1>2 DEF Record, Reopened, Interrupts, CallersCalm
<1>3. ASSUME Leave(t), proc[t] # "off", UNCHANGED task \/ task' = Reopened(t)
      PROVE  Interrupts(t)
  <2>1. ProcTypes'
    <3>1. /\ proc' = Set(proc, t, "off") /\ out' = Set(out, t, "none")
          /\ kind' = Set(kind, t, "none") /\ permits' = permits \ {t}
          /\ tracked' \in [Task -> {"none", "proc", "tail"}]
      BY <1>3, LeaveEffect
    <3> QED BY <3>1
  <2>2. /\ op' \in [Caller -> CallerState] /\ CallersCalm
        /\ \A c \in Caller \ {t} : op'[c] = op[c]
    BY <1>3, LeaveEffect
  <2>3. /\ task' \in [Task -> TaskState]
        /\ \A x \in Task \ {t} : task'[x] = task[x]
        /\ task'[t] = task[t] \/ (task[t] = "waiting_approval" /\ task'[t] = "running")
    BY <1>3 DEF Reopened
  <2>4. /\ proc' = Set(proc, t, "off") /\ out' = Set(out, t, "none")
        /\ kind' = Set(kind, t, "none")
    BY <1>3, LeaveEffect
  <2> QED BY <1>3, <2>1, <2>2, <2>3, <2>4 DEF Interrupts
<1> QED BY <1>1, <1>2, <1>3 DEF Deliver

LEMMA CancelBeginEffect ==
  ASSUME TypeOK, NEW t \in Task, CancelBegin(t)
  PROVE  /\ Interrupts(t) /\ UNCHANGED calm
         /\ canc' \in [Task -> {"off", "wait", "state", "output", "finish"}]
         /\ cont' \subseteq cont
         /\ \A x \in Task \ {t} : canc'[x] = canc[x] /\ (x \in cont => x \in cont')
         /\ canc[t] \in {"off", "wait"} /\ canc'[t] \in {"wait", "state"}
         /\ canc'[t] = "wait" => cont' = cont
<1>1. CASE /\ tracked[t] # "none" /\ Deliver(t)
           /\ canc' = Set(canc, t, "wait") /\ UNCHANGED cont
  <2>1. UNCHANGED calm /\ canc[t] \in {"off", "wait"}
    BY DEF CancelBegin
  <2>2. Interrupts(t)
    BY <1>1, <2>1, DeliverEffect DEF calm
  <2> QED BY <1>1, <2>1, <2>2 DEF TypeOK, CallTypes, Set
<1>2. CASE /\ tracked[t] = "none" /\ canc[t] = "off" /\ task[t] \in Active
           /\ cont' = cont \ {t} /\ canc' = Set(canc, t, "state")
           /\ UNCHANGED <<proc, kind, out, permits, tracked, op, task>>
  <2>1. UNCHANGED calm
    BY DEF CancelBegin
  <2>2. Interrupts(t)
    BY <1>2, <2>1 DEF Interrupts, CallersCalm, TypeOK, RowTypes, ProcTypes, CallTypes,
         calm
  <2> QED BY <1>2, <2>1, <2>2 DEF TypeOK, CallTypes, Set
<1> QED BY <1>1, <1>2 DEF CancelBegin

\* finish_attempt leaves a finished attempt alone, and otherwise moves the rows
\* of the attempt, of its task and of its worker.
LEMMA FinishEffect ==
  ASSUME TypeOK, NEW t \in Task, NEW s \in Ended \union {"suspended"}, FinishAttempt(t, s)
  PROVE  /\ att' \in [Task -> Attempt] /\ task' \in [Task -> TaskState]
         /\ worker' \in [Worker -> {"none", "idle", "starting", "running",
                                    "waiting_approval", "interrupted", "stopped"}]
         /\ \A x \in Task \ {t} : att'[x] = att[x] /\ task'[x] = task[x]
         /\ \/ att[t] \notin Unended /\ UNCHANGED <<att, task, worker>>
            \/ /\ att[t] \in Unended /\ att'[t] = s
               /\ task'[t] = IF s = "suspended" THEN "waiting_approval" ELSE s
               /\ \A w \in Worker \ {assigned[t]} : worker'[w] = worker[w]
               /\ assigned[t] \in Worker /\ s # "suspended" =>
                    worker'[assigned[t]] \in {"idle", "stopped"}
<1> USE DEF TypeOK, RowTypes, Ended, Active, TaskState, Attempt, Unended, Set
<1>1. CASE att[t] \in Ended \union {"interrupted", "none"}
  BY <1>1 DEF FinishAttempt
<1>2. CASE att[t] \notin Ended \union {"interrupted", "none"}
  <2>1. att[t] \in Unended /\ FinishOver(t, s)
    BY <1>2 DEF FinishAttempt
  <2>2. worker' \in [Worker -> {"none", "idle", "starting", "running",
                                "waiting_approval", "interrupted", "stopped"}]
    BY <2>1 DEF FinishOver, SetWorker
  <2>3. /\ att' \in [Task -> Attempt] /\ task' \in [Task -> TaskState]
        /\ \A x \in Task \ {t} : att'[x] = att[x] /\ task'[x] = task[x]
        /\ att'[t] = s /\ task'[t] = IF s = "suspended" THEN "waiting_approval" ELSE s
    BY <2>1 DEF FinishOver
  <2>4. /\ \A w \in Worker \ {assigned[t]} : worker'[w] = worker[w]
        /\ assigned[t] \in Worker /\ s # "suspended" =>
             worker'[assigned[t]] \in {"idle", "stopped"}
    BY <2>1 DEF FinishOver, SetWorker
  <2> QED BY <2>1, <2>2, <2>3, <2>4
<1> QED BY <1>1, <1>2


\* Callers name tasks that exist as long as no caller begins to try a pair and
\* no task comes or goes.
LEMMA NamesKept ==
  ASSUME NamesExist, CallersCalm, UNCHANGED adm,
         \A x \in Task : task'[x] = "none" <=> task[x] = "none"
  PROVE  NamesExist'
BY DEF NamesExist, Tries, CallersCalm

-----------------------------------------------------------------------------
(***************************************************************************)
(* Every step keeps each part of the invariant.                            *)
(***************************************************************************)

\* Every step keeps the types of the rows.
LEMMA RowTypesStep ==
  TypeOK /\ ProcAgrees /\ [Next]_vars
    => RowTypes'
<1> SUFFICES ASSUME TypeOK, ProcAgrees, [Next]_vars PROVE RowTypes'
  OBVIOUS
<1> USE TeamAssumption DEF db, mem, vars, rest, quiet, Active, Ended,
    TaskState, Attempt, Caller, Idle, Free, Unended, Busy, Unstarted, Set, At
<1>1. ASSUME NEW w \in Worker, StartAgent(w) PROVE RowTypes'
  BY <1>1 DEF StartAgent, CreateWorker, SetWorker, TypeOK, RowTypes, ProcAgrees
<1>2. ASSUME NEW w \in Worker, Stopped(w) PROVE RowTypes'
  BY <1>2 DEF Stopped, SetWorker, TypeOK, RowTypes, ProcAgrees
<1>3. ASSUME NEW t \in Task, CancelBegin(t) PROVE RowTypes'
  BY <1>3, CancelBeginEffect DEF CancelBegin, Interrupts, calm, TypeOK,
    RowTypes, ProcAgrees
<1>4. ASSUME NEW w \in Worker, StopAgent(w) PROVE RowTypes'
  BY <1>4, <1>3, <1>2 DEF StopAgent, ActiveOf
<1>5. ASSUME NEW w \in Worker, StopEnd(w) PROVE RowTypes'
  BY <1>5, <1>2 DEF StopEnd
<1>6. ASSUME NEW t \in Task, Cancel(t) PROVE RowTypes'
  BY <1>6, <1>3 DEF Cancel
<1>7. ASSUME NEW t \in Task, NEW w \in Worker, DelegateWorker(t, w)
      PROVE  RowTypes'
  BY <1>7 DEF DelegateWorker, CreateWorker, SetWorker, TypeOK, RowTypes,
    ProcAgrees
<1>8. ASSUME NEW t \in Task, NEW w \in Worker, FollowUpAgent(t, w)
      PROVE  RowTypes'
  BY <1>8 DEF FollowUpAgent, CreateTask, Try, TypeOK, RowTypes, ProcAgrees
<1>9. ASSUME NEW t \in Task, NEW w \in Worker, DelegateTask(t, w)
      PROVE  RowTypes'
  <2>1. task' \in [Task -> TaskState]
    BY ZenonT(30), <1>9 DEF DelegateTask, TypeOK, RowTypes
  <2>2. assigned' \in [Task -> Worker \union {NoWorker}]
    BY <1>9 DEF DelegateTask, TypeOK, RowTypes
  <2>3. ws' \in [Task -> {"none", "open", "cleaned"}]
    BY <1>9 DEF DelegateTask, TypeOK, RowTypes
  <2>4. wsBy' \in [Task -> Worker \union {NoWorker}]
    BY SMTT(30), <1>9 DEF DelegateTask, TypeOK, RowTypes
  <2>5. UNCHANGED <<deps, att, claims, ckpt, link, output, worker, persistent>>
    BY <1>9 DEF DelegateTask
  <2> QED BY <2>1, <2>2, <2>3, <2>4, <2>5 DEF TypeOK, RowTypes
<1>10. ASSUME NEW t \in Task, NEW w \in Worker, DelegateClaim(t, w)
       PROVE  RowTypes'
  <2>1. UNCHANGED <<deps, ckpt, link, output, ws, wsBy, persistent>>
    BY <1>10 DEF DelegateClaim
  <2>2. CASE ClaimTask(t, w)
    <3>1. task' \in [Task -> TaskState] /\ att' \in [Task -> Attempt]
      BY <2>2 DEF ClaimTask, TypeOK, RowTypes
    <3>2. claims' \in [Task -> Nat]
      BY <2>2 DEF ClaimTask, TypeOK, RowTypes
    <3>3. assigned' \in [Task -> Worker \union {NoWorker}]
      BY <2>2 DEF ClaimTask, TypeOK, RowTypes
    <3>4. worker' \in [Worker -> {"none", "idle", "starting", "running",
                                  "waiting_approval", "interrupted", "stopped"}]
      BY <2>2 DEF ClaimTask, SetWorker, TypeOK, RowTypes
    <3> QED BY <2>1, <3>1, <3>2, <3>3, <3>4 DEF TypeOK, RowTypes
  <2>3. CASE UNCHANGED <<task, assigned, claims, att, worker>>
    BY <2>1, <2>3 DEF TypeOK, RowTypes
  <2> QED BY <1>10, <2>2, <2>3 DEF DelegateClaim
<1>11. ASSUME NEW t \in Task, NEW w \in Worker \union {NoWorker}, NEW d \in SUBSET Task,
              CreateAgentTask(t, d, w)
       PROVE  RowTypes'
  BY <1>11 DEF CreateAgentTask, CreateTask, TypeOK, RowTypes, ProcAgrees
<1>12. ASSUME NEW c \in Caller, NEW t \in Task, NEW w \in Worker,
              OpAttach(c, t, w)
       PROVE  RowTypes'
  <2>1. ws' \in [Task -> {"none", "open", "cleaned"}]
    BY <1>12 DEF OpAttach, TypeOK, RowTypes
  <2>2. wsBy' \in [Task -> Worker \union {NoWorker}]
    BY <1>12 DEF OpAttach, TypeOK, RowTypes
  <2>3. UNCHANGED <<task, deps, assigned, att, claims, ckpt, link, output,
         worker, persistent>>
    BY <1>12 DEF OpAttach
  <2> QED BY <2>1, <2>2, <2>3 DEF TypeOK, RowTypes
<1>13. ASSUME NEW c \in Caller, NEW t \in Task, NEW w \in Worker,
              OpClaim(c, t, w)
       PROVE  RowTypes'
  <2>1. UNCHANGED <<deps, ckpt, link, output, ws, wsBy, persistent>>
    BY <1>13 DEF OpClaim
  <2>2. CASE ClaimTask(t, w)
    <3>1. task' \in [Task -> TaskState] /\ att' \in [Task -> Attempt]
      BY <2>2 DEF ClaimTask, TypeOK, RowTypes
    <3>2. claims' \in [Task -> Nat]
      BY <2>2 DEF ClaimTask, TypeOK, RowTypes
    <3>3. assigned' \in [Task -> Worker \union {NoWorker}]
      BY <2>2 DEF ClaimTask, TypeOK, RowTypes
    <3>4. worker' \in [Worker -> {"none", "idle", "starting", "running",
                                  "waiting_approval", "interrupted", "stopped"}]
      BY <2>2 DEF ClaimTask, SetWorker, TypeOK, RowTypes
    <3> QED BY <2>1, <3>1, <3>2, <3>3, <3>4 DEF TypeOK, RowTypes
  <2>3. CASE UNCHANGED <<task, assigned, claims, att, worker>>
    BY <2>1, <2>3 DEF TypeOK, RowTypes
  <2> QED BY <1>13, <2>2, <2>3 DEF OpClaim
<1>14. ASSUME NEW t \in Task, Acquire(t) PROVE RowTypes'
  BY <1>14, LeaveEffect DEF Acquire, SetWorker, CanSet, Allowed, TypeOK,
    RowTypes, ProcAgrees
<1>15. ASSUME NEW t \in Task, Open(t) PROVE RowTypes'
  BY <1>15 DEF Open, Stay, TypeOK, RowTypes, ProcAgrees
<1>16. ASSUME NEW t \in Task, Ask(t) PROVE RowTypes'
  BY <1>16 DEF Ask, CanSet, Allowed, Stay, TypeOK, RowTypes, ProcAgrees
<1>17. ASSUME NEW t \in Task, Answered(t) PROVE RowTypes'
  BY <1>17 DEF Answered, Reopened, Stay, TypeOK, RowTypes, ProcAgrees
<1>18. ASSUME NEW t \in Task, Pause(t) PROVE RowTypes'
  BY <1>18 DEF Pause, CanSet, Allowed, Stay, TypeOK, RowTypes, ProcAgrees
<1>19. ASSUME NEW t \in Task, LinkApproval(t) PROVE RowTypes'
  BY <1>19 DEF LinkApproval, AddLink, Stay, TypeOK, RowTypes, ProcAgrees
<1>20. ASSUME NEW t \in Task, Suspend(t) PROVE RowTypes'
  BY <1>20, LeaveEffect, FinishEffect DEF Suspend, TypeOK, RowTypes, ProcAgrees
<1>21. ASSUME NEW t \in Task, EndState(t) PROVE RowTypes'
  BY <1>21, LeaveEffect DEF EndState, CanSet, Allowed, Stay, TypeOK, RowTypes,
    ProcAgrees
<1>22. ASSUME NEW t \in Task, EndOutput(t) PROVE RowTypes'
  BY <1>22, LeaveEffect DEF EndOutput, Stay, TypeOK, RowTypes, ProcAgrees
<1>23. ASSUME NEW t \in Task, EndFinish(t) PROVE RowTypes'
  BY <1>23, LeaveEffect, FinishEffect DEF EndFinish, TypeOK, RowTypes,
    ProcAgrees
<1>24. ASSUME NEW t \in Task, CancelState(t) PROVE RowTypes'
  BY <1>24 DEF CancelState, calm, TypeOK, RowTypes, ProcAgrees
<1>25. ASSUME NEW t \in Task, CancelOutput(t) PROVE RowTypes'
  BY <1>25 DEF CancelOutput, TypeOK, RowTypes, ProcAgrees
<1>26. ASSUME NEW t \in Task, CancelFinish(t) PROVE RowTypes'
  BY <1>26, FinishEffect DEF CancelFinish, TypeOK, RowTypes, ProcAgrees
<1>27. ASSUME NEW t \in Task, Decide(t) PROVE RowTypes'
  BY <1>27 DEF Decide, DecideLink, TypeOK, RowTypes, ProcAgrees
<1>28. ASSUME NEW t \in Task, DecideResume(t) PROVE RowTypes'
  BY <1>28 DEF DecideResume, Resumable, Reopened, SetWorker, Spawn, TypeOK,
    RowTypes, ProcAgrees
<1>29. ASSUME NEW t \in Task, ResumeAgent(t) PROVE RowTypes'
  BY <1>29 DEF ResumeAgent, PrepareResume, SetWorker, Spawn, TypeOK, RowTypes,
    ProcAgrees
<1>30. ASSUME NEW t \in Task, Cleanup(t) PROVE RowTypes'
  BY <1>30 DEF Cleanup, Call, TypeOK, RowTypes, ProcAgrees
<1>31. CASE Crash
  BY <1>31 DEF Crash, Call, TypeOK, RowTypes, ProcAgrees
<1>32. ASSUME NEW t \in Task, NEW w \in Worker,
              ToolAssign(t, w) \/ DelegateSpawn(t, w)
       PROVE  RowTypes'
  <2>1. UNCHANGED <<task, deps, assigned, att, claims, ckpt, link, output, ws,
                   wsBy, worker, persistent>>
    BY <1>32 DEF ToolAssign, DelegateSpawn, Call, Spawn
  <2> QED BY <2>1 DEF TypeOK, RowTypes
<1>33. CASE DelegateAbort \/ Rest
  <2>1. UNCHANGED <<task, deps, assigned, att, claims, ckpt, link, output, ws,
                   wsBy, worker, persistent>>
    BY <1>33 DEF DelegateAbort, Rest, Call, Quiescent
  <2> QED BY <2>1 DEF TypeOK, RowTypes
<1>34. ASSUME NEW c \in Caller,
              OpSchedule(c) \/ OpPick(c)
       PROVE  RowTypes'
  <2>1. UNCHANGED <<task, deps, assigned, att, claims, ckpt, link, output, ws,
                   wsBy, worker, persistent>>
    BY <1>34 DEF OpSchedule, OpPick
  <2> QED BY <2>1 DEF TypeOK, RowTypes
<1>35. ASSUME NEW t \in Task,
              Succeed(t) \/ Fail(t) \/ RunNext(t) \/ TailDone(t) \/
              CancelWaited(t)
       PROVE  RowTypes'
  <2>1. UNCHANGED <<task, deps, assigned, att, claims, ckpt, link, output, ws,
                   wsBy, worker, persistent>>
    BY <1>35 DEF Succeed, Fail, RunNext, TailDone, CancelWaited, Record, Call
  <2> QED BY <2>1 DEF TypeOK, RowTypes
<1>36. CASE UNCHANGED vars
  BY <1>36 DEF vars, TypeOK, RowTypes
<1> QED BY <1>1, <1>4, <1>5, <1>6, <1>7, <1>8, <1>9, <1>10, <1>11, <1>12,
    <1>13, <1>14, <1>15, <1>16, <1>17, <1>18, <1>19, <1>20, <1>21, <1>22,
    <1>23, <1>24, <1>25, <1>26, <1>27, <1>28, <1>29, <1>30, <1>31, <1>32,
    <1>33, <1>34, <1>35, <1>36
    DEF Next, Rest

\* Every step keeps the types of what the processes keep.
LEMMA ProcTypesStep ==
  TypeOK /\ [Next]_vars
    => ProcTypes'
<1> SUFFICES ASSUME TypeOK, [Next]_vars PROVE ProcTypes'
  OBVIOUS
<1> USE TeamAssumption DEF db, mem, vars, rest, quiet, Active, Ended,
    TaskState, Attempt, Caller, Idle, Free, Unended, Busy, Unstarted, Set, At
<1>1. ASSUME NEW t \in Task, CancelBegin(t) PROVE ProcTypes'
  BY <1>1, CancelBeginEffect DEF CancelBegin, Interrupts, calm, TypeOK,
    ProcTypes
<1>2. ASSUME NEW w \in Worker, StopAgent(w) PROVE ProcTypes'
  BY <1>2, <1>1 DEF StopAgent, ActiveOf, Stopped, TypeOK, ProcTypes
<1>3. ASSUME NEW t \in Task, Cancel(t) PROVE ProcTypes'
  BY <1>3, <1>1 DEF Cancel
<1>4. ASSUME NEW t \in Task, NEW w \in Worker, DelegateSpawn(t, w)
      PROVE  ProcTypes'
  BY <1>4 DEF DelegateSpawn, Spawn, TypeOK, ProcTypes
<1>5. ASSUME NEW c \in Caller, NEW t \in Task, NEW w \in Worker,
             OpClaim(c, t, w)
      PROVE  ProcTypes'
  BY <1>5 DEF OpClaim, Claimable, ClaimTask, SetWorker, Spawn, Refused, TypeOK,
    ProcTypes
<1>6. ASSUME NEW t \in Task, Acquire(t) PROVE ProcTypes'
  BY <1>6, LeaveEffect DEF Acquire, SetWorker, CanSet, Allowed, TypeOK,
    ProcTypes
<1>7. ASSUME NEW t \in Task, Open(t) PROVE ProcTypes'
  BY <1>7 DEF Open, Stay, TypeOK, ProcTypes
<1>8. ASSUME NEW t \in Task, Ask(t) PROVE ProcTypes'
  BY <1>8 DEF Ask, CanSet, Allowed, Stay, TypeOK, ProcTypes
<1>9. ASSUME NEW t \in Task, Answered(t) PROVE ProcTypes'
  BY <1>9 DEF Answered, Reopened, Stay, TypeOK, ProcTypes
<1>10. ASSUME NEW t \in Task, Pause(t) PROVE ProcTypes'
  BY <1>10 DEF Pause, CanSet, Allowed, Stay, TypeOK, ProcTypes
<1>11. ASSUME NEW t \in Task, LinkApproval(t) PROVE ProcTypes'
  BY <1>11 DEF LinkApproval, AddLink, Stay, TypeOK, ProcTypes
<1>12. ASSUME NEW t \in Task, Suspend(t) PROVE ProcTypes'
  BY <1>12, LeaveEffect, FinishEffect DEF Suspend, TypeOK, ProcTypes
<1>13. ASSUME NEW t \in Task, Succeed(t) PROVE ProcTypes'
  BY <1>13 DEF Succeed, Record, TypeOK, ProcTypes
<1>14. ASSUME NEW t \in Task, Fail(t) PROVE ProcTypes'
  BY <1>14, LeaveEffect DEF Fail, Call, Record, TypeOK, ProcTypes
<1>15. ASSUME NEW t \in Task, EndState(t) PROVE ProcTypes'
  BY <1>15, LeaveEffect DEF EndState, CanSet, Allowed, Stay, TypeOK, ProcTypes
<1>16. ASSUME NEW t \in Task, EndOutput(t) PROVE ProcTypes'
  BY <1>16, LeaveEffect DEF EndOutput, Stay, TypeOK, ProcTypes
<1>17. ASSUME NEW t \in Task, EndFinish(t) PROVE ProcTypes'
  BY <1>17, LeaveEffect, FinishEffect DEF EndFinish, TypeOK, ProcTypes
<1>18. ASSUME NEW t \in Task, TailDone(t) PROVE ProcTypes'
  BY <1>18 DEF TailDone, TypeOK, ProcTypes
<1>19. ASSUME NEW t \in Task, Decide(t) PROVE ProcTypes'
  BY <1>19 DEF Decide, DecideLink, TypeOK, ProcTypes
<1>20. ASSUME NEW t \in Task, DecideResume(t) PROVE ProcTypes'
  BY <1>20 DEF DecideResume, Resumable, Reopened, SetWorker, Spawn, TypeOK,
    ProcTypes
<1>21. ASSUME NEW t \in Task, ResumeAgent(t) PROVE ProcTypes'
  BY <1>21 DEF ResumeAgent, PrepareResume, SetWorker, Spawn, TypeOK, ProcTypes
<1>22. CASE Crash
  BY <1>22 DEF Crash, Call, TypeOK, ProcTypes
<1>23. ASSUME NEW w \in Worker,
              StartAgent(w) \/ StopEnd(w)
       PROVE  ProcTypes'
  <2>1. UNCHANGED <<proc, kind, out, permits, cont, dec, tracked>>
    BY <1>23 DEF StartAgent, StopEnd, Stopped, CreateWorker, SetWorker
  <2> QED BY <2>1 DEF TypeOK, ProcTypes
<1>24. ASSUME NEW t \in Task, NEW w \in Worker,
              ToolAssign(t, w) \/ DelegateWorker(t, w) \/ FollowUpAgent(t, w)
              \/ DelegateTask(t, w) \/ DelegateClaim(t, w)
       PROVE  ProcTypes'
  <2>1. UNCHANGED <<proc, kind, out, permits, cont, dec, tracked>>
    BY <1>24 DEF ToolAssign, DelegateWorker, FollowUpAgent, DelegateTask,
      DelegateClaim, CreateWorker, CreateTask, Call, SetWorker, ClaimTask
  <2> QED BY <2>1 DEF TypeOK, ProcTypes
<1>25. ASSUME NEW t \in Task, NEW w \in Worker \union {NoWorker}, NEW d \in SUBSET Task,
              CreateAgentTask(t, d, w)
       PROVE  ProcTypes'
  <2>1. UNCHANGED <<proc, kind, out, permits, cont, dec, tracked>>
    BY <1>25 DEF CreateAgentTask, CreateTask
  <2> QED BY <2>1 DEF TypeOK, ProcTypes
<1>26. CASE DelegateAbort \/ Rest
  <2>1. UNCHANGED <<proc, kind, out, permits, cont, dec, tracked>>
    BY <1>26 DEF DelegateAbort, Rest, Call, Quiescent
  <2> QED BY <2>1 DEF TypeOK, ProcTypes
<1>27. ASSUME NEW c \in Caller,
              OpSchedule(c) \/ OpPick(c)
       PROVE  ProcTypes'
  <2>1. UNCHANGED <<proc, kind, out, permits, cont, dec, tracked>>
    BY <1>27 DEF OpSchedule, OpPick
  <2> QED BY <2>1 DEF TypeOK, ProcTypes
<1>28. ASSUME NEW c \in Caller, NEW t \in Task, NEW w \in Worker,
              OpAttach(c, t, w)
       PROVE  ProcTypes'
  <2>1. UNCHANGED <<proc, kind, out, permits, cont, dec, tracked>>
    BY <1>28 DEF OpAttach, Refused
  <2> QED BY <2>1 DEF TypeOK, ProcTypes
<1>29. ASSUME NEW t \in Task,
              RunNext(t) \/ CancelWaited(t) \/ CancelState(t) \/
              CancelOutput(t) \/ CancelFinish(t) \/ Cleanup(t)
       PROVE  ProcTypes'
  <2>1. UNCHANGED <<proc, kind, out, permits, cont, dec, tracked>>
    BY <1>29 DEF RunNext, CancelWaited, CancelState, CancelOutput,
      CancelFinish, Cleanup, calm, Call
  <2> QED BY <2>1 DEF TypeOK, ProcTypes
<1>30. CASE UNCHANGED vars
  BY <1>30 DEF vars, TypeOK, ProcTypes
<1> QED BY <1>2, <1>3, <1>4, <1>5, <1>6, <1>7, <1>8, <1>9, <1>10, <1>11, <1>12,
    <1>13, <1>14, <1>15, <1>16, <1>17, <1>18, <1>19, <1>20, <1>21, <1>22,
    <1>23, <1>24, <1>25, <1>26, <1>27, <1>28, <1>29, <1>30
    DEF Next, Rest

\* Every step keeps the types of what the callers keep.
LEMMA CallTypesStep ==
  TypeOK /\ TailAgrees /\ BusyAgrees /\ [Next]_vars
    => CallTypes'
<1> SUFFICES ASSUME TypeOK, TailAgrees, BusyAgrees, [Next]_vars
             PROVE  CallTypes'
  OBVIOUS
<1> USE TeamAssumption DEF db, mem, vars, rest, quiet, Active, Ended,
    TaskState, Attempt, Caller, Idle, Free, Unended, Busy, Unstarted, Set, At
<1>1. ASSUME NEW w \in Worker, StopAgent(w) PROVE CallTypes'
  <2>1. calls' \in 0 .. MaxCalls
    BY <1>1 DEF StopAgent, Call, TypeOK, CallTypes
  <2>2. CASE Stopped(w) /\ UNCHANGED stop
    BY <2>1, <2>2 DEF Stopped, TypeOK, CallTypes
  <2>3. ASSUME NEW t \in Task, CancelBegin(t), stop' = Set(stop, w, {t}) PROVE CallTypes'
    <3>1. /\ op' \in [Caller -> CallerState] /\ UNCHANGED <<adm, pauses>>
          /\ canc' \in [Task -> {"off", "wait", "state", "output", "finish"}]
      BY <2>3, CancelBeginEffect DEF Interrupts, calm
    <3> QED BY <2>1, <2>3, <3>1 DEF TypeOK, CallTypes
  <2> QED BY <1>1, <2>2, <2>3 DEF StopAgent, ActiveOf
<1>2. ASSUME NEW w \in Worker, StopEnd(w) PROVE CallTypes'
  BY <1>2 DEF StopEnd, Stopped, TypeOK, CallTypes
<1>3. ASSUME NEW t \in Task, Cancel(t) PROVE CallTypes'
  <2>1. /\ op' \in [Caller -> CallerState] /\ UNCHANGED <<stop, adm, pauses>>
        /\ canc' \in [Task -> {"off", "wait", "state", "output", "finish"}]
    BY <1>3, CancelBeginEffect DEF Cancel, Interrupts, calm
  <2>2. calls' \in 0 .. MaxCalls
    BY <1>3 DEF Cancel, Call, TypeOK, CallTypes
  <2> QED BY <2>1, <2>2 DEF TypeOK, CallTypes
<1>4. ASSUME NEW t \in Task, NEW w \in Worker, ToolAssign(t, w)
      PROVE  CallTypes'
  BY <1>4 DEF ToolAssign, Call, Try, TypeOK, CallTypes, CallerState
<1>5. ASSUME NEW t \in Task, NEW w \in Worker, DelegateWorker(t, w)
      PROVE  CallTypes'
  BY <1>5 DEF DelegateWorker, CreateWorker, SetWorker, TypeOK, CallTypes
<1>6. ASSUME NEW t \in Task, NEW w \in Worker, FollowUpAgent(t, w)
      PROVE  CallTypes'
  BY <1>6 DEF FollowUpAgent, CreateTask, Try, TypeOK, CallTypes, CallerState
<1>7. ASSUME NEW t \in Task, NEW w \in Worker, DelegateTask(t, w)
      PROVE  CallTypes'
  BY <1>7 DEF DelegateTask, TypeOK, CallTypes
<1>8. ASSUME NEW t \in Task, NEW w \in Worker, DelegateClaim(t, w)
      PROVE  CallTypes'
  BY <1>8 DEF DelegateClaim, Claimable, ClaimTask, SetWorker, TypeOK, CallTypes
<1>9. ASSUME NEW t \in Task, NEW w \in Worker, DelegateSpawn(t, w)
      PROVE  CallTypes'
  BY <1>9 DEF DelegateSpawn, Spawn, TypeOK, CallTypes
<1>10. ASSUME NEW t \in Task, NEW w \in Worker \union {NoWorker}, NEW d \in SUBSET Task,
              CreateAgentTask(t, d, w)
       PROVE  CallTypes'
  BY <1>10 DEF CreateAgentTask, CreateTask, TypeOK, CallTypes, CallerState
<1>11. CASE DelegateAbort
  BY <1>11 DEF DelegateAbort, Call, TypeOK, CallTypes
<1>12. ASSUME NEW c \in Caller, OpSchedule(c) PROVE CallTypes'
  BY <1>12 DEF OpSchedule, Pairs, TypeOK, CallTypes, CallerState
<1>13. ASSUME NEW c \in Caller, OpPick(c) PROVE CallTypes'
  <2>1. PICK r \in CallerState : op' = Set(op, c, r)
    <3>1. Done(c) \in CallerState
      BY DEF Done, CallerState
    <3>2. op[c] \in CallerState
      BY DEF TypeOK, CallTypes
    <3>3. \A p \in op[c].q : At("attach", op[c].q, p, FALSE) \in CallerState
      BY <3>2 DEF CallerState
    <3> QED BY <1>13, <3>1, <3>3 DEF OpPick
  <2>2. UNCHANGED <<canc, stop, adm, pauses, calls>>
    BY <1>13 DEF OpPick
  <2> QED BY <2>1, <2>2 DEF TypeOK, CallTypes
<1>14. ASSUME NEW c \in Caller, NEW t \in Task, NEW w \in Worker,
              OpAttach(c, t, w)
       PROVE  CallTypes'
  <2>1. PICK r \in CallerState : op' = Set(op, c, r)
    <3>1. op[c] \in CallerState
      BY DEF TypeOK, CallTypes
    <3>2. Refused(c) \in CallerState
      BY <3>1 DEF Refused, CallerState
    <3>3. Done(c) \in CallerState
      BY DEF Done, CallerState
    <3>4. At("claim", op[c].q, <<t, w>>, op[c].first) \in CallerState
      BY <3>1 DEF CallerState
    <3> HIDE DEF At
    <3> QED BY <1>14, <3>2, <3>3, <3>4 DEF OpAttach
  <2>2. UNCHANGED <<canc, stop, adm, pauses, calls>>
    BY <1>14 DEF OpAttach
  <2> QED BY <2>1, <2>2 DEF TypeOK, CallTypes
<1>15. ASSUME NEW c \in Caller, NEW t \in Task, NEW w \in Worker,
              OpClaim(c, t, w)
       PROVE  CallTypes'
  <2>1. PICK r \in CallerState : op' = Set(op, c, r)
    <3>1. op[c] \in CallerState
      BY DEF TypeOK, CallTypes
    <3>2. Refused(c) \in CallerState
      BY <3>1 DEF Refused, CallerState
    <3>3. At("pick", {p \in op[c].q : p[1] # t /\ p[2] # w}, <<>>, FALSE) \in CallerState
      BY <3>1 DEF CallerState
    <3> HIDE DEF At
    <3> QED BY <1>15, <3>2, <3>3 DEF OpClaim
  <2>2. UNCHANGED <<canc, stop, adm, pauses, calls>>
    BY <1>15 DEF OpClaim
  <2> QED BY <2>1, <2>2 DEF TypeOK, CallTypes
<1>16. ASSUME NEW t \in Task, Acquire(t) PROVE CallTypes'
  BY <1>16, LeaveEffect DEF Acquire, SetWorker, CanSet, Allowed, TypeOK,
    CallTypes
<1>17. ASSUME NEW t \in Task, Pause(t) PROVE CallTypes'
  BY <1>17 DEF Pause, CanSet, Allowed, Stay, TypeOK, CallTypes
<1>18. ASSUME NEW t \in Task, Suspend(t) PROVE CallTypes'
  BY <1>18, LeaveEffect, FinishEffect DEF Suspend, TypeOK, CallTypes
<1>19. ASSUME NEW t \in Task, Fail(t) PROVE CallTypes'
  BY <1>19, LeaveEffect DEF Fail, Call, Record, TypeOK, CallTypes
<1>20. ASSUME NEW t \in Task, EndState(t) PROVE CallTypes'
  BY <1>20, LeaveEffect DEF EndState, CanSet, Allowed, Stay, TypeOK, CallTypes
<1>21. ASSUME NEW t \in Task, EndOutput(t) PROVE CallTypes'
  BY <1>21, LeaveEffect DEF EndOutput, Stay, TypeOK, CallTypes
<1>22. ASSUME NEW t \in Task, EndFinish(t) PROVE CallTypes'
  BY <1>22, LeaveEffect, FinishEffect DEF EndFinish, TypeOK, CallTypes
<1>23. ASSUME NEW t \in Task, RunNext(t) PROVE CallTypes'
  <2>1. PICK r \in CallerState : op' = Set(op, t, r)
    <3>1. Done(t) \in CallerState
      BY DEF Done, CallerState
    <3>2. At("schedule", {}, <<>>, FALSE) \in CallerState
      BY DEF CallerState
    <3>3. \A x \in Task, w \in Worker : Try(x, w, TRUE) \in CallerState
      BY DEF Try, CallerState
    <3>4. assigned[t] \in Worker
      BY <1>23 DEF RunNext, TailAgrees, BusyAgrees
    <3> HIDE DEF At
    <3> QED BY <1>23, <3>1, <3>2, <3>3, <3>4 DEF RunNext
  <2>2. UNCHANGED <<canc, stop, adm, pauses, calls>>
    BY <1>23 DEF RunNext
  <2> QED BY <2>1, <2>2 DEF TypeOK, CallTypes
<1>24. ASSUME NEW t \in Task, TailDone(t) PROVE CallTypes'
  BY <1>24 DEF TailDone, TypeOK, CallTypes, CallerState
<1>25. ASSUME NEW t \in Task, CancelWaited(t) PROVE CallTypes'
  BY <1>25 DEF CancelWaited, TypeOK, CallTypes
<1>26. ASSUME NEW t \in Task, CancelState(t) PROVE CallTypes'
  BY <1>26 DEF CancelState, calm, TypeOK, CallTypes
<1>27. ASSUME NEW t \in Task, CancelOutput(t) PROVE CallTypes'
  BY <1>27 DEF CancelOutput, TypeOK, CallTypes
<1>28. ASSUME NEW t \in Task, CancelFinish(t) PROVE CallTypes'
  BY <1>28, FinishEffect DEF CancelFinish, TypeOK, CallTypes
<1>29. ASSUME NEW t \in Task, Cleanup(t) PROVE CallTypes'
  BY <1>29 DEF Cleanup, Call, TypeOK, CallTypes
<1>30. CASE Crash
  BY <1>30 DEF Crash, Call, TypeOK, CallTypes, CallerState
<1>31. ASSUME NEW w \in Worker, StartAgent(w) PROVE CallTypes'
  <2>1. UNCHANGED <<op, canc, stop, adm, pauses, calls>>
    BY <1>31 DEF StartAgent, CreateWorker, SetWorker
  <2> QED BY <2>1 DEF TypeOK, CallTypes
<1>32. ASSUME NEW t \in Task,
              Open(t) \/ Ask(t) \/ Answered(t) \/ LinkApproval(t) \/ Succeed(t)
              \/ Decide(t) \/ DecideResume(t) \/ ResumeAgent(t)
       PROVE  CallTypes'
  <2>1. UNCHANGED <<op, canc, stop, adm, pauses, calls>>
    BY <1>32 DEF Open, Ask, Answered, LinkApproval, Succeed, Decide,
      DecideResume, ResumeAgent, Stay, Record, Spawn, SetWorker
  <2> QED BY <2>1 DEF TypeOK, CallTypes
<1>33. CASE Rest
  <2>1. UNCHANGED <<op, canc, stop, adm, pauses, calls>>
    BY <1>33 DEF Rest, Quiescent
  <2> QED BY <2>1 DEF TypeOK, CallTypes
<1>34. CASE UNCHANGED vars
  BY <1>34 DEF vars, TypeOK, CallTypes
<1> QED BY <1>1, <1>2, <1>3, <1>4, <1>5, <1>6, <1>7, <1>8, <1>9, <1>10, <1>11,
    <1>12, <1>13, <1>14, <1>15, <1>16, <1>17, <1>18, <1>19, <1>20, <1>21,
    <1>22, <1>23, <1>24, <1>25, <1>26, <1>27, <1>28, <1>29, <1>30, <1>31,
    <1>32, <1>33, <1>34
    DEF Next, Rest

\* A workspace belongs to a task, an attempt to a workspace, and a claim creates
\* the attempt.
LEMMA RowsExistStep ==
  TypeOK /\ RowsExist /\ NamesExist /\ ClaimedOnce /\ ProcAgrees /\
    [Next]_vars
    => RowsExist'
<1> SUFFICES ASSUME TypeOK, RowsExist, NamesExist, ClaimedOnce, ProcAgrees,
                    [Next]_vars
             PROVE  RowsExist'
  OBVIOUS
<1> USE TeamAssumption DEF db, mem, vars, rest, quiet, Active, Ended,
    TaskState, Attempt, Caller, Idle, Free, Unended, Busy, Unstarted, Set, At
<1>1. /\ task \in [Task -> TaskState]
      /\ att \in [Task -> Attempt]
      /\ ws \in [Task -> {"none", "open", "cleaned"}]
      /\ wsBy \in [Task -> Worker \union {NoWorker}]
      /\ claims \in [Task -> Nat]
  BY DEF TypeOK, RowTypes, ProcTypes, CallTypes
<1>2. ASSUME NEW w \in Worker, Stopped(w) PROVE RowsExist'
  BY <1>1, <1>2 DEF Stopped, SetWorker, RowsExist
<1>3. ASSUME NEW t \in Task, CancelBegin(t) PROVE RowsExist'
  BY <1>1, <1>3, CancelBeginEffect DEF CancelBegin, Interrupts, calm, RowsExist
<1>4. ASSUME NEW w \in Worker, StopAgent(w) PROVE RowsExist'
  BY <1>4, <1>3, <1>2 DEF StopAgent, ActiveOf
<1>5. ASSUME NEW w \in Worker, StopEnd(w) PROVE RowsExist'
  BY <1>5, <1>2 DEF StopEnd
<1>6. ASSUME NEW t \in Task, Cancel(t) PROVE RowsExist'
  BY <1>6, <1>3 DEF Cancel
<1>7. ASSUME NEW t \in Task, NEW w \in Worker, FollowUpAgent(t, w)
      PROVE  RowsExist'
  BY <1>1, <1>7 DEF FollowUpAgent, CreateTask, Try, RowsExist
<1>8. ASSUME NEW t \in Task, NEW w \in Worker, DelegateTask(t, w)
      PROVE  RowsExist'
  BY <1>1, <1>8 DEF DelegateTask, RowsExist, NamesExist
<1>9. ASSUME NEW t \in Task, NEW w \in Worker, DelegateClaim(t, w)
      PROVE  RowsExist'
  <2>1. CASE Claimable(t, w) /\ ClaimTask(t, w)
    <3>1. att[t] = "none" /\ ws[t] # "none" /\ task[t] # "none"
      BY <1>9 DEF DelegateClaim, ClaimedOnce, NamesExist
    <3>2. UNCHANGED <<ws, wsBy>>
      BY <1>9 DEF DelegateClaim
    <3> QED BY <1>1, <2>1, <3>1, <3>2 DEF ClaimTask, RowsExist
  <2>2. CASE UNCHANGED <<task, ws, wsBy, att, claims>>
    BY <2>2 DEF RowsExist
  <2> QED BY <1>9, <2>1, <2>2 DEF DelegateClaim
<1>10. ASSUME NEW t \in Task, NEW w \in Worker \union {NoWorker}, NEW d \in SUBSET Task,
              CreateAgentTask(t, d, w)
       PROVE  RowsExist'
  BY <1>1, <1>10 DEF CreateAgentTask, CreateTask, RowsExist
<1>11. ASSUME NEW c \in Caller, NEW t \in Task, NEW w \in Worker,
              OpAttach(c, t, w)
       PROVE  RowsExist'
  <2>1. task[t] # "none"
    BY <1>11 DEF OpAttach, NamesExist, Tries
  <2>2. UNCHANGED <<task, att, claims>>
    BY <1>11 DEF OpAttach
  <2>3. CASE UNCHANGED <<ws, wsBy>>
    BY <2>2, <2>3 DEF RowsExist
  <2>4. CASE ws' = Set(ws, t, "open") /\ wsBy' = Set(wsBy, t, w)
    BY <1>1, <2>1, <2>2, <2>4 DEF RowsExist
  <2> QED BY <1>11, <2>3, <2>4 DEF OpAttach
<1>12. ASSUME NEW c \in Caller, NEW t \in Task, NEW w \in Worker,
              OpClaim(c, t, w)
       PROVE  RowsExist'
  BY <1>1, <1>12 DEF OpClaim, Claimable, ClaimTask, SetWorker, Spawn, Refused,
    RowsExist, ClaimedOnce, Claims, NamesExist, Tries
<1>13. ASSUME NEW t \in Task, Acquire(t) PROVE RowsExist'
  BY <1>1, <1>13, LeaveEffect DEF Acquire, SetWorker, CanSet, Allowed,
    RowsExist
<1>14. ASSUME NEW t \in Task, Ask(t) PROVE RowsExist'
  BY <1>1, <1>14 DEF Ask, CanSet, Allowed, Stay, RowsExist
<1>15. ASSUME NEW t \in Task, Answered(t) PROVE RowsExist'
  BY <1>1, <1>15 DEF Answered, Reopened, Stay, RowsExist
<1>16. ASSUME NEW t \in Task, Pause(t) PROVE RowsExist'
  BY <1>1, <1>16 DEF Pause, CanSet, Allowed, Stay, RowsExist
<1>17. ASSUME NEW t \in Task, Suspend(t) PROVE RowsExist'
  BY <1>1, <1>17, LeaveEffect, FinishEffect DEF Suspend, RowsExist
<1>18. ASSUME NEW t \in Task, EndState(t) PROVE RowsExist'
  BY <1>1, <1>18, LeaveEffect DEF EndState, CanSet, Allowed, Stay, RowsExist
<1>19. ASSUME NEW t \in Task, EndFinish(t) PROVE RowsExist'
  BY <1>1, <1>19, LeaveEffect, FinishEffect DEF EndFinish, RowsExist,
    ProcAgrees
<1>20. ASSUME NEW t \in Task, CancelState(t) PROVE RowsExist'
  BY <1>1, <1>20 DEF CancelState, calm, RowsExist
<1>21. ASSUME NEW t \in Task, CancelFinish(t) PROVE RowsExist'
  BY <1>1, <1>21, FinishEffect DEF CancelFinish, RowsExist
<1>22. ASSUME NEW t \in Task, DecideResume(t) PROVE RowsExist'
  BY <1>1, <1>22 DEF DecideResume, Resumable, Reopened, SetWorker, Spawn,
    RowsExist
<1>23. ASSUME NEW t \in Task, ResumeAgent(t) PROVE RowsExist'
  BY <1>1, <1>23 DEF ResumeAgent, PrepareResume, SetWorker, Spawn, RowsExist
<1>24. ASSUME NEW t \in Task, Cleanup(t) PROVE RowsExist'
  BY <1>1, <1>24 DEF Cleanup, Call, RowsExist
<1>25. CASE Crash
  <2>1. UNCHANGED <<ws, wsBy, claims>>
    BY <1>25 DEF Crash
  <2>2. \A t \in Task : /\ task'[t] = "none" <=> task[t] = "none"
                        /\ att'[t] = "none" <=> att[t] = "none"
    BY <1>1, <1>25 DEF Crash, Interruptible
  <2> QED BY <2>1, <2>2 DEF RowsExist
<1>26. ASSUME NEW w \in Worker, StartAgent(w) PROVE RowsExist'
  <2>1. UNCHANGED <<task, ws, wsBy, att, claims>>
    BY <1>26 DEF StartAgent, CreateWorker, SetWorker
  <2> QED BY <2>1 DEF RowsExist
<1>27. ASSUME NEW t \in Task, NEW w \in Worker,
              ToolAssign(t, w) \/ DelegateWorker(t, w) \/ DelegateSpawn(t, w)
       PROVE  RowsExist'
  <2>1. UNCHANGED <<task, ws, wsBy, att, claims>>
    BY <1>27 DEF ToolAssign, DelegateWorker, DelegateSpawn, CreateWorker, Call,
      Spawn, SetWorker
  <2> QED BY <2>1 DEF RowsExist
<1>28. CASE DelegateAbort \/ Rest
  <2>1. UNCHANGED <<task, ws, wsBy, att, claims>>
    BY <1>28 DEF DelegateAbort, Rest, Call, Quiescent
  <2> QED BY <2>1 DEF RowsExist
<1>29. ASSUME NEW c \in Caller,
              OpSchedule(c) \/ OpPick(c)
       PROVE  RowsExist'
  <2>1. UNCHANGED <<task, ws, wsBy, att, claims>>
    BY <1>29 DEF OpSchedule, OpPick
  <2> QED BY <2>1 DEF RowsExist
<1>30. ASSUME NEW t \in Task,
              Open(t) \/ LinkApproval(t) \/ Succeed(t) \/ Fail(t) \/
              EndOutput(t) \/ RunNext(t) \/ TailDone(t) \/ CancelWaited(t) \/
              CancelOutput(t) \/ Decide(t)
       PROVE  RowsExist'
  <2>1. UNCHANGED <<task, ws, wsBy, att, claims>>
    BY <1>30 DEF Open, LinkApproval, Succeed, Fail, EndOutput, RunNext,
      TailDone, CancelWaited, CancelOutput, Decide, Stay, Record, Call
  <2> QED BY <2>1 DEF RowsExist
<1>31. CASE UNCHANGED vars
  BY <1>31 DEF vars, RowsExist
<1> QED BY <1>4, <1>5, <1>6, <1>7, <1>8, <1>9, <1>10, <1>11, <1>12, <1>13,
    <1>14, <1>15, <1>16, <1>17, <1>18, <1>19, <1>20, <1>21, <1>22, <1>23,
    <1>24, <1>25, <1>26, <1>27, <1>28, <1>29, <1>30, <1>31
    DEF Next, Rest

\* Callers name tasks that exist.
LEMMA NamesExistStep ==
  TypeOK /\ RowsExist /\ NamesExist /\ ProcAgrees /\ [Next]_vars
    => NamesExist'
<1> SUFFICES ASSUME TypeOK, RowsExist, NamesExist, ProcAgrees, [Next]_vars
             PROVE  NamesExist'
  OBVIOUS
<1> USE TeamAssumption DEF db, mem, vars, rest, quiet, Active, Ended,
    TaskState, Attempt, Caller, Idle, Free, Unended, Busy, Unstarted, Set, At
<1>1. /\ task \in [Task -> TaskState]
      /\ att \in [Task -> Attempt]
      /\ out \in [Task -> {"none"} \union Ended]
      /\ op \in [Caller -> CallerState]
  BY DEF TypeOK, RowTypes, ProcTypes, CallTypes
<1>2. ASSUME NEW t \in Task, CancelBegin(t) PROVE NamesExist'
  <2>1. CallersCalm /\ UNCHANGED adm
    BY <1>2, CancelBeginEffect DEF Interrupts, calm
  <2>2. \A x \in Task : task'[x] = "none" <=> task[x] = "none"
    BY <1>1, <1>2, CancelBeginEffect DEF Interrupts
  <2> QED BY <2>1, <2>2, NamesKept
<1>3. ASSUME NEW w \in Worker, StopAgent(w) PROVE NamesExist'
  BY <1>1, <1>3, <1>2 DEF StopAgent, ActiveOf, Stopped, NamesExist, Tries
<1>4. ASSUME NEW t \in Task, Cancel(t) PROVE NamesExist'
  BY <1>4, <1>2 DEF Cancel
<1>5. ASSUME NEW t \in Task, NEW w \in Worker, ToolAssign(t, w)
      PROVE  NamesExist'
  BY SMTT(30), <1>1, <1>5 DEF ToolAssign, Call, Try, NamesExist, Tries
<1>6. ASSUME NEW t \in Task, NEW w \in Worker, DelegateWorker(t, w)
      PROVE  NamesExist'
  BY <1>1, <1>6 DEF DelegateWorker, CreateWorker, SetWorker, NamesExist, Tries
<1>7. ASSUME NEW t \in Task, NEW w \in Worker, FollowUpAgent(t, w)
      PROVE  NamesExist'
  <2>1. /\ task[t] = "none" /\ task' = Set(task, t, "created") /\ UNCHANGED adm
        /\ \A v \in Worker : adm # <<"task", t, v>>
    BY <1>7 DEF FollowUpAgent, CreateTask
  <2>2. \A e \in Caller : op'[e] = op[e] \/ op'[e] = Try(t, w, FALSE)
    BY <1>1, <1>7 DEF FollowUpAgent
  <2>3. \A e \in Caller, x \in Task, v \in Worker :
          Tries(e, x, v)' => Tries(e, x, v) \/ x = t
    BY <2>2 DEF Tries, Try
  <2> QED BY <1>1, <2>1, <2>3 DEF NamesExist
<1>8. ASSUME NEW t \in Task, NEW w \in Worker, DelegateTask(t, w)
      PROVE  NamesExist'
  BY <1>1, <1>8 DEF DelegateTask, NamesExist, Tries
<1>9. ASSUME NEW t \in Task, NEW w \in Worker, DelegateClaim(t, w)
      PROVE  NamesExist'
  BY <1>1, <1>9 DEF DelegateClaim, Claimable, ClaimTask, SetWorker, NamesExist,
    Tries
<1>10. ASSUME NEW t \in Task, NEW w \in Worker, DelegateSpawn(t, w)
       PROVE  NamesExist'
  BY SMTT(30), <1>1, <1>10 DEF DelegateSpawn, Spawn, NamesExist, Tries
<1>11. ASSUME NEW t \in Task, NEW w \in Worker \union {NoWorker}, NEW d \in SUBSET Task,
              CreateAgentTask(t, d, w)
       PROVE  NamesExist'
  <2>1. /\ task[t] = "none" /\ task' = Set(task, t, "created") /\ UNCHANGED adm
        /\ \A v \in Worker : adm # <<"task", t, v>>
    BY <1>11 DEF CreateAgentTask, CreateTask
  <2>2. CallersCalm
    BY <1>1, <1>11 DEF CreateAgentTask, CallersCalm
  <2> QED BY <1>1, <2>1, <2>2 DEF NamesExist, Tries, CallersCalm
<1>12. CASE DelegateAbort
  BY <1>1, <1>12 DEF DelegateAbort, Call, NamesExist, Tries
<1>13. ASSUME NEW c \in Caller, OpSchedule(c) PROVE NamesExist'
  BY <1>1, <1>13 DEF OpSchedule, Pairs, NamesExist, Tries
<1>14. ASSUME NEW c \in Caller, OpPick(c) PROVE NamesExist'
  BY <1>1, <1>14 DEF OpPick, Done, NamesExist, Tries
<1>15. ASSUME NEW c \in Caller, NEW t \in Task, NEW w \in Worker,
              OpAttach(c, t, w)
       PROVE  NamesExist'
  BY SMTT(30), <1>1, <1>15 DEF OpAttach, HasWorkspace, Refused, Done, NamesExist, Tries
<1>16. ASSUME NEW c \in Caller, NEW t \in Task, NEW w \in Worker,
              OpClaim(c, t, w)
       PROVE  NamesExist'
  <2>1. CASE Claimable(t, w) /\ ClaimTask(t, w)
    <3>1. \A x \in Task : task'[x] = "none" <=> task[x] = "none"
      BY <1>1, <1>16, <2>1 DEF OpClaim, Claimable, ClaimTask
    <3>2. UNCHANGED adm /\ \A e \in Caller : op'[e] = op[e] \/
             (op'[e].pc = "pick" /\ op'[e].q \subseteq op[e].q)
      BY <1>1, <1>16, <2>1 DEF OpClaim
    <3> QED BY <3>1, <3>2 DEF NamesExist, Tries
  <2>2. CASE op' = Set(op, c, Refused(c)) /\ UNCHANGED task
    <3>1. UNCHANGED adm /\ \A e \in Caller : op'[e] = op[e] \/
             (op'[e].pc \in {"pick", "schedule"} /\ op'[e].q \subseteq op[e].q)
      BY <1>1, <1>16, <2>2 DEF OpClaim, Refused
    <3> QED BY <2>2, <3>1 DEF NamesExist, Tries
  <2> QED BY <1>16, <2>1, <2>2 DEF OpClaim
<1>17. ASSUME NEW t \in Task, Acquire(t) PROVE NamesExist'
  <2>1. CASE Leave(t) /\ UNCHANGED task
    <3>1. CallersCalm /\ UNCHANGED adm
      BY <1>17, <2>1, LeaveEffect DEF Acquire
    <3> QED BY <2>1, <3>1, NamesKept
  <2>2. CASE task' = Set(task, t, "running") /\ UNCHANGED op
    <3>1. UNCHANGED adm
      BY <1>17 DEF Acquire
    <3>2. task[t] # "none"
      BY <1>1, <1>17, <2>2 DEF Acquire, RowsExist, CanSet, Allowed, ProcAgrees
    <3> QED BY <1>1, <2>2, <3>1, <3>2 DEF NamesExist, Tries
  <2> QED BY <1>17, <2>1, <2>2 DEF Acquire
<1>18. ASSUME NEW t \in Task, Ask(t) PROVE NamesExist'
  BY <1>1, <1>18 DEF Ask, CanSet, Allowed, Stay, NamesExist, Tries
<1>19. ASSUME NEW t \in Task, Answered(t) PROVE NamesExist'
  BY <1>1, <1>19 DEF Answered, Reopened, Stay, NamesExist, Tries
<1>20. ASSUME NEW t \in Task, Pause(t) PROVE NamesExist'
  BY <1>1, <1>20 DEF Pause, CanSet, Allowed, Stay, NamesExist, Tries
<1>21. ASSUME NEW t \in Task, Suspend(t) PROVE NamesExist'
  <2>1. FinishAttempt(t, "suspended") /\ Leave(t) /\ UNCHANGED adm
    BY <1>21 DEF Suspend
  <2>2. \A x \in Task : task'[x] = "none" <=> task[x] = "none"
    BY <1>1, <2>1, FinishEffect DEF RowsExist
  <2>3. CallersCalm
    BY <2>1, LeaveEffect
  <2> QED BY <2>1, <2>2, <2>3, NamesKept
<1>22. ASSUME NEW t \in Task, Fail(t) PROVE NamesExist'
  <2>1. UNCHANGED op \/ Leave(t)
    BY <1>22 DEF Fail, Record
  <2>2. CallersCalm
    BY <2>1, LeaveEffect DEF CallersCalm
  <2>3. UNCHANGED adm /\ \A x \in Task : task'[x] = "none" <=> task[x] = "none"
    BY <1>1, <1>22 DEF Fail
  <2> QED BY <2>2, <2>3, NamesKept
<1>23. ASSUME NEW t \in Task, EndState(t) PROVE NamesExist'
  <2>1. UNCHANGED op \/ Leave(t)
    BY <1>23 DEF EndState, Stay
  <2>2. CallersCalm
    BY <2>1, LeaveEffect DEF CallersCalm
  <2>3. UNCHANGED adm /\ \A x \in Task : task'[x] = "none" <=> task[x] = "none"
    BY <1>1, <1>23 DEF EndState, CanSet, Allowed, ProcAgrees
  <2> QED BY <2>2, <2>3, NamesKept
<1>24. ASSUME NEW t \in Task, EndOutput(t) PROVE NamesExist'
  <2>1. UNCHANGED op \/ Leave(t)
    BY <1>24 DEF EndOutput, Stay
  <2>2. CallersCalm
    BY <2>1, LeaveEffect DEF CallersCalm
  <2>3. UNCHANGED adm /\ \A x \in Task : task'[x] = "none" <=> task[x] = "none"
    BY <1>1, <1>24 DEF EndOutput
  <2> QED BY <2>2, <2>3, NamesKept
<1>25. ASSUME NEW t \in Task, EndFinish(t) PROVE NamesExist'
  <2>1. FinishAttempt(t, out[t]) /\ Leave(t) /\ UNCHANGED adm
    BY <1>25 DEF EndFinish
  <2>2. \A x \in Task : task'[x] = "none" <=> task[x] = "none"
    <3>1. out[t] \in Ended
      BY <1>1, <1>25 DEF EndFinish, ProcAgrees
    <3> QED BY <1>1, <2>1, <3>1, FinishEffect DEF RowsExist
  <2>3. CallersCalm
    BY <2>1, LeaveEffect
  <2> QED BY <2>1, <2>2, <2>3, NamesKept
<1>26. ASSUME NEW t \in Task, RunNext(t) PROVE NamesExist'
  BY <1>1, <1>26 DEF RunNext, Done, Try, NamesExist, Tries
<1>27. ASSUME NEW t \in Task, TailDone(t) PROVE NamesExist'
  BY <1>1, <1>27 DEF TailDone, NamesExist, Tries
<1>28. ASSUME NEW t \in Task, CancelState(t) PROVE NamesExist'
  BY <1>1, <1>28 DEF CancelState, calm, NamesExist, Tries
<1>29. ASSUME NEW t \in Task, CancelFinish(t) PROVE NamesExist'
  <2>1. FinishAttempt(t, "cancelled") /\ UNCHANGED <<adm, op>>
    BY <1>29 DEF CancelFinish
  <2>2. \A x \in Task : task'[x] = "none" <=> task[x] = "none"
    BY <1>1, <2>1, FinishEffect DEF RowsExist
  <2>3. CallersCalm
    BY <2>1 DEF CallersCalm
  <2> QED BY <2>1, <2>2, <2>3, NamesKept
<1>30. ASSUME NEW t \in Task, DecideResume(t) PROVE NamesExist'
  BY <1>1, <1>30 DEF DecideResume, Resumable, Reopened, SetWorker, Spawn,
    NamesExist, Tries
<1>31. ASSUME NEW t \in Task, ResumeAgent(t) PROVE NamesExist'
  BY <1>1, <1>31 DEF ResumeAgent, PrepareResume, SetWorker, Spawn, NamesExist,
    Tries
<1>32. CASE Crash
  BY <1>1, <1>32 DEF Crash, Call, NamesExist, Tries
<1>33. ASSUME NEW w \in Worker,
              StartAgent(w) \/ StopEnd(w)
       PROVE  NamesExist'
  <2>1. UNCHANGED <<task, op, adm>>
    BY <1>33 DEF StartAgent, StopEnd, Stopped, CreateWorker, SetWorker
  <2> QED BY <2>1 DEF NamesExist, Tries
<1>34. ASSUME NEW t \in Task,
              Open(t) \/ LinkApproval(t) \/ Succeed(t) \/ CancelWaited(t) \/
              CancelOutput(t) \/ Decide(t) \/ Cleanup(t)
       PROVE  NamesExist'
  <2>1. UNCHANGED <<task, op, adm>>
    BY <1>34 DEF Open, LinkApproval, Succeed, CancelWaited, CancelOutput,
      Decide, Cleanup, Stay, Record, Call
  <2> QED BY <2>1 DEF NamesExist, Tries
<1>35. CASE Rest
  <2>1. UNCHANGED <<task, op, adm>>
    BY <1>35 DEF Rest, Quiescent
  <2> QED BY <2>1 DEF NamesExist, Tries
<1>36. CASE UNCHANGED vars
  BY <1>36 DEF vars, NamesExist, Tries
<1> QED BY <1>3, <1>4, <1>5, <1>6, <1>7, <1>8, <1>9, <1>10, <1>11, <1>12,
    <1>13, <1>14, <1>15, <1>16, <1>17, <1>18, <1>19, <1>20, <1>21, <1>22,
    <1>23, <1>24, <1>25, <1>26, <1>27, <1>28, <1>29, <1>30, <1>31, <1>32,
    <1>33, <1>34, <1>35, <1>36
    DEF Next, Rest

\* The workspace row keeps two callers from claiming one task.
LEMMA ClaimedOnceStep ==
  TypeOK /\ RowsExist /\ NamesExist /\ ClaimedOnce /\ ProcAgrees /\
    [Next]_vars
    => ClaimedOnce'
<1> SUFFICES ASSUME TypeOK, RowsExist, NamesExist, ClaimedOnce, ProcAgrees,
                    [Next]_vars
             PROVE  ClaimedOnce'
  OBVIOUS
<1> USE TeamAssumption DEF db, mem, vars, rest, quiet, Active, Ended,
    TaskState, Attempt, Caller, Idle, Free, Unended, Busy, Unstarted, Set, At
<1>1. /\ att \in [Task -> Attempt]
      /\ ws \in [Task -> {"none", "open", "cleaned"}]
      /\ out \in [Task -> {"none"} \union Ended]
      /\ op \in [Caller -> CallerState]
  BY DEF TypeOK, RowTypes, ProcTypes, CallTypes
<1>2. ASSUME NEW w \in Worker, Stopped(w) PROVE ClaimedOnce'
  BY <1>1, <1>2 DEF Stopped, SetWorker, ClaimedOnce, Claims
<1>3. ASSUME NEW t \in Task, CancelBegin(t) PROVE ClaimedOnce'
  <2>1. CallersCalm /\ UNCHANGED <<adm, att, ws>>
    BY <1>3, CancelBeginEffect DEF Interrupts, calm
  <2> QED BY <2>1 DEF ClaimedOnce, Claims, CallersCalm
<1>4. ASSUME NEW w \in Worker, StopAgent(w) PROVE ClaimedOnce'
  BY <1>4, <1>3, <1>2 DEF StopAgent, ActiveOf
<1>5. ASSUME NEW w \in Worker, StopEnd(w) PROVE ClaimedOnce'
  BY <1>5, <1>2 DEF StopEnd
<1>6. ASSUME NEW t \in Task, Cancel(t) PROVE ClaimedOnce'
  BY <1>6, <1>3 DEF Cancel
<1>7. ASSUME NEW t \in Task, NEW w \in Worker, ToolAssign(t, w)
      PROVE  ClaimedOnce'
  BY <1>1, <1>7 DEF ToolAssign, Call, Try, ClaimedOnce, Claims
<1>8. ASSUME NEW t \in Task, NEW w \in Worker, DelegateWorker(t, w)
      PROVE  ClaimedOnce'
  BY <1>1, <1>8 DEF DelegateWorker, CreateWorker, SetWorker, ClaimedOnce,
    Claims
<1>9. ASSUME NEW t \in Task, NEW w \in Worker, FollowUpAgent(t, w)
      PROVE  ClaimedOnce'
  BY <1>1, <1>9 DEF FollowUpAgent, CreateTask, Try, ClaimedOnce, Claims
<1>10. ASSUME NEW t \in Task, NEW w \in Worker, DelegateTask(t, w)
       PROVE  ClaimedOnce'
  BY <1>1, <1>10 DEF DelegateTask, ClaimedOnce, Claims, NamesExist, RowsExist
<1>11. ASSUME NEW t \in Task, NEW w \in Worker, DelegateClaim(t, w)
       PROVE  ClaimedOnce'
  BY <1>1, <1>11 DEF DelegateClaim, Claimable, ClaimTask, SetWorker,
    ClaimedOnce, Claims, RowsExist
<1>12. ASSUME NEW t \in Task, NEW w \in Worker, DelegateSpawn(t, w)
       PROVE  ClaimedOnce'
  BY <1>1, <1>12 DEF DelegateSpawn, Spawn, ClaimedOnce, Claims
<1>13. ASSUME NEW t \in Task, NEW w \in Worker \union {NoWorker}, NEW d \in SUBSET Task,
              CreateAgentTask(t, d, w)
       PROVE  ClaimedOnce'
  BY <1>1, <1>13 DEF CreateAgentTask, CreateTask, ClaimedOnce, Claims
<1>14. CASE DelegateAbort
  BY <1>1, <1>14 DEF DelegateAbort, Call, ClaimedOnce, Claims
<1>15. ASSUME NEW c \in Caller, OpSchedule(c) PROVE ClaimedOnce'
  BY <1>1, <1>15 DEF OpSchedule, Pairs, ClaimedOnce, Claims
<1>16. ASSUME NEW c \in Caller, OpPick(c) PROVE ClaimedOnce'
  BY <1>1, <1>16 DEF OpPick, Done, ClaimedOnce, Claims
<1>17. ASSUME NEW c \in Caller, NEW t \in Task, NEW w \in Worker,
              OpAttach(c, t, w)
       PROVE  ClaimedOnce'
  <2>1. UNCHANGED <<att, adm>>
    BY <1>17 DEF OpAttach
  <2>2. CASE op' = Set(op, c, Refused(c)) /\ UNCHANGED ws
    BY <1>1, <2>1, <2>2 DEF Refused, ClaimedOnce, Claims
  <2>3. CASE op' = Set(op, c, Done(c)) /\ UNCHANGED ws
    BY <1>1, <2>1, <2>3 DEF Done, ClaimedOnce, Claims
  <2>4. CASE /\ ws[t] = "none" /\ ws' = Set(ws, t, "open")
             /\ op' = Set(op, c, At("claim", op[c].q, <<t, w>>, op[c].first))
    <3>1. att[t] = "none"
      BY <2>4 DEF RowsExist
    <3>2. \A e \in Caller, x \in Task, v \in Worker :
            Claims(e, x, v)' <=> IF e = c THEN x = t /\ v = w ELSE Claims(e, x, v)
      BY <1>1, <2>4 DEF Claims
    <3> QED BY <1>1, <2>1, <2>4, <3>1, <3>2 DEF ClaimedOnce
  <2> QED BY <1>17, <2>2, <2>3, <2>4 DEF OpAttach, HasWorkspace
<1>18. ASSUME NEW c \in Caller, NEW t \in Task, NEW w \in Worker,
              OpClaim(c, t, w)
       PROVE  ClaimedOnce'
  BY SMTT(30), <1>1, <1>18 DEF OpClaim, Claimable, ClaimTask, SetWorker, Spawn, Refused,
    ClaimedOnce, Claims, RowsExist
<1>19. ASSUME NEW t \in Task, Acquire(t) PROVE ClaimedOnce'
  BY <1>1, <1>19, LeaveEffect DEF Acquire, SetWorker, CanSet, Allowed,
    ClaimedOnce, Claims, CallersCalm
<1>20. ASSUME NEW t \in Task, Suspend(t) PROVE ClaimedOnce'
  <2>1. FinishAttempt(t, "suspended") /\ Leave(t) /\ UNCHANGED adm
    BY <1>20 DEF Suspend
  <2>2. \A x \in Task : /\ att[x] = "none" => att'[x] = "none"
                        /\ ws[x] # "none" => ws'[x] # "none"
    BY <1>1, <1>20, <2>1, FinishEffect DEF Suspend
  <2>3. CallersCalm
    BY <2>1, LeaveEffect
  <2> QED BY <2>1, <2>2, <2>3 DEF ClaimedOnce, Claims, CallersCalm
<1>21. ASSUME NEW t \in Task, Fail(t) PROVE ClaimedOnce'
  BY <1>1, <1>21, LeaveEffect DEF Fail, Call, Record, ClaimedOnce, Claims,
    CallersCalm
<1>22. ASSUME NEW t \in Task, EndState(t) PROVE ClaimedOnce'
  BY <1>1, <1>22, LeaveEffect DEF EndState, CanSet, Allowed, Stay, ClaimedOnce,
    Claims, CallersCalm
<1>23. ASSUME NEW t \in Task, EndOutput(t) PROVE ClaimedOnce'
  BY <1>1, <1>23, LeaveEffect DEF EndOutput, Stay, ClaimedOnce, Claims,
    CallersCalm
<1>24. ASSUME NEW t \in Task, EndFinish(t) PROVE ClaimedOnce'
  <2>1. FinishAttempt(t, out[t]) /\ Leave(t) /\ UNCHANGED adm
    BY <1>24 DEF EndFinish
  <2>2. \A x \in Task : /\ att[x] = "none" => att'[x] = "none"
                        /\ ws[x] # "none" => ws'[x] # "none"
    <3>1. out[t] \in Ended
      BY <1>1, <1>24 DEF EndFinish, ProcAgrees
    <3> QED BY <1>1, <1>24, <2>1, <3>1, FinishEffect DEF EndFinish
  <2>3. CallersCalm
    BY <2>1, LeaveEffect
  <2> QED BY <2>1, <2>2, <2>3 DEF ClaimedOnce, Claims, CallersCalm
<1>25. ASSUME NEW t \in Task, RunNext(t) PROVE ClaimedOnce'
  BY <1>1, <1>25 DEF RunNext, Done, Try, ClaimedOnce, Claims
<1>26. ASSUME NEW t \in Task, TailDone(t) PROVE ClaimedOnce'
  BY <1>1, <1>26 DEF TailDone, ClaimedOnce, Claims
<1>27. ASSUME NEW t \in Task, CancelFinish(t) PROVE ClaimedOnce'
  BY <1>1, <1>27, FinishEffect DEF CancelFinish, ClaimedOnce, Claims
<1>28. ASSUME NEW t \in Task, DecideResume(t) PROVE ClaimedOnce'
  BY <1>1, <1>28 DEF DecideResume, Resumable, Reopened, SetWorker, Spawn,
    ClaimedOnce, Claims
<1>29. ASSUME NEW t \in Task, ResumeAgent(t) PROVE ClaimedOnce'
  BY <1>1, <1>29 DEF ResumeAgent, PrepareResume, SetWorker, Spawn, ClaimedOnce,
    Claims
<1>30. ASSUME NEW t \in Task, Cleanup(t) PROVE ClaimedOnce'
  BY <1>1, <1>30 DEF Cleanup, Call, ClaimedOnce, Claims
<1>31. CASE Crash
  BY <1>1, <1>31 DEF Crash, Call, ClaimedOnce, Claims
<1>32. ASSUME NEW w \in Worker, StartAgent(w) PROVE ClaimedOnce'
  <2>1. UNCHANGED <<att, ws, op, adm>>
    BY <1>32 DEF StartAgent, CreateWorker, SetWorker
  <2> QED BY <2>1 DEF ClaimedOnce, Claims
<1>33. ASSUME NEW t \in Task,
              Open(t) \/ Ask(t) \/ Answered(t) \/ Pause(t) \/ LinkApproval(t)
              \/ Succeed(t) \/ CancelWaited(t) \/ CancelState(t) \/
              CancelOutput(t) \/ Decide(t)
       PROVE  ClaimedOnce'
  <2>1. UNCHANGED <<att, ws, op, adm>>
    BY <1>33 DEF Open, Ask, Answered, Pause, LinkApproval, Succeed,
      CancelWaited, CancelState, CancelOutput, Decide, Stay, Record, calm
  <2> QED BY <2>1 DEF ClaimedOnce, Claims
<1>34. CASE Rest
  <2>1. UNCHANGED <<att, ws, op, adm>>
    BY <1>34 DEF Rest, Quiescent
  <2> QED BY <2>1 DEF ClaimedOnce, Claims
<1>35. CASE UNCHANGED vars
  BY <1>35 DEF vars, ClaimedOnce, Claims
<1> QED BY <1>4, <1>5, <1>6, <1>7, <1>8, <1>9, <1>10, <1>11, <1>12, <1>13,
    <1>14, <1>15, <1>16, <1>17, <1>18, <1>19, <1>20, <1>21, <1>22, <1>23,
    <1>24, <1>25, <1>26, <1>27, <1>28, <1>29, <1>30, <1>31, <1>32, <1>33,
    <1>34, <1>35
    DEF Next, Rest

\* A process belongs to an attempt that runs or that somebody else ended, and it
\* records what it knows.
LEMMA ProcStep ==
  TypeOK /\ RowsExist /\ ClaimedOnce /\ ProcAgrees /\ [Next]_vars
    => ProcAgrees'
<1> SUFFICES ASSUME TypeOK, RowsExist, ClaimedOnce, ProcAgrees, [Next]_vars
             PROVE  ProcAgrees'
  OBVIOUS
<1> USE TeamAssumption DEF db, mem, vars, rest, quiet, Active, Ended,
    TaskState, Attempt, Caller, Idle, Free, Unended, Busy, Unstarted, Set, At
<1>1. /\ att \in [Task -> Attempt]
      /\ proc \in [Task -> {"off", "queued", "open", "child", "asking", "linking",
                            "pausing", "state", "output", "finish"}]
      /\ out \in [Task -> {"none"} \union Ended]
      /\ output \in [Task -> {"none"} \union Ended]
  BY DEF TypeOK, RowTypes, ProcTypes, CallTypes
<1>2. ASSUME NEW t \in Task, CancelBegin(t) PROVE ProcAgrees'
  BY <1>1, <1>2, CancelBeginEffect DEF CancelBegin, Interrupts, calm,
    ProcAgrees, ClaimedOnce
<1>3. ASSUME NEW w \in Worker, StopAgent(w) PROVE ProcAgrees'
  BY <1>1, <1>3, <1>2 DEF StopAgent, ActiveOf, Stopped, ProcAgrees, ClaimedOnce
<1>4. ASSUME NEW t \in Task, Cancel(t) PROVE ProcAgrees'
  BY <1>4, <1>2 DEF Cancel
<1>5. ASSUME NEW t \in Task, NEW w \in Worker, DelegateWorker(t, w)
      PROVE  ProcAgrees'
  BY <1>1, <1>5 DEF DelegateWorker, CreateWorker, SetWorker, ProcAgrees,
    ClaimedOnce
<1>6. ASSUME NEW t \in Task, NEW w \in Worker, DelegateTask(t, w)
      PROVE  ProcAgrees'
  BY <1>1, <1>6 DEF DelegateTask, ProcAgrees, ClaimedOnce
<1>7. ASSUME NEW t \in Task, NEW w \in Worker, DelegateClaim(t, w)
      PROVE  ProcAgrees'
  BY <1>1, <1>7 DEF DelegateClaim, Claimable, ClaimTask, SetWorker, ProcAgrees,
    ClaimedOnce
<1>8. ASSUME NEW t \in Task, NEW w \in Worker, DelegateSpawn(t, w)
      PROVE  ProcAgrees'
  BY <1>1, <1>8 DEF DelegateSpawn, Spawn, ProcAgrees, ClaimedOnce
<1>9. CASE DelegateAbort
  BY <1>1, <1>9 DEF DelegateAbort, Call, ProcAgrees, ClaimedOnce
<1>10. ASSUME NEW c \in Caller, NEW t \in Task, NEW w \in Worker,
              OpClaim(c, t, w)
       PROVE  ProcAgrees'
  BY <1>1, <1>10 DEF OpClaim, Claimable, ClaimTask, SetWorker, Spawn, Refused,
    ProcAgrees, ClaimedOnce, Claims
<1>11. ASSUME NEW t \in Task, Acquire(t) PROVE ProcAgrees'
  BY <1>1, <1>11, LeaveEffect DEF Acquire, SetWorker, CanSet, Allowed,
    ProcAgrees, ClaimedOnce
<1>12. ASSUME NEW t \in Task, Open(t) PROVE ProcAgrees'
  BY <1>1, <1>12 DEF Open, Stay, ProcAgrees, ClaimedOnce
<1>13. ASSUME NEW t \in Task, Ask(t) PROVE ProcAgrees'
  BY <1>1, <1>13 DEF Ask, CanSet, Allowed, Stay, ProcAgrees, ClaimedOnce
<1>14. ASSUME NEW t \in Task, Answered(t) PROVE ProcAgrees'
  BY <1>1, <1>14 DEF Answered, Reopened, Stay, ProcAgrees, ClaimedOnce
<1>15. ASSUME NEW t \in Task, Pause(t) PROVE ProcAgrees'
  BY <1>1, <1>15 DEF Pause, CanSet, Allowed, Stay, ProcAgrees, ClaimedOnce
<1>16. ASSUME NEW t \in Task, LinkApproval(t) PROVE ProcAgrees'
  BY <1>1, <1>16 DEF LinkApproval, AddLink, Stay, ProcAgrees, ClaimedOnce
<1>17. ASSUME NEW t \in Task, Suspend(t) PROVE ProcAgrees'
  <2>1. /\ FinishAttempt(t, "suspended") /\ UNCHANGED <<adm, output>>
        /\ proc' = Set(proc, t, "off") /\ out' = Set(out, t, "none")
    BY <1>17, LeaveEffect DEF Suspend
  <2>2. /\ \A x \in Task \ {t} : att'[x] = att[x]
        /\ att'[t] = att[t] \/ (att[t] \in Unended /\ att'[t] = "suspended")
    BY <2>1, FinishEffect
  <2> QED BY <1>1, <1>17, <2>1, <2>2 DEF Suspend, ProcAgrees
<1>18. ASSUME NEW t \in Task, Succeed(t) PROVE ProcAgrees'
  BY <1>1, <1>18 DEF Succeed, Record, ProcAgrees, ClaimedOnce
<1>19. ASSUME NEW t \in Task, Fail(t) PROVE ProcAgrees'
  BY <1>1, <1>19, LeaveEffect DEF Fail, Call, Record, ProcAgrees, ClaimedOnce
<1>20. ASSUME NEW t \in Task, EndState(t) PROVE ProcAgrees'
  BY <1>1, <1>20, LeaveEffect DEF EndState, CanSet, Allowed, Stay, ProcAgrees,
    ClaimedOnce
<1>21. ASSUME NEW t \in Task, EndOutput(t) PROVE ProcAgrees'
  BY SMTT(30), <1>1, <1>21, LeaveEffect DEF EndOutput, Stay, ProcAgrees, ClaimedOnce
<1>22. ASSUME NEW t \in Task, EndFinish(t) PROVE ProcAgrees'
  <2>1. /\ FinishAttempt(t, out[t]) /\ UNCHANGED <<adm, output>>
        /\ proc' = Set(proc, t, "off") /\ out' = Set(out, t, "none")
    BY <1>22, LeaveEffect DEF EndFinish
  <2>2. out[t] \in Ended
    BY <1>22 DEF EndFinish, ProcAgrees
  <2>3. /\ \A x \in Task \ {t} : att'[x] = att[x]
        /\ att'[t] = att[t] \/ (att[t] \in Unended /\ att'[t] = out[t])
    BY <2>1, <2>2, FinishEffect
  <2> QED BY <1>1, <1>22, <2>1, <2>2, <2>3 DEF EndFinish, ProcAgrees
<1>23. ASSUME NEW t \in Task, CancelOutput(t) PROVE ProcAgrees'
  BY <1>1, <1>23 DEF CancelOutput, ProcAgrees, ClaimedOnce
<1>24. ASSUME NEW t \in Task, CancelFinish(t) PROVE ProcAgrees'
  BY <1>1, <1>24, FinishEffect DEF CancelFinish, ProcAgrees, ClaimedOnce
<1>25. ASSUME NEW t \in Task, DecideResume(t) PROVE ProcAgrees'
  BY <1>1, <1>25 DEF DecideResume, Resumable, Reopened, SetWorker, Spawn,
    ProcAgrees, ClaimedOnce
<1>26. ASSUME NEW t \in Task, ResumeAgent(t) PROVE ProcAgrees'
  BY <1>1, <1>26 DEF ResumeAgent, PrepareResume, SetWorker, Spawn, ProcAgrees,
    ClaimedOnce
<1>27. CASE Crash
  BY <1>1, <1>27 DEF Crash, Call, ProcAgrees, ClaimedOnce
<1>28. ASSUME NEW w \in Worker,
              StartAgent(w) \/ StopEnd(w)
       PROVE  ProcAgrees'
  <2>1. UNCHANGED <<att, proc, out, output, adm>>
    BY <1>28 DEF StartAgent, StopEnd, Stopped, CreateWorker, SetWorker
  <2> QED BY <2>1 DEF ProcAgrees
<1>29. ASSUME NEW t \in Task, NEW w \in Worker,
              ToolAssign(t, w) \/ FollowUpAgent(t, w)
       PROVE  ProcAgrees'
  <2>1. UNCHANGED <<att, proc, out, output, adm>>
    BY <1>29 DEF ToolAssign, FollowUpAgent, CreateTask, Call
  <2> QED BY <2>1 DEF ProcAgrees
<1>30. ASSUME NEW t \in Task, NEW w \in Worker \union {NoWorker}, NEW d \in SUBSET Task,
              CreateAgentTask(t, d, w)
       PROVE  ProcAgrees'
  <2>1. UNCHANGED <<att, proc, out, output, adm>>
    BY <1>30 DEF CreateAgentTask, CreateTask
  <2> QED BY <2>1 DEF ProcAgrees
<1>31. ASSUME NEW c \in Caller,
              OpSchedule(c) \/ OpPick(c)
       PROVE  ProcAgrees'
  <2>1. UNCHANGED <<att, proc, out, output, adm>>
    BY <1>31 DEF OpSchedule, OpPick
  <2> QED BY <2>1 DEF ProcAgrees
<1>32. ASSUME NEW c \in Caller, NEW t \in Task, NEW w \in Worker,
              OpAttach(c, t, w)
       PROVE  ProcAgrees'
  <2>1. UNCHANGED <<att, proc, out, output, adm>>
    BY <1>32 DEF OpAttach, Refused
  <2> QED BY <2>1 DEF ProcAgrees
<1>33. ASSUME NEW t \in Task,
              RunNext(t) \/ TailDone(t) \/ CancelWaited(t) \/ CancelState(t) \/
              Decide(t) \/ Cleanup(t)
       PROVE  ProcAgrees'
  <2>1. UNCHANGED <<att, proc, out, output, adm>>
    BY <1>33 DEF RunNext, TailDone, CancelWaited, CancelState, Decide, Cleanup,
      calm, Call
  <2> QED BY <2>1 DEF ProcAgrees
<1>34. CASE Rest
  <2>1. UNCHANGED <<att, proc, out, output, adm>>
    BY <1>34 DEF Rest, Quiescent
  <2> QED BY <2>1 DEF ProcAgrees
<1>35. CASE UNCHANGED vars
  BY <1>35 DEF vars, ProcAgrees
<1> QED BY <1>3, <1>4, <1>5, <1>6, <1>7, <1>8, <1>9, <1>10, <1>11, <1>12,
    <1>13, <1>14, <1>15, <1>16, <1>17, <1>18, <1>19, <1>20, <1>21, <1>22,
    <1>23, <1>24, <1>25, <1>26, <1>27, <1>28, <1>29, <1>30, <1>31, <1>32,
    <1>33, <1>34, <1>35
    DEF Next, Rest

\* _run_next_for_worker runs at the end of an attempt.
LEMMA TailStep ==
  TypeOK /\ RowsExist /\ ProcAgrees /\ TailAgrees /\ [Next]_vars
    => TailAgrees'
<1> SUFFICES ASSUME TypeOK, RowsExist, ProcAgrees, TailAgrees, [Next]_vars
             PROVE  TailAgrees'
  OBVIOUS
<1> USE TeamAssumption DEF db, mem, vars, rest, quiet, Active, Ended,
    TaskState, Attempt, Caller, Idle, Free, Unended, Busy, Unstarted, Set, At
<1>1. /\ att \in [Task -> Attempt]
      /\ out \in [Task -> {"none"} \union Ended]
      /\ op \in [Caller -> CallerState]
  BY DEF TypeOK, RowTypes, ProcTypes, CallTypes
<1>2. ASSUME NEW t \in Task, CancelBegin(t) PROVE TailAgrees'
  BY <1>1, <1>2, CancelBeginEffect DEF CancelBegin, Interrupts, calm,
    TailAgrees, ProcAgrees
<1>3. ASSUME NEW w \in Worker, StopAgent(w) PROVE TailAgrees'
  BY <1>1, <1>3, <1>2 DEF StopAgent, ActiveOf, Stopped, TailAgrees
<1>4. ASSUME NEW t \in Task, Cancel(t) PROVE TailAgrees'
  BY <1>4, <1>2 DEF Cancel
<1>5. ASSUME NEW t \in Task, NEW w \in Worker, ToolAssign(t, w)
      PROVE  TailAgrees'
  BY <1>1, <1>5 DEF ToolAssign, Call, Try, TailAgrees
<1>6. ASSUME NEW t \in Task, NEW w \in Worker, FollowUpAgent(t, w)
      PROVE  TailAgrees'
  BY <1>1, <1>6 DEF FollowUpAgent, CreateTask, Try, TailAgrees
<1>7. ASSUME NEW t \in Task, NEW w \in Worker, DelegateClaim(t, w)
      PROVE  TailAgrees'
  BY <1>1, <1>7 DEF DelegateClaim, Claimable, ClaimTask, SetWorker, TailAgrees
<1>8. ASSUME NEW t \in Task, NEW w \in Worker \union {NoWorker}, NEW d \in SUBSET Task,
             CreateAgentTask(t, d, w)
      PROVE  TailAgrees'
  BY <1>1, <1>8 DEF CreateAgentTask, CreateTask, TailAgrees
<1>9. ASSUME NEW c \in Caller, OpSchedule(c) PROVE TailAgrees'
  BY <1>1, <1>9 DEF OpSchedule, Pairs, TailAgrees
<1>10. ASSUME NEW c \in Caller, OpPick(c) PROVE TailAgrees'
  BY <1>1, <1>10 DEF OpPick, Done, TailAgrees
<1>11. ASSUME NEW c \in Caller, NEW t \in Task, NEW w \in Worker,
              OpAttach(c, t, w)
       PROVE  TailAgrees'
  BY <1>1, <1>11 DEF OpAttach, HasWorkspace, Refused, Done, TailAgrees
<1>12. ASSUME NEW c \in Caller, NEW t \in Task, NEW w \in Worker,
              OpClaim(c, t, w)
       PROVE  TailAgrees'
  BY <1>1, <1>12 DEF OpClaim, Claimable, ClaimTask, SetWorker, Spawn, Refused,
    TailAgrees
<1>13. ASSUME NEW t \in Task, Acquire(t) PROVE TailAgrees'
  BY <1>1, <1>13, LeaveEffect DEF Acquire, SetWorker, CanSet, Allowed,
    TailAgrees, ProcAgrees
<1>14. ASSUME NEW t \in Task, Suspend(t) PROVE TailAgrees'
  BY <1>1, <1>14, LeaveEffect, FinishEffect DEF Suspend, TailAgrees, ProcAgrees
<1>15. ASSUME NEW t \in Task, Fail(t) PROVE TailAgrees'
  BY <1>1, <1>15, LeaveEffect DEF Fail, Call, Record, TailAgrees, ProcAgrees
<1>16. ASSUME NEW t \in Task, EndState(t) PROVE TailAgrees'
  BY <1>1, <1>16, LeaveEffect DEF EndState, CanSet, Allowed, Stay, TailAgrees,
    ProcAgrees
<1>17. ASSUME NEW t \in Task, EndOutput(t) PROVE TailAgrees'
  BY <1>1, <1>17, LeaveEffect DEF EndOutput, Stay, TailAgrees, ProcAgrees
<1>18. ASSUME NEW t \in Task, EndFinish(t) PROVE TailAgrees'
  BY <1>1, <1>18, LeaveEffect, FinishEffect DEF EndFinish, TailAgrees,
    ProcAgrees
<1>19. ASSUME NEW t \in Task, RunNext(t) PROVE TailAgrees'
  BY <1>1, <1>19 DEF RunNext, Done, Try, TailAgrees
<1>20. ASSUME NEW t \in Task, TailDone(t) PROVE TailAgrees'
  BY <1>1, <1>20 DEF TailDone, TailAgrees
<1>21. ASSUME NEW t \in Task, CancelFinish(t) PROVE TailAgrees'
  BY <1>1, <1>21, FinishEffect DEF CancelFinish, TailAgrees
<1>22. ASSUME NEW t \in Task, DecideResume(t) PROVE TailAgrees'
  BY <1>1, <1>22 DEF DecideResume, Resumable, Reopened, SetWorker, Spawn,
    TailAgrees
<1>23. ASSUME NEW t \in Task, ResumeAgent(t) PROVE TailAgrees'
  BY <1>1, <1>23 DEF ResumeAgent, PrepareResume, SetWorker, Spawn, TailAgrees
<1>24. CASE Crash
  BY <1>1, <1>24 DEF Crash, Call, TailAgrees
<1>25. ASSUME NEW w \in Worker,
              StartAgent(w) \/ StopEnd(w)
       PROVE  TailAgrees'
  <2>1. UNCHANGED <<att, op>>
    BY <1>25 DEF StartAgent, StopEnd, Stopped, CreateWorker, SetWorker
  <2> QED BY <2>1 DEF TailAgrees
<1>26. ASSUME NEW t \in Task, NEW w \in Worker,
              DelegateWorker(t, w) \/ DelegateTask(t, w) \/ DelegateSpawn(t, w)
       PROVE  TailAgrees'
  <2>1. UNCHANGED <<att, op>>
    BY <1>26 DEF DelegateWorker, DelegateTask, DelegateSpawn, CreateWorker,
      Spawn, SetWorker
  <2> QED BY <2>1 DEF TailAgrees
<1>27. CASE DelegateAbort \/ Rest
  <2>1. UNCHANGED <<att, op>>
    BY <1>27 DEF DelegateAbort, Rest, Call, Quiescent
  <2> QED BY <2>1 DEF TailAgrees
<1>28. ASSUME NEW t \in Task,
              Open(t) \/ Ask(t) \/ Answered(t) \/ Pause(t) \/ LinkApproval(t)
              \/ Succeed(t) \/ CancelWaited(t) \/ CancelState(t) \/
              CancelOutput(t) \/ Decide(t) \/ Cleanup(t)
       PROVE  TailAgrees'
  <2>1. UNCHANGED <<att, op>>
    BY <1>28 DEF Open, Ask, Answered, Pause, LinkApproval, Succeed,
      CancelWaited, CancelState, CancelOutput, Decide, Cleanup, Stay, Record,
      calm, Call
  <2> QED BY <2>1 DEF TailAgrees
<1>29. CASE UNCHANGED vars
  BY <1>29 DEF vars, TailAgrees
<1> QED BY <1>3, <1>4, <1>5, <1>6, <1>7, <1>8, <1>9, <1>10, <1>11, <1>12,
    <1>13, <1>14, <1>15, <1>16, <1>17, <1>18, <1>19, <1>20, <1>21, <1>22,
    <1>23, <1>24, <1>25, <1>26, <1>27, <1>28, <1>29
    DEF Next, Rest

\* An ended attempt has the last word on its task.
LEMMA EndedStep ==
  TypeOK /\ RowsExist /\ NamesExist /\ ClaimedOnce /\ ProcAgrees /\
    EndedAgrees /\ [Next]_vars
    => EndedAgrees'
<1> SUFFICES ASSUME TypeOK, RowsExist, NamesExist, ClaimedOnce, ProcAgrees,
                    EndedAgrees, [Next]_vars
             PROVE  EndedAgrees'
  OBVIOUS
<1> USE TeamAssumption DEF db, mem, vars, rest, quiet, Active, Ended,
    TaskState, Attempt, Caller, Idle, Free, Unended, Busy, Unstarted, Set, At
<1>1. /\ att \in [Task -> Attempt]
      /\ task \in [Task -> TaskState]
      /\ output \in [Task -> {"none"} \union Ended]
      /\ out \in [Task -> {"none"} \union Ended]
  BY DEF TypeOK, RowTypes, ProcTypes, CallTypes
<1>2. ASSUME NEW t \in Task, CancelBegin(t) PROVE EndedAgrees'
  BY <1>1, <1>2, CancelBeginEffect DEF CancelBegin, Interrupts, calm,
    EndedAgrees, ProcAgrees
<1>3. ASSUME NEW w \in Worker, StopAgent(w) PROVE EndedAgrees'
  BY <1>1, <1>3, <1>2 DEF StopAgent, ActiveOf, Stopped, EndedAgrees, ProcAgrees
<1>4. ASSUME NEW t \in Task, Cancel(t) PROVE EndedAgrees'
  BY <1>4, <1>2 DEF Cancel
<1>5. ASSUME NEW t \in Task, NEW w \in Worker, FollowUpAgent(t, w)
      PROVE  EndedAgrees'
  BY <1>1, <1>5 DEF FollowUpAgent, CreateTask, Try, EndedAgrees, ProcAgrees,
    RowsExist
<1>6. ASSUME NEW t \in Task, NEW w \in Worker, DelegateTask(t, w)
      PROVE  EndedAgrees'
  BY <1>1, <1>6 DEF DelegateTask, EndedAgrees, ProcAgrees, NamesExist,
    RowsExist
<1>7. ASSUME NEW t \in Task, NEW w \in Worker, DelegateClaim(t, w)
      PROVE  EndedAgrees'
  BY <1>1, <1>7 DEF DelegateClaim, Claimable, ClaimTask, SetWorker,
    EndedAgrees, ProcAgrees, ClaimedOnce
<1>8. ASSUME NEW t \in Task, NEW w \in Worker \union {NoWorker}, NEW d \in SUBSET Task,
             CreateAgentTask(t, d, w)
      PROVE  EndedAgrees'
  BY <1>1, <1>8 DEF CreateAgentTask, CreateTask, EndedAgrees, ProcAgrees,
    RowsExist
<1>9. ASSUME NEW c \in Caller, NEW t \in Task, NEW w \in Worker,
             OpClaim(c, t, w)
      PROVE  EndedAgrees'
  BY <1>1, <1>9 DEF OpClaim, Claimable, ClaimTask, SetWorker, Spawn, Refused,
    EndedAgrees, ProcAgrees, ClaimedOnce, Claims
<1>10. ASSUME NEW t \in Task, Acquire(t) PROVE EndedAgrees'
  BY <1>1, <1>10, LeaveEffect DEF Acquire, SetWorker, CanSet, Allowed,
    EndedAgrees, ProcAgrees
<1>11. ASSUME NEW t \in Task, Ask(t) PROVE EndedAgrees'
  BY <1>1, <1>11 DEF Ask, CanSet, Allowed, Stay, EndedAgrees, ProcAgrees
<1>12. ASSUME NEW t \in Task, Answered(t) PROVE EndedAgrees'
  BY <1>1, <1>12 DEF Answered, Reopened, Stay, EndedAgrees, ProcAgrees
<1>13. ASSUME NEW t \in Task, Pause(t) PROVE EndedAgrees'
  BY <1>1, <1>13 DEF Pause, CanSet, Allowed, Stay, EndedAgrees, ProcAgrees
<1>14. ASSUME NEW t \in Task, Suspend(t) PROVE EndedAgrees'
  BY <1>1, <1>14, LeaveEffect, FinishEffect DEF Suspend, EndedAgrees,
    ProcAgrees
<1>15. ASSUME NEW t \in Task, EndState(t) PROVE EndedAgrees'
  BY <1>1, <1>15, LeaveEffect DEF EndState, CanSet, Allowed, Stay, EndedAgrees,
    ProcAgrees
<1>16. ASSUME NEW t \in Task, EndOutput(t) PROVE EndedAgrees'
  BY <1>1, <1>16, LeaveEffect DEF EndOutput, Stay, EndedAgrees, ProcAgrees
<1>17. ASSUME NEW t \in Task, EndFinish(t) PROVE EndedAgrees'
  BY <1>1, <1>17, LeaveEffect, FinishEffect DEF EndFinish, EndedAgrees,
    ProcAgrees
<1>18. ASSUME NEW t \in Task, CancelState(t) PROVE EndedAgrees'
  BY <1>1, <1>18 DEF CancelState, calm, EndedAgrees, ProcAgrees
<1>19. ASSUME NEW t \in Task, CancelOutput(t) PROVE EndedAgrees'
  BY <1>1, <1>19 DEF CancelOutput, EndedAgrees, ProcAgrees
<1>20. ASSUME NEW t \in Task, CancelFinish(t) PROVE EndedAgrees'
  BY <1>1, <1>20, FinishEffect DEF CancelFinish, EndedAgrees, ProcAgrees
<1>21. ASSUME NEW t \in Task, DecideResume(t) PROVE EndedAgrees'
  BY <1>1, <1>21 DEF DecideResume, Resumable, Reopened, SetWorker, Spawn,
    EndedAgrees, ProcAgrees
<1>22. ASSUME NEW t \in Task, ResumeAgent(t) PROVE EndedAgrees'
  BY <1>1, <1>22 DEF ResumeAgent, PrepareResume, SetWorker, Spawn, EndedAgrees,
    ProcAgrees
<1>23. CASE Crash
  BY <1>1, <1>23 DEF Crash, Call, EndedAgrees, ProcAgrees
<1>24. ASSUME NEW w \in Worker,
              StartAgent(w) \/ StopEnd(w)
       PROVE  EndedAgrees'
  <2>1. UNCHANGED <<att, task, output>>
    BY <1>24 DEF StartAgent, StopEnd, Stopped, CreateWorker, SetWorker
  <2> QED BY <2>1 DEF EndedAgrees
<1>25. ASSUME NEW t \in Task, NEW w \in Worker,
              ToolAssign(t, w) \/ DelegateWorker(t, w) \/ DelegateSpawn(t, w)
       PROVE  EndedAgrees'
  <2>1. UNCHANGED <<att, task, output>>
    BY <1>25 DEF ToolAssign, DelegateWorker, DelegateSpawn, CreateWorker, Call,
      Spawn, SetWorker
  <2> QED BY <2>1 DEF EndedAgrees
<1>26. CASE DelegateAbort \/ Rest
  <2>1. UNCHANGED <<att, task, output>>
    BY <1>26 DEF DelegateAbort, Rest, Call, Quiescent
  <2> QED BY <2>1 DEF EndedAgrees
<1>27. ASSUME NEW c \in Caller,
              OpSchedule(c) \/ OpPick(c)
       PROVE  EndedAgrees'
  <2>1. UNCHANGED <<att, task, output>>
    BY <1>27 DEF OpSchedule, OpPick
  <2> QED BY <2>1 DEF EndedAgrees
<1>28. ASSUME NEW c \in Caller, NEW t \in Task, NEW w \in Worker,
              OpAttach(c, t, w)
       PROVE  EndedAgrees'
  <2>1. UNCHANGED <<att, task, output>>
    BY <1>28 DEF OpAttach, Refused
  <2> QED BY <2>1 DEF EndedAgrees
<1>29. ASSUME NEW t \in Task,
              Open(t) \/ LinkApproval(t) \/ Succeed(t) \/ Fail(t) \/ RunNext(t)
              \/ TailDone(t) \/ CancelWaited(t) \/ Decide(t) \/ Cleanup(t)
       PROVE  EndedAgrees'
  <2>1. UNCHANGED <<att, task, output>>
    BY <1>29 DEF Open, LinkApproval, Succeed, Fail, RunNext, TailDone,
      CancelWaited, Decide, Cleanup, Stay, Record, Call
  <2> QED BY <2>1 DEF EndedAgrees
<1>30. CASE UNCHANGED vars
  BY <1>30 DEF vars, EndedAgrees
<1> QED BY <1>3, <1>4, <1>5, <1>6, <1>7, <1>8, <1>9, <1>10, <1>11, <1>12,
    <1>13, <1>14, <1>15, <1>16, <1>17, <1>18, <1>19, <1>20, <1>21, <1>22,
    <1>23, <1>24, <1>25, <1>26, <1>27, <1>28, <1>29, <1>30
    DEF Next, Rest

\* A busy worker has an open attempt.
LEMMA BusyStep ==
  TypeOK /\ RowsExist /\ NamesExist /\ ClaimedOnce /\ ProcAgrees /\
    BusyAgrees /\ [Next]_vars
    => BusyAgrees'
<1> SUFFICES ASSUME TypeOK, RowsExist, NamesExist, ClaimedOnce, ProcAgrees,
                    BusyAgrees, [Next]_vars
             PROVE  BusyAgrees'
  OBVIOUS
<1> USE TeamAssumption DEF db, mem, vars, rest, quiet, Active, Ended,
    TaskState, Attempt, Caller, Idle, Free, Unended, Busy, Unstarted, Set, At
<1>1. /\ att \in [Task -> Attempt]
      /\ assigned \in [Task -> Worker \union {NoWorker}]
      /\ worker \in [Worker -> {"none", "idle", "starting", "running", "waiting_approval",
                                "interrupted", "stopped"}]
      /\ out \in [Task -> {"none"} \union Ended]
  BY DEF TypeOK, RowTypes, ProcTypes, CallTypes
<1>2. ASSUME NEW w \in Worker, StartAgent(w) PROVE BusyAgrees'
  BY <1>1, <1>2 DEF StartAgent, CreateWorker, SetWorker, BusyAgrees, ProcAgrees
<1>3. ASSUME NEW w \in Worker, Stopped(w) PROVE BusyAgrees'
  BY <1>1, <1>3 DEF Stopped, SetWorker, BusyAgrees, ProcAgrees
<1>4. ASSUME NEW t \in Task, CancelBegin(t) PROVE BusyAgrees'
  BY <1>1, <1>4, CancelBeginEffect DEF CancelBegin, Interrupts, calm,
    BusyAgrees, ProcAgrees
<1>5. ASSUME NEW w \in Worker, StopAgent(w) PROVE BusyAgrees'
  BY <1>5, <1>4, <1>3 DEF StopAgent, ActiveOf
<1>6. ASSUME NEW w \in Worker, StopEnd(w) PROVE BusyAgrees'
  BY <1>6, <1>3 DEF StopEnd
<1>7. ASSUME NEW t \in Task, Cancel(t) PROVE BusyAgrees'
  BY <1>7, <1>4 DEF Cancel
<1>8. ASSUME NEW t \in Task, NEW w \in Worker, DelegateWorker(t, w)
      PROVE  BusyAgrees'
  BY <1>1, <1>8 DEF DelegateWorker, CreateWorker, SetWorker, BusyAgrees,
    ProcAgrees
<1>9. ASSUME NEW t \in Task, NEW w \in Worker, FollowUpAgent(t, w)
      PROVE  BusyAgrees'
  BY <1>1, <1>9 DEF FollowUpAgent, CreateTask, Try, BusyAgrees, ProcAgrees,
    RowsExist
<1>10. ASSUME NEW t \in Task, NEW w \in Worker, DelegateTask(t, w)
       PROVE  BusyAgrees'
  BY <1>1, <1>10 DEF DelegateTask, BusyAgrees, ProcAgrees, NamesExist,
    RowsExist
<1>11. ASSUME NEW t \in Task, NEW w \in Worker, DelegateClaim(t, w)
       PROVE  BusyAgrees'
  <2>1. CASE Claimable(t, w) /\ ClaimTask(t, w)
    <3>1. att[t] = "none"
      BY <1>11 DEF DelegateClaim, ClaimedOnce
    <3>2. /\ assigned' = Set(assigned, t, w) /\ att' = Set(att, t, "created")
          /\ worker' = Set(worker, w, "starting")
      BY <2>1 DEF ClaimTask, SetWorker
    <3> QED BY <1>1, <3>1, <3>2 DEF BusyAgrees
  <2>2. CASE UNCHANGED <<assigned, att, worker>>
    BY <2>2 DEF BusyAgrees
  <2> QED BY <1>11, <2>1, <2>2 DEF DelegateClaim
<1>12. ASSUME NEW t \in Task, NEW w \in Worker \union {NoWorker}, NEW d \in SUBSET Task,
              CreateAgentTask(t, d, w)
       PROVE  BusyAgrees'
  BY <1>1, <1>12 DEF CreateAgentTask, CreateTask, BusyAgrees, ProcAgrees,
    RowsExist
<1>13. ASSUME NEW c \in Caller, NEW t \in Task, NEW w \in Worker,
              OpClaim(c, t, w)
       PROVE  BusyAgrees'
  BY <1>1, <1>13 DEF OpClaim, Claimable, ClaimTask, SetWorker, Spawn, Refused,
    BusyAgrees, ProcAgrees, ClaimedOnce, Claims
<1>14. ASSUME NEW t \in Task, Acquire(t) PROVE BusyAgrees'
  BY <1>1, <1>14, LeaveEffect DEF Acquire, SetWorker, CanSet, Allowed,
    BusyAgrees, ProcAgrees
<1>15. ASSUME NEW t \in Task, Suspend(t) PROVE BusyAgrees'
  BY <1>1, <1>15, LeaveEffect, FinishEffect DEF Suspend, BusyAgrees, ProcAgrees
<1>16. ASSUME NEW t \in Task, EndFinish(t) PROVE BusyAgrees'
  BY <1>1, <1>16, LeaveEffect, FinishEffect DEF EndFinish, BusyAgrees,
    ProcAgrees
<1>17. ASSUME NEW t \in Task, CancelFinish(t) PROVE BusyAgrees'
  BY <1>1, <1>17, FinishEffect DEF CancelFinish, BusyAgrees, ProcAgrees
<1>18. ASSUME NEW t \in Task, DecideResume(t) PROVE BusyAgrees'
  BY <1>1, <1>18 DEF DecideResume, Resumable, Reopened, SetWorker, Spawn,
    BusyAgrees, ProcAgrees
<1>19. ASSUME NEW t \in Task, ResumeAgent(t) PROVE BusyAgrees'
  BY <1>1, <1>19 DEF ResumeAgent, PrepareResume, SetWorker, Spawn, BusyAgrees,
    ProcAgrees
<1>20. CASE Crash
  <2>1. /\ UNCHANGED assigned
        /\ \A t \in Task : att'[t] # "none" => att[t] # "none"
        /\ \A w \in Worker : worker'[w] \notin Busy
    BY <1>1, <1>20 DEF Crash, Interruptible
  <2> QED BY <2>1 DEF BusyAgrees
<1>21. ASSUME NEW t \in Task, NEW w \in Worker,
              ToolAssign(t, w) \/ DelegateSpawn(t, w)
       PROVE  BusyAgrees'
  <2>1. UNCHANGED <<att, assigned, worker>>
    BY <1>21 DEF ToolAssign, DelegateSpawn, Call, Spawn
  <2> QED BY <2>1 DEF BusyAgrees
<1>22. CASE DelegateAbort \/ Rest
  <2>1. UNCHANGED <<att, assigned, worker>>
    BY <1>22 DEF DelegateAbort, Rest, Call, Quiescent
  <2> QED BY <2>1 DEF BusyAgrees
<1>23. ASSUME NEW c \in Caller,
              OpSchedule(c) \/ OpPick(c)
       PROVE  BusyAgrees'
  <2>1. UNCHANGED <<att, assigned, worker>>
    BY <1>23 DEF OpSchedule, OpPick
  <2> QED BY <2>1 DEF BusyAgrees
<1>24. ASSUME NEW c \in Caller, NEW t \in Task, NEW w \in Worker,
              OpAttach(c, t, w)
       PROVE  BusyAgrees'
  <2>1. UNCHANGED <<att, assigned, worker>>
    BY <1>24 DEF OpAttach, Refused
  <2> QED BY <2>1 DEF BusyAgrees
<1>25. ASSUME NEW t \in Task,
              Open(t) \/ Ask(t) \/ Answered(t) \/ Pause(t) \/ LinkApproval(t)
              \/ Succeed(t) \/ Fail(t) \/ EndState(t) \/ EndOutput(t) \/
              RunNext(t) \/ TailDone(t) \/ CancelWaited(t) \/ CancelState(t) \/
              CancelOutput(t) \/ Decide(t) \/ Cleanup(t)
       PROVE  BusyAgrees'
  <2>1. UNCHANGED <<att, assigned, worker>>
    BY <1>25 DEF Open, Ask, Answered, Pause, LinkApproval, Succeed, Fail,
      EndState, EndOutput, RunNext, TailDone, CancelWaited, CancelState,
      CancelOutput, Decide, Cleanup, Stay, Record, calm, Call
  <2> QED BY <2>1 DEF BusyAgrees
<1>26. CASE UNCHANGED vars
  BY <1>26 DEF vars, BusyAgrees
<1> QED BY <1>2, <1>5, <1>6, <1>7, <1>8, <1>9, <1>10, <1>11, <1>12, <1>13,
    <1>14, <1>15, <1>16, <1>17, <1>18, <1>19, <1>20, <1>21, <1>22, <1>23,
    <1>24, <1>25, <1>26
    DEF Next, Rest

\* A child is kept until it is no longer needed.
LEMMA KeptStep ==
  TypeOK /\ RowsExist /\ ClaimedOnce /\ ProcAgrees /\ ChildKept /\
    [Next]_vars
    => ChildKept'
<1> SUFFICES ASSUME TypeOK, RowsExist, ClaimedOnce, ProcAgrees, ChildKept,
                    [Next]_vars
             PROVE  ChildKept'
  OBVIOUS
<1> USE TeamAssumption DEF db, mem, vars, rest, quiet, Active, Ended,
    TaskState, Attempt, Caller, Idle, Free, Unended, Busy, Unstarted, Set, At
<1>1. /\ att \in [Task -> Attempt]
      /\ proc \in [Task -> {"off", "queued", "open", "child", "asking", "linking",
                            "pausing", "state", "output", "finish"}]
      /\ cont \subseteq Task
      /\ canc \in [Task -> {"off", "wait", "state", "output", "finish"}]
  BY DEF TypeOK, RowTypes, ProcTypes, CallTypes
<1>2. ASSUME NEW t \in Task, CancelBegin(t) PROVE ChildKept'
  BY <1>1, <1>2, CancelBeginEffect DEF CancelBegin, Interrupts, calm,
    ChildKept, ProcAgrees
<1>3. ASSUME NEW w \in Worker, StopAgent(w) PROVE ChildKept'
  BY <1>1, <1>3, <1>2 DEF StopAgent, ActiveOf, Stopped, ChildKept, ProcAgrees
<1>4. ASSUME NEW t \in Task, Cancel(t) PROVE ChildKept'
  BY <1>4, <1>2 DEF Cancel
<1>5. ASSUME NEW t \in Task, NEW w \in Worker, DelegateClaim(t, w)
      PROVE  ChildKept'
  BY <1>1, <1>5 DEF DelegateClaim, Claimable, ClaimTask, SetWorker, ChildKept,
    ProcAgrees, ClaimedOnce
<1>6. ASSUME NEW t \in Task, NEW w \in Worker, DelegateSpawn(t, w)
      PROVE  ChildKept'
  BY <1>1, <1>6 DEF DelegateSpawn, Spawn, ChildKept, ProcAgrees
<1>7. ASSUME NEW c \in Caller, NEW t \in Task, NEW w \in Worker,
             OpClaim(c, t, w)
      PROVE  ChildKept'
  BY <1>1, <1>7 DEF OpClaim, Claimable, ClaimTask, SetWorker, Spawn, Refused,
    ChildKept, ProcAgrees, ClaimedOnce, Claims
<1>8. ASSUME NEW t \in Task, Acquire(t) PROVE ChildKept'
  BY <1>1, <1>8, LeaveEffect DEF Acquire, SetWorker, CanSet, Allowed,
    ChildKept, ProcAgrees
<1>9. ASSUME NEW t \in Task, Open(t) PROVE ChildKept'
  BY <1>1, <1>9 DEF Open, Stay, ChildKept, ProcAgrees
<1>10. ASSUME NEW t \in Task, Ask(t) PROVE ChildKept'
  BY <1>1, <1>10 DEF Ask, CanSet, Allowed, Stay, ChildKept, ProcAgrees
<1>11. ASSUME NEW t \in Task, Answered(t) PROVE ChildKept'
  BY <1>1, <1>11 DEF Answered, Reopened, Stay, ChildKept, ProcAgrees
<1>12. ASSUME NEW t \in Task, Pause(t) PROVE ChildKept'
  BY <1>1, <1>12 DEF Pause, CanSet, Allowed, Stay, ChildKept, ProcAgrees
<1>13. ASSUME NEW t \in Task, LinkApproval(t) PROVE ChildKept'
  BY <1>1, <1>13 DEF LinkApproval, AddLink, Stay, ChildKept, ProcAgrees
<1>14. ASSUME NEW t \in Task, Suspend(t) PROVE ChildKept'
  BY <1>1, <1>14, LeaveEffect, FinishEffect DEF Suspend, ChildKept, ProcAgrees
<1>15. ASSUME NEW t \in Task, Succeed(t) PROVE ChildKept'
  BY <1>1, <1>15 DEF Succeed, Record, ChildKept, ProcAgrees
<1>16. ASSUME NEW t \in Task, Fail(t) PROVE ChildKept'
  BY <1>1, <1>16, LeaveEffect DEF Fail, Call, Record, ChildKept, ProcAgrees
<1>17. ASSUME NEW t \in Task, EndState(t) PROVE ChildKept'
  BY <1>1, <1>17, LeaveEffect DEF EndState, CanSet, Allowed, Stay, ChildKept,
    ProcAgrees
<1>18. ASSUME NEW t \in Task, EndOutput(t) PROVE ChildKept'
  BY <1>1, <1>18, LeaveEffect DEF EndOutput, Stay, ChildKept, ProcAgrees
<1>19. ASSUME NEW t \in Task, EndFinish(t) PROVE ChildKept'
  BY <1>1, <1>19, LeaveEffect, FinishEffect DEF EndFinish, ChildKept,
    ProcAgrees
<1>20. ASSUME NEW t \in Task, CancelWaited(t) PROVE ChildKept'
  BY <1>1, <1>20 DEF CancelWaited, ChildKept, ProcAgrees
<1>21. ASSUME NEW t \in Task, CancelState(t) PROVE ChildKept'
  BY <1>1, <1>21 DEF CancelState, calm, ChildKept, ProcAgrees
<1>22. ASSUME NEW t \in Task, CancelOutput(t) PROVE ChildKept'
  BY <1>1, <1>22 DEF CancelOutput, ChildKept, ProcAgrees
<1>23. ASSUME NEW t \in Task, CancelFinish(t) PROVE ChildKept'
  BY <1>1, <1>23, FinishEffect DEF CancelFinish, ChildKept, ProcAgrees
<1>24. ASSUME NEW t \in Task, DecideResume(t) PROVE ChildKept'
  BY <1>1, <1>24 DEF DecideResume, Resumable, Reopened, SetWorker, Spawn,
    ChildKept, ProcAgrees
<1>25. ASSUME NEW t \in Task, ResumeAgent(t) PROVE ChildKept'
  BY <1>1, <1>25 DEF ResumeAgent, PrepareResume, SetWorker, Spawn, ChildKept,
    ProcAgrees
<1>26. CASE Crash
  <2>1. \A t \in Task : proc'[t] = "off" /\ att'[t] # "suspended"
    BY <1>1, <1>26 DEF Crash, Interruptible
  <2> QED BY <2>1 DEF ChildKept
<1>27. ASSUME NEW w \in Worker,
              StartAgent(w) \/ StopEnd(w)
       PROVE  ChildKept'
  <2>1. UNCHANGED <<proc, att, cont, canc>>
    BY <1>27 DEF StartAgent, StopEnd, Stopped, CreateWorker, SetWorker
  <2> QED BY <2>1 DEF ChildKept
<1>28. ASSUME NEW t \in Task, NEW w \in Worker,
              ToolAssign(t, w) \/ DelegateWorker(t, w) \/ FollowUpAgent(t, w)
              \/ DelegateTask(t, w)
       PROVE  ChildKept'
  <2>1. UNCHANGED <<proc, att, cont, canc>>
    BY <1>28 DEF ToolAssign, DelegateWorker, FollowUpAgent, DelegateTask,
      CreateWorker, CreateTask, Call, SetWorker
  <2> QED BY <2>1 DEF ChildKept
<1>29. ASSUME NEW t \in Task, NEW w \in Worker \union {NoWorker}, NEW d \in SUBSET Task,
              CreateAgentTask(t, d, w)
       PROVE  ChildKept'
  <2>1. UNCHANGED <<proc, att, cont, canc>>
    BY <1>29 DEF CreateAgentTask, CreateTask
  <2> QED BY <2>1 DEF ChildKept
<1>30. CASE DelegateAbort \/ Rest
  <2>1. UNCHANGED <<proc, att, cont, canc>>
    BY <1>30 DEF DelegateAbort, Rest, Call, Quiescent
  <2> QED BY <2>1 DEF ChildKept
<1>31. ASSUME NEW c \in Caller,
              OpSchedule(c) \/ OpPick(c)
       PROVE  ChildKept'
  <2>1. UNCHANGED <<proc, att, cont, canc>>
    BY <1>31 DEF OpSchedule, OpPick
  <2> QED BY <2>1 DEF ChildKept
<1>32. ASSUME NEW c \in Caller, NEW t \in Task, NEW w \in Worker,
              OpAttach(c, t, w)
       PROVE  ChildKept'
  <2>1. UNCHANGED <<proc, att, cont, canc>>
    BY <1>32 DEF OpAttach, Refused
  <2> QED BY <2>1 DEF ChildKept
<1>33. ASSUME NEW t \in Task,
              RunNext(t) \/ TailDone(t) \/ Decide(t) \/ Cleanup(t)
       PROVE  ChildKept'
  <2>1. UNCHANGED <<proc, att, cont, canc>>
    BY <1>33 DEF RunNext, TailDone, Decide, Cleanup, Call
  <2> QED BY <2>1 DEF ChildKept
<1>34. CASE UNCHANGED vars
  BY <1>34 DEF vars, ChildKept
<1> QED BY <1>3, <1>4, <1>5, <1>6, <1>7, <1>8, <1>9, <1>10, <1>11, <1>12,
    <1>13, <1>14, <1>15, <1>16, <1>17, <1>18, <1>19, <1>20, <1>21, <1>22,
    <1>23, <1>24, <1>25, <1>26, <1>27, <1>28, <1>29, <1>30, <1>31, <1>32,
    <1>33, <1>34
    DEF Next, Rest

\* A process is started only for a task that has none.
LEMMA ProcessStep ==
  TypeOK /\ RowsExist /\ ClaimedOnce /\ ProcAgrees /\ [Next]_vars
    => OneStart
<1> SUFFICES ASSUME TypeOK, RowsExist, ClaimedOnce, ProcAgrees, [Next]_vars
             PROVE  OneStart
  OBVIOUS
<1> USE TeamAssumption DEF db, mem, vars, rest, quiet, Active, Ended,
    TaskState, Attempt, Caller, Idle, Free, Unended, Busy, Unstarted, Set, At
<1>1. /\ att \in [Task -> Attempt]
      /\ proc \in [Task -> {"off", "queued", "open", "child", "asking", "linking",
                            "pausing", "state", "output", "finish"}]
      /\ kind \in [Task -> {"none", "assign", "delegate", "resume", "continue"}]
  BY DEF TypeOK, RowTypes, ProcTypes, CallTypes
<1>2. ASSUME NEW t \in Task, CancelBegin(t) PROVE OneStart
  BY <1>1, <1>2, CancelBeginEffect DEF CancelBegin, Interrupts, calm, OneStart,
    ProcAgrees
<1>3. ASSUME NEW w \in Worker, StopAgent(w) PROVE OneStart
  BY <1>1, <1>3, <1>2 DEF StopAgent, ActiveOf, Stopped, OneStart, ProcAgrees
<1>4. ASSUME NEW t \in Task, Cancel(t) PROVE OneStart
  BY <1>4, <1>2 DEF Cancel
<1>5. ASSUME NEW t \in Task, NEW w \in Worker, DelegateSpawn(t, w)
      PROVE  OneStart
  BY <1>1, <1>5 DEF DelegateSpawn, Spawn, OneStart, ProcAgrees
<1>6. ASSUME NEW c \in Caller, NEW t \in Task, NEW w \in Worker,
             OpClaim(c, t, w)
      PROVE  OneStart
  BY <1>1, <1>6 DEF OpClaim, Claimable, ClaimTask, SetWorker, Spawn, Refused,
    OneStart, ProcAgrees, ClaimedOnce, Claims
<1>7. ASSUME NEW t \in Task, Acquire(t) PROVE OneStart
  BY <1>1, <1>7, LeaveEffect DEF Acquire, SetWorker, CanSet, Allowed, OneStart,
    ProcAgrees
<1>8. ASSUME NEW t \in Task, Open(t) PROVE OneStart
  BY <1>1, <1>8 DEF Open, Stay, OneStart, ProcAgrees
<1>9. ASSUME NEW t \in Task, Ask(t) PROVE OneStart
  BY <1>1, <1>9 DEF Ask, CanSet, Allowed, Stay, OneStart, ProcAgrees
<1>10. ASSUME NEW t \in Task, Answered(t) PROVE OneStart
  BY <1>1, <1>10 DEF Answered, Reopened, Stay, OneStart, ProcAgrees
<1>11. ASSUME NEW t \in Task, Pause(t) PROVE OneStart
  BY <1>1, <1>11 DEF Pause, CanSet, Allowed, Stay, OneStart, ProcAgrees
<1>12. ASSUME NEW t \in Task, LinkApproval(t) PROVE OneStart
  BY <1>1, <1>12 DEF LinkApproval, AddLink, Stay, OneStart, ProcAgrees
<1>13. ASSUME NEW t \in Task, Suspend(t) PROVE OneStart
  BY <1>1, <1>13, LeaveEffect, FinishEffect DEF Suspend, OneStart, ProcAgrees
<1>14. ASSUME NEW t \in Task, Succeed(t) PROVE OneStart
  BY <1>1, <1>14 DEF Succeed, Record, OneStart, ProcAgrees
<1>15. ASSUME NEW t \in Task, Fail(t) PROVE OneStart
  BY <1>1, <1>15, LeaveEffect DEF Fail, Call, Record, OneStart, ProcAgrees
<1>16. ASSUME NEW t \in Task, EndState(t) PROVE OneStart
  BY <1>1, <1>16, LeaveEffect DEF EndState, CanSet, Allowed, Stay, OneStart,
    ProcAgrees
<1>17. ASSUME NEW t \in Task, EndOutput(t) PROVE OneStart
  BY <1>1, <1>17, LeaveEffect DEF EndOutput, Stay, OneStart, ProcAgrees
<1>18. ASSUME NEW t \in Task, EndFinish(t) PROVE OneStart
  BY <1>1, <1>18, LeaveEffect, FinishEffect DEF EndFinish, OneStart, ProcAgrees
<1>19. ASSUME NEW t \in Task, DecideResume(t) PROVE OneStart
  BY <1>1, <1>19 DEF DecideResume, Resumable, Reopened, SetWorker, Spawn,
    OneStart, ProcAgrees
<1>20. ASSUME NEW t \in Task, ResumeAgent(t) PROVE OneStart
  BY <1>1, <1>20 DEF ResumeAgent, PrepareResume, SetWorker, Spawn, OneStart,
    ProcAgrees
<1>21. CASE Crash
  BY <1>1, <1>21 DEF Crash, Call, OneStart, ProcAgrees
<1>22. ASSUME NEW w \in Worker,
              StartAgent(w) \/ StopEnd(w)
       PROVE  OneStart
  <2>1. UNCHANGED <<proc, kind>>
    BY <1>22 DEF StartAgent, StopEnd, Stopped, CreateWorker, SetWorker
  <2> QED BY <2>1 DEF OneStart
<1>23. ASSUME NEW t \in Task, NEW w \in Worker,
              ToolAssign(t, w) \/ DelegateWorker(t, w) \/ FollowUpAgent(t, w)
              \/ DelegateTask(t, w) \/ DelegateClaim(t, w)
       PROVE  OneStart
  <2>1. UNCHANGED <<proc, kind>>
    BY <1>23 DEF ToolAssign, DelegateWorker, FollowUpAgent, DelegateTask,
      DelegateClaim, CreateWorker, CreateTask, Call, SetWorker, ClaimTask
  <2> QED BY <2>1 DEF OneStart
<1>24. ASSUME NEW t \in Task, NEW w \in Worker \union {NoWorker}, NEW d \in SUBSET Task,
              CreateAgentTask(t, d, w)
       PROVE  OneStart
  <2>1. UNCHANGED <<proc, kind>>
    BY <1>24 DEF CreateAgentTask, CreateTask
  <2> QED BY <2>1 DEF OneStart
<1>25. CASE DelegateAbort \/ Rest
  <2>1. UNCHANGED <<proc, kind>>
    BY <1>25 DEF DelegateAbort, Rest, Call, Quiescent
  <2> QED BY <2>1 DEF OneStart
<1>26. ASSUME NEW c \in Caller,
              OpSchedule(c) \/ OpPick(c)
       PROVE  OneStart
  <2>1. UNCHANGED <<proc, kind>>
    BY <1>26 DEF OpSchedule, OpPick
  <2> QED BY <2>1 DEF OneStart
<1>27. ASSUME NEW c \in Caller, NEW t \in Task, NEW w \in Worker,
              OpAttach(c, t, w)
       PROVE  OneStart
  <2>1. UNCHANGED <<proc, kind>>
    BY <1>27 DEF OpAttach, Refused
  <2> QED BY <2>1 DEF OneStart
<1>28. ASSUME NEW t \in Task,
              RunNext(t) \/ TailDone(t) \/ CancelWaited(t) \/ CancelState(t) \/
              CancelOutput(t) \/ CancelFinish(t) \/ Decide(t) \/ Cleanup(t)
       PROVE  OneStart
  <2>1. UNCHANGED <<proc, kind>>
    BY <1>28 DEF RunNext, TailDone, CancelWaited, CancelState, CancelOutput,
      CancelFinish, Decide, Cleanup, calm, Call
  <2> QED BY <2>1 DEF OneStart
<1>29. CASE UNCHANGED vars
  BY <1>29 DEF vars, OneStart
<1> QED BY <1>3, <1>4, <1>5, <1>6, <1>7, <1>8, <1>9, <1>10, <1>11, <1>12,
    <1>13, <1>14, <1>15, <1>16, <1>17, <1>18, <1>19, <1>20, <1>21, <1>22,
    <1>23, <1>24, <1>25, <1>26, <1>27, <1>28, <1>29
    DEF Next, Rest

-----------------------------------------------------------------------------
(***************************************************************************)
(* The invariant and the theorems.                                         *)
(***************************************************************************)

LEMMA InitTInv == Init => TInv
<1> SUFFICES ASSUME Init PROVE TInv
  OBVIOUS
<1> USE TeamAssumption DEF Init, Active, Ended, TaskState, Attempt, Caller, Idle, Free,
      Unended, Busy, At
<1>1. RowTypes
  BY DEF RowTypes
<1>2. ProcTypes
  BY DEF ProcTypes
<1>3. CallTypes
  <2>1. Idle \in CallerState
    BY DEF CallerState
  <2> QED BY <2>1 DEF CallTypes
<1>4. RowsExist
  BY DEF RowsExist
<1>5. NamesExist /\ ClaimedOnce /\ TailAgrees
  BY DEF NamesExist, ClaimedOnce, TailAgrees, Tries, Claims
<1>6. ProcAgrees
  BY DEF ProcAgrees
<1>7. EndedAgrees /\ BusyAgrees /\ ChildKept
  BY DEF EndedAgrees, BusyAgrees, ChildKept
<1> QED BY <1>1, <1>2, <1>3, <1>4, <1>5, <1>6, <1>7 DEF TInv, TypeOK

LEMMA TInvStep == TInv /\ [Next]_vars => TInv'
BY RowTypesStep, ProcTypesStep, CallTypesStep, RowsExistStep, NamesExistStep,
   ClaimedOnceStep, ProcStep, TailStep, EndedStep, BusyStep, KeptStep
   DEF TInv, TypeOK

\* TInv holds at every moment.
LEMMA TeamInvariant == Spec => []TInv
<1>1. Init => TInv
  BY InitTInv
<1>2. TInv /\ [Next]_vars => TInv'
  BY TInvStep
<1> QED BY <1>1, <1>2, PTL DEF Spec

\* finish_attempt, claim_task, _record_cancelled and interrupt_active keep the
\* rows of a task and of its attempt together: an ended attempt is the last
\* word on its task, a completed one has its output, and no task is claimed
\* twice.
THEOREM AttemptsAlwaysAgree == Spec => []AttemptsAgree
<1>1. TInv => AttemptsAgree
  BY DEF TInv, AttemptsAgree, TypeOK, RowTypes, RowsExist, EndedAgrees
<1> QED BY <1>1, TeamInvariant, PTL

\* No interleaving of processes, cancellations, decisions, stops and crashes
\* leaves a worker's row busy without an open attempt, or a suspended attempt
\* without its child.
THEOREM WorkersAlwaysAgree == Spec => []WorkersAgree
<1>1. TInv => WorkersAgree
  BY DEF TInv, WorkersAgree, BusyAgrees, ChildKept, Busy, Unended
<1> QED BY <1>1, TeamInvariant, PTL

\* assign_agent_task, delegate, resume_agent and decide_child_approval start a
\* process only for a task whose last process has ended.
THEOREM OneProcessAtATime == Spec => OneProcess
<1>1. TInv /\ [Next]_vars => [OneStart]_vars
  BY ProcessStep DEF TInv
<1>2. Spec => [][OneStart]_vars
  BY <1>1, TeamInvariant, PTL DEF Spec
<1> QED BY <1>2 DEF OneProcess, OneStart
=============================================================================
