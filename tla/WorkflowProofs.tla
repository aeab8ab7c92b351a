--------------------------- MODULE WorkflowProofs ---------------------------
(***************************************************************************)
(* Proofs about Workflow for every set of actions, children's approvals    *)
(* and commands, and any number of calls that ask: the status of a run and *)
(* its records agree, an ended run stays ended, effects happen once and as *)
(* recorded, and a run that waits can be continued.                        *)
(***************************************************************************)
EXTENDS Workflow, TLAPS

(***************************************************************************)
(* The inductive invariant.                                                *)
(***************************************************************************)

\* The points of a decision that name the action they are about.
Acting == {"asking", "mark", "refuse", "approved", "execute", "record", "cleanup"}

\* The run's own task is at work on a run that goes on, and an exception that
\* ends it has a status to end it with.
LoopRuns ==
  /\ loop \notin {"off", "publish", "ending"} => run = "running"
  /\ loop = "ending" => endAs # "none"

\* A decider in the middle of a decision names an action; the loop decides only
\* actions of its own tools, and only while its run goes on.
DecidersAgree ==
  /\ \A d \in Decider : dpc[d] \in Acting => dact[d] \in Action
  /\ dpc["loop"] # "idle" =>
       /\ loop \in {"acting", "ending"} /\ run = "running"
       /\ dpc["loop"] \in {"asking", "approved", "execute", "record", "cleanup"}
       /\ dact["loop"] \notin Child
  /\ \A d \in Decider \ {"loop"} : dpc[d] # "asking"
  /\ \A d \in Decider : dpc[d] = "cleanup" => dact[d] \notin Child

\* An action that is not yet decided belongs to a run that is not over.
StatusAgrees ==
  /\ run = "none" => item \in {"queued", "cancelled"}
  /\ run # "none" => item = run
  /\ run # "running" => last = run
  /\ loop = "finish" => \A a \in Action \ Child : act[a] \notin Undecided
  /\ run \in Ended => \A a \in Action \ Child : act[a] \notin {"pending", "approved"}

\* Before an ordinary action starts its handler has not run; exactly one
\* decider starts it and runs the handler.
HandlerOnce ==
  /\ \A a \in Action \ Child :
       /\ performed[a] <= 1
       /\ act[a] \in {"none", "pending", "approved", "rejected"} => performed[a] = 0
       /\ act[a] = "completed" => performed[a] = 1
  /\ \A d \in Decider : dpc[d] = "execute" =>
       /\ dact[d] \notin Child /\ performed[dact[d]] = 0
       /\ act[dact[d]] \in {"running", "completed", "failed", "cancelled"}
       /\ \A e \in Decider \ {d} : dact[e] = dact[d] => dpc[e] # "execute"
  /\ \A d \in Decider : dpc[d] = "record" /\ dact[d] \notin Child =>
       performed[dact[d]] = 1 /\ outcome[d] # "none"

\* A child's approval is decided once, and its action follows that decision.
ChildOnce ==
  /\ \A a \in Child :
       /\ performed[a] <= 1
       /\ child[a] # "decided" => performed[a] = 0
       /\ act[a] = "none" <=> child[a] = "none"
       /\ act[a] \in {"approved", "running", "completed"} => performed[a] = 1
       /\ act[a] = "rejected" => performed[a] = 0
       /\ child[a] # "decided" => act[a] \notin {"approved", "running", "completed", "rejected"}
  /\ \A d \in Decider : dpc[d] \in {"mark", "refuse"} =>
       /\ dact[d] \in Child /\ child[dact[d]] = "decided"
       /\ performed[dact[d]] = IF dpc[d] = "mark" THEN 1 ELSE 0

\* The grant of a permission exists after its approval, and is consumed by the
\* one invocation of the tool.
GrantOnce ==
  /\ grant # "none" => kind = "permission" /\ req = "approved"
  /\ invoked = (IF grant = "consumed" THEN 1 ELSE 0)

\* How far the four writes that pause a run have come, and that a run which
\* waits has all of them or none.
PauseOrder ==
  /\ run = "none" => inv = "none" /\ step = "none"
  /\ loop = "asked" => inv = "running" /\ step = "running"
  /\ loop = "request" => inv = "waiting" /\ step = "running" /\ kind = "user_input"
  /\ loop = "step" => inv = "waiting" /\ step = "running"
  /\ loop = "pause" => inv = "waiting" /\ step = "waiting"
  /\ loop \in {"model", "acting", "finish", "finishWaiting"} =>
       inv # "waiting" /\ step # "waiting"
  /\ run \in Waiting => (inv = "waiting" <=> step = "waiting")
  /\ run = "waiting_input" => inv = "waiting" /\ kind = "user_input"
  /\ run = "waiting_approval" /\ inv = "waiting" => kind # "user_input"

\* A call that is pausing, or has paused, its run.
Asking ==
  \/ loop \in {"asked", "request", "step", "pause"}
  \/ run \in Waiting /\ inv = "waiting"

\* What the call asks for exists, and somebody is at work on it once it is
\* neither open nor complete.
AskedAgrees ==
  Asking =>
    /\ kind # "none"
    /\ kind = "user_input" /\ loop \notin {"asked", "request"} =>
         req \in {"pending", "answered", "cancelled"}
    /\ kind = "permission" => req \in {"pending", "approved", "rejected"}
    /\ kind = "action" => target \in Action \ Child /\ act[target] # "none"
    /\ kind = "action" /\ calm /\ act[target] = "running" =>
         \E d \in Decider \ {"loop"} :
           dact[d] = target /\ dpc[d] \in {"execute", "record"}
    /\ kind = "permission" /\ calm /\ req \in {"approved", "rejected"} /\ ~result =>
         \E d \in Decider \ {"loop"} : dpc[d] \in {"invoke", "complete"}

\* Only the loop is interrupted while nobody interrupts a command.
CalmAgrees == calm => \A d \in Decider \ {"loop"} : dpc[d] # "cleanup"

WInv == /\ TypeOK /\ LoopRuns /\ DecidersAgree /\ StatusAgrees
        /\ HandlerOnce /\ ChildOnce /\ GrantOnce
        /\ PauseOrder /\ AskedAgrees /\ CalmAgrees

-----------------------------------------------------------------------------
\* Every step keeps the types.
LEMMA TypeStep ==
  TypeOK /\ LoopRuns /\ DecidersAgree /\ [Next]_vars
    => TypeOK'
<1> SUFFICES ASSUME TypeOK, LoopRuns, DecidersAgree, [Next]_vars PROVE TypeOK'
  OBVIOUS
<1> USE WorkflowAssumption DEF TypeOK, RowTypes, PauseTypes, TaskTypes,
    LoopRuns, DecidersAgree, rows, pause, tasks, hist, env, Undecided, Decided,
    Waiting, Ended, Decider, Acting
<1>1. CASE StartRun
  BY <1>1 DEF StartRun, Become, NoEvent
<1>2. CASE CancelQueued
  BY <1>2 DEF CancelQueued
<1>3. CASE CancelWaiting
  BY <1>3 DEF CancelWaiting, Become, Emit, CancelUndecided
<1>4. CASE AskInput
  <2>1. PauseTypes'
    BY <1>4 DEF AskInput, Ask
  <2>2. RowTypes' /\ TaskTypes' /\ act' \in [Action -> {"none"} \cup Undecided \cup Decided]
    BY <1>4 DEF AskInput, Ask
  <2>3. /\ child' \in [Child -> {"none", "waiting", "decided"}]
        /\ performed' \in [Action -> Nat] /\ invoked' \in Nat /\ calm' \in BOOLEAN
    BY <1>4 DEF AskInput, Ask
  <2> QED BY <2>1, <2>2, <2>3
<1>5. CASE AskPermission
  <2>1. PauseTypes'
    BY <1>5 DEF AskPermission, Ask
  <2>2. RowTypes' /\ TaskTypes' /\ act' \in [Action -> {"none"} \cup Undecided \cup Decided]
    BY <1>5 DEF AskPermission, Ask
  <2>3. /\ child' \in [Child -> {"none", "waiting", "decided"}]
        /\ performed' \in [Action -> Nat] /\ invoked' \in Nat /\ calm' \in BOOLEAN
    BY <1>5 DEF AskPermission, Ask
  <2> QED BY <2>1, <2>2, <2>3
<1>6. ASSUME NEW a \in Action, AskAction(a) PROVE TypeOK'
  <2>1. PauseTypes'
    BY <1>6 DEF AskAction, Ask, CreateAction
  <2>2. RowTypes' /\ TaskTypes' /\ act' \in [Action -> {"none"} \cup Undecided \cup Decided]
    BY <1>6 DEF AskAction, Ask, CreateAction
  <2>3. /\ child' \in [Child -> {"none", "waiting", "decided"}]
        /\ performed' \in [Action -> Nat] /\ invoked' \in Nat /\ calm' \in BOOLEAN
    BY <1>6 DEF AskAction, Ask, CreateAction
  <2> QED BY <2>1, <2>2, <2>3
<1>7. ASSUME NEW a \in Action, ChildApproval(a) PROVE TypeOK'
  BY <1>7 DEF ChildApproval, CreateAction
<1>8. ASSUME NEW a \in Action, ProposeHere(a) PROVE TypeOK'
  BY <1>8 DEF ProposeHere, CreateAction, At
<1>9. CASE PauseInvocation
  BY <1>9 DEF PauseInvocation
<1>10. CASE CreateInputRequest
  BY <1>10 DEF CreateInputRequest
<1>11. CASE PauseStep
  BY <1>11 DEF PauseStep
<1>12. CASE PauseCommit
  BY <1>12 DEF PauseCommit, Become, Emit, PauseStatus
<1>13. CASE ApproveHere
  BY <1>13 DEF ApproveHere, Transition, Allowed, At
<1>14. CASE RejectHere
  BY <1>14 DEF RejectHere, Transition, Allowed, Quit, At
<1>15. CASE ActionDone
  BY <1>15 DEF ActionDone
<1>16. CASE ReadPending
  BY <1>16 DEF ReadPending
<1>17. CASE FinishRun
  BY <1>17 DEF FinishRun, Become, Emit
<1>18. CASE Publish
  BY <1>18 DEF Publish
<1>19. CASE EndRun
  BY <1>19 DEF EndRun, Become, Emit, CancelUndecided
<1>20. CASE Abandon
  BY <1>20 DEF Abandon
<1>21. ASSUME NEW s \in {"failed", "cancelled", "stopped"}, Abort(s)
       PROVE  TypeOK'
  BY <1>21 DEF Abort, InTool
<1>22. ASSUME NEW d \in Decider, NEW a \in Action, ApproveAction(d, a)
       PROVE  TypeOK'
  BY <1>22 DEF ApproveAction, NewCommand, CommandFree, At
<1>23. ASSUME NEW d \in Decider, NEW a \in Action, RejectAction(d, a)
       PROVE  TypeOK'
  BY <1>23 DEF RejectAction, NewCommand, CommandFree, At, Transition, Allowed
<1>24. ASSUME NEW d \in Decider, NEW a \in Child, NEW b \in BOOLEAN,
              DecideChild(d, a, b)
       PROVE  TypeOK'
  BY <1>24 DEF DecideChild, NewCommand, CommandFree, At
<1>25. ASSUME NEW d \in Decider, NEW b \in BOOLEAN, DecidePermission(d, b)
       PROVE  TypeOK'
  BY <1>25 DEF DecidePermission, MayDecide, CommandFree, At
<1>26. ASSUME NEW d \in Decider, NEW r \in {"answered", "cancelled"},
              AnswerInput(d, r)
       PROVE  TypeOK'
  BY <1>26 DEF AnswerInput, MayDecide, CommandFree, At
<1>27. ASSUME NEW d \in Decider, MarkChild(d) PROVE TypeOK'
  BY <1>27 DEF MarkChild, Transition, Allowed, Quit, At
<1>28. ASSUME NEW d \in Decider, StartAction(d) PROVE TypeOK'
  BY <1>28 DEF StartAction, Transition, Allowed, Quit, At
<1>29. ASSUME NEW d \in Decider, StartLate(d) PROVE TypeOK'
  BY <1>29 DEF StartLate, Quit, At
<1>30. ASSUME NEW d \in Decider, Perform(d) PROVE TypeOK'
  BY <1>30 DEF Perform, At
<1>31. ASSUME NEW d \in Decider, RecordAction(d) PROVE TypeOK'
  BY <1>31 DEF RecordAction, Transition, Allowed, Quit, At
<1>32. ASSUME NEW d \in Decider, CleanUp(d) PROVE TypeOK'
  BY <1>32 DEF CleanUp, CancelWaitingAction, Become, Emit, Transition, Allowed,
    Quit, At
<1>33. ASSUME NEW d \in Decider, Settle(d) PROVE TypeOK'
  BY <1>33 DEF Settle, Settleable, SettledAs, Become, Emit, Quit, At
<1>34. ASSUME NEW d \in Decider, Resume(d) PROVE TypeOK'
  BY <1>34 DEF Resume, Become, NoEvent, Quit, At
<1>35. ASSUME NEW d \in Decider, Invoke(d) PROVE TypeOK'
  BY <1>35 DEF Invoke, At
<1>36. ASSUME NEW d \in Decider, CompletePermission(d) PROVE TypeOK'
  BY <1>36 DEF CompletePermission, At
<1>37. ASSUME NEW d \in Decider, Interrupt(d) PROVE TypeOK'
  BY <1>37 DEF Interrupt, Quit, At, Live
<1>38. CASE Crash
  BY <1>38 DEF Crash
<1>39. CASE Quiescent
  BY <1>39 DEF Quiescent, vars
<1>40. CASE UNCHANGED vars
  BY <1>40 DEF vars
<1> HIDE DEF TypeOK, RowTypes, PauseTypes, TaskTypes, LoopRuns, DecidersAgree, rows,
    pause, tasks, hist, env, Undecided, Decided, Waiting, Ended, Decider, Acting
<1> QED BY <1>1, <1>2, <1>3, <1>4, <1>5, <1>6, <1>7, <1>8, <1>9, <1>10, <1>11,
    <1>12, <1>13, <1>14, <1>15, <1>16, <1>17, <1>18, <1>19, <1>20, <1>21,
    <1>22, <1>23, <1>24, <1>25, <1>26, <1>27, <1>28, <1>29, <1>30, <1>31,
    <1>32, <1>33, <1>34, <1>35, <1>36, <1>37, <1>38, <1>39, <1>40
    DEF Next, Queue, Loop, Decide, Continue, Quiescent

\* The loop works on a running run: every transaction that ends or pauses one
\* without the loop requires a waiting run.
LEMMA LoopStep ==
  TypeOK /\ LoopRuns /\ StatusAgrees /\ [Next]_vars
    => LoopRuns'
<1> SUFFICES ASSUME TypeOK, LoopRuns, StatusAgrees, [Next]_vars PROVE LoopRuns'
  OBVIOUS
<1> USE WorkflowAssumption DEF TypeOK, RowTypes, PauseTypes, TaskTypes,
    LoopRuns, StatusAgrees, rows, pause, tasks, hist, env, Undecided, Decided,
    Waiting, Ended, Decider, Acting
<1>1. CASE StartRun
  BY <1>1 DEF StartRun, Become, NoEvent
<1>2. CASE CancelWaiting
  BY <1>2 DEF CancelWaiting, Become, Emit, CancelUndecided
<1>3. CASE AskInput
  BY <1>3 DEF AskInput, Ask
<1>4. CASE AskPermission
  BY <1>4 DEF AskPermission, Ask
<1>5. ASSUME NEW a \in Action, AskAction(a) PROVE LoopRuns'
  BY <1>5 DEF AskAction, Ask, CreateAction
<1>6. ASSUME NEW a \in Action, ProposeHere(a) PROVE LoopRuns'
  BY <1>6 DEF ProposeHere, CreateAction, At
<1>7. CASE PauseInvocation
  BY <1>7 DEF PauseInvocation
<1>8. CASE CreateInputRequest
  BY <1>8 DEF CreateInputRequest
<1>9. CASE PauseStep
  BY <1>9 DEF PauseStep
<1>10. CASE PauseCommit
  BY <1>10 DEF PauseCommit, Become, Emit, PauseStatus
<1>11. CASE RejectHere
  BY <1>11 DEF RejectHere, Transition, Allowed, Quit, At
<1>12. CASE ActionDone
  BY <1>12 DEF ActionDone
<1>13. CASE ReadPending
  BY <1>13 DEF ReadPending
<1>14. CASE FinishRun
  BY <1>14 DEF FinishRun, Become, Emit
<1>15. CASE Publish
  BY <1>15 DEF Publish
<1>16. CASE EndRun
  BY <1>16 DEF EndRun, Become, Emit, CancelUndecided
<1>17. CASE Abandon
  BY <1>17 DEF Abandon
<1>18. ASSUME NEW s \in {"failed", "cancelled", "stopped"}, Abort(s)
       PROVE  LoopRuns'
  BY <1>18 DEF Abort, InTool
<1>19. ASSUME NEW d \in Decider, CleanUp(d) PROVE LoopRuns'
  BY <1>19 DEF CleanUp, CancelWaitingAction, Become, Emit, Transition, Allowed,
    Quit, At
<1>20. ASSUME NEW d \in Decider, Settle(d) PROVE LoopRuns'
  BY <1>20 DEF Settle, Settleable, SettledAs, Become, Emit, Quit, At
<1>21. ASSUME NEW d \in Decider, Resume(d) PROVE LoopRuns'
  BY <1>21 DEF Resume, Become, NoEvent, Quit, At
<1>22. ASSUME NEW d \in Decider, Interrupt(d) PROVE LoopRuns'
  BY <1>22 DEF Interrupt, Quit, At, Live
<1>23. CASE Crash
  BY <1>23 DEF Crash
<1>24. CASE CancelQueued \/ ApproveHere
  BY <1>24 DEF CancelQueued, ApproveHere
<1>25. ASSUME NEW a \in Action, ChildApproval(a) PROVE LoopRuns'
  BY <1>25 DEF ChildApproval
<1>26. ASSUME NEW d \in Decider, NEW a \in Action,
              ApproveAction(d, a) \/ RejectAction(d, a)
       PROVE  LoopRuns'
  BY <1>26 DEF ApproveAction, RejectAction, NewCommand
<1>27. ASSUME NEW d \in Decider, NEW a \in Child, NEW b \in BOOLEAN,
              DecideChild(d, a, b)
       PROVE  LoopRuns'
  BY <1>27 DEF DecideChild, NewCommand
<1>28. ASSUME NEW d \in Decider, NEW b \in BOOLEAN, DecidePermission(d, b)
       PROVE  LoopRuns'
  BY <1>28 DEF DecidePermission
<1>29. ASSUME NEW d \in Decider, NEW r \in {"answered", "cancelled"},
              AnswerInput(d, r)
       PROVE  LoopRuns'
  BY <1>29 DEF AnswerInput
<1>30. ASSUME NEW d \in Decider,
              MarkChild(d) \/ StartAction(d) \/ StartLate(d) \/ Perform(d) \/
              RecordAction(d) \/ Invoke(d) \/ CompletePermission(d)
       PROVE  LoopRuns'
  BY <1>30 DEF MarkChild, StartAction, StartLate, Perform, RecordAction,
    Invoke, CompletePermission
<1>31. CASE UNCHANGED vars
  BY <1>31 DEF vars
<1> QED BY <1>1, <1>2, <1>3, <1>4, <1>5, <1>6, <1>7, <1>8, <1>9, <1>10, <1>11,
    <1>12, <1>13, <1>14, <1>15, <1>16, <1>17, <1>18, <1>19, <1>20, <1>21,
    <1>22, <1>23, <1>24, <1>25, <1>26, <1>27, <1>28, <1>29, <1>30, <1>31
    DEF Next, Queue, Loop, Decide, Continue, Quiescent

\* Deciders name the action they are about until they are done with it.
LEMMA DecidersStep ==
  TypeOK /\ LoopRuns /\ DecidersAgree /\ [Next]_vars
    => DecidersAgree'
<1> SUFFICES ASSUME TypeOK, LoopRuns, DecidersAgree, [Next]_vars
             PROVE  DecidersAgree'
  OBVIOUS
<1> USE WorkflowAssumption DEF TypeOK, RowTypes, PauseTypes, TaskTypes,
    LoopRuns, DecidersAgree, rows, pause, tasks, hist, env, Undecided, Decided,
    Waiting, Ended, Decider, Acting
<1>1. CASE StartRun
  BY <1>1 DEF StartRun, Become, NoEvent
<1>2. CASE CancelWaiting
  BY <1>2 DEF CancelWaiting, Become, Emit, CancelUndecided
<1>3. CASE AskInput
  BY <1>3 DEF AskInput, Ask
<1>4. CASE AskPermission
  BY <1>4 DEF AskPermission, Ask
<1>5. ASSUME NEW a \in Action, AskAction(a) PROVE DecidersAgree'
  BY <1>5 DEF AskAction, Ask, CreateAction
<1>6. ASSUME NEW a \in Action, ProposeHere(a) PROVE DecidersAgree'
  BY <1>6 DEF ProposeHere, CreateAction, At
<1>7. CASE PauseInvocation
  BY <1>7 DEF PauseInvocation
<1>8. CASE CreateInputRequest
  BY <1>8 DEF CreateInputRequest
<1>9. CASE PauseStep
  BY <1>9 DEF PauseStep
<1>10. CASE PauseCommit
  BY <1>10 DEF PauseCommit, Become, Emit, PauseStatus
<1>11. CASE ApproveHere
  BY <1>11 DEF ApproveHere, Transition, Allowed, At
<1>12. CASE RejectHere
  BY <1>12 DEF RejectHere, Transition, Allowed, Quit, At
<1>13. CASE ActionDone
  BY <1>13 DEF ActionDone
<1>14. CASE ReadPending
  BY <1>14 DEF ReadPending
<1>15. CASE FinishRun
  BY <1>15 DEF FinishRun, Become, Emit
<1>16. CASE Publish
  BY <1>16 DEF Publish
<1>17. CASE EndRun
  BY <1>17 DEF EndRun, Become, Emit, CancelUndecided
<1>18. CASE Abandon
  BY <1>18 DEF Abandon
<1>19. ASSUME NEW s \in {"failed", "cancelled", "stopped"}, Abort(s)
       PROVE  DecidersAgree'
  BY <1>19 DEF Abort, InTool
<1>20. ASSUME NEW d \in Decider, NEW a \in Action, ApproveAction(d, a)
       PROVE  DecidersAgree'
  BY <1>20 DEF ApproveAction, NewCommand, CommandFree, At
<1>21. ASSUME NEW d \in Decider, NEW a \in Action, RejectAction(d, a)
       PROVE  DecidersAgree'
  BY <1>21 DEF RejectAction, NewCommand, CommandFree, At, Transition, Allowed
<1>22. ASSUME NEW d \in Decider, NEW a \in Child, NEW b \in BOOLEAN,
              DecideChild(d, a, b)
       PROVE  DecidersAgree'
  BY <1>22 DEF DecideChild, NewCommand, CommandFree, At
<1>23. ASSUME NEW d \in Decider, NEW b \in BOOLEAN, DecidePermission(d, b)
       PROVE  DecidersAgree'
  BY <1>23 DEF DecidePermission, MayDecide, CommandFree, At
<1>24. ASSUME NEW d \in Decider, NEW r \in {"answered", "cancelled"},
              AnswerInput(d, r)
       PROVE  DecidersAgree'
  BY <1>24 DEF AnswerInput, MayDecide, CommandFree, At
<1>25. ASSUME NEW d \in Decider, MarkChild(d) PROVE DecidersAgree'
  BY <1>25 DEF MarkChild, Transition, Allowed, Quit, At
<1>26. ASSUME NEW d \in Decider, StartAction(d) PROVE DecidersAgree'
  BY <1>26 DEF StartAction, Transition, Allowed, Quit, At
<1>27. ASSUME NEW d \in Decider, StartLate(d) PROVE DecidersAgree'
  BY <1>27 DEF StartLate, Quit, At
<1>28. ASSUME NEW d \in Decider, Perform(d) PROVE DecidersAgree'
  BY <1>28 DEF Perform, At
<1>29. ASSUME NEW d \in Decider, RecordAction(d) PROVE DecidersAgree'
  BY <1>29 DEF RecordAction, Transition, Allowed, Quit, At
<1>30. ASSUME NEW d \in Decider, CleanUp(d) PROVE DecidersAgree'
  BY <1>30 DEF CleanUp, CancelWaitingAction, Become, Emit, Transition, Allowed,
    Quit, At
<1>31. ASSUME NEW d \in Decider, Settle(d) PROVE DecidersAgree'
  BY <1>31 DEF Settle, Settleable, SettledAs, Become, Emit, Quit, At
<1>32. ASSUME NEW d \in Decider, Resume(d) PROVE DecidersAgree'
  BY <1>32 DEF Resume, Become, NoEvent, Quit, At
<1>33. ASSUME NEW d \in Decider, Invoke(d) PROVE DecidersAgree'
  BY <1>33 DEF Invoke, At
<1>34. ASSUME NEW d \in Decider, CompletePermission(d) PROVE DecidersAgree'
  BY <1>34 DEF CompletePermission, At
<1>35. ASSUME NEW d \in Decider, Interrupt(d) PROVE DecidersAgree'
  BY <1>35 DEF Interrupt, Quit, At, Live
<1>36. CASE Crash
  BY <1>36 DEF Crash
<1>37. CASE CancelQueued
  BY <1>37 DEF CancelQueued
<1>38. ASSUME NEW a \in Action, ChildApproval(a) PROVE DecidersAgree'
  BY <1>38 DEF ChildApproval
<1>39. CASE UNCHANGED vars
  BY <1>39 DEF vars
<1> QED BY <1>1, <1>2, <1>3, <1>4, <1>5, <1>6, <1>7, <1>8, <1>9, <1>10, <1>11,
    <1>12, <1>13, <1>14, <1>15, <1>16, <1>17, <1>18, <1>19, <1>20, <1>21,
    <1>22, <1>23, <1>24, <1>25, <1>26, <1>27, <1>28, <1>29, <1>30, <1>31,
    <1>32, <1>33, <1>34, <1>35, <1>36, <1>37, <1>38, <1>39
    DEF Next, Queue, Loop, Decide, Continue, Quiescent

\* Run, work item and last event move together, and open actions end with the
\* run.
LEMMA StatusStep ==
  TypeOK /\ LoopRuns /\ DecidersAgree /\ StatusAgrees /\ [Next]_vars
    => StatusAgrees'
<1> SUFFICES ASSUME TypeOK, LoopRuns, DecidersAgree, StatusAgrees, [Next]_vars
             PROVE  StatusAgrees'
  OBVIOUS
<1> USE WorkflowAssumption DEF TypeOK, RowTypes, PauseTypes, TaskTypes,
    LoopRuns, DecidersAgree, StatusAgrees, rows, pause, tasks, hist, env,
    Undecided, Decided, Waiting, Ended, Decider, Acting
<1>1. CASE StartRun
  BY <1>1 DEF StartRun, Become, NoEvent
<1>2. CASE CancelQueued
  BY <1>2 DEF CancelQueued
<1>3. CASE CancelWaiting
  BY <1>3 DEF CancelWaiting, Become, Emit, CancelUndecided
<1>4. CASE AskInput
  BY <1>4 DEF AskInput, Ask
<1>5. CASE AskPermission
  BY <1>5 DEF AskPermission, Ask
<1>6. ASSUME NEW a \in Action, AskAction(a) PROVE StatusAgrees'
  BY <1>6 DEF AskAction, Ask, CreateAction
<1>7. ASSUME NEW a \in Action, ChildApproval(a) PROVE StatusAgrees'
  BY <1>7 DEF ChildApproval, CreateAction
<1>8. ASSUME NEW a \in Action, ProposeHere(a) PROVE StatusAgrees'
  BY <1>8 DEF ProposeHere, CreateAction, At
<1>9. CASE PauseInvocation
  BY <1>9 DEF PauseInvocation
<1>10. CASE CreateInputRequest
  BY <1>10 DEF CreateInputRequest
<1>11. CASE PauseStep
  BY <1>11 DEF PauseStep
<1>12. CASE PauseCommit
  BY <1>12 DEF PauseCommit, Become, Emit, PauseStatus
<1>13. CASE ApproveHere
  BY <1>13 DEF ApproveHere, Transition, Allowed, At
<1>14. CASE RejectHere
  BY <1>14 DEF RejectHere, Transition, Allowed, Quit, At
<1>15. CASE ActionDone
  BY <1>15 DEF ActionDone
<1>16. CASE ReadPending
  BY <1>16 DEF ReadPending
<1>17. CASE FinishRun
  BY <1>17 DEF FinishRun, Become, Emit
<1>18. CASE Publish
  BY <1>18 DEF Publish
<1>19. CASE EndRun
  BY <1>19 DEF EndRun, Become, Emit, CancelUndecided
<1>20. CASE Abandon
  BY <1>20 DEF Abandon
<1>21. ASSUME NEW s \in {"failed", "cancelled", "stopped"}, Abort(s)
       PROVE  StatusAgrees'
  BY <1>21 DEF Abort, InTool
<1>22. ASSUME NEW d \in Decider, NEW a \in Action, ApproveAction(d, a)
       PROVE  StatusAgrees'
  BY <1>22 DEF ApproveAction, NewCommand, CommandFree, At
<1>23. ASSUME NEW d \in Decider, NEW a \in Action, RejectAction(d, a)
       PROVE  StatusAgrees'
  BY <1>23 DEF RejectAction, NewCommand, CommandFree, At, Transition, Allowed
<1>24. ASSUME NEW d \in Decider, MarkChild(d) PROVE StatusAgrees'
  BY <1>24 DEF MarkChild, Transition, Allowed, Quit, At
<1>25. ASSUME NEW d \in Decider, StartAction(d) PROVE StatusAgrees'
  BY <1>25 DEF StartAction, Transition, Allowed, Quit, At
<1>26. ASSUME NEW d \in Decider, StartLate(d) PROVE StatusAgrees'
  BY <1>26 DEF StartLate, Quit, At
<1>27. ASSUME NEW d \in Decider, RecordAction(d) PROVE StatusAgrees'
  BY <1>27 DEF RecordAction, Transition, Allowed, Quit, At
<1>28. ASSUME NEW d \in Decider, CleanUp(d) PROVE StatusAgrees'
  BY <1>28 DEF CleanUp, CancelWaitingAction, Become, Emit, Transition, Allowed,
    Quit, At
<1>29. ASSUME NEW d \in Decider, Settle(d) PROVE StatusAgrees'
  BY <1>29 DEF Settle, Settleable, SettledAs, Become, Emit, Quit, At
<1>30. ASSUME NEW d \in Decider, Resume(d) PROVE StatusAgrees'
  BY <1>30 DEF Resume, Become, NoEvent, Quit, At
<1>31. ASSUME NEW d \in Decider, Interrupt(d) PROVE StatusAgrees'
  BY <1>31 DEF Interrupt, Quit, At, Live
<1>32. CASE Crash
  BY <1>32 DEF Crash
<1>33. ASSUME NEW d \in Decider, NEW a \in Child, NEW b \in BOOLEAN,
              DecideChild(d, a, b)
       PROVE  StatusAgrees'
  BY <1>33 DEF DecideChild, NewCommand
<1>34. ASSUME NEW d \in Decider, NEW b \in BOOLEAN, DecidePermission(d, b)
       PROVE  StatusAgrees'
  BY <1>34 DEF DecidePermission
<1>35. ASSUME NEW d \in Decider, NEW r \in {"answered", "cancelled"},
              AnswerInput(d, r)
       PROVE  StatusAgrees'
  BY <1>35 DEF AnswerInput
<1>36. ASSUME NEW d \in Decider,
              Perform(d) \/ Invoke(d) \/ CompletePermission(d)
       PROVE  StatusAgrees'
  BY <1>36 DEF Perform, Invoke, CompletePermission
<1>37. CASE UNCHANGED vars
  BY <1>37 DEF vars
<1> QED BY <1>1, <1>2, <1>3, <1>4, <1>5, <1>6, <1>7, <1>8, <1>9, <1>10, <1>11,
    <1>12, <1>13, <1>14, <1>15, <1>16, <1>17, <1>18, <1>19, <1>20, <1>21,
    <1>22, <1>23, <1>24, <1>25, <1>26, <1>27, <1>28, <1>29, <1>30, <1>31,
    <1>32, <1>33, <1>34, <1>35, <1>36, <1>37
    DEF Next, Queue, Loop, Decide, Continue, Quiescent

\* The step from approved to running is taken once, so the handler runs once.
LEMMA HandlerStep ==
  TypeOK /\ DecidersAgree /\ HandlerOnce /\ [Next]_vars
    => HandlerOnce'
<1> SUFFICES ASSUME TypeOK, DecidersAgree, HandlerOnce, [Next]_vars
             PROVE  HandlerOnce'
  OBVIOUS
<1> USE WorkflowAssumption DEF TypeOK, RowTypes, PauseTypes, TaskTypes,
    DecidersAgree, HandlerOnce, rows, pause, tasks, hist, env, Undecided,
    Decided, Waiting, Ended, Decider, Acting
<1>1. CASE CancelWaiting
  BY <1>1 DEF CancelWaiting, Become, Emit, CancelUndecided
<1>2. ASSUME NEW a \in Action, AskAction(a) PROVE HandlerOnce'
  BY <1>2 DEF AskAction, Ask, CreateAction
<1>3. ASSUME NEW a \in Action, ChildApproval(a) PROVE HandlerOnce'
  BY <1>3 DEF ChildApproval, CreateAction
<1>4. ASSUME NEW a \in Action, ProposeHere(a) PROVE HandlerOnce'
  BY <1>4 DEF ProposeHere, CreateAction, At
<1>5. CASE ApproveHere
  BY <1>5 DEF ApproveHere, Transition, Allowed, At
<1>6. CASE RejectHere
  BY <1>6 DEF RejectHere, Transition, Allowed, Quit, At
<1>7. CASE EndRun
  BY <1>7 DEF EndRun, Become, Emit, CancelUndecided
<1>8. ASSUME NEW d \in Decider, NEW a \in Action, ApproveAction(d, a)
      PROVE  HandlerOnce'
  BY <1>8 DEF ApproveAction, NewCommand, CommandFree, At
<1>9. ASSUME NEW d \in Decider, NEW a \in Action, RejectAction(d, a)
      PROVE  HandlerOnce'
  BY <1>9 DEF RejectAction, NewCommand, CommandFree, At, Transition, Allowed
<1>10. ASSUME NEW d \in Decider, NEW a \in Child, NEW b \in BOOLEAN,
              DecideChild(d, a, b)
       PROVE  HandlerOnce'
  BY <1>10 DEF DecideChild, NewCommand, CommandFree, At
<1>11. ASSUME NEW d \in Decider, NEW b \in BOOLEAN, DecidePermission(d, b)
       PROVE  HandlerOnce'
  BY <1>11 DEF DecidePermission, MayDecide, CommandFree, At
<1>12. ASSUME NEW d \in Decider, NEW r \in {"answered", "cancelled"},
              AnswerInput(d, r)
       PROVE  HandlerOnce'
  BY <1>12 DEF AnswerInput, MayDecide, CommandFree, At
<1>13. ASSUME NEW d \in Decider, MarkChild(d) PROVE HandlerOnce'
  BY <1>13 DEF MarkChild, Transition, Allowed, Quit, At
<1>14. ASSUME NEW d \in Decider, StartAction(d) PROVE HandlerOnce'
  BY <1>14 DEF StartAction, Transition, Allowed, Quit, At
<1>15. ASSUME NEW d \in Decider, StartLate(d) PROVE HandlerOnce'
  BY <1>15 DEF StartLate, Quit, At
<1>16. ASSUME NEW d \in Decider, Perform(d) PROVE HandlerOnce'
  BY <1>16 DEF Perform, At
<1>17. ASSUME NEW d \in Decider, RecordAction(d) PROVE HandlerOnce'
  BY <1>17 DEF RecordAction, Transition, Allowed, Quit, At
<1>18. ASSUME NEW d \in Decider, CleanUp(d) PROVE HandlerOnce'
  BY <1>18 DEF CleanUp, CancelWaitingAction, Become, Emit, Transition, Allowed,
    Quit, At
<1>19. ASSUME NEW d \in Decider, Settle(d) PROVE HandlerOnce'
  BY <1>19 DEF Settle, Settleable, SettledAs, Become, Emit, Quit, At
<1>20. ASSUME NEW d \in Decider, Resume(d) PROVE HandlerOnce'
  BY <1>20 DEF Resume, Become, NoEvent, Quit, At
<1>21. ASSUME NEW d \in Decider, Invoke(d) PROVE HandlerOnce'
  BY <1>21 DEF Invoke, At
<1>22. ASSUME NEW d \in Decider, CompletePermission(d) PROVE HandlerOnce'
  BY <1>22 DEF CompletePermission, At
<1>23. ASSUME NEW d \in Decider, Interrupt(d) PROVE HandlerOnce'
  BY <1>23 DEF Interrupt, Quit, At, Live
<1>24. CASE Crash
  BY <1>24 DEF Crash
<1>25. CASE StartRun \/ CancelQueued \/ AskInput \/ AskPermission \/ PauseInvocation
            \/ CreateInputRequest \/ PauseStep \/ PauseCommit \/ ActionDone \/
            ReadPending \/ FinishRun \/ Publish \/ Abandon
  BY <1>25 DEF StartRun, CancelQueued, AskInput, AskPermission,
    PauseInvocation, CreateInputRequest, PauseStep, PauseCommit, ActionDone,
    ReadPending, FinishRun, Publish, Abandon, Ask
<1>26. ASSUME NEW s \in {"failed", "cancelled", "stopped"}, Abort(s)
       PROVE  HandlerOnce'
  BY <1>26 DEF Abort
<1>27. CASE UNCHANGED vars
  BY <1>27 DEF vars
<1> QED BY <1>1, <1>2, <1>3, <1>4, <1>5, <1>6, <1>7, <1>8, <1>9, <1>10, <1>11,
    <1>12, <1>13, <1>14, <1>15, <1>16, <1>17, <1>18, <1>19, <1>20, <1>21,
    <1>22, <1>23, <1>24, <1>25, <1>26, <1>27
    DEF Next, Queue, Loop, Decide, Continue, Quiescent

\* A child's approval is decided once.
LEMMA ChildStep ==
  TypeOK /\ DecidersAgree /\ HandlerOnce /\ ChildOnce /\ [Next]_vars
    => ChildOnce'
<1> SUFFICES ASSUME TypeOK, DecidersAgree, HandlerOnce, ChildOnce, [Next]_vars
             PROVE  ChildOnce'
  OBVIOUS
<1> USE WorkflowAssumption DEF TypeOK, RowTypes, PauseTypes, TaskTypes,
    DecidersAgree, HandlerOnce, ChildOnce, rows, pause, tasks, hist, env,
    Undecided, Decided, Waiting, Ended, Decider, Acting
<1>1. CASE CancelWaiting
  BY <1>1 DEF CancelWaiting, Become, Emit, CancelUndecided
<1>2. ASSUME NEW a \in Action, AskAction(a) PROVE ChildOnce'
  BY <1>2 DEF AskAction, Ask, CreateAction
<1>3. ASSUME NEW a \in Action, ChildApproval(a) PROVE ChildOnce'
  BY <1>3 DEF ChildApproval, CreateAction
<1>4. ASSUME NEW a \in Action, ProposeHere(a) PROVE ChildOnce'
  BY <1>4 DEF ProposeHere, CreateAction, At
<1>5. CASE ApproveHere
  BY <1>5 DEF ApproveHere, Transition, Allowed, At
<1>6. CASE RejectHere
  BY <1>6 DEF RejectHere, Transition, Allowed, Quit, At
<1>7. CASE EndRun
  BY <1>7 DEF EndRun, Become, Emit, CancelUndecided
<1>8. ASSUME NEW d \in Decider, NEW a \in Action, ApproveAction(d, a)
      PROVE  ChildOnce'
  BY <1>8 DEF ApproveAction, NewCommand, CommandFree, At
<1>9. ASSUME NEW d \in Decider, NEW a \in Action, RejectAction(d, a)
      PROVE  ChildOnce'
  BY <1>9 DEF RejectAction, NewCommand, CommandFree, At, Transition, Allowed
<1>10. ASSUME NEW d \in Decider, NEW a \in Child, NEW b \in BOOLEAN,
              DecideChild(d, a, b)
       PROVE  ChildOnce'
  BY <1>10 DEF DecideChild, NewCommand, CommandFree, At
<1>11. ASSUME NEW d \in Decider, NEW b \in BOOLEAN, DecidePermission(d, b)
       PROVE  ChildOnce'
  BY <1>11 DEF DecidePermission, MayDecide, CommandFree, At
<1>12. ASSUME NEW d \in Decider, NEW r \in {"answered", "cancelled"},
              AnswerInput(d, r)
       PROVE  ChildOnce'
  BY <1>12 DEF AnswerInput, MayDecide, CommandFree, At
<1>13. ASSUME NEW d \in Decider, MarkChild(d) PROVE ChildOnce'
  BY <1>13 DEF MarkChild, Transition, Allowed, Quit, At
<1>14. ASSUME NEW d \in Decider, StartAction(d) PROVE ChildOnce'
  BY <1>14 DEF StartAction, Transition, Allowed, Quit, At
<1>15. ASSUME NEW d \in Decider, StartLate(d) PROVE ChildOnce'
  BY <1>15 DEF StartLate, Quit, At
<1>16. ASSUME NEW d \in Decider, Perform(d) PROVE ChildOnce'
  BY <1>16 DEF Perform, At
<1>17. ASSUME NEW d \in Decider, RecordAction(d) PROVE ChildOnce'
  BY <1>17 DEF RecordAction, Transition, Allowed, Quit, At
<1>18. ASSUME NEW d \in Decider, CleanUp(d) PROVE ChildOnce'
  BY <1>18 DEF CleanUp, CancelWaitingAction, Become, Emit, Transition, Allowed,
    Quit, At
<1>19. ASSUME NEW d \in Decider, Settle(d) PROVE ChildOnce'
  BY <1>19 DEF Settle, Settleable, SettledAs, Become, Emit, Quit, At
<1>20. ASSUME NEW d \in Decider, Resume(d) PROVE ChildOnce'
  BY <1>20 DEF Resume, Become, NoEvent, Quit, At
<1>21. ASSUME NEW d \in Decider, Invoke(d) PROVE ChildOnce'
  BY <1>21 DEF Invoke, At
<1>22. ASSUME NEW d \in Decider, CompletePermission(d) PROVE ChildOnce'
  BY <1>22 DEF CompletePermission, At
<1>23. ASSUME NEW d \in Decider, Interrupt(d) PROVE ChildOnce'
  BY <1>23 DEF Interrupt, Quit, At, Live
<1>24. CASE Crash
  BY <1>24 DEF Crash
<1>25. CASE StartRun \/ CancelQueued \/ AskInput \/ AskPermission \/ PauseInvocation
            \/ CreateInputRequest \/ PauseStep \/ PauseCommit \/ ActionDone \/
            ReadPending \/ FinishRun \/ Publish \/ Abandon
  BY <1>25 DEF StartRun, CancelQueued, AskInput, AskPermission,
    PauseInvocation, CreateInputRequest, PauseStep, PauseCommit, ActionDone,
    ReadPending, FinishRun, Publish, Abandon, Ask
<1>26. ASSUME NEW s \in {"failed", "cancelled", "stopped"}, Abort(s)
       PROVE  ChildOnce'
  BY <1>26 DEF Abort
<1>27. CASE UNCHANGED vars
  BY <1>27 DEF vars
<1> QED BY <1>1, <1>2, <1>3, <1>4, <1>5, <1>6, <1>7, <1>8, <1>9, <1>10, <1>11,
    <1>12, <1>13, <1>14, <1>15, <1>16, <1>17, <1>18, <1>19, <1>20, <1>21,
    <1>22, <1>23, <1>24, <1>25, <1>26, <1>27
    DEF Next, Queue, Loop, Decide, Continue, Quiescent

\* A grant is consumed once.
LEMMA GrantStep ==
  TypeOK /\ PauseOrder /\ GrantOnce /\ [Next]_vars
    => GrantOnce'
<1> SUFFICES ASSUME TypeOK, PauseOrder, GrantOnce, [Next]_vars PROVE GrantOnce'
  OBVIOUS
<1> USE WorkflowAssumption DEF TypeOK, PauseTypes, RowTypes, GrantOnce,
    PauseOrder, rows, pause, tasks, hist, env
<1>1. CASE CancelWaiting
  BY <1>1 DEF CancelWaiting, Become, Emit, CancelUndecided
<1>2. CASE AskInput
  BY <1>2 DEF AskInput, Ask
<1>3. CASE AskPermission
  BY <1>3 DEF AskPermission, Ask
<1>4. ASSUME NEW a \in Action, AskAction(a) PROVE GrantOnce'
  BY <1>4 DEF AskAction, Ask, CreateAction
<1>5. CASE CreateInputRequest
  BY <1>5 DEF CreateInputRequest
<1>6. ASSUME NEW d \in Decider, NEW b \in BOOLEAN, DecidePermission(d, b)
      PROVE  GrantOnce'
  BY <1>6 DEF DecidePermission, MayDecide, CommandFree, At
<1>7. ASSUME NEW d \in Decider, NEW r \in {"answered", "cancelled"},
             AnswerInput(d, r)
      PROVE  GrantOnce'
  BY <1>7 DEF AnswerInput, MayDecide, CommandFree, At
<1>8. ASSUME NEW d \in Decider, Invoke(d) PROVE GrantOnce'
  BY <1>8 DEF Invoke, At
<1>9. CASE StartRun \/ CancelQueued \/ PauseInvocation \/ PauseStep \/ PauseCommit
           \/ ApproveHere \/ RejectHere \/ ActionDone \/ ReadPending \/ FinishRun
           \/ Publish \/ EndRun \/ Abandon \/ Crash
  BY <1>9 DEF StartRun, CancelQueued, PauseInvocation, PauseStep, PauseCommit,
    ApproveHere, RejectHere, ActionDone, ReadPending, FinishRun, Publish,
    EndRun, Abandon, Crash
<1>10. ASSUME NEW a \in Action,
              ChildApproval(a) \/ ProposeHere(a)
       PROVE  GrantOnce'
  BY <1>10 DEF ChildApproval, ProposeHere
<1>11. ASSUME NEW s \in {"failed", "cancelled", "stopped"}, Abort(s)
       PROVE  GrantOnce'
  BY <1>11 DEF Abort
<1>12. ASSUME NEW d \in Decider, NEW a \in Action,
              ApproveAction(d, a) \/ RejectAction(d, a)
       PROVE  GrantOnce'
  BY <1>12 DEF ApproveAction, RejectAction, NewCommand
<1>13. ASSUME NEW d \in Decider, NEW a \in Child, NEW b \in BOOLEAN,
              DecideChild(d, a, b)
       PROVE  GrantOnce'
  BY <1>13 DEF DecideChild, NewCommand
<1>14. ASSUME NEW d \in Decider,
              MarkChild(d) \/ StartAction(d) \/ StartLate(d) \/ Perform(d) \/
              RecordAction(d) \/ CleanUp(d) \/ Settle(d) \/ Resume(d) \/
              CompletePermission(d) \/ Interrupt(d)
       PROVE  GrantOnce'
  BY <1>14 DEF MarkChild, StartAction, StartLate, Perform, RecordAction,
    CleanUp, Settle, Resume, CompletePermission, Interrupt
<1>15. CASE UNCHANGED vars
  BY <1>15 DEF vars
<1> QED BY <1>1, <1>2, <1>3, <1>4, <1>5, <1>6, <1>7, <1>8, <1>9, <1>10, <1>11,
    <1>12, <1>13, <1>14, <1>15
    DEF Next, Queue, Loop, Decide, Continue, Quiescent

\* The writes that pause a run keep their order.
LEMMA PauseOrderStep ==
  TypeOK /\ LoopRuns /\ PauseOrder /\ [Next]_vars
    => PauseOrder'
<1> SUFFICES ASSUME TypeOK, LoopRuns, PauseOrder, [Next]_vars PROVE PauseOrder'
  OBVIOUS
<1> USE WorkflowAssumption DEF TypeOK, RowTypes, PauseTypes, TaskTypes,
    LoopRuns, PauseOrder, rows, pause, tasks, hist, env, Undecided, Decided,
    Waiting, Ended, Decider, Acting
<1>1. CASE StartRun
  BY <1>1 DEF StartRun, Become, NoEvent
<1>2. CASE CancelWaiting
  BY <1>2 DEF CancelWaiting, Become, Emit, CancelUndecided
<1>3. CASE AskInput
  BY <1>3 DEF AskInput, Ask
<1>4. CASE AskPermission
  BY <1>4 DEF AskPermission, Ask
<1>5. ASSUME NEW a \in Action, AskAction(a) PROVE PauseOrder'
  BY <1>5 DEF AskAction, Ask, CreateAction
<1>6. ASSUME NEW a \in Action, ProposeHere(a) PROVE PauseOrder'
  BY <1>6 DEF ProposeHere, CreateAction, At
<1>7. CASE PauseInvocation
  BY <1>7 DEF PauseInvocation
<1>8. CASE CreateInputRequest
  BY <1>8 DEF CreateInputRequest
<1>9. CASE PauseStep
  BY <1>9 DEF PauseStep
<1>10. CASE PauseCommit
  BY <1>10 DEF PauseCommit, Become, Emit, PauseStatus
<1>11. CASE RejectHere
  BY <1>11 DEF RejectHere, Transition, Allowed, Quit, At
<1>12. CASE ActionDone
  BY <1>12 DEF ActionDone
<1>13. CASE ReadPending
  BY <1>13 DEF ReadPending
<1>14. CASE FinishRun
  BY <1>14 DEF FinishRun, Become, Emit
<1>15. CASE Publish
  BY <1>15 DEF Publish
<1>16. CASE EndRun
  BY <1>16 DEF EndRun, Become, Emit, CancelUndecided
<1>17. CASE Abandon
  BY <1>17 DEF Abandon
<1>18. ASSUME NEW s \in {"failed", "cancelled", "stopped"}, Abort(s)
       PROVE  PauseOrder'
  BY <1>18 DEF Abort, InTool
<1>19. ASSUME NEW d \in Decider, CleanUp(d) PROVE PauseOrder'
  BY <1>19 DEF CleanUp, CancelWaitingAction, Become, Emit, Transition, Allowed,
    Quit, At
<1>20. ASSUME NEW d \in Decider, Settle(d) PROVE PauseOrder'
  BY <1>20 DEF Settle, Settleable, SettledAs, Become, Emit, Quit, At
<1>21. ASSUME NEW d \in Decider, Resume(d) PROVE PauseOrder'
  BY <1>21 DEF Resume, Become, NoEvent, Quit, At
<1>22. ASSUME NEW d \in Decider, Interrupt(d) PROVE PauseOrder'
  BY <1>22 DEF Interrupt, Quit, At, Live
<1>23. CASE Crash
  BY <1>23 DEF Crash
<1>24. CASE CancelQueued \/ ApproveHere
  BY <1>24 DEF CancelQueued, ApproveHere
<1>25. ASSUME NEW a \in Action, ChildApproval(a) PROVE PauseOrder'
  BY <1>25 DEF ChildApproval
<1>26. ASSUME NEW d \in Decider, NEW a \in Action,
              ApproveAction(d, a) \/ RejectAction(d, a)
       PROVE  PauseOrder'
  BY <1>26 DEF ApproveAction, RejectAction, NewCommand
<1>27. ASSUME NEW d \in Decider, NEW a \in Child, NEW b \in BOOLEAN,
              DecideChild(d, a, b)
       PROVE  PauseOrder'
  BY <1>27 DEF DecideChild, NewCommand
<1>28. ASSUME NEW d \in Decider, NEW b \in BOOLEAN, DecidePermission(d, b)
       PROVE  PauseOrder'
  BY <1>28 DEF DecidePermission
<1>29. ASSUME NEW d \in Decider, NEW r \in {"answered", "cancelled"},
              AnswerInput(d, r)
       PROVE  PauseOrder'
  BY <1>29 DEF AnswerInput
<1>30. ASSUME NEW d \in Decider,
              MarkChild(d) \/ StartAction(d) \/ StartLate(d) \/ Perform(d) \/
              RecordAction(d) \/ Invoke(d) \/ CompletePermission(d)
       PROVE  PauseOrder'
  BY <1>30 DEF MarkChild, StartAction, StartLate, Perform, RecordAction,
    Invoke, CompletePermission
<1>31. CASE UNCHANGED vars
  BY <1>31 DEF vars
<1> QED BY <1>1, <1>2, <1>3, <1>4, <1>5, <1>6, <1>7, <1>8, <1>9, <1>10, <1>11,
    <1>12, <1>13, <1>14, <1>15, <1>16, <1>17, <1>18, <1>19, <1>20, <1>21,
    <1>22, <1>23, <1>24, <1>25, <1>26, <1>27, <1>28, <1>29, <1>30, <1>31
    DEF Next, Queue, Loop, Decide, Continue, Quiescent

\* What the paused call asks for stays open, or is being worked on, or is
\* complete.
LEMMA AskedStep ==
  TypeOK /\ LoopRuns /\ DecidersAgree /\ PauseOrder /\ CalmAgrees /\ AskedAgrees /\ [Next]_vars
    => AskedAgrees'
<1> SUFFICES ASSUME TypeOK, LoopRuns, DecidersAgree, PauseOrder, CalmAgrees, AskedAgrees, [Next]_vars
             PROVE  AskedAgrees'
  OBVIOUS
<1> USE WorkflowAssumption DEF TypeOK, RowTypes, PauseTypes, TaskTypes,
    LoopRuns, DecidersAgree, PauseOrder, CalmAgrees, AskedAgrees, Asking, rows,
    pause, tasks, hist, env, Undecided, Decided, Waiting, Ended, Decider,
    Acting
<1>1. CASE StartRun
  BY <1>1 DEF StartRun, Become, NoEvent
<1>2. CASE CancelWaiting
  BY <1>2 DEF CancelWaiting, Become, Emit, CancelUndecided
<1>3. CASE AskInput
  BY <1>3 DEF AskInput, Ask
<1>4. CASE AskPermission
  BY <1>4 DEF AskPermission, Ask
<1>5. ASSUME NEW a \in Action, AskAction(a) PROVE AskedAgrees'
  BY <1>5 DEF AskAction, Ask, CreateAction
<1>6. ASSUME NEW a \in Action, ChildApproval(a) PROVE AskedAgrees'
  BY <1>6 DEF ChildApproval, CreateAction
<1>7. ASSUME NEW a \in Action, ProposeHere(a) PROVE AskedAgrees'
  BY <1>7 DEF ProposeHere, CreateAction, At
<1>8. CASE PauseInvocation
  BY <1>8 DEF PauseInvocation
<1>9. CASE CreateInputRequest
  BY <1>9 DEF CreateInputRequest
<1>10. CASE PauseStep
  BY <1>10 DEF PauseStep
<1>11. CASE PauseCommit
  BY <1>11 DEF PauseCommit, Become, Emit, PauseStatus
<1>12. CASE ApproveHere
  BY <1>12 DEF ApproveHere, Transition, Allowed, At
<1>13. CASE RejectHere
  BY <1>13 DEF RejectHere, Transition, Allowed, Quit, At
<1>14. CASE ActionDone
  BY <1>14 DEF ActionDone
<1>15. CASE ReadPending
  BY <1>15 DEF ReadPending
<1>16. CASE FinishRun
  BY <1>16 DEF FinishRun, Become, Emit
<1>17. CASE Publish
  BY <1>17 DEF Publish
<1>18. CASE EndRun
  BY <1>18 DEF EndRun, Become, Emit, CancelUndecided
<1>19. CASE Abandon
  BY <1>19 DEF Abandon
<1>20. ASSUME NEW s \in {"failed", "cancelled", "stopped"}, Abort(s)
       PROVE  AskedAgrees'
  BY <1>20 DEF Abort, InTool
<1>21. ASSUME NEW d \in Decider, NEW a \in Action, ApproveAction(d, a)
       PROVE  AskedAgrees'
  BY <1>21 DEF ApproveAction, NewCommand, CommandFree, At
<1>22. ASSUME NEW d \in Decider, NEW a \in Action, RejectAction(d, a)
       PROVE  AskedAgrees'
  BY <1>22 DEF RejectAction, NewCommand, CommandFree, At, Transition, Allowed
<1>23. ASSUME NEW d \in Decider, NEW a \in Child, NEW b \in BOOLEAN,
              DecideChild(d, a, b)
       PROVE  AskedAgrees'
  BY <1>23 DEF DecideChild, NewCommand, CommandFree, At
<1>24. ASSUME NEW d \in Decider, NEW b \in BOOLEAN, DecidePermission(d, b)
       PROVE  AskedAgrees'
  BY <1>24 DEF DecidePermission, MayDecide, CommandFree, At
<1>25. ASSUME NEW d \in Decider, NEW r \in {"answered", "cancelled"},
              AnswerInput(d, r)
       PROVE  AskedAgrees'
  BY <1>25 DEF AnswerInput, MayDecide, CommandFree, At
<1>26. ASSUME NEW d \in Decider, MarkChild(d) PROVE AskedAgrees'
  BY <1>26 DEF MarkChild, Transition, Allowed, Quit, At
<1>27. ASSUME NEW d \in Decider, StartAction(d) PROVE AskedAgrees'
  BY <1>27 DEF StartAction, Transition, Allowed, Quit, At
<1>28. ASSUME NEW d \in Decider, StartLate(d) PROVE AskedAgrees'
  BY <1>28 DEF StartLate, Quit, At
<1>29. ASSUME NEW d \in Decider, Perform(d) PROVE AskedAgrees'
  BY <1>29 DEF Perform, At
<1>30. ASSUME NEW d \in Decider, RecordAction(d) PROVE AskedAgrees'
  BY <1>30 DEF RecordAction, Transition, Allowed, Quit, At
<1>31. ASSUME NEW d \in Decider, CleanUp(d) PROVE AskedAgrees'
  BY <1>31 DEF CleanUp, CancelWaitingAction, Become, Emit, Transition, Allowed,
    Quit, At
<1>32. ASSUME NEW d \in Decider, Settle(d) PROVE AskedAgrees'
  BY <1>32 DEF Settle, Settleable, SettledAs, Become, Emit, Quit, At
<1>33. ASSUME NEW d \in Decider, Resume(d) PROVE AskedAgrees'
  BY <1>33 DEF Resume, Become, NoEvent, Quit, At
<1>34. ASSUME NEW d \in Decider, Invoke(d) PROVE AskedAgrees'
  BY <1>34 DEF Invoke, At
<1>35. ASSUME NEW d \in Decider, CompletePermission(d) PROVE AskedAgrees'
  BY <1>35 DEF CompletePermission, At
<1>36. ASSUME NEW d \in Decider, Interrupt(d) PROVE AskedAgrees'
  BY <1>36 DEF Interrupt, Quit, At, Live
<1>37. CASE Crash
  BY <1>37 DEF Crash
<1>38. CASE CancelQueued
  BY <1>38 DEF CancelQueued
<1>39. CASE UNCHANGED vars
  BY <1>39 DEF vars
<1> QED BY <1>1, <1>2, <1>3, <1>4, <1>5, <1>6, <1>7, <1>8, <1>9, <1>10, <1>11,
    <1>12, <1>13, <1>14, <1>15, <1>16, <1>17, <1>18, <1>19, <1>20, <1>21,
    <1>22, <1>23, <1>24, <1>25, <1>26, <1>27, <1>28, <1>29, <1>30, <1>31,
    <1>32, <1>33, <1>34, <1>35, <1>36, <1>37, <1>38, <1>39
    DEF Next, Queue, Loop, Decide, Continue, Quiescent

\* While nobody interrupts a command, no command has to clean up.
LEMMA CalmStep == TypeOK /\ CalmAgrees /\ [Next]_vars => CalmAgrees'
<1> SUFFICES ASSUME TypeOK, CalmAgrees, [Next]_vars PROVE CalmAgrees'
  OBVIOUS
<1> USE WorkflowAssumption DEF TypeOK, RowTypes, PauseTypes, TaskTypes,
    CalmAgrees, rows, pause, tasks, hist, env, Undecided, Decided, Waiting,
    Ended, Decider, Acting
<1>1. ASSUME NEW a \in Action, ProposeHere(a) PROVE CalmAgrees'
  BY <1>1 DEF ProposeHere, CreateAction, At
<1>2. CASE ApproveHere
  BY <1>2 DEF ApproveHere, Transition, Allowed, At
<1>3. CASE RejectHere
  BY <1>3 DEF RejectHere, Transition, Allowed, Quit, At
<1>4. ASSUME NEW d \in Decider, NEW a \in Action, ApproveAction(d, a)
      PROVE  CalmAgrees'
  BY <1>4 DEF ApproveAction, NewCommand, CommandFree, At
<1>5. ASSUME NEW d \in Decider, NEW a \in Action, RejectAction(d, a)
      PROVE  CalmAgrees'
  BY <1>5 DEF RejectAction, NewCommand, CommandFree, At, Transition, Allowed
<1>6. ASSUME NEW d \in Decider, NEW a \in Child, NEW b \in BOOLEAN,
             DecideChild(d, a, b)
      PROVE  CalmAgrees'
  BY <1>6 DEF DecideChild, NewCommand, CommandFree, At
<1>7. ASSUME NEW d \in Decider, NEW b \in BOOLEAN, DecidePermission(d, b)
      PROVE  CalmAgrees'
  BY <1>7 DEF DecidePermission, MayDecide, CommandFree, At
<1>8. ASSUME NEW d \in Decider, NEW r \in {"answered", "cancelled"},
             AnswerInput(d, r)
      PROVE  CalmAgrees'
  BY <1>8 DEF AnswerInput, MayDecide, CommandFree, At
<1>9. ASSUME NEW d \in Decider, MarkChild(d) PROVE CalmAgrees'
  BY <1>9 DEF MarkChild, Transition, Allowed, Quit, At
<1>10. ASSUME NEW d \in Decider, StartAction(d) PROVE CalmAgrees'
  BY <1>10 DEF StartAction, Transition, Allowed, Quit, At
<1>11. ASSUME NEW d \in Decider, StartLate(d) PROVE CalmAgrees'
  BY <1>11 DEF StartLate, Quit, At
<1>12. ASSUME NEW d \in Decider, Perform(d) PROVE CalmAgrees'
  BY <1>12 DEF Perform, At
<1>13. ASSUME NEW d \in Decider, RecordAction(d) PROVE CalmAgrees'
  BY <1>13 DEF RecordAction, Transition, Allowed, Quit, At
<1>14. ASSUME NEW d \in Decider, CleanUp(d) PROVE CalmAgrees'
  BY <1>14 DEF CleanUp, CancelWaitingAction, Become, Emit, Transition, Allowed,
    Quit, At
<1>15. ASSUME NEW d \in Decider, Settle(d) PROVE CalmAgrees'
  BY <1>15 DEF Settle, Settleable, SettledAs, Become, Emit, Quit, At
<1>16. ASSUME NEW d \in Decider, Resume(d) PROVE CalmAgrees'
  BY <1>16 DEF Resume, Become, NoEvent, Quit, At
<1>17. ASSUME NEW d \in Decider, Invoke(d) PROVE CalmAgrees'
  BY <1>17 DEF Invoke, At
<1>18. ASSUME NEW d \in Decider, CompletePermission(d) PROVE CalmAgrees'
  BY <1>18 DEF CompletePermission, At
<1>19. ASSUME NEW d \in Decider, Interrupt(d) PROVE CalmAgrees'
  BY <1>19 DEF Interrupt, Quit, At, Live
<1>20. CASE Crash
  BY <1>20 DEF Crash
<1>21. CASE StartRun \/ CancelQueued \/ CancelWaiting \/ AskInput \/ AskPermission
            \/ PauseInvocation \/ CreateInputRequest \/ PauseStep \/ PauseCommit \/
            ActionDone \/ ReadPending \/ FinishRun \/ Publish \/ EndRun \/ Abandon
  BY <1>21 DEF StartRun, CancelQueued, CancelWaiting, AskInput, AskPermission,
    PauseInvocation, CreateInputRequest, PauseStep, PauseCommit, ActionDone,
    ReadPending, FinishRun, Publish, EndRun, Abandon, Ask
<1>22. ASSUME NEW a \in Action,
              AskAction(a) \/ ChildApproval(a)
       PROVE  CalmAgrees'
  BY <1>22 DEF AskAction, ChildApproval, Ask
<1>23. ASSUME NEW s \in {"failed", "cancelled", "stopped"}, Abort(s)
       PROVE  CalmAgrees'
  BY <1>23 DEF Abort
<1>24. CASE UNCHANGED vars
  BY <1>24 DEF vars
<1> QED BY <1>1, <1>2, <1>3, <1>4, <1>5, <1>6, <1>7, <1>8, <1>9, <1>10, <1>11,
    <1>12, <1>13, <1>14, <1>15, <1>16, <1>17, <1>18, <1>19, <1>20, <1>21,
    <1>22, <1>23, <1>24
    DEF Next, Queue, Loop, Decide, Continue, Quiescent

-----------------------------------------------------------------------------
(***************************************************************************)
(* The theorems.                                                           *)
(***************************************************************************)

\* The invariant holds in every state.
LEMMA WorkflowInvariant == Spec => []WInv
<1>1. Init => WInv
  <2> SUFFICES ASSUME Init PROVE WInv
    OBVIOUS
  <2> USE WorkflowAssumption DEF Init, Undecided, Decided, Waiting, Ended, Decider
  <2>1. TypeOK
    BY DEF TypeOK, RowTypes, PauseTypes, TaskTypes
  <2>2. LoopRuns /\ DecidersAgree /\ StatusAgrees
    BY DEF LoopRuns, DecidersAgree, StatusAgrees, Acting
  <2>3. HandlerOnce /\ ChildOnce /\ GrantOnce
    BY DEF HandlerOnce, ChildOnce, GrantOnce
  <2>4. PauseOrder /\ AskedAgrees /\ CalmAgrees
    BY DEF PauseOrder, AskedAgrees, Asking, CalmAgrees
  <2> QED BY <2>1, <2>2, <2>3, <2>4 DEF WInv
<1>2. WInv /\ [Next]_vars => WInv'
  BY TypeStep, LoopStep, DecidersStep, StatusStep, HandlerStep, ChildStep,
     GrantStep, PauseOrderStep, AskedStep, CalmStep
  DEF WInv
<1> QED BY <1>1, <1>2, PTL DEF Spec

(***************************************************************************)
(* Whichever transaction moved a run last, its work item and the last      *)
(* terminal event have its status, and an ended run has no action somebody *)
(* could still approve (WorkflowUnitOfWork).                               *)
(***************************************************************************)
THEOREM RecordsAlwaysAgree == Spec => []RecordsAgree
<1>1. WInv => RecordsAgree
  BY DEF WInv, StatusAgrees, RecordsAgree
<1> QED BY <1>1, WorkflowInvariant, PTL

(***************************************************************************)
(* An ended run stays ended: no decider, cancellation or cleanup that is   *)
(* still under way changes its rows or appends a terminal event.           *)
(***************************************************************************)
THEOREM EndedStaysEnded == Spec => EndedIsFinal
<1>1. WInv /\ [Next]_vars => [(run \in Ended) => UNCHANGED rows]_vars
  <2> SUFFICES ASSUME WInv, [Next]_vars, run \in Ended PROVE UNCHANGED rows
    OBVIOUS
  <2> USE DEF WInv, LoopRuns, StatusAgrees, Ended, Waiting, rows
  <2>1. CASE Queue
    BY <2>1 DEF Queue, StartRun, CancelQueued, CancelWaiting
  <2>2. CASE Loop
    BY <2>2 DEF Loop, AskInput, AskPermission, AskAction, Ask, ChildApproval,
      ProposeHere, PauseInvocation, CreateInputRequest, PauseStep, PauseCommit,
      ApproveHere, RejectHere, ActionDone, ReadPending, FinishRun, Publish,
      EndRun, Abandon, Abort
  <2>3. ASSUME NEW d \in Decider, Decide(d) \/ Continue(d) \/ Interrupt(d)
        PROVE  UNCHANGED rows
    <3>1. CASE Decide(d)
      BY <3>1 DEF Decide, ApproveAction, RejectAction, NewCommand, DecideChild,
        DecidePermission, AnswerInput
    <3>2. CASE Continue(d)
      BY <3>2 DEF Continue, MarkChild, StartAction, StartLate, Perform,
        RecordAction, CleanUp, Settle, Settleable, Resume, Resumable, Invoke,
        CompletePermission
    <3>3. CASE Interrupt(d)
      BY <3>3 DEF Interrupt
    <3> QED BY <2>3, <3>1, <3>2, <3>3
  <2>4. CASE Crash \/ Quiescent \/ UNCHANGED vars
    BY <2>4 DEF Crash, Quiescent, vars
  <2> QED BY <2>1, <2>2, <2>3, <2>4 DEF Next
<1> QED BY <1>1, WorkflowInvariant, PTL DEF Spec, EndedIsFinal

(***************************************************************************)
(* The handler of an action runs at most once, never without or before an  *)
(* approval, and "completed" is recorded only of one that ran; the tool of *)
(* a permission request runs at most once (ActionCoordinator,              *)
(* PermissionRequestRepository).                                           *)
(***************************************************************************)
THEOREM EffectsAlwaysMatch == Spec => []EffectsMatchRecords
<1>1. WInv => EffectsMatchRecords
  <2> SUFFICES ASSUME WInv PROVE EffectsMatchRecords
    OBVIOUS
  <2>1. ASSUME NEW a \in Action
        PROVE  /\ performed[a] <= 1
               /\ act[a] = "completed" => performed[a] = 1
               /\ act[a] \in {"none", "rejected"} => performed[a] = 0
               /\ a \notin Child /\ act[a] \in {"pending", "approved"} => performed[a] = 0
    BY DEF WInv, HandlerOnce, ChildOnce
  <2>2. invoked <= 1 /\ (invoked = 1 => req = "approved" /\ grant = "consumed")
    BY DEF WInv, GrantOnce
  <2> QED BY <2>1, <2>2 DEF EffectsMatchRecords
<1> QED BY <1>1, WorkflowInvariant, PTL

(***************************************************************************)
(* A run that waits has its invocation, its step and its request, so that  *)
(* resume_paused never finds an incomplete continuation; and while nobody  *)
(* interrupts a command and the process lives, it is never left with a     *)
(* decision taken and nobody to resume it.                                 *)
(***************************************************************************)
THEOREM ContinuationAlwaysComplete == Spec => []ContinuationComplete
<1>1. WInv => ContinuationComplete
  <2> SUFFICES ASSUME WInv PROVE ContinuationComplete
    OBVIOUS
  <2> USE DEF WInv, LoopRuns, PauseOrder, AskedAgrees, Asking, Waiting
  <2>1. run \in Waiting => (inv = "waiting" <=> step = "waiting")
    OBVIOUS
  <2>2. run = "waiting_input" => inv = "waiting" /\ kind = "user_input" /\ req # "none"
    OBVIOUS
  <2>3. run = "waiting_approval" /\ inv = "waiting" =>
          \/ kind = "action" /\ act[target] # "none"
          \/ kind = "permission" /\ req # "none"
    BY DEF TypeOK, PauseTypes
  <2>4. ASSUME calm, run \in Waiting, inv = "waiting", AtRest
        PROVE  \/ kind = "action" /\ act[target] \in {"pending", "approved"}
               \/ kind \in {"permission", "user_input"} /\ req = "pending"
               \/ Resumable
    <3>1. step = "waiting" /\ kind # "none"
      BY <2>4
    <3>2. CASE kind = "user_input"
      BY <2>4, <3>1, <3>2 DEF AtRest, Resumable, AnswerReady
    <3>3. CASE kind = "permission"
      BY <2>4, <3>1, <3>3 DEF AtRest, Resumable, AnswerReady
    <3>4. CASE kind = "action"
      BY <2>4, <3>1, <3>4 DEF AtRest, Resumable, AnswerReady, TypeOK, Decided, Undecided
    <3> QED BY <3>1, <3>2, <3>3, <3>4 DEF TypeOK, PauseTypes
  <2> QED BY <2>1, <2>2, <2>3, <2>4 DEF ContinuationComplete
<1> QED BY <1>1, WorkflowInvariant, PTL
=============================================================================
