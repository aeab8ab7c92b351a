--------------------------- MODULE MailboxProofs ---------------------------
(***************************************************************************)
(* Proofs about Mailbox for every set of messages and every limit: its     *)
(* types, that no acknowledged message is lost, that it implements         *)
(* MailboxContract, in which order mail is delivered, and what a run that  *)
(* completes leaves behind.                                                *)
(***************************************************************************)
EXTENDS Mailbox, FiniteSetTheorems, WellFoundedInduction, TLAPS

(***************************************************************************)
(* The inductive invariant.  AckedIsSaved speaks of `acked`, `ids` and the *)
(* checkpoints; what makes it hold is where mail is while a run is active. *)
(***************************************************************************)

\* Who holds _lock is where the tool loop called from, and each point of an
\* operation belongs to the operations that reach it.
Control ==
  /\ op = "start" => phase = "starting"
  /\ op = "poll" => phase = "round"
  /\ op \in {"manual", "confirm"} => phase = "tools"
  /\ op = "finish" => phase = "finishing"
  /\ phase = "off" => op = "none" /\ timer = FALSE
  /\ op = "none" => pc = "idle"
  /\ pc = "confirm" => op = "confirm"
  /\ pc = "select" => op \in {"poll", "finish"}
  /\ pc = "deliver" => op \in {"poll", "finish", "confirm"}
  /\ phase # "tools" => toolOut = {}
  /\ op \in {"manual", "confirm"} => toolOut = {}

\* Whatever the receiver holds has a body in the source mailbox or a receipt.
Sourced == pending \cup manual \cup batch.msgs \cup hist \subseteq Stored

\* What was acknowledged or is about to be has an id in the recipient's database.
Recorded ==
  /\ acked \cup unacked \cup delivered \subseteq ids
  /\ op \in {"poll", "finish"} /\ pc = "deliver" => selected \subseteq ids
  /\ op = "confirm" /\ pc = "deliver" => manual \subseteq ids

\* Every recorded message is in a stable checkpoint.
Checkpointed == ids \subseteq Holds(ckpt) \cup archived

\* Committed by commit_delivery, not yet in the live context.
InFlight == IF op \in {"poll", "finish"} /\ pc = "deliver" THEN selected ELSE {}

\* The checkpoint is the live context, with what is in flight: the next one,
\* taken from the live context, loses nothing.  What a tool has read is there.
InContext ==
  /\ Active => /\ ckpt = Plus(messages, InFlight)
               /\ manual \subseteq Holds(messages) \cup toolOut
  /\ phase = "off" => manual = {}

Saved == Recorded /\ Checkpointed /\ InContext

\* A message is in a context only with its id recorded, and the receiver,
\* which knows every recorded id, never holds such a message as pending.
Fresh ==
  /\ \A m \in Msg \ readByTool :
        /\ ckpt[m] > 0 => m \in ids
        /\ ckpt[m] <= 1
  /\ \A m \in Msg : messages[m] <= ckpt[m]
  /\ toolOut \subseteq readByTool
  /\ Active => /\ pending \cap delivered = {}
               /\ ids \subseteq delivered \cup InFlight \cup manual
  /\ phase = "off" => pending = {}

IInv == TypeOK /\ Control /\ Sourced /\ Saved /\ Fresh

-----------------------------------------------------------------------------
\* A slice of a set of rows is a part of it (LIMIT n, s[:n]).
LEMMA OldestSubset ==
  ASSUME NEW S, NEW n PROVE Oldest(S, n) \subseteq S
BY DEF Oldest

\* Reordering by priority and cutting adds no message.
LEMMA ByPrioritySubset ==
  ASSUME NEW S, NEW n PROVE ByPriority(S, n) \subseteq S
BY OldestSubset DEF ByPriority

\* Trimming _pending adds no message.
LEMMA TrimSubset ==
  ASSUME NEW S PROVE Trim(S) \subseteq S
BY ByPrioritySubset DEF Trim

\* read_mailbox_batch returns unread rows and a flag.
LEMMA BatchesType ==
  ASSUME NEW b \in Batches
  PROVE  b \in [msgs : SUBSET Stored, more : BOOLEAN]
<1> DEFINE read == Oldest(Unread \cap Actionable, Limit + 1)
                     \cup Oldest(Unread \ Actionable, Limit + 1)
<1>1. read \subseteq Stored
  BY OldestSubset DEF Unread, Rows
<1>2. CASE b = EmptyBatch
  BY <1>2 DEF EmptyBatch
<1>3. CASE b # EmptyBatch
  <2>1. PICK n \in 1..Smaller(Limit, Cardinality(read)) :
           b = [msgs |-> ByPriority(read, n), more |-> n < Cardinality(read)]
    BY <1>3 DEF Batches
  <2>2. ByPriority(read, n) \subseteq Stored
    BY <1>1, ByPrioritySubset
  <2>3. (n < Cardinality(read)) \in BOOLEAN
    OBVIOUS
  <2> HIDE DEF read
  <2> QED BY <2>1, <2>2, <2>3
<1> QED BY <1>2, <1>3

\* poll selects from what is pending and no tool has read.
LEMMA FittingSubset ==
  ASSUME NEW S \in Fitting PROVE S \subseteq pending \ manual
<1>1. Eligible \subseteq pending \ manual
  BY DEF Eligible
<1> QED BY <1>1 DEF Fitting

\* The historical receipts loaded are receipts.
LEMMA HistRowsSubset == HistRows \subseteq hist
BY OldestSubset DEF HistRows

\* Counting the rows of a finite mailbox gives a number.
LEMMA StoredCount == Cardinality(Stored) \in Nat
<1>1. Stored \subseteq Msg
  BY DEF Stored
<1> QED BY <1>1, MailboxAssumption, FS_Subset, FS_CardinalityType

-----------------------------------------------------------------------------
\* Every step of the specification keeps the types.
LEMMA TypeStep == TypeOK /\ [Next]_vars => TypeOK'
<1> SUFFICES ASSUME TypeOK, [Next]_vars PROVE TypeOK'
  OBVIOUS
<1> USE MailboxAssumption
    DEF TypeOK, vars, durable, registry, receiver, local, run, Observers,
        Phases, Ops, Points, MainOps
<1> USE DEF DurableTypes, RegistryTypes, ReceiverTypes, LocalTypes, RunTypes
<1>1. ASSUME NEW m \in Msg, SendInsert(m) PROVE TypeOK'
  BY <1>1, StoredCount DEF SendInsert
<1>2. ASSUME NEW m \in Msg, SendNotify(m) PROVE TypeOK'
  BY <1>2 DEF SendNotify, Notify
<1>3. ASSUME NEW m \in Msg, SendCancelled(m) PROVE TypeOK'
  BY <1>3 DEF SendCancelled
<1>4. CASE StartNew
  BY <1>4 DEF StartNew, StartReceiver, NoMail, Holds
<1>5. CASE StartFromCheckpoint
  BY <1>5 DEF StartFromCheckpoint, StartReceiver
<1>6. CASE StartLoad
  BY <1>6, HistRowsSubset DEF StartLoad, LoadHistorical
<1>7. CASE BeginReconcile
  BY <1>7 DEF BeginReconcile
<1>8. CASE ReconcileFails
  BY ZenonT(30), <1>8 DEF ReconcileFails, Notify, EmptyBatch
<1>9. CASE ReceiveSnapshot
  BY <1>9 DEF ReceiveSnapshot, AfterReceive
<1>10. ASSUME NEW due \in BOOLEAN, ReceiveRetry(due) PROVE TypeOK'
  BY <1>10, HistRowsSubset DEF ReceiveRetry, LoadHistorical, AfterReceive
<1>11. CASE ReceiveRead
  BY <1>11, BatchesType DEF ReceiveRead, Stored
<1>12. CASE ReceiveMerge
  BY <1>12, TrimSubset DEF ReceiveMerge, AlreadyDelivered, MergedPending, SelfNotify, AfterReceive, EmptyBatch
<1>13. ASSUME NEW S \in SUBSET pending, PollCommit(S) PROVE TypeOK'
  BY <1>13 DEF PollCommit, CheckpointWith, ReceiptOf, Plus
<1>14. CASE PollDeliver
  BY <1>14 DEF PollDeliver, Plus
<1>15. CASE ReceiverAck
  BY <1>15 DEF ReceiverAck
<1>16. CASE PollNothing
  BY <1>16 DEF PollNothing
<1>17. CASE EndStart
  BY <1>17 DEF EndStart, EndLocal
<1>18. CASE EndReconcile
  <2>1. DurableTypes'
    BY <1>18 DEF EndReconcile, EndLocal
  <2>2. RegistryTypes'
    BY <1>18 DEF EndReconcile, EndLocal
  <2>3. ReceiverTypes'
    BY <1>18 DEF EndReconcile, EndLocal
  <2>4. LocalTypes'
    BY <1>18 DEF EndReconcile, EndLocal
  <2>5. RunTypes'
    BY <1>18 DEF EndReconcile, EndLocal
  <2> QED BY <2>1, <2>2, <2>3, <2>4, <2>5
<1>19. CASE BeginPoll
  BY <1>19 DEF BeginPoll, Begin
<1>20. CASE EndPoll
  BY ZenonT(30), <1>20 DEF EndPoll, EndLocal
<1>21. CASE ModelStep
  BY <1>21 DEF ModelStep
<1>22. CASE BeginManual
  BY <1>22 DEF BeginManual, Begin
<1>23. CASE EndManual
  <2>1. DurableTypes'
    BY <1>23 DEF EndManual, EndLocal
  <2>2. RegistryTypes'
    BY <1>23 DEF EndManual, EndLocal
  <2>3. ReceiverTypes'
    BY <1>23 DEF EndManual, EndLocal
  <2>4. LocalTypes'
    BY <1>23 DEF EndManual, EndLocal
  <2>5. RunTypes'
    BY <1>23 DEF EndManual, EndLocal
  <2> QED BY <2>1, <2>2, <2>3, <2>4, <2>5
<1>24. CASE ToolResult
  BY <1>24 DEF ToolResult, Plus
<1>25. CASE BeginConfirm
  BY <1>25 DEF BeginConfirm, Begin
<1>26. CASE ConfirmCommit
  BY <1>26 DEF ConfirmCommit, ReceiptOf
<1>27. CASE ConfirmDeliver
  BY <1>27 DEF ConfirmDeliver
<1>28. CASE EndConfirm
  BY ZenonT(30), <1>28 DEF EndConfirm, EndLocal
<1>29. CASE PauseRun
  BY <1>29 DEF PauseRun
<1>30. CASE AnswerContinues
  BY <1>30 DEF AnswerContinues
<1>31. CASE BeginFinish
  BY <1>31 DEF BeginFinish
<1>32. CASE FinishPoll
  BY <1>32 DEF FinishPoll, Begin
<1>33. CASE FinishDelivered
  BY <1>33 DEF FinishDelivered, EndLocal
<1>34. CASE FinishClose
  BY <1>34 DEF FinishClose, EndLocal
<1>35. CASE FinishOverBudget
  BY <1>35 DEF FinishOverBudget, EndLocal
<1>36. CASE Abort
  <2>1. DurableTypes'
    BY <1>36 DEF Abort, EmptyBatch
  <2>2. RegistryTypes'
    BY <1>36 DEF Abort, EmptyBatch
  <2>3. ReceiverTypes'
    BY <1>36 DEF Abort, EmptyBatch
  <2>4. LocalTypes'
    <3>1. CASE op \in MainOps
      <4>1. /\ op' = "none" /\ pc' = "idle" /\ changed' = FALSE
            /\ batch' = EmptyBatch
            /\ selected' = {}
        BY <1>36, <3>1, Zenon DEF Abort
      <4> QED BY <4>1 DEF EmptyBatch
    <3>2. CASE op \notin MainOps
      <4>1. UNCHANGED local
        BY <1>36, <3>2 DEF Abort
      <4> QED BY <4>1
    <3> QED BY <3>1, <3>2
  <2>5. RunTypes'
    BY <1>36 DEF Abort, EmptyBatch
  <2> QED BY <2>1, <2>2, <2>3, <2>4, <2>5
<1>37. CASE BackgroundError
  BY <1>36, <1>37 DEF BackgroundError
<1>38. CASE CloseReceiver
  BY <1>38 DEF CloseReceiver, ReceiverGone, NoMail, EmptyBatch
<1>39. CASE Crash
  BY <1>39 DEF Crash, ReceiverGone, NoMail, EmptyBatch
<1>40. CASE UNCHANGED vars
  BY <1>40
<1> QED
  BY <1>1, <1>2, <1>3, <1>4, <1>5, <1>6, <1>7, <1>8, <1>9, <1>10, <1>11,
     <1>12, <1>13, <1>14, <1>15, <1>16, <1>17, <1>18, <1>19, <1>20, <1>21,
     <1>22, <1>23, <1>24, <1>25, <1>26, <1>27, <1>28, <1>29, <1>30, <1>31,
     <1>32, <1>33, <1>34, <1>35, <1>36, <1>37, <1>38, <1>39, <1>40
  DEF Next, Sender, Timer, Receive, Poll, Loop, Quiescent

\* Every step keeps the loop and the holder of _lock in agreement.
LEMMA ControlStep == TypeOK /\ Control /\ [Next]_vars => Control'
<1> SUFFICES ASSUME TypeOK, Control, [Next]_vars PROVE Control'
  OBVIOUS
<1> USE DEF Control, vars, durable, registry, receiver, local, run, MainOps
<1>0. /\ op \in {"none", "reconcile"} \cup MainOps /\ phase \in Phases
      /\ pc \in Points
  BY DEF TypeOK, LocalTypes, RunTypes, Ops
<1> USE <1>0 DEF Phases, Points
<1>1. ASSUME NEW m \in Msg, SendInsert(m) PROVE Control'
  BY <1>1 DEF SendInsert
<1>2. ASSUME NEW m \in Msg, SendNotify(m) PROVE Control'
  BY <1>2 DEF SendNotify
<1>3. ASSUME NEW m \in Msg, SendCancelled(m) PROVE Control'
  BY <1>3 DEF SendCancelled
<1>4. CASE StartNew
  BY <1>4 DEF StartNew, StartReceiver
<1>5. CASE StartFromCheckpoint
  BY <1>5 DEF StartFromCheckpoint, StartReceiver
<1>6. CASE StartLoad
  BY <1>6 DEF StartLoad, LoadHistorical
<1>7. CASE BeginReconcile
  BY <1>7 DEF BeginReconcile
<1>8. CASE ReconcileFails
  BY <1>8 DEF ReconcileFails
<1>9. CASE ReceiveSnapshot
  BY <1>9 DEF ReceiveSnapshot, AfterReceive
<1>10. ASSUME NEW due \in BOOLEAN, ReceiveRetry(due) PROVE Control'
  BY <1>10 DEF ReceiveRetry, AfterReceive
<1>11. CASE ReceiveRead
  BY <1>11 DEF ReceiveRead
<1>12. CASE ReceiveMerge
  BY <1>12 DEF ReceiveMerge, AfterReceive
<1>13. ASSUME NEW S \in SUBSET pending, PollCommit(S) PROVE Control'
  BY <1>13 DEF PollCommit
<1>14. CASE PollDeliver
  BY <1>14 DEF PollDeliver
<1>15. CASE ReceiverAck
  BY <1>15 DEF ReceiverAck
<1>16. CASE PollNothing
  BY <1>16 DEF PollNothing
<1>17. CASE EndStart
  BY <1>17 DEF EndStart, EndLocal
<1>18. CASE EndReconcile
  BY <1>18 DEF EndReconcile, EndLocal
<1>19. CASE BeginPoll
  BY <1>19 DEF BeginPoll, Begin
<1>20. CASE EndPoll
  BY <1>20 DEF EndPoll, EndLocal
<1>21. CASE ModelStep
  BY <1>21 DEF ModelStep
<1>22. CASE BeginManual
  BY <1>22 DEF BeginManual, Begin
<1>23. CASE EndManual
  BY <1>23 DEF EndManual, EndLocal
<1>24. CASE ToolResult
  BY <1>24 DEF ToolResult
<1>25. CASE BeginConfirm
  BY <1>25 DEF BeginConfirm, Begin
<1>26. CASE ConfirmCommit
  BY <1>26 DEF ConfirmCommit
<1>27. CASE ConfirmDeliver
  BY <1>27 DEF ConfirmDeliver
<1>28. CASE EndConfirm
  BY <1>28 DEF EndConfirm, EndLocal
<1>29. CASE PauseRun
  BY <1>29 DEF PauseRun
<1>30. CASE AnswerContinues
  BY <1>30 DEF AnswerContinues
<1>31. CASE BeginFinish
  BY <1>31 DEF BeginFinish
<1>32. CASE FinishPoll
  BY <1>32 DEF FinishPoll, Begin
<1>33. CASE FinishDelivered
  BY <1>33 DEF FinishDelivered, EndLocal
<1>34. CASE FinishClose
  BY <1>34 DEF FinishClose, EndLocal
<1>35. CASE FinishOverBudget
  BY <1>35 DEF FinishOverBudget, EndLocal
<1>36. CASE Abort
  BY <1>36 DEF Abort
<1>37. CASE BackgroundError
  BY <1>37 DEF BackgroundError, Abort
<1>38. CASE CloseReceiver
  BY <1>38 DEF CloseReceiver, ReceiverGone
<1>39. CASE Crash
  BY <1>39 DEF Crash, ReceiverGone
<1>40. CASE UNCHANGED vars
  BY <1>40
<1> QED
  BY <1>1, <1>2, <1>3, <1>4, <1>5, <1>6, <1>7, <1>8, <1>9, <1>10, <1>11,
     <1>12, <1>13, <1>14, <1>15, <1>16, <1>17, <1>18, <1>19, <1>20, <1>21,
     <1>22, <1>23, <1>24, <1>25, <1>26, <1>27, <1>28, <1>29, <1>30, <1>31,
     <1>32, <1>33, <1>34, <1>35, <1>36, <1>37, <1>38, <1>39, <1>40
  DEF Next, Sender, Timer, Receive, Poll, Loop, Quiescent

\* Every step keeps what the receiver holds within what was stored.
LEMMA SourcedStep == TypeOK /\ Sourced /\ [Next]_vars => Sourced'
<1> SUFFICES ASSUME TypeOK, Sourced, [Next]_vars PROVE Sourced'
  OBVIOUS
<1> USE DEF Sourced, Stored, vars, durable, registry, receiver, local, run
<1>0. created \in [Msg -> Nat]
  BY DEF TypeOK, DurableTypes
<1>1. ASSUME NEW m \in Msg, SendInsert(m) PROVE Sourced'
  BY <1>1, <1>0, StoredCount DEF SendInsert
<1>2. ASSUME NEW m \in Msg, SendNotify(m) PROVE Sourced'
  BY <1>2 DEF SendNotify
<1>3. ASSUME NEW m \in Msg, SendCancelled(m) PROVE Sourced'
  BY <1>3 DEF SendCancelled
<1>4. CASE StartNew
  BY <1>4 DEF StartNew, StartReceiver
<1>5. CASE StartFromCheckpoint
  BY <1>5 DEF StartFromCheckpoint, StartReceiver
<1>6. CASE StartLoad
  BY <1>6, HistRowsSubset DEF StartLoad, LoadHistorical
<1>7. CASE BeginReconcile
  BY <1>7 DEF BeginReconcile
<1>8. CASE ReconcileFails
  BY <1>8 DEF ReconcileFails, EmptyBatch
<1>9. CASE ReceiveSnapshot
  BY <1>9 DEF ReceiveSnapshot, AfterReceive
<1>10. ASSUME NEW due \in BOOLEAN, ReceiveRetry(due) PROVE Sourced'
  BY <1>10, HistRowsSubset DEF ReceiveRetry, AfterReceive, LoadHistorical
<1>11. CASE ReceiveRead
  BY <1>11, BatchesType DEF ReceiveRead
<1>12. CASE ReceiveMerge
  BY <1>12, TrimSubset DEF ReceiveMerge, AfterReceive, MergedPending, EmptyBatch
<1>13. ASSUME NEW S \in SUBSET pending, PollCommit(S) PROVE Sourced'
  BY <1>13 DEF PollCommit
<1>14. CASE PollDeliver
  BY <1>14 DEF PollDeliver
<1>15. CASE ReceiverAck
  BY <1>15 DEF ReceiverAck
<1>16. CASE PollNothing
  BY <1>16 DEF PollNothing
<1>17. CASE EndStart
  BY <1>17 DEF EndStart, EndLocal
<1>18. CASE EndReconcile
  BY <1>18 DEF EndReconcile, EndLocal
<1>19. CASE BeginPoll
  BY <1>19 DEF BeginPoll, Begin
<1>20. CASE EndPoll
  BY <1>20 DEF EndPoll, EndLocal
<1>21. CASE ModelStep
  BY <1>21 DEF ModelStep
<1>22. CASE BeginManual
  BY <1>22 DEF BeginManual, Begin
<1>23. CASE EndManual
  BY <1>23 DEF EndManual, EndLocal
<1>24. CASE ToolResult
  BY <1>24 DEF ToolResult
<1>25. CASE BeginConfirm
  BY <1>25 DEF BeginConfirm, Begin
<1>26. CASE ConfirmCommit
  BY <1>26 DEF ConfirmCommit
<1>27. CASE ConfirmDeliver
  BY <1>27 DEF ConfirmDeliver
<1>28. CASE EndConfirm
  BY <1>28 DEF EndConfirm, EndLocal
<1>29. CASE PauseRun
  BY <1>29 DEF PauseRun
<1>30. CASE AnswerContinues
  BY <1>30 DEF AnswerContinues
<1>31. CASE BeginFinish
  BY <1>31 DEF BeginFinish
<1>32. CASE FinishPoll
  BY <1>32 DEF FinishPoll, Begin
<1>33. CASE FinishDelivered
  BY <1>33 DEF FinishDelivered, EndLocal
<1>34. CASE FinishClose
  BY <1>34 DEF FinishClose, EndLocal
<1>35. CASE FinishOverBudget
  BY <1>35 DEF FinishOverBudget, EndLocal
<1>36. CASE Abort
  BY <1>36 DEF Abort, EmptyBatch
<1>37. CASE BackgroundError
  BY <1>37 DEF BackgroundError, Abort, EmptyBatch
<1>38. CASE CloseReceiver
  BY <1>38 DEF CloseReceiver, ReceiverGone, EmptyBatch
<1>39. CASE Crash
  BY <1>39 DEF Crash, ReceiverGone, EmptyBatch
<1>40. CASE UNCHANGED vars
  BY <1>40
<1> QED
  BY <1>1, <1>2, <1>3, <1>4, <1>5, <1>6, <1>7, <1>8, <1>9, <1>10, <1>11,
     <1>12, <1>13, <1>14, <1>15, <1>16, <1>17, <1>18, <1>19, <1>20, <1>21,
     <1>22, <1>23, <1>24, <1>25, <1>26, <1>27, <1>28, <1>29, <1>30, <1>31,
     <1>32, <1>33, <1>34, <1>35, <1>36, <1>37, <1>38, <1>39, <1>40
  DEF Next, Sender, Timer, Receive, Poll, Loop, Quiescent

(***************************************************************************)
(* Every step keeps recorded mail in a checkpoint, and the live context    *)
(* such that the next checkpoint taken from it loses none.                 *)
(***************************************************************************)
LEMMA SavedStep == IInv /\ [Next]_vars => Saved'
<1> SUFFICES ASSUME IInv, [Next]_vars PROVE Saved'
  OBVIOUS
<1> USE DEF Saved, Recorded, Checkpointed, InContext, InFlight, Active, Holds, Plus,
            vars, durable, registry, receiver, local, run
<1>0. /\ op \in {"none", "reconcile"} \cup MainOps /\ phase \in Phases
      /\ pc \in Points /\ Control
      /\ messages \in [Msg -> Nat] /\ ckpt \in [Msg -> Nat]
      /\ acked \subseteq Msg /\ ids \subseteq Msg /\ archived \subseteq Msg
      /\ pending \subseteq Msg
      /\ manual \subseteq Msg /\ selected \subseteq Msg /\ toolOut \subseteq Msg
  BY DEF IInv, TypeOK, LocalTypes, RunTypes, DurableTypes, ReceiverTypes, Ops
<1> USE <1>0 DEF IInv, Control, MainOps, Phases, Points
<1>1. ASSUME NEW m \in Msg, SendInsert(m) PROVE Saved'
  BY <1>1 DEF SendInsert
<1>2. ASSUME NEW m \in Msg, SendNotify(m) PROVE Saved'
  BY <1>2 DEF SendNotify
<1>3. ASSUME NEW m \in Msg, SendCancelled(m) PROVE Saved'
  BY <1>3 DEF SendCancelled
<1>4. CASE StartNew
  BY <1>4 DEF StartNew, StartReceiver, NoMail
<1>5. CASE StartFromCheckpoint
  BY <1>5 DEF StartFromCheckpoint, StartReceiver
<1>6. CASE StartLoad
  BY <1>6 DEF StartLoad, LoadHistorical
<1>7. CASE BeginReconcile
  BY <1>7 DEF BeginReconcile
<1>8. CASE ReconcileFails
  BY <1>8 DEF ReconcileFails
<1>9. CASE ReceiveSnapshot
  BY <1>9 DEF ReceiveSnapshot, AfterReceive
<1>10. ASSUME NEW due \in BOOLEAN, ReceiveRetry(due) PROVE Saved'
  BY <1>10 DEF ReceiveRetry, AfterReceive, LoadHistorical
<1>11. CASE ReceiveRead
  BY <1>11 DEF ReceiveRead
<1>12. CASE ReceiveMerge
  BY <1>12 DEF ReceiveMerge, AfterReceive, AlreadyDelivered
<1>13. ASSUME NEW S \in SUBSET pending, PollCommit(S) PROVE Saved'
  BY <1>13, FittingSubset DEF PollCommit, CheckpointWith, ReceiptOf, Plus
<1>14. CASE PollDeliver
  BY <1>14 DEF PollDeliver, Plus
<1>15. CASE ReceiverAck
  BY <1>15 DEF ReceiverAck
<1>16. CASE PollNothing
  BY <1>16 DEF PollNothing
<1>17. CASE EndStart
  BY <1>17 DEF EndStart, EndLocal
<1>18. CASE EndReconcile
  BY <1>18 DEF EndReconcile, EndLocal
<1>19. CASE BeginPoll
  BY <1>19 DEF BeginPoll, Begin
<1>20. CASE EndPoll
  BY <1>20 DEF EndPoll, EndLocal
<1>21. CASE ModelStep
  BY <1>21 DEF ModelStep
<1>22. CASE BeginManual
  BY <1>22 DEF BeginManual, Begin
<1>23. CASE EndManual
  BY <1>23 DEF EndManual, EndLocal
<1>24. CASE ToolResult
  BY <1>24 DEF ToolResult, Plus
<1>25. CASE BeginConfirm
  BY <1>25 DEF BeginConfirm, Begin
<1>26. CASE ConfirmCommit
  BY <1>26 DEF ConfirmCommit, ReceiptOf
<1>27. CASE ConfirmDeliver
  BY <1>27 DEF ConfirmDeliver
<1>28. CASE EndConfirm
  BY <1>28 DEF EndConfirm, EndLocal
<1>29. CASE PauseRun
  BY <1>29 DEF PauseRun
<1>30. CASE AnswerContinues
  BY <1>30 DEF AnswerContinues
<1>31. CASE BeginFinish
  BY <1>31 DEF BeginFinish
<1>32. CASE FinishPoll
  BY <1>32 DEF FinishPoll, Begin
<1>33. CASE FinishDelivered
  BY <1>33 DEF FinishDelivered, EndLocal
<1>34. CASE FinishClose
  BY <1>34 DEF FinishClose, EndLocal
<1>35. CASE FinishOverBudget
  BY <1>35 DEF FinishOverBudget, EndLocal
<1>36. CASE Abort
  BY <1>36 DEF Abort
<1>37. CASE BackgroundError
  BY <1>37 DEF BackgroundError, Abort
<1>38. CASE CloseReceiver
  BY <1>38 DEF CloseReceiver, ReceiverGone
<1>39. CASE Crash
  BY <1>39 DEF Crash, ReceiverGone
<1>40. CASE UNCHANGED vars
  BY <1>40
<1> QED
  BY <1>1, <1>2, <1>3, <1>4, <1>5, <1>6, <1>7, <1>8, <1>9, <1>10, <1>11,
     <1>12, <1>13, <1>14, <1>15, <1>16, <1>17, <1>18, <1>19, <1>20, <1>21,
     <1>22, <1>23, <1>24, <1>25, <1>26, <1>27, <1>28, <1>29, <1>30, <1>31,
     <1>32, <1>33, <1>34, <1>35, <1>36, <1>37, <1>38, <1>39, <1>40
  DEF Next, Sender, Timer, Receive, Poll, Loop, Quiescent

(***************************************************************************)
(* Every step keeps a message from entering a context twice.               *)
(***************************************************************************)
LEMMA FreshStep == IInv /\ [Next]_vars => Fresh'
<1> SUFFICES ASSUME IInv, [Next]_vars PROVE Fresh'
  OBVIOUS
<1> USE DEF Fresh, InFlight, Active, Plus, vars, durable, registry, receiver,
            local, run
<1>0. /\ op \in {"none", "reconcile"} \cup MainOps /\ phase \in Phases
      /\ pc \in Points /\ Control /\ InContext
      /\ messages \in [Msg -> Nat] /\ ckpt \in [Msg -> Nat]
      /\ ids \subseteq Msg /\ pending \subseteq Msg /\ manual \subseteq Msg
      /\ selected \subseteq Msg /\ toolOut \subseteq Msg
  BY DEF IInv, Saved, TypeOK, LocalTypes, RunTypes, DurableTypes, ReceiverTypes,
         Ops
<1> USE <1>0 DEF IInv, Control, InContext, MainOps, Phases, Points
<1>1. ASSUME NEW m \in Msg, SendInsert(m) PROVE Fresh'
  BY <1>1 DEF SendInsert
<1>2. ASSUME NEW m \in Msg, SendNotify(m) PROVE Fresh'
  BY <1>2 DEF SendNotify
<1>3. ASSUME NEW m \in Msg, SendCancelled(m) PROVE Fresh'
  BY <1>3 DEF SendCancelled
<1>4. CASE StartNew
  BY <1>4 DEF StartNew, StartReceiver, NoMail, Holds
<1>5. CASE StartFromCheckpoint
  BY <1>5 DEF StartFromCheckpoint, StartReceiver
<1>6. CASE StartLoad
  BY <1>6 DEF StartLoad, LoadHistorical
<1>7. CASE BeginReconcile
  BY <1>7 DEF BeginReconcile
<1>8. CASE ReconcileFails
  BY <1>8 DEF ReconcileFails
<1>9. CASE ReceiveSnapshot
  BY <1>9 DEF ReceiveSnapshot, AfterReceive
<1>10. ASSUME NEW due \in BOOLEAN, ReceiveRetry(due) PROVE Fresh'
  BY <1>10 DEF ReceiveRetry, AfterReceive, LoadHistorical
<1>11. CASE ReceiveRead
  BY <1>11 DEF ReceiveRead
<1>12. CASE ReceiveMerge
  BY <1>12, TrimSubset DEF ReceiveMerge, AfterReceive, MergedPending
<1>13. ASSUME NEW S \in SUBSET pending, PollCommit(S) PROVE Fresh'
  BY <1>13, FittingSubset DEF PollCommit, CheckpointWith, ReceiptOf
<1>14. CASE PollDeliver
  BY <1>14 DEF PollDeliver
<1>15. CASE ReceiverAck
  BY <1>15 DEF ReceiverAck
<1>16. CASE PollNothing
  BY <1>16 DEF PollNothing
<1>17. CASE EndStart
  BY <1>17 DEF EndStart, EndLocal
<1>18. CASE EndReconcile
  BY <1>18 DEF EndReconcile, EndLocal
<1>19. CASE BeginPoll
  BY <1>19 DEF BeginPoll, Begin
<1>20. CASE EndPoll
  BY <1>20 DEF EndPoll, EndLocal
<1>21. CASE ModelStep
  BY <1>21 DEF ModelStep
<1>22. CASE BeginManual
  BY <1>22 DEF BeginManual, Begin
<1>23. CASE EndManual
  BY <1>23 DEF EndManual, EndLocal
<1>24. CASE ToolResult
  BY <1>24 DEF ToolResult
<1>25. CASE BeginConfirm
  BY <1>25 DEF BeginConfirm, Begin
<1>26. CASE ConfirmCommit
  BY <1>26 DEF ConfirmCommit, ReceiptOf
<1>27. CASE ConfirmDeliver
  BY <1>27 DEF ConfirmDeliver
<1>28. CASE EndConfirm
  BY <1>28 DEF EndConfirm, EndLocal
<1>29. CASE PauseRun
  BY <1>29 DEF PauseRun
<1>30. CASE AnswerContinues
  BY <1>30 DEF AnswerContinues
<1>31. CASE BeginFinish
  BY <1>31 DEF BeginFinish
<1>32. CASE FinishPoll
  BY <1>32 DEF FinishPoll, Begin
<1>33. CASE FinishDelivered
  BY <1>33 DEF FinishDelivered, EndLocal
<1>34. CASE FinishClose
  BY <1>34 DEF FinishClose, EndLocal
<1>35. CASE FinishOverBudget
  BY <1>35 DEF FinishOverBudget, EndLocal
<1>36. CASE Abort
  BY <1>36 DEF Abort
<1>37. CASE BackgroundError
  BY <1>37 DEF BackgroundError, Abort
<1>38. CASE CloseReceiver
  BY <1>38 DEF CloseReceiver, ReceiverGone, NoMail
<1>39. CASE Crash
  BY <1>39 DEF Crash, ReceiverGone, NoMail
<1>40. CASE UNCHANGED vars
  BY <1>40
<1> QED
  BY <1>1, <1>2, <1>3, <1>4, <1>5, <1>6, <1>7, <1>8, <1>9, <1>10, <1>11,
     <1>12, <1>13, <1>14, <1>15, <1>16, <1>17, <1>18, <1>19, <1>20, <1>21,
     <1>22, <1>23, <1>24, <1>25, <1>26, <1>27, <1>28, <1>29, <1>30, <1>31,
     <1>32, <1>33, <1>34, <1>35, <1>36, <1>37, <1>38, <1>39, <1>40
  DEF Next, Sender, Timer, Receive, Poll, Loop, Quiescent

-----------------------------------------------------------------------------
\* The initial states satisfy the inductive invariant.
LEMMA InitIInv == Init => IInv
<1> SUFFICES ASSUME Init PROVE IInv
  OBVIOUS
<1> USE MailboxAssumption DEF Init, ReceiverOff, NoMail, EmptyBatch
<1>1. TypeOK
  <2>1. Cardinality(Hist) \in Nat
    BY FS_Subset, FS_CardinalityType
  <2>2. created \in [Msg -> Nat]
    BY <2>1
  <2> QED BY <2>2 DEF TypeOK, DurableTypes, RegistryTypes, ReceiverTypes,
                      LocalTypes, RunTypes, Ops, Points, Phases
<1>2. Control
  BY DEF Control
<1>3. Sourced
  BY DEF Sourced, Stored
<1>4. Saved
  BY DEF Saved, Recorded, Checkpointed, InContext, Active
<1>5. Fresh
  BY DEF Fresh, Active
<1> QED BY <1>1, <1>2, <1>3, <1>4, <1>5 DEF IInv

\* The invariant is inductive.
LEMMA Invariance == Spec => []IInv
<1>1. IInv /\ [Next]_vars => IInv'
  BY TypeStep, ControlStep, SourcedStep, SavedStep, FreshStep DEF IInv
<1> QED BY <1>1, InitIInv, PTL DEF Spec

\* Type correctness of the mailbox.
THEOREM TypeCorrect == Spec => []TypeOK
<1>1. IInv => TypeOK
  BY DEF IInv
<1> QED BY <1>1, Invariance, PTL

(***************************************************************************)
(* No acknowledged message is lost: whatever the interleaving of senders,  *)
(* timer and tool loop, and wherever the process dies between the two      *)
(* databases, it is recorded and in a stable checkpoint (commit_delivery   *)
(* before _ack).                                                           *)
(***************************************************************************)
THEOREM NoAckedMailLost == Spec => []AckedIsSaved
<1>1. IInv => AckedIsSaved
  BY DEF IInv, Saved, Recorded, Checkpointed, AckedIsSaved
<1> QED BY <1>1, Invariance, PTL

\* A model request never sees mail that a crash could lose (poll commits
\* before it extends the context).
THEOREM ModelSeesCheckpointedMail == Spec => []CheckpointBeforeModel
<1>1. IInv => CheckpointBeforeModel
  <2> SUFFICES ASSUME IInv, phase \in {"model", "tools", "answer"}
               PROVE  Holds(messages) \subseteq Holds(ckpt)
    BY DEF CheckpointBeforeModel
  <2>1. messages \in [Msg -> Nat] /\ ckpt \in [Msg -> Nat]
    BY DEF IInv, TypeOK, DurableTypes, RunTypes
  <2> QED BY <2>1 DEF IInv, Fresh, Holds
<1> QED BY <1>1, Invariance, PTL

\* Automatic delivery is exactly once, through crashes, retries and resumes
\* (delivered_ids across all runs of the session).
THEOREM InjectedAtMostOnce == Spec => []InjectedOnce
<1>1. IInv => InjectedOnce
  <2> SUFFICES ASSUME IInv, NEW m \in Msg \ readByTool
               PROVE  messages[m] <= 1 /\ ckpt[m] <= 1
    BY DEF InjectedOnce
  <2>1. messages \in [Msg -> Nat] /\ ckpt \in [Msg -> Nat]
    BY DEF IInv, TypeOK, DurableTypes, RunTypes
  <2> QED BY <2>1 DEF IInv, Fresh
<1> QED BY <1>1, Invariance, PTL

(***************************************************************************)
(* Steps that neither store a body, nor record a delivery, nor acknowledge *)
(* one stutter in the contract.                                            *)
(***************************************************************************)
LEMMA QuietSteps ==
  ASSUME [Next]_vars,
         \A m \in Msg : ~SendInsert(m),
         \A S \in SUBSET pending : ~PollCommit(S),
         \A due \in BOOLEAN : ~ReceiveRetry(due),
         ~ConfirmCommit, ~ReceiveMerge, ~ReceiverAck
  PROVE  UNCHANGED <<created, ids, acked>>
<1> DEFINE Quiet == UNCHANGED <<created, ids, acked>>
<1> USE DEF vars, durable, registry, receiver, local, run
<1>1. ASSUME NEW m \in Msg, SendNotify(m) PROVE Quiet
  BY <1>1 DEF SendNotify
<1>2. ASSUME NEW m \in Msg, SendCancelled(m) PROVE Quiet
  BY <1>2 DEF SendCancelled
<1>3. CASE StartNew
  BY <1>3 DEF StartNew, StartReceiver
<1>4. CASE StartFromCheckpoint
  BY <1>4 DEF StartFromCheckpoint, StartReceiver
<1>5. CASE StartLoad
  BY <1>5 DEF StartLoad, LoadHistorical
<1>6. CASE BeginReconcile
  BY <1>6 DEF BeginReconcile
<1>7. CASE ReconcileFails
  BY <1>7 DEF ReconcileFails
<1>8. CASE ReceiveSnapshot
  BY <1>8 DEF ReceiveSnapshot, AfterReceive
<1>9. CASE ReceiveRead
  BY <1>9 DEF ReceiveRead
<1>10. CASE PollDeliver
  BY <1>10 DEF PollDeliver
<1>11. CASE PollNothing
  BY <1>11 DEF PollNothing
<1>12. CASE EndStart
  BY <1>12 DEF EndStart, EndLocal
<1>13. CASE EndReconcile
  BY <1>13 DEF EndReconcile, EndLocal
<1>14. CASE BeginPoll
  BY <1>14 DEF BeginPoll, Begin
<1>15. CASE EndPoll
  BY <1>15 DEF EndPoll, EndLocal
<1>16. CASE ModelStep
  BY <1>16 DEF ModelStep
<1>17. CASE BeginManual
  BY <1>17 DEF BeginManual, Begin
<1>18. CASE EndManual
  BY <1>18 DEF EndManual, EndLocal
<1>19. CASE ToolResult
  BY <1>19 DEF ToolResult
<1>20. CASE BeginConfirm
  BY <1>20 DEF BeginConfirm, Begin
<1>21. CASE ConfirmDeliver
  BY <1>21 DEF ConfirmDeliver
<1>22. CASE EndConfirm
  BY <1>22 DEF EndConfirm, EndLocal
<1>23. CASE PauseRun
  BY <1>23 DEF PauseRun
<1>24. CASE AnswerContinues
  BY <1>24 DEF AnswerContinues
<1>25. CASE BeginFinish
  BY <1>25 DEF BeginFinish
<1>26. CASE FinishPoll
  BY <1>26 DEF FinishPoll, Begin
<1>27. CASE FinishDelivered
  BY <1>27 DEF FinishDelivered, EndLocal
<1>28. CASE FinishClose
  BY <1>28 DEF FinishClose, EndLocal
<1>29. CASE FinishOverBudget
  BY <1>29 DEF FinishOverBudget, EndLocal
<1>30. CASE Abort
  BY <1>30 DEF Abort
<1>31. CASE BackgroundError
  BY <1>31 DEF BackgroundError, Abort
<1>32. CASE CloseReceiver
  BY <1>32 DEF CloseReceiver, ReceiverGone
<1>33. CASE Crash
  BY <1>33 DEF Crash, ReceiverGone
<1>34. CASE UNCHANGED vars
  BY <1>34
<1> QED
  BY <1>1, <1>2, <1>3, <1>4, <1>5, <1>6, <1>7, <1>8, <1>9, <1>10, <1>11,
     <1>12, <1>13, <1>14, <1>15, <1>16, <1>17, <1>18, <1>19, <1>20, <1>21,
     <1>22, <1>23, <1>24, <1>25, <1>26, <1>27, <1>28, <1>29, <1>30, <1>31,
     <1>32, <1>33, <1>34
  DEF Next, Sender, Timer, Receive, Poll, Loop, Quiescent

(***************************************************************************)
(* The mailbox implements its contract: a delivery is saved before it is   *)
(* acknowledged and nothing is taken back, for every number of messages,   *)
(* runs and crashes.                                                       *)
(***************************************************************************)
THEOREM Refinement == Spec => ImplementsContract
<1>1. Init => Contract!Init
  BY DEF Init, Contract!Init, Stored
<1>2. IInv /\ [Next]_vars => [Contract!Next]_(Contract!cvars)
  <2> SUFFICES ASSUME IInv, [Next]_vars
               PROVE  Contract!Next \/ UNCHANGED <<Stored, ids, acked>>
    BY DEF Contract!cvars
  <2> USE DEF durable, registry, receiver, local, run
  <2>1. /\ Sourced /\ Recorded /\ pending \subseteq Msg /\ manual \subseteq Msg
        /\ batch.msgs \subseteq Msg /\ ids \subseteq Msg /\ created \in [Msg -> Nat]
    BY DEF IInv, Saved, TypeOK, ReceiverTypes, LocalTypes, DurableTypes
  <2>2. ASSUME NEW m \in Msg, SendInsert(m) PROVE Contract!Send(m)
    BY SMTT(30), <2>1, <2>2, StoredCount DEF SendInsert, Contract!Send, Stored
  <2>3. ASSUME NEW S \in SUBSET pending, PollCommit(S) PROVE Contract!Save(S)
    BY <2>1, <2>3 DEF PollCommit, ReceiptOf, Contract!Save, Stored, Sourced
  <2>4. ASSUME ConfirmCommit
        PROVE  Contract!Save(manual) \/ UNCHANGED <<Stored, ids, acked>>
    BY <2>1, <2>4 DEF ConfirmCommit, ReceiptOf, Contract!Save, Stored, Sourced
  <2>5. ASSUME NEW due \in BOOLEAN, ReceiveRetry(due)
        PROVE  Contract!Ack(unacked) \/ UNCHANGED <<Stored, ids, acked>>
    BY <2>1, <2>5 DEF ReceiveRetry, Contract!Ack, Stored, Recorded
  <2>6. ASSUME ReceiveMerge
        PROVE  \/ Contract!Ack(unacked \cup AlreadyDelivered)
               \/ UNCHANGED <<Stored, ids, acked>>
    BY <2>1, <2>6 DEF ReceiveMerge, AlreadyDelivered, Contract!Ack, Stored, Recorded
  <2>7. ASSUME ReceiverAck
        PROVE  Contract!Ack(unacked) \/ UNCHANGED <<Stored, ids, acked>>
    BY <2>1, <2>7 DEF ReceiverAck, Contract!Ack, Stored, Recorded
  <2>8. unacked \subseteq Msg /\ AlreadyDelivered \subseteq Msg
    BY <2>1 DEF Recorded, AlreadyDelivered
  <2>9. CASE UNCHANGED <<created, ids, acked>>
    BY <2>9 DEF Stored
  <2> QED BY <2>1, <2>2, <2>3, <2>4, <2>5, <2>6, <2>7, <2>8, <2>9, QuietSteps
          DEF Contract!Next
<1> QED BY <1>1, <1>2, Invariance, PTL DEF Spec, ImplementsContract, Contract!Spec

-----------------------------------------------------------------------------
(***************************************************************************)
(* Slices and batches: which actionable messages they hold.                *)
(***************************************************************************)
\* A set of messages can be counted, and so can every part of it.
LEMMA Countable ==
  ASSUME NEW S \in SUBSET Msg
  PROVE  /\ IsFiniteSet(S) /\ Cardinality(S) \in Nat
         /\ \A T \in SUBSET S : Cardinality(T) \in Nat /\ Cardinality(T) <= Cardinality(S)
<1>1. IsFiniteSet(S)
  BY MailboxAssumption, FS_Subset
<1>2. \A T \in SUBSET S : Cardinality(T) \in Nat /\ Cardinality(T) <= Cardinality(S)
  BY <1>1, FS_Subset, FS_CardinalityType
<1> QED BY <1>1, <1>2, FS_CardinalityType

\* The oldest of a set leave out no message older than one they hold.
LEMMA OldestInitial ==
  ASSUME created \in [Msg -> Nat], NEW S \in SUBSET Msg, NEW n \in Int,
         NEW k \in Oldest(S, n), NEW m \in S, created[m] < created[k]
  PROVE  m \in Oldest(S, n)
<1> DEFINE Before(x) == {y \in S : created[y] < created[x]}
<1>1. k \in S /\ Cardinality(Before(k)) < n
  BY DEF Oldest
<1>2. Before(m) \in SUBSET Before(k)
  <2>1. \A y \in S : created[y] \in Nat /\ created[m] \in Nat /\ created[k] \in Nat
    BY <1>1
  <2> QED BY <2>1
<1>3. Before(k) \in SUBSET Msg
  OBVIOUS
<1> HIDE DEF Before
<1>4. /\ Cardinality(Before(m)) \in Nat /\ Cardinality(Before(k)) \in Nat
      /\ Cardinality(Before(m)) <= Cardinality(Before(k))
  BY <1>2, <1>3, Countable
<1>5. Cardinality(Before(m)) < n
  BY <1>1, <1>4
<1> QED BY <1>5 DEF Oldest, Before

\* A set of messages that is not empty has an oldest.
LEMMA OldestExists ==
  ASSUME created \in [Msg -> Nat], NEW S \in SUBSET Msg, S # {}
  PROVE  \E m \in S : \A k \in S : created[m] <= created[k]
<1> DEFINE T == {created[m] : m \in S}
           R == OpToRel(<, Nat)
<1>1. T \subseteq Nat /\ T # {}
  OBVIOUS
<1>2. PICK t \in T : \A y \in T : ~(<<y, t>> \in R)
  BY <1>1, WFMin, NatLessThanWellFounded
<1>3. PICK m \in S : t = created[m]
  OBVIOUS
<1>4. ASSUME NEW k \in S PROVE created[m] <= created[k]
  <2>1. created[k] \in Nat /\ created[m] \in Nat /\ created[k] \in T
    OBVIOUS
  <2>2. created[k] < created[m] => <<created[k], created[m]>> \in R
    BY <2>1 DEF OpToRel
  <2> HIDE DEF R, T
  <2>3. ~(created[k] < created[m])
    BY <1>2, <1>3, <2>1, <2>2
  <2> QED BY <2>1, <2>3
<1> QED BY <1>3, <1>4

\* A slice of a set that is not empty holds its oldest.
LEMMA OldestNonempty ==
  ASSUME created \in [Msg -> Nat], NEW S \in SUBSET Msg, S # {}, NEW n \in Nat \ {0}
  PROVE  Oldest(S, n) # {}
<1>1. PICK m \in S : \A k \in S : created[m] <= created[k]
  BY OldestExists
<1>2. {k \in S : created[k] < created[m]} = {}
  <2>1. \A k \in S : created[k] \in Nat /\ created[m] \in Nat
    OBVIOUS
  <2> QED BY <1>1, <2>1
<1>3. Cardinality({k \in S : created[k] < created[m]}) < n
  BY <1>2, FS_EmptySet
<1> QED BY <1>3 DEF Oldest

\* A slice at least as long as the set is the set.
LEMMA OldestWhole ==
  ASSUME created \in [Msg -> Nat], NEW S \in SUBSET Msg, NEW n \in Int,
         Cardinality(S) <= n
  PROVE  Oldest(S, n) = S
<1>1. ASSUME NEW m \in S PROVE Cardinality({k \in S : created[k] < created[m]}) < n
  <2> DEFINE B == {k \in S : created[k] < created[m]}
  <2>1. created[m] \in Nat /\ B \in SUBSET (S \ {m})
    OBVIOUS
  <2>2. IsFiniteSet(S)
    BY Countable
  <2>3. IsFiniteSet(S \ {m}) /\ Cardinality(S \ {m}) = Cardinality(S) - 1
    BY <2>2, FS_RemoveElement
  <2>4. S \ {m} \in SUBSET Msg
    OBVIOUS
  <2> HIDE DEF B
  <2>5. /\ Cardinality(B) \in Nat /\ Cardinality(S) \in Nat
        /\ Cardinality(B) <= Cardinality(S \ {m})
    BY <2>1, <2>4, Countable
  <2>6. Cardinality(B) < n
    BY <2>3, <2>5
  <2> QED BY <2>6 DEF B
<1> QED BY <1>1 DEF Oldest

\* A slice shorter than asked for is the whole set.
LEMMA OldestShort ==
  ASSUME created \in [Msg -> Nat], NEW S \in SUBSET Msg, NEW n \in Int,
         Cardinality(Oldest(S, n)) < n
  PROVE  Oldest(S, n) = S
<1> DEFINE rest == S \ Oldest(S, n)
<1>1. Oldest(S, n) \subseteq S
  BY OldestSubset
<1>2. SUFFICES ASSUME rest # {} PROVE FALSE
  BY <1>1
<1>3. rest \in SUBSET Msg
  OBVIOUS
<1>4. PICK m \in rest : \A k \in rest : created[m] <= created[k]
  BY <1>2, <1>3, OldestExists
<1>5. {k \in S : created[k] < created[m]} \in SUBSET Oldest(S, n)
  <2>1. ASSUME NEW k \in S, created[k] < created[m] PROVE k \in Oldest(S, n)
    <3>1. created[k] \in Nat /\ created[m] \in Nat
      OBVIOUS
    <3>2. ~(created[m] <= created[k])
      BY <3>1, <2>1
    <3> QED BY <3>2, <1>4
  <2> QED BY <2>1
<1>6. Oldest(S, n) \in SUBSET Msg
  BY <1>1
<1>7. /\ Cardinality({k \in S : created[k] < created[m]}) \in Nat
      /\ Cardinality(Oldest(S, n)) \in Nat
      /\ Cardinality({k \in S : created[k] < created[m]}) <= Cardinality(Oldest(S, n))
  BY <1>5, <1>6, Countable
<1>8. Cardinality({k \in S : created[k] < created[m]}) < n
  BY <1>7
<1>9. m \in Oldest(S, n)
  BY <1>8 DEF Oldest
<1> QED BY <1>9

\* The quota of actionable messages in a batch is at least one.
Quota(S) == IF S \ Actionable # {} THEN Priority ELSE Limit

\* It is a positive number, and so is the part of a non-empty batch it may fill.
LEMMA QuotaType ==
  ASSUME NEW S, NEW n \in Nat
  PROVE  /\ Quota(S) \in Nat \ {0} /\ Smaller(Quota(S), n) \in Nat
         /\ n # 0 => Smaller(Quota(S), n) # 0
BY MailboxAssumption DEF Quota, Smaller

\* The three parts of a batch, and the length left for the third.
LEMMA BatchParts ==
  ASSUME NEW S \in SUBSET Msg, NEW n \in Nat
  PROVE  \E first, second \in SUBSET Msg : \E left \in Int :
           /\ first = Oldest(S \cap Actionable, Smaller(Quota(S), n))
           /\ second = Oldest(S \ Actionable, n - Cardinality(first))
           /\ left = n - Cardinality(first) - Cardinality(second)
           /\ ByPriority(S, n)
                = first \cup second \cup Oldest((S \cap Actionable) \ first, left)
<1> DEFINE first == Oldest(S \cap Actionable, Smaller(Quota(S), n))
           second == Oldest(S \ Actionable, n - Cardinality(first))
           left == n - Cardinality(first) - Cardinality(second)
<1>1. ByPriority(S, n)
        = first \cup second \cup Oldest((S \cap Actionable) \ first, left)
  BY DEF ByPriority, Quota
<1>2. first \in SUBSET Msg /\ second \in SUBSET Msg
  BY OldestSubset
<1> HIDE DEF first, second
<1>3. Cardinality(first) \in Nat /\ Cardinality(second) \in Nat
  BY <1>2, Countable
<1>4. left \in Int
  BY <1>3
<1> HIDE DEF left
<1> QED BY <1>1, <1>2, <1>4 DEF first, second, left

(***************************************************************************)
(* active[:slots] + passive + active[slots:], cut anywhere, leaves out no  *)
(* actionable message older than one it holds.                             *)
(***************************************************************************)
LEMMA ByPriorityInitial ==
  ASSUME created \in [Msg -> Nat], NEW S \in SUBSET Msg, NEW n \in Nat,
         NEW k \in ByPriority(S, n) \cap Actionable,
         NEW m \in S \cap Actionable, created[m] < created[k]
  PROVE  m \in ByPriority(S, n)
<1> DEFINE active == S \cap Actionable
<1>1. PICK first \in SUBSET Msg, second \in SUBSET Msg, left \in Int :
           /\ first = Oldest(active, Smaller(Quota(S), n))
           /\ second = Oldest(S \ Actionable, n - Cardinality(first))
           /\ left = n - Cardinality(first) - Cardinality(second)
           /\ ByPriority(S, n) = first \cup second \cup Oldest(active \ first, left)
  BY ZenonT(30), BatchParts
<1>2. Smaller(Quota(S), n) \in Int
  BY QuotaType
<1>3. active \in SUBSET Msg /\ active \ first \in SUBSET Msg /\ m \in active
  OBVIOUS
<1>4. second \subseteq S \ Actionable
  BY <1>1, OldestSubset
<1>5. k \in first \cup Oldest(active \ first, left)
  BY <1>1, <1>4
<1> HIDE DEF active
<1>6. CASE k \in first
  BY <1>1, <1>2, <1>3, <1>6, OldestInitial
<1>7. CASE k \in Oldest(active \ first, left) /\ m \notin first
  <2>1. m \in active \ first
    BY <1>3, <1>7
  <2>2. m \in Oldest(active \ first, left)
    BY <2>1, <1>3, <1>7, OldestInitial
  <2> QED BY <2>2, <1>1
<1>8. CASE m \in first
  BY <1>1, <1>8
<1> QED BY <1>5, <1>6, <1>7, <1>8

\* A batch cut from actionable messages and others holds an actionable one.
LEMMA ByPriorityNonempty ==
  ASSUME created \in [Msg -> Nat], NEW S \in SUBSET Msg, NEW n \in Nat \ {0},
         S \cap Actionable # {}
  PROVE  ByPriority(S, n) \cap Actionable # {}
<1>1. PICK first \in SUBSET Msg, second \in SUBSET Msg, left \in Int :
           /\ first = Oldest(S \cap Actionable, Smaller(Quota(S), n))
           /\ second = Oldest(S \ Actionable, n - Cardinality(first))
           /\ left = n - Cardinality(first) - Cardinality(second)
           /\ ByPriority(S, n)
                = first \cup second \cup Oldest((S \cap Actionable) \ first, left)
  BY ZenonT(30), BatchParts
<1>2. Smaller(Quota(S), n) \in Nat \ {0}
  BY QuotaType
<1>3. first # {}
  BY <1>1, <1>2, OldestNonempty
<1>4. first \subseteq S \cap Actionable
  BY <1>1, OldestSubset
<1> QED BY <1>1, <1>3, <1>4

\* A batch that is not cut holds every actionable message.
LEMMA ByPriorityWhole ==
  ASSUME created \in [Msg -> Nat], NEW S \in SUBSET Msg, NEW n \in Nat,
         Cardinality(S) <= n
  PROVE  S \cap Actionable \subseteq ByPriority(S, n)
<1> DEFINE active == S \cap Actionable
           passive == S \ Actionable
<1>1. PICK first \in SUBSET Msg, second \in SUBSET Msg, left \in Int :
           /\ first = Oldest(active, Smaller(Quota(S), n))
           /\ second = Oldest(passive, n - Cardinality(first))
           /\ left = n - Cardinality(first) - Cardinality(second)
           /\ ByPriority(S, n) = first \cup second \cup Oldest(active \ first, left)
  BY ZenonT(30), BatchParts
<1>2. first \subseteq active /\ second \subseteq passive
  BY <1>1, OldestSubset
<1>3. /\ active \in SUBSET Msg /\ passive \in SUBSET Msg
      /\ active \ first \in SUBSET Msg /\ active \cap passive = {}
      /\ active \cup passive = S /\ active \cap first = first
  BY <1>2
<1> HIDE DEF active, passive
<1>4. /\ IsFiniteSet(active) /\ IsFiniteSet(passive) /\ IsFiniteSet(first)
      /\ Cardinality(active) \in Nat /\ Cardinality(passive) \in Nat
      /\ Cardinality(first) \in Nat /\ Cardinality(second) \in Nat
      /\ Cardinality(second) <= Cardinality(passive)
  BY <1>2, <1>3, Countable
<1>5. Cardinality(S) = Cardinality(active) + Cardinality(passive)
  <2>1. Cardinality(active \cap passive) = 0
    BY <1>3, FS_EmptySet
  <2>2. Cardinality(active \cup passive)
          = Cardinality(active) + Cardinality(passive) - Cardinality(active \cap passive)
    BY <1>4, FS_Union
  <2>3. Cardinality(S) = Cardinality(active \cup passive)
    BY <1>3
  <2> QED BY <2>1, <2>2, <2>3, <1>4
<1>6. Cardinality(active \ first) = Cardinality(active) - Cardinality(first)
  BY <1>3, <1>4, FS_Difference
<1>7. Cardinality(active \ first) <= left
  BY <1>1, <1>4, <1>5, <1>6
<1>8. Oldest(active \ first, left) = active \ first
  BY <1>3, <1>7, OldestWhole
<1>9. active \subseteq ByPriority(S, n)
  BY <1>1, <1>8
<1> QED BY <1>9 DEF active

\* Trimming _pending leaves out no actionable message older than one it keeps.
LEMMA TrimInitial ==
  ASSUME created \in [Msg -> Nat], NEW S \in SUBSET Msg,
         NEW k \in Trim(S) \cap Actionable,
         NEW m \in S \cap Actionable, created[m] < created[k]
  PROVE  m \in Trim(S)
<1>1. Limit \in Nat
  BY MailboxAssumption
<1>2. CASE Cardinality(S) <= Limit
  BY <1>2 DEF Trim
<1>3. CASE ~(Cardinality(S) <= Limit)
  BY <1>1, <1>3, ByPriorityInitial DEF Trim
<1> QED BY <1>2, <1>3

(***************************************************************************)
(* read_mailbox_batch: a batch leaves out no actionable message older than *)
(* one it holds, holds an actionable message if there is one to read, and  *)
(* holds them all unless it reports more.                                  *)
(***************************************************************************)
LEMMA BatchKeepsOrder ==
  ASSUME created \in [Msg -> Nat], NEW b \in Batches
  PROVE  /\ \A k \in b.msgs \cap Actionable, m \in Unread \cap Actionable :
               created[m] < created[k] => m \in b.msgs
         /\ b.msgs \cap Actionable = {} => Unread \cap Actionable = {}
         /\ ~b.more => Unread \cap Actionable \subseteq b.msgs
<1> DEFINE urgent == Oldest(Unread \cap Actionable, Limit + 1)
           others == Oldest(Unread \ Actionable, Limit + 1)
           read == urgent \cup others
<1>1. Unread \in SUBSET Msg /\ Limit \in Nat \ {0} /\ Limit + 1 \in Nat \ {0}
  BY MailboxAssumption DEF Unread, Rows, Stored
<1>2. urgent \subseteq Unread \cap Actionable /\ others \subseteq Unread \ Actionable
  BY OldestSubset
<1>3. \A k \in urgent, m \in Unread \cap Actionable :
         created[m] < created[k] => m \in urgent
  <2>1. Unread \cap Actionable \in SUBSET Msg /\ Limit + 1 \in Int
    BY <1>1
  <2> QED BY <2>1, OldestInitial
<1>4. urgent = {} => Unread \cap Actionable = {}
  <2>1. Unread \cap Actionable \in SUBSET Msg
    BY <1>1
  <2> QED BY <2>1, <1>1, OldestNonempty
<1>5. Cardinality(urgent) <= Limit => urgent = Unread \cap Actionable
  <2>1. Unread \cap Actionable \in SUBSET Msg /\ Limit + 1 \in Int
    BY <1>1
  <2>2. urgent \in SUBSET Msg
    BY <1>1, <1>2
  <2> HIDE DEF urgent
  <2>3. Cardinality(urgent) \in Nat
    BY <2>2, Countable
  <2>4. Cardinality(urgent) <= Limit => Cardinality(urgent) < Limit + 1
    BY <2>3, <1>1
  <2> QED BY <2>1, <2>4, OldestShort DEF urgent
<1>6. b \in IF read = {} THEN {EmptyBatch}
           ELSE {[msgs |-> ByPriority(read, n), more |-> n < Cardinality(read)] :
                   n \in 1..Smaller(Limit, Cardinality(read))}
  BY DEF Batches
<1> HIDE DEF urgent, others
<1>7. /\ read \in SUBSET Msg /\ urgent \in SUBSET read
      /\ read \cap Actionable = urgent
  BY <1>1, <1>2
<1>8. Cardinality(read) \in Nat /\ Cardinality(urgent) \in Nat
      /\ Cardinality(urgent) <= Cardinality(read)
  BY <1>7, Countable
<1>9. CASE read = {}
  <2>1. b = EmptyBatch /\ urgent = {}
    BY <1>6, <1>9
  <2> QED BY <2>1, <1>4 DEF EmptyBatch
<1>10. CASE read # {}
  <2>1. PICK n \in 1..Smaller(Limit, Cardinality(read)) :
           b = [msgs |-> ByPriority(read, n), more |-> n < Cardinality(read)]
    BY <1>6, <1>10
  <2>2. n \in Nat \ {0} /\ n <= Limit /\ n <= Cardinality(read)
    BY <2>1, <1>1, <1>8 DEF Smaller
  <2>3. b.msgs = ByPriority(read, n) /\ (b.more <=> n < Cardinality(read))
    BY <2>1
  <2> HIDE DEF read
  <2>4. b.msgs \subseteq read
    BY <2>3, ByPrioritySubset
  <2>5. ASSUME NEW k \in b.msgs \cap Actionable, NEW m \in Unread \cap Actionable,
               created[m] < created[k]
        PROVE  m \in b.msgs
    <3>1. k \in urgent
      BY <2>4, <1>7
    <3>2. m \in urgent
      BY <3>1, <2>5, <1>3
    <3>3. m \in read \cap Actionable
      BY <3>2, <1>7
    <3> QED BY <3>3, <2>2, <2>3, <2>5, <1>7, ByPriorityInitial
  <2>6. b.msgs \cap Actionable = {} => Unread \cap Actionable = {}
    BY <2>2, <2>3, <1>4, <1>7, ByPriorityNonempty
  <2>7. ~b.more => Unread \cap Actionable \subseteq b.msgs
    <3> SUFFICES ASSUME ~b.more PROVE Unread \cap Actionable \subseteq b.msgs
      OBVIOUS
    <3>1. n = Cardinality(read)
      BY <2>2, <2>3, <1>8
    <3>2. Cardinality(urgent) <= Limit
      BY <3>1, <2>2, <1>1, <1>8
    <3>3. read \cap Actionable \subseteq ByPriority(read, n)
      BY <3>1, <2>2, <1>7, <1>8, ByPriorityWhole
    <3> QED BY <3>2, <3>3, <2>3, <1>5, <1>7
  <2> QED BY <2>5, <2>6, <2>7
<1> QED BY <1>9, <1>10

(***************************************************************************)
(* poll: what fits leaves out no actionable message, of those no tool has  *)
(* read, that is older than one it holds.                                  *)
(***************************************************************************)
LEMMA FittingInitial ==
  ASSUME created \in [Msg -> Nat], pending \in SUBSET Msg, NEW S \in Fitting,
         NEW k \in S \cap Actionable,
         NEW m \in (pending \ manual) \cap Actionable, created[m] < created[k]
  PROVE  m \in S
<1>1. Eligible \in SUBSET Msg /\ m \in Eligible
  BY DEF Eligible
<1>2. CASE BudgetBinds
  <2>1. PICK i \in 0..Cardinality(S), j \in 0..Cardinality(S) :
           S = Oldest(Eligible \cap Actionable, i) \cup Oldest(Eligible \ Actionable, j)
    BY <1>2 DEF Fitting
  <2>2. k \in Oldest(Eligible \cap Actionable, i)
    BY <2>1, OldestSubset
  <2>3. i \in Int /\ Eligible \cap Actionable \in SUBSET Msg
        /\ m \in Eligible \cap Actionable
    BY <1>1, <2>1
  <2>4. m \in Oldest(Eligible \cap Actionable, i)
    BY <2>2, <2>3, OldestInitial
  <2> QED BY <2>1, <2>4
<1>3. CASE ~BudgetBinds
  BY <1>1, <1>3 DEF Fitting
<1> QED BY <1>2, <1>3

-----------------------------------------------------------------------------
(***************************************************************************)
(* Where mail is, in the order of its creation.  Queue is the mail the     *)
(* runtime injects; a set that holds one of its messages holds, or has     *)
(* passed on, every older one.                                             *)
(***************************************************************************)
Queue == (Rows \cap Actionable) \ readByTool

InOrder(S, T) ==
  \A m, k \in Queue : created[m] < created[k] /\ k \in S => m \in T

\* A new message is younger than every stored one, and what is recorded was
\* stored.  What a tool holds was read by a tool, and no old receipt appears.
Dated ==
  /\ \A k \in Msg : created[k] <= Cardinality(Stored)
  /\ ids \subseteq Stored /\ manual \subseteq readByTool
  /\ hist \subseteq Hist /\ Hist \subseteq Stored

Ordered ==
  /\ InOrder(ids, ids)
  /\ InOrder(pending, pending \cup ids)
  /\ InOrder(batch.msgs, batch.msgs \cup ids)

\* Every step keeps the ages of messages in agreement with their number.
LEMMA DatedStep == IInv /\ Dated /\ [Next]_vars => Dated'
<1> SUFFICES ASSUME IInv, Dated, [Next]_vars PROVE Dated'
  OBVIOUS
<1> USE DEF Dated, vars, durable, registry, receiver, local, run
<1>0. /\ created \in [Msg -> Nat] /\ pending \cup manual \subseteq Stored
      /\ Cardinality(Stored) \in Nat
  BY StoredCount DEF IInv, TypeOK, DurableTypes, Sourced
<1>1. ASSUME NEW m \in Msg, SendInsert(m) PROVE Dated'
  <2>1. Stored' = Stored \cup {m} /\ m \notin Stored
    <3>1. created[m] = 0 /\ created' = [created EXCEPT ![m] = Cardinality(Stored) + 1]
      BY <1>1 DEF SendInsert
    <3>2. Cardinality(Stored) + 1 # 0
      BY <1>0
    <3> DEFINE n == Cardinality(Stored) + 1
    <3>3. created' = [created EXCEPT ![m] = n] /\ n # 0
      BY <3>1, <3>2
    <3> HIDE DEF n, Dated
    <3> QED BY <1>0, <3>1, <3>3 DEF Stored
  <2>2. IsFiniteSet(Stored)
    BY MailboxAssumption, FS_Subset DEF Stored
  <2>3. Cardinality(Stored') = Cardinality(Stored) + 1
    BY <2>1, <2>2, FS_AddElement
  <2>4. \A k \in Msg : created'[k] <= Cardinality(Stored')
    <3>1. created' = [created EXCEPT ![m] = Cardinality(Stored) + 1]
      BY <1>1 DEF SendInsert
    <3> QED BY <3>1, <2>3, <1>0
  <2>5. ids' = ids /\ manual' = manual /\ readByTool' = readByTool /\ hist' = hist
    BY <1>1 DEF SendInsert
  <2> QED BY <2>1, <2>4, <2>5
<1>2. ASSUME NEW m \in Msg, SendNotify(m) PROVE Dated'
  BY <1>2, <1>0 DEF SendNotify, Stored
<1>3. ASSUME NEW m \in Msg, SendCancelled(m) PROVE Dated'
  BY <1>3, <1>0 DEF SendCancelled, Stored
<1>4. CASE StartNew
  BY <1>4, <1>0 DEF StartNew, StartReceiver, Stored
<1>5. CASE StartFromCheckpoint
  BY <1>5, <1>0 DEF StartFromCheckpoint, StartReceiver, Stored
<1>6. CASE StartLoad
  BY <1>6, <1>0 DEF StartLoad, LoadHistorical, Stored
<1>7. CASE BeginReconcile
  BY <1>7, <1>0 DEF BeginReconcile, Stored
<1>8. CASE ReconcileFails
  BY <1>8, <1>0 DEF ReconcileFails, Stored
<1>9. CASE ReceiveSnapshot
  BY <1>9, <1>0 DEF ReceiveSnapshot, AfterReceive, Stored
<1>10. ASSUME NEW due \in BOOLEAN, ReceiveRetry(due) PROVE Dated'
  BY <1>10, <1>0 DEF ReceiveRetry, AfterReceive, LoadHistorical, Stored
<1>11. CASE ReceiveRead
  BY <1>11, <1>0 DEF ReceiveRead, Stored
<1>12. CASE ReceiveMerge
  BY <1>12, <1>0 DEF ReceiveMerge, AfterReceive, MergedPending, Stored
<1>13. ASSUME NEW S \in SUBSET pending, PollCommit(S) PROVE Dated'
  BY <1>13, <1>0, FittingSubset DEF PollCommit, CheckpointWith, ReceiptOf, Stored
<1>14. CASE PollDeliver
  BY <1>14, <1>0 DEF PollDeliver, Stored
<1>15. CASE ReceiverAck
  BY <1>15, <1>0 DEF ReceiverAck, Stored
<1>16. CASE PollNothing
  BY <1>16, <1>0 DEF PollNothing, Stored
<1>17. CASE EndStart
  BY <1>17, <1>0 DEF EndStart, EndLocal, Stored
<1>18. CASE EndReconcile
  BY <1>18, <1>0 DEF EndReconcile, EndLocal, Stored
<1>19. CASE BeginPoll
  BY <1>19, <1>0 DEF BeginPoll, Begin, Stored
<1>20. CASE EndPoll
  BY <1>20, <1>0 DEF EndPoll, EndLocal, Stored
<1>21. CASE ModelStep
  BY <1>21, <1>0 DEF ModelStep, Stored
<1>22. CASE BeginManual
  BY <1>22, <1>0 DEF BeginManual, Begin, Stored
<1>23. CASE EndManual
  BY <1>23, <1>0 DEF EndManual, EndLocal, Stored
<1>24. CASE ToolResult
  BY <1>24, <1>0 DEF ToolResult, Stored
<1>25. CASE BeginConfirm
  BY <1>25, <1>0 DEF BeginConfirm, Begin, Stored
<1>26. CASE ConfirmCommit
  BY <1>26, <1>0 DEF ConfirmCommit, ReceiptOf, Stored
<1>27. CASE ConfirmDeliver
  BY <1>27, <1>0 DEF ConfirmDeliver, Stored
<1>28. CASE EndConfirm
  BY <1>28, <1>0 DEF EndConfirm, EndLocal, Stored
<1>29. CASE PauseRun
  BY <1>29, <1>0 DEF PauseRun, Stored
<1>30. CASE AnswerContinues
  BY <1>30, <1>0 DEF AnswerContinues, Stored
<1>31. CASE BeginFinish
  BY <1>31, <1>0 DEF BeginFinish, Stored
<1>32. CASE FinishPoll
  BY <1>32, <1>0 DEF FinishPoll, Begin, Stored
<1>33. CASE FinishDelivered
  BY <1>33, <1>0 DEF FinishDelivered, EndLocal, Stored
<1>34. CASE FinishClose
  BY <1>34, <1>0 DEF FinishClose, EndLocal, Stored
<1>35. CASE FinishOverBudget
  BY <1>35, <1>0 DEF FinishOverBudget, EndLocal, Stored
<1>36. CASE Abort
  BY <1>36, <1>0 DEF Abort, Stored
<1>37. CASE BackgroundError
  BY <1>37, <1>0 DEF BackgroundError, Abort, Stored
<1>38. CASE CloseReceiver
  BY <1>38, <1>0 DEF CloseReceiver, ReceiverGone, Stored
<1>39. CASE Crash
  BY <1>39, <1>0 DEF Crash, ReceiverGone, Stored
<1>40. CASE UNCHANGED vars
  BY <1>40, <1>0 DEF Stored
<1> QED
  BY <1>1, <1>2, <1>3, <1>4, <1>5, <1>6, <1>7, <1>8, <1>9, <1>10, <1>11,
     <1>12, <1>13, <1>14, <1>15, <1>16, <1>17, <1>18, <1>19, <1>20, <1>21,
     <1>22, <1>23, <1>24, <1>25, <1>26, <1>27, <1>28, <1>29, <1>30, <1>31,
     <1>32, <1>33, <1>34, <1>35, <1>36, <1>37, <1>38, <1>39, <1>40
  DEF Next, Sender, Timer, Receive, Poll, Loop, Quiescent

(***************************************************************************)
(* A step keeps the order if it stores and records nothing, and what it    *)
(* takes out of _pending is recorded.                                      *)
(***************************************************************************)
LEMMA OrderFrame ==
  ASSUME Ordered, created' = created, ids' = ids, readByTool \subseteq readByTool',
         pending' \subseteq pending, pending \subseteq pending' \cup ids,
         batch' = batch \/ batch'.msgs = {}
  PROVE  Ordered'
<1>1. Queue' \subseteq Queue
  BY DEF Queue, Rows, Stored
<1>2. InOrder(ids, ids)'
  BY <1>1 DEF Ordered, InOrder
<1>3. InOrder(pending, pending \cup ids)'
  BY <1>1 DEF Ordered, InOrder
<1>4. InOrder(batch.msgs, batch.msgs \cup ids)'
  BY <1>1 DEF Ordered, InOrder
<1> QED BY <1>2, <1>3, <1>4 DEF Ordered

\* The same where the receiver is emptied or gains only old receipts.
LEMMA OrderFrameLoaded ==
  ASSUME Ordered, created' = created, ids' = ids, readByTool' = readByTool,
         pending' \subseteq pending \cup Hist, pending \subseteq pending' \/ pending' = {},
         batch' = batch \/ batch'.msgs = {}
  PROVE  Ordered'
<1>1. Queue' = Queue /\ Queue \cap Hist = {}
  BY DEF Queue, Rows, Stored
<1>2. InOrder(ids, ids)'
  BY <1>1 DEF Ordered, InOrder
<1>3. InOrder(pending, pending \cup ids)'
  BY <1>1 DEF Ordered, InOrder
<1>4. InOrder(batch.msgs, batch.msgs \cup ids)'
  BY <1>1 DEF Ordered, InOrder
<1> QED BY <1>2, <1>3, <1>4 DEF Ordered

(***************************************************************************)
(* Every step keeps the order: a batch, a trim and a budget each let the   *)
(* oldest actionable mail through first, and new mail is the youngest.     *)
(***************************************************************************)
LEMMA OrderedStep == IInv /\ Dated /\ Ordered /\ [Next]_vars => Ordered'
<1> SUFFICES ASSUME IInv, Dated, Ordered, [Next]_vars PROVE Ordered'
  OBVIOUS
<1> USE DEF vars, durable, registry, receiver, local, run
<1>0. /\ created \in [Msg -> Nat] /\ Cardinality(Stored) \in Nat
      /\ pending \subseteq Stored /\ batch.msgs \subseteq Stored
      /\ pending \subseteq Msg /\ batch.msgs \subseteq Msg
      /\ acked \subseteq ids /\ delivered \subseteq ids /\ hist \subseteq Hist
      /\ (op \in {"poll", "finish"} /\ pc = "deliver" => selected \subseteq ids)
      /\ (op = "confirm" /\ pc = "deliver" => manual \subseteq ids)
  BY StoredCount DEF IInv, TypeOK, DurableTypes, ReceiverTypes, LocalTypes, Sourced,
     Saved, Recorded, Dated
<1>1. ASSUME NEW m \in Msg, SendInsert(m) PROVE Ordered'
  <2>1. /\ ids' = ids /\ pending' = pending /\ batch' = batch
        /\ readByTool' = readByTool /\ created[m] = 0
        /\ created' = [created EXCEPT ![m] = Cardinality(Stored) + 1]
    BY <1>1 DEF SendInsert
  <2>2. Queue' \subseteq Queue \cup {m} /\ m \notin Stored /\ Queue \subseteq Msg
    BY <1>0, <2>1 DEF Queue, Rows, Stored
  <2>3. \A k \in Msg : k # m => created'[k] = created[k]
    BY <1>0, <2>1
  <2>4. \A k \in Msg : created'[k] <= created'[m]
    BY <1>0, <2>1 DEF Dated
  <2>5. \A k \in Msg : created'[k] \in Nat
    BY <1>0, <2>1
  <2>6. ASSUME NEW S, NEW T, m \notin S, InOrder(S, T),
               NEW x \in Queue', NEW k \in Queue', created'[x] < created'[k], k \in S
        PROVE  x \in T
    <3>1. k # m /\ k \in Queue /\ k \in Msg /\ x \in Msg /\ m \in Msg
      BY <2>2, <2>6
    <3>2. x # m
      BY <3>1, <2>4, <2>5, <2>6
    <3>3. x \in Queue /\ created[x] < created[k]
      BY <3>1, <3>2, <2>2, <2>3, <2>6
    <3> QED BY <3>1, <3>3, <2>6 DEF InOrder
  <2>7. m \notin ids /\ m \notin pending /\ m \notin batch.msgs
    BY <2>2, <1>0 DEF Dated
  <2>8. InOrder(ids, ids)'
    BY <2>1, <2>6, <2>7 DEF Ordered, InOrder
  <2>9. InOrder(pending, pending \cup ids)'
    BY <2>1, <2>6, <2>7 DEF Ordered, InOrder
  <2>10. InOrder(batch.msgs, batch.msgs \cup ids)'
    <3>1. InOrder(batch.msgs, batch.msgs \cup ids)
      BY DEF Ordered
    <3>2. \A x \in Queue', k \in Queue' :
             created'[x] < created'[k] /\ k \in batch.msgs => x \in batch.msgs \cup ids
      BY <3>1, <2>6, <2>7
    <3> QED BY <3>2, <2>1 DEF InOrder
  <2> QED BY <2>8, <2>9, <2>10 DEF Ordered
<1>2. ASSUME NEW m \in Msg, SendNotify(m) PROVE Ordered'
  BY <1>2, OrderFrame DEF SendNotify
<1>3. ASSUME NEW m \in Msg, SendCancelled(m) PROVE Ordered'
  BY <1>3, OrderFrame DEF SendCancelled
<1>4. CASE StartNew
  BY <1>4, OrderFrame DEF StartNew, StartReceiver
<1>5. CASE StartFromCheckpoint
  BY <1>5, OrderFrame DEF StartFromCheckpoint, StartReceiver
<1>6. CASE StartLoad
  BY <1>6, <1>0, HistRowsSubset, OrderFrameLoaded DEF StartLoad, LoadHistorical
<1>7. CASE BeginReconcile
  BY <1>7, OrderFrame DEF BeginReconcile
<1>8. CASE ReconcileFails
  BY <1>8, OrderFrame DEF ReconcileFails, EmptyBatch
<1>9. CASE ReceiveSnapshot
  BY <1>9, OrderFrame DEF ReceiveSnapshot, AfterReceive
<1>10. ASSUME NEW due \in BOOLEAN, ReceiveRetry(due) PROVE Ordered'
  <2>1. /\ pending' \subseteq pending \cup HistRows /\ pending \subseteq pending'
    BY <1>10 DEF ReceiveRetry, LoadHistorical
  <2>2. created' = created /\ ids' = ids /\ readByTool' = readByTool /\ batch' = batch
    BY <1>10 DEF ReceiveRetry
  <2> QED BY <1>0, <2>1, <2>2, HistRowsSubset, OrderFrameLoaded
<1>11. CASE ReceiveRead
  <2>1. /\ created' = created /\ ids' = ids /\ readByTool' = readByTool
        /\ pending' = pending /\ batch' \in Batches
    BY <1>11 DEF ReceiveRead
  <2>2. Queue' = Queue
    BY <2>1 DEF Queue, Rows, Stored
  <2>3. InOrder(batch.msgs, batch.msgs \cup ids)'
    <3> SUFFICES ASSUME NEW m \in Queue, NEW k \in Queue, created[m] < created[k],
                        k \in batch'.msgs
                 PROVE  m \in batch'.msgs \cup ids
      BY <2>1, <2>2 DEF InOrder
    <3>1. m \in Rows \cap Actionable /\ k \in Actionable
      BY DEF Queue
    <3>2. CASE m \in acked
      BY <3>2, <1>0
    <3>3. CASE m \notin acked
      <4>1. m \in Unread \cap Actionable /\ k \in batch'.msgs \cap Actionable
        BY <3>1, <3>3 DEF Unread
      <4> QED BY <4>1, <1>0, <2>1, BatchKeepsOrder
    <3> QED BY <3>2, <3>3
  <2>4. InOrder(ids, ids)' /\ InOrder(pending, pending \cup ids)'
    BY <2>1, <2>2 DEF Ordered, InOrder
  <2> QED BY <2>3, <2>4 DEF Ordered
<1>12. CASE ReceiveMerge
  <2>1. /\ created' = created /\ ids' = ids /\ readByTool' = readByTool
        /\ pending' = Trim(MergedPending) /\ batch' = EmptyBatch
    BY <1>12 DEF ReceiveMerge
  <2>2. Queue' = Queue /\ Queue \subseteq Actionable
    BY <2>1 DEF Queue, Rows, Stored
  <2>3. MergedPending \in SUBSET Msg
    BY <1>0 DEF MergedPending
  <2>4. InOrder(pending, pending \cup ids)'
    <3> SUFFICES ASSUME NEW m \in Queue, NEW k \in Queue, created[m] < created[k],
                        k \in Trim(MergedPending)
                 PROVE  m \in Trim(MergedPending) \cup ids
      BY <2>1, <2>2 DEF InOrder
    <3>1. k \in pending \cup batch.msgs
      BY TrimSubset DEF MergedPending
    <3>2. m \in pending \cup batch.msgs \cup ids
      BY <3>1 DEF Ordered, InOrder
    <3>3. CASE m \in ids
      BY <3>3
    <3>4. CASE m \notin ids
      <4>1. m \in MergedPending \cap Actionable
        BY <3>2, <3>4, <2>2, <1>0 DEF MergedPending
      <4>2. k \in Trim(MergedPending) \cap Actionable
        BY <2>2
      <4> QED BY <4>1, <4>2, <2>3, <1>0, TrimInitial
    <3> QED BY <3>3, <3>4
  <2>5. InOrder(ids, ids)' /\ InOrder(batch.msgs, batch.msgs \cup ids)'
    BY <2>1, <2>2 DEF Ordered, InOrder, EmptyBatch
  <2> QED BY <2>4, <2>5 DEF Ordered
<1>13. ASSUME NEW S \in SUBSET pending, PollCommit(S) PROVE Ordered'
  <2>1. /\ created' = created /\ ids' = ids \cup S /\ readByTool' = readByTool
        /\ pending' = pending /\ batch' = batch /\ S \in Fitting
    BY <1>13 DEF PollCommit, ReceiptOf
  <2>2. Queue' = Queue /\ Queue \subseteq Actionable
    BY <2>1 DEF Queue, Rows, Stored
  <2>3. InOrder(ids, ids)'
    <3> SUFFICES ASSUME NEW m \in Queue, NEW k \in Queue, created[m] < created[k],
                        k \in ids \cup S
                 PROVE  m \in ids \cup S
      BY <2>1, <2>2 DEF InOrder
    <3>1. CASE k \in ids
      BY <3>1 DEF Ordered, InOrder
    <3>2. CASE k \in S
      <4>1. m \in pending \cup ids
        BY <3>2, <1>13 DEF Ordered, InOrder
      <4>2. m \notin manual /\ m \in Actionable /\ k \in S \cap Actionable
        BY <3>2, <2>2 DEF Dated, Queue
      <4>3. pending \in SUBSET Msg
        BY <1>0
      <4> QED BY <4>1, <4>2, <4>3, <1>0, <2>1, FittingInitial
    <3> QED BY <3>1, <3>2
  <2>4. InOrder(pending, pending \cup ids)' /\ InOrder(batch.msgs, batch.msgs \cup ids)'
    BY <2>1, <2>2 DEF Ordered, InOrder
  <2> QED BY <2>3, <2>4 DEF Ordered
<1>14. CASE PollDeliver
  <2>1. selected \subseteq ids
    BY <1>0, <1>14 DEF PollDeliver
  <2> QED BY <1>14, <1>0, <2>1, OrderFrame DEF PollDeliver
<1>15. CASE ReceiverAck
  BY <1>15, OrderFrame DEF ReceiverAck
<1>16. CASE PollNothing
  BY <1>16, OrderFrame DEF PollNothing
<1>17. CASE EndStart
  BY <1>17, OrderFrame DEF EndStart, EndLocal
<1>18. CASE EndReconcile
  BY <1>18, OrderFrame DEF EndReconcile, EndLocal
<1>19. CASE BeginPoll
  BY <1>19, OrderFrame DEF BeginPoll, Begin
<1>20. CASE EndPoll
  BY <1>20, OrderFrame DEF EndPoll, EndLocal
<1>21. CASE ModelStep
  BY <1>21, OrderFrame DEF ModelStep
<1>22. CASE BeginManual
  BY <1>22, OrderFrame DEF BeginManual, Begin
<1>23. CASE EndManual
  BY <1>23, OrderFrame DEF EndManual, EndLocal
<1>24. CASE ToolResult
  BY <1>24, OrderFrame DEF ToolResult
<1>25. CASE BeginConfirm
  BY <1>25, OrderFrame DEF BeginConfirm, Begin
<1>26. CASE ConfirmCommit
  <2>1. /\ created' = created /\ ids' = ids \cup manual /\ readByTool' = readByTool
        /\ pending' = pending /\ batch' = batch
    BY <1>26 DEF ConfirmCommit, ReceiptOf
  <2>2. Queue' = Queue /\ Queue \cap manual = {}
    BY <2>1 DEF Queue, Rows, Stored, Dated
  <2>3. InOrder(ids, ids)'
    BY <2>1, <2>2 DEF Ordered, InOrder
  <2>4. InOrder(pending, pending \cup ids)' /\ InOrder(batch.msgs, batch.msgs \cup ids)'
    BY <2>1, <2>2 DEF Ordered, InOrder
  <2> QED BY <2>3, <2>4 DEF Ordered
<1>27. CASE ConfirmDeliver
  <2>1. manual \subseteq ids
    BY <1>0, <1>27 DEF ConfirmDeliver
  <2> QED BY <1>27, <1>0, <2>1, OrderFrame DEF ConfirmDeliver
<1>28. CASE EndConfirm
  BY <1>28, OrderFrame DEF EndConfirm, EndLocal
<1>29. CASE PauseRun
  BY <1>29, OrderFrame DEF PauseRun
<1>30. CASE AnswerContinues
  BY <1>30, OrderFrame DEF AnswerContinues
<1>31. CASE BeginFinish
  BY <1>31, OrderFrame DEF BeginFinish
<1>32. CASE FinishPoll
  BY <1>32, OrderFrame DEF FinishPoll, Begin
<1>33. CASE FinishDelivered
  BY <1>33, OrderFrame DEF FinishDelivered, EndLocal
<1>34. CASE FinishClose
  BY <1>34, OrderFrame DEF FinishClose, EndLocal
<1>35. CASE FinishOverBudget
  BY <1>35, OrderFrame DEF FinishOverBudget, EndLocal
<1>36. CASE Abort
  BY <1>36, OrderFrame DEF Abort, EmptyBatch
<1>37. CASE BackgroundError
  BY <1>37, OrderFrame DEF BackgroundError, Abort, EmptyBatch
<1>38. CASE CloseReceiver
  BY <1>38, OrderFrameLoaded DEF CloseReceiver, ReceiverGone, EmptyBatch
<1>39. CASE Crash
  BY <1>39, OrderFrameLoaded DEF Crash, ReceiverGone, EmptyBatch
<1>40. CASE UNCHANGED vars
  BY <1>40, OrderFrame
<1> QED
  BY <1>1, <1>2, <1>3, <1>4, <1>5, <1>6, <1>7, <1>8, <1>9, <1>10, <1>11,
     <1>12, <1>13, <1>14, <1>15, <1>16, <1>17, <1>18, <1>19, <1>20, <1>21,
     <1>22, <1>23, <1>24, <1>25, <1>26, <1>27, <1>28, <1>29, <1>30, <1>31,
     <1>32, <1>33, <1>34, <1>35, <1>36, <1>37, <1>38, <1>39, <1>40
  DEF Next, Sender, Timer, Receive, Poll, Loop, Quiescent

(***************************************************************************)
(* What a completing run has seen.  While try_finish holds the lock of its *)
(* address no row is inserted, so the batch it reads accounts for all      *)
(* actionable mail, unless it reports more; and with nothing pending only  *)
(* a backlog behind a late notification can be left.                       *)
(***************************************************************************)
Wanted == Rows \cap Actionable

Locked ==
  /\ told \subseteq Rows
  /\ lk \in Msg => lk \in Rows
  /\ phase = "finishing" => lk = "main"
  /\ closed => phase = "closing"

LastBatch ==
  op = "finish" /\ pc = "merge" =>
    /\ batch.msgs \cap Actionable = {} => Wanted \subseteq acked
    /\ ~batch.more => Wanted \subseteq acked \cup batch.msgs

LastLook ==
  op = "finish" /\ pc = "select" /\ ~ActionablePending
    => Wanted \subseteq ids \/ Backlog \/ "finish" \in dirty

Draining == Locked /\ LastBatch /\ LastLook

(***************************************************************************)
(* As long as the first run of a process goes on, a message is once in its *)
(* context: what the context holds is recorded or a tool has read it, and  *)
(* what a tool has read or a poll has selected is not there yet.           *)
(***************************************************************************)
FirstRun ==
  /\ runs = 0 => phase = "off" /\ status = "none"
  /\ Active => /\ InFlight \cap (delivered \cup manual) = {}
               /\ toolOut \subseteq manual
  /\ runs <= 1 => /\ \A m \in Msg : messages[m] <= 1
                  /\ Active => /\ Holds(messages) \subseteq delivered \cup manual
                               /\ Holds(messages) \cap toolOut = {}

\* Every step keeps the lock of the address with whoever may write under it.
LEMMA LockedStep == IInv /\ Dated /\ Locked /\ [Next]_vars => Locked'
<1> SUFFICES ASSUME IInv, Dated, Locked, [Next]_vars PROVE Locked'
  OBVIOUS
<1> USE MailboxAssumption
    DEF Locked, Rows, Stored, vars, durable, registry, receiver, local, run
<1>0. /\ created \in [Msg -> Nat] /\ Cardinality(Stored) \in Nat
      /\ Control /\ phase \in Phases /\ op \in Ops /\ closed \in BOOLEAN
      /\ told \subseteq Msg /\ Hist \subseteq Msg
      /\ \A h \in Hist : created[h] # 0
  BY StoredCount DEF IInv, TypeOK, DurableTypes, ReceiverTypes, RegistryTypes,
     LocalTypes, RunTypes, Dated
<1> USE DEF Control, Phases, MainOps
<1>1. ASSUME NEW m \in Msg, SendInsert(m) PROVE Locked'
  BY <1>1, <1>0 DEF SendInsert
<1>2. ASSUME NEW m \in Msg, SendNotify(m) PROVE Locked'
  BY <1>2, <1>0 DEF SendNotify
<1>3. ASSUME NEW m \in Msg, SendCancelled(m) PROVE Locked'
  BY <1>3, <1>0 DEF SendCancelled
<1>4. CASE StartNew
  BY <1>4, <1>0 DEF StartNew, StartReceiver
<1>5. CASE StartFromCheckpoint
  BY <1>5, <1>0 DEF StartFromCheckpoint, StartReceiver
<1>6. CASE StartLoad
  BY <1>6, <1>0 DEF StartLoad, LoadHistorical
<1>7. CASE BeginReconcile
  BY <1>7, <1>0 DEF BeginReconcile
<1>8. CASE ReconcileFails
  BY <1>8, <1>0 DEF ReconcileFails
<1>9. CASE ReceiveSnapshot
  BY <1>9, <1>0 DEF ReceiveSnapshot, AfterReceive
<1>10. ASSUME NEW due \in BOOLEAN, ReceiveRetry(due) PROVE Locked'
  BY <1>10, <1>0 DEF ReceiveRetry, AfterReceive, LoadHistorical
<1>11. CASE ReceiveRead
  BY <1>11, <1>0 DEF ReceiveRead
<1>12. CASE ReceiveMerge
  BY <1>12, <1>0 DEF ReceiveMerge, AfterReceive, MergedPending
<1>13. ASSUME NEW S \in SUBSET pending, PollCommit(S) PROVE Locked'
  BY <1>13, <1>0 DEF PollCommit, CheckpointWith, ReceiptOf
<1>14. CASE PollDeliver
  BY <1>14, <1>0 DEF PollDeliver
<1>15. CASE ReceiverAck
  BY <1>15, <1>0 DEF ReceiverAck
<1>16. CASE PollNothing
  BY <1>16, <1>0 DEF PollNothing
<1>17. CASE EndStart
  BY <1>17, <1>0 DEF EndStart, EndLocal
<1>18. CASE EndReconcile
  BY <1>18, <1>0 DEF EndReconcile, EndLocal
<1>19. CASE BeginPoll
  BY <1>19, <1>0 DEF BeginPoll, Begin
<1>20. CASE EndPoll
  BY <1>20, <1>0 DEF EndPoll, EndLocal
<1>21. CASE ModelStep
  BY <1>21, <1>0 DEF ModelStep
<1>22. CASE BeginManual
  BY <1>22, <1>0 DEF BeginManual, Begin
<1>23. CASE EndManual
  BY <1>23, <1>0 DEF EndManual, EndLocal
<1>24. CASE ToolResult
  BY <1>24, <1>0 DEF ToolResult
<1>25. CASE BeginConfirm
  BY <1>25, <1>0 DEF BeginConfirm, Begin
<1>26. CASE ConfirmCommit
  BY <1>26, <1>0 DEF ConfirmCommit, ReceiptOf
<1>27. CASE ConfirmDeliver
  BY <1>27, <1>0 DEF ConfirmDeliver
<1>28. CASE EndConfirm
  BY <1>28, <1>0 DEF EndConfirm, EndLocal
<1>29. CASE PauseRun
  BY <1>29, <1>0 DEF PauseRun
<1>30. CASE AnswerContinues
  BY <1>30, <1>0 DEF AnswerContinues
<1>31. CASE BeginFinish
  BY <1>31, <1>0 DEF BeginFinish
<1>32. CASE FinishPoll
  BY <1>32, <1>0 DEF FinishPoll, Begin
<1>33. CASE FinishDelivered
  BY <1>33, <1>0 DEF FinishDelivered, EndLocal
<1>34. CASE FinishClose
  BY <1>34, <1>0 DEF FinishClose, EndLocal
<1>35. CASE FinishOverBudget
  BY <1>35, <1>0 DEF FinishOverBudget, EndLocal
<1>36. CASE Abort
  BY <1>36, <1>0 DEF Abort
<1>37. CASE BackgroundError
  BY <1>37, <1>0 DEF BackgroundError, Abort
<1>38. CASE CloseReceiver
  BY <1>38, <1>0 DEF CloseReceiver, ReceiverGone
<1>39. CASE Crash
  BY <1>39, <1>0 DEF Crash, ReceiverGone
<1>40. CASE UNCHANGED vars
  BY <1>40, <1>0
<1> QED
  BY <1>1, <1>2, <1>3, <1>4, <1>5, <1>6, <1>7, <1>8, <1>9, <1>10, <1>11,
     <1>12, <1>13, <1>14, <1>15, <1>16, <1>17, <1>18, <1>19, <1>20, <1>21,
     <1>22, <1>23, <1>24, <1>25, <1>26, <1>27, <1>28, <1>29, <1>30, <1>31,
     <1>32, <1>33, <1>34, <1>35, <1>36, <1>37, <1>38, <1>39, <1>40
  DEF Next, Sender, Timer, Receive, Poll, Loop, Quiescent

\* Every step keeps what the last read has shown.
LEMMA LastBatchStep == IInv /\ Locked /\ LastBatch /\ [Next]_vars => LastBatch'
<1> SUFFICES ASSUME IInv, Locked, LastBatch, [Next]_vars PROVE LastBatch'
  OBVIOUS
<1> USE DEF LastBatch, Wanted, Rows, Stored, vars, durable, registry, receiver, local,
            run
<1>0. /\ created \in [Msg -> Nat] /\ Control /\ batch \in [msgs : SUBSET Msg, more : BOOLEAN]
      /\ (op = "finish" => lk = "main")
  BY DEF IInv, TypeOK, DurableTypes, LocalTypes, Control, Locked
<1>1. ASSUME NEW m \in Msg, SendInsert(m) PROVE LastBatch'
  BY <1>1, <1>0 DEF SendInsert
<1>2. ASSUME NEW m \in Msg, SendNotify(m) PROVE LastBatch'
  BY <1>2, <1>0 DEF SendNotify
<1>3. ASSUME NEW m \in Msg, SendCancelled(m) PROVE LastBatch'
  BY <1>3, <1>0 DEF SendCancelled
<1>4. CASE StartNew
  BY <1>4, <1>0 DEF StartNew, StartReceiver
<1>5. CASE StartFromCheckpoint
  BY <1>5, <1>0 DEF StartFromCheckpoint, StartReceiver
<1>6. CASE StartLoad
  BY <1>6, <1>0 DEF StartLoad, LoadHistorical
<1>7. CASE BeginReconcile
  BY <1>7, <1>0 DEF BeginReconcile
<1>8. CASE ReconcileFails
  BY <1>8, <1>0 DEF ReconcileFails
<1>9. CASE ReceiveSnapshot
  BY <1>9, <1>0 DEF ReceiveSnapshot, AfterReceive
<1>10. ASSUME NEW due \in BOOLEAN, ReceiveRetry(due) PROVE LastBatch'
  BY <1>10, <1>0 DEF ReceiveRetry, AfterReceive, LoadHistorical
<1>11. CASE ReceiveRead
  <2>1. batch' \in Batches /\ created' = created /\ acked' = acked
    BY <1>11 DEF ReceiveRead
  <2> QED BY <2>1, <1>0, BatchKeepsOrder DEF Unread
<1>12. CASE ReceiveMerge
  BY <1>12, <1>0 DEF ReceiveMerge, AfterReceive, MergedPending
<1>13. ASSUME NEW S \in SUBSET pending, PollCommit(S) PROVE LastBatch'
  BY <1>13, <1>0 DEF PollCommit, CheckpointWith, ReceiptOf
<1>14. CASE PollDeliver
  BY <1>14, <1>0 DEF PollDeliver
<1>15. CASE ReceiverAck
  BY <1>15, <1>0 DEF ReceiverAck
<1>16. CASE PollNothing
  BY <1>16, <1>0 DEF PollNothing
<1>17. CASE EndStart
  BY <1>17, <1>0 DEF EndStart, EndLocal
<1>18. CASE EndReconcile
  BY <1>18, <1>0 DEF EndReconcile, EndLocal
<1>19. CASE BeginPoll
  BY <1>19, <1>0 DEF BeginPoll, Begin
<1>20. CASE EndPoll
  BY <1>20, <1>0 DEF EndPoll, EndLocal
<1>21. CASE ModelStep
  BY <1>21, <1>0 DEF ModelStep
<1>22. CASE BeginManual
  BY <1>22, <1>0 DEF BeginManual, Begin
<1>23. CASE EndManual
  BY <1>23, <1>0 DEF EndManual, EndLocal
<1>24. CASE ToolResult
  BY <1>24, <1>0 DEF ToolResult
<1>25. CASE BeginConfirm
  BY <1>25, <1>0 DEF BeginConfirm, Begin
<1>26. CASE ConfirmCommit
  BY <1>26, <1>0 DEF ConfirmCommit, ReceiptOf
<1>27. CASE ConfirmDeliver
  BY <1>27, <1>0 DEF ConfirmDeliver
<1>28. CASE EndConfirm
  BY <1>28, <1>0 DEF EndConfirm, EndLocal
<1>29. CASE PauseRun
  BY <1>29, <1>0 DEF PauseRun
<1>30. CASE AnswerContinues
  BY <1>30, <1>0 DEF AnswerContinues
<1>31. CASE BeginFinish
  BY <1>31, <1>0 DEF BeginFinish
<1>32. CASE FinishPoll
  BY <1>32, <1>0 DEF FinishPoll, Begin
<1>33. CASE FinishDelivered
  BY <1>33, <1>0 DEF FinishDelivered, EndLocal
<1>34. CASE FinishClose
  BY <1>34, <1>0 DEF FinishClose, EndLocal
<1>35. CASE FinishOverBudget
  BY <1>35, <1>0 DEF FinishOverBudget, EndLocal
<1>36. CASE Abort
  BY <1>36, <1>0 DEF Abort
<1>37. CASE BackgroundError
  BY <1>37, <1>0 DEF BackgroundError, Abort
<1>38. CASE CloseReceiver
  BY <1>38, <1>0 DEF CloseReceiver, ReceiverGone
<1>39. CASE Crash
  BY <1>39, <1>0 DEF Crash, ReceiverGone
<1>40. CASE UNCHANGED vars
  BY <1>40, <1>0
<1> QED
  BY <1>1, <1>2, <1>3, <1>4, <1>5, <1>6, <1>7, <1>8, <1>9, <1>10, <1>11,
     <1>12, <1>13, <1>14, <1>15, <1>16, <1>17, <1>18, <1>19, <1>20, <1>21,
     <1>22, <1>23, <1>24, <1>25, <1>26, <1>27, <1>28, <1>29, <1>30, <1>31,
     <1>32, <1>33, <1>34, <1>35, <1>36, <1>37, <1>38, <1>39, <1>40
  DEF Next, Sender, Timer, Receive, Poll, Loop, Quiescent

\* Every step keeps what try_finish goes by when it closes.
LEMMA LastLookStep ==
  IInv /\ Locked /\ LastBatch /\ LastLook /\ [Next]_vars => LastLook'
<1> SUFFICES ASSUME IInv, Locked, LastBatch, LastLook, [Next]_vars PROVE LastLook'
  OBVIOUS
<1> USE DEF LastLook, ActionablePending, Backlog, Wanted, Rows, Stored, vars, durable,
            registry, receiver, local, run
<1>0. /\ created \in [Msg -> Nat] /\ Control /\ batch \in [msgs : SUBSET Msg, more : BOOLEAN]
      /\ acked \subseteq ids /\ delivered \subseteq ids
      /\ (op = "finish" => lk = "main" /\ ~closed) /\ closed \in BOOLEAN
      /\ "main" \notin Msg
      /\ pending \subseteq Msg /\ changed \in BOOLEAN
  BY MailboxAssumption
  DEF IInv, TypeOK, DurableTypes, LocalTypes, ReceiverTypes, Control, Locked, Saved,
         Recorded
<1>1. ASSUME NEW m \in Msg, SendInsert(m) PROVE LastLook'
  BY <1>1, <1>0 DEF SendInsert
<1>2. ASSUME NEW m \in Msg, SendNotify(m) PROVE LastLook'
  BY <1>2, <1>0 DEF SendNotify
<1>3. ASSUME NEW m \in Msg, SendCancelled(m) PROVE LastLook'
  BY <1>3, <1>0 DEF SendCancelled
<1>4. CASE StartNew
  BY <1>4, <1>0 DEF StartNew, StartReceiver
<1>5. CASE StartFromCheckpoint
  BY <1>5, <1>0 DEF StartFromCheckpoint, StartReceiver
<1>6. CASE StartLoad
  BY <1>6, <1>0 DEF StartLoad, LoadHistorical
<1>7. CASE BeginReconcile
  BY <1>7, <1>0 DEF BeginReconcile
<1>8. CASE ReconcileFails
  BY <1>8, <1>0 DEF ReconcileFails
<1>9. CASE ReceiveSnapshot
  BY <1>9, <1>0 DEF ReceiveSnapshot, AfterReceive
<1>10. ASSUME NEW due \in BOOLEAN, ReceiveRetry(due) PROVE LastLook'
  <2>1. op = "finish" => pc' = "read"
    BY <1>10 DEF ReceiveRetry, ForcedRead
  <2> QED BY <2>1, <1>10 DEF ReceiveRetry
<1>11. CASE ReceiveRead
  BY <1>11, <1>0 DEF ReceiveRead
<1>12. CASE ReceiveMerge
  <2> SUFFICES ASSUME op = "finish", ~ActionablePending'
               PROVE  Wanted \subseteq ids \/ Backlog' \/ "finish" \in dirty'
    BY <1>12 DEF ReceiveMerge
  <2>1. pc = "merge" /\ pending' = Trim(MergedPending) /\ changed' = changed
    BY <1>12 DEF ReceiveMerge
  <2>2. hasMore' = (batch.more \/ Cardinality(MergedPending) > Limit)
    BY <1>12 DEF ReceiveMerge
  <2>3. CASE SelfNotify
    BY <2>3, <1>12 DEF ReceiveMerge, Observers
  <2>4. CASE batch.msgs \cap Actionable = {}
    BY <2>1, <2>4, <1>0 DEF LastBatch
  <2>5. CASE changed /\ hasMore'
    BY <2>1, <2>5
  <2>6. CASE changed /\ ~hasMore'
    <3>1. ~batch.more /\ ~(Cardinality(MergedPending) > Limit)
      BY <2>2, <2>6
    <3>2. Trim(MergedPending) = MergedPending
      <4>1. Cardinality(MergedPending) \in Nat /\ Limit \in Nat
        <5>1. MergedPending \in SUBSET Msg
          BY <1>0 DEF MergedPending
        <5> QED BY <5>1, Countable, MailboxAssumption
      <4> QED BY <3>1, <4>1 DEF Trim
    <3>3. batch.msgs \cap Actionable \subseteq delivered
      BY <2>1, <3>2 DEF MergedPending
    <3>4. Wanted \subseteq acked \cup batch.msgs
      BY <3>1, <2>1 DEF LastBatch
    <3> QED BY <3>3, <3>4, <1>0
  <2> QED BY <2>3, <2>4, <2>5, <2>6, <1>0 DEF SelfNotify
<1>13. ASSUME NEW S \in SUBSET pending, PollCommit(S) PROVE LastLook'
  BY <1>13, <1>0 DEF PollCommit, CheckpointWith, ReceiptOf
<1>14. CASE PollDeliver
  BY <1>14, <1>0 DEF PollDeliver
<1>15. CASE ReceiverAck
  BY <1>15, <1>0 DEF ReceiverAck
<1>16. CASE PollNothing
  BY <1>16, <1>0 DEF PollNothing
<1>17. CASE EndStart
  BY <1>17, <1>0 DEF EndStart, EndLocal
<1>18. CASE EndReconcile
  BY <1>18, <1>0 DEF EndReconcile, EndLocal
<1>19. CASE BeginPoll
  BY <1>19, <1>0 DEF BeginPoll, Begin
<1>20. CASE EndPoll
  BY <1>20, <1>0 DEF EndPoll, EndLocal
<1>21. CASE ModelStep
  BY <1>21, <1>0 DEF ModelStep
<1>22. CASE BeginManual
  BY <1>22, <1>0 DEF BeginManual, Begin
<1>23. CASE EndManual
  BY <1>23, <1>0 DEF EndManual, EndLocal
<1>24. CASE ToolResult
  BY <1>24, <1>0 DEF ToolResult
<1>25. CASE BeginConfirm
  BY <1>25, <1>0 DEF BeginConfirm, Begin
<1>26. CASE ConfirmCommit
  BY <1>26, <1>0 DEF ConfirmCommit, ReceiptOf
<1>27. CASE ConfirmDeliver
  BY <1>27, <1>0 DEF ConfirmDeliver
<1>28. CASE EndConfirm
  BY <1>28, <1>0 DEF EndConfirm, EndLocal
<1>29. CASE PauseRun
  BY <1>29, <1>0 DEF PauseRun
<1>30. CASE AnswerContinues
  BY <1>30, <1>0 DEF AnswerContinues
<1>31. CASE BeginFinish
  BY <1>31, <1>0 DEF BeginFinish
<1>32. CASE FinishPoll
  BY <1>32, <1>0 DEF FinishPoll, Begin
<1>33. CASE FinishDelivered
  BY <1>33, <1>0 DEF FinishDelivered, EndLocal
<1>34. CASE FinishClose
  BY <1>34, <1>0 DEF FinishClose, EndLocal
<1>35. CASE FinishOverBudget
  BY <1>35, <1>0 DEF FinishOverBudget, EndLocal
<1>36. CASE Abort
  BY <1>36, <1>0 DEF Abort
<1>37. CASE BackgroundError
  BY <1>37, <1>0 DEF BackgroundError, Abort
<1>38. CASE CloseReceiver
  BY <1>38, <1>0 DEF CloseReceiver, ReceiverGone
<1>39. CASE Crash
  BY <1>39, <1>0 DEF Crash, ReceiverGone
<1>40. CASE UNCHANGED vars
  BY <1>40, <1>0
<1> QED
  BY <1>1, <1>2, <1>3, <1>4, <1>5, <1>6, <1>7, <1>8, <1>9, <1>10, <1>11,
     <1>12, <1>13, <1>14, <1>15, <1>16, <1>17, <1>18, <1>19, <1>20, <1>21,
     <1>22, <1>23, <1>24, <1>25, <1>26, <1>27, <1>28, <1>29, <1>30, <1>31,
     <1>32, <1>33, <1>34, <1>35, <1>36, <1>37, <1>38, <1>39, <1>40
  DEF Next, Sender, Timer, Receive, Poll, Loop, Quiescent

\* Every step keeps a message from entering the context of a first run twice.
LEMMA FirstRunStep == IInv /\ FirstRun /\ [Next]_vars => FirstRun'
<1> SUFFICES ASSUME IInv, FirstRun, [Next]_vars PROVE FirstRun'
  OBVIOUS
<1> USE DEF FirstRun, InFlight, Active, Holds, vars, durable, registry, receiver,
            local, run
<1>0. /\ op \in {"none", "reconcile"} \cup MainOps /\ phase \in Phases
      /\ pc \in Points /\ Control /\ runs \in Nat
      /\ messages \in [Msg -> Nat]
      /\ pending \subseteq Msg /\ manual \subseteq Msg /\ delivered \subseteq Msg
      /\ selected \subseteq Msg /\ toolOut \subseteq Msg
      /\ Active => pending \cap delivered = {} /\ ids \subseteq delivered \cup InFlight \cup manual
  BY DEF IInv, Fresh, TypeOK, LocalTypes, RunTypes, DurableTypes, ReceiverTypes, Ops
<1> USE <1>0 DEF Control, MainOps, Phases, Points
<1>1. ASSUME NEW m \in Msg, SendInsert(m) PROVE FirstRun'
  BY <1>1 DEF SendInsert
<1>2. ASSUME NEW m \in Msg, SendNotify(m) PROVE FirstRun'
  BY <1>2 DEF SendNotify
<1>3. ASSUME NEW m \in Msg, SendCancelled(m) PROVE FirstRun'
  BY <1>3 DEF SendCancelled
<1>4. CASE StartNew
  BY <1>4 DEF StartNew, StartReceiver, NoMail
<1>5. CASE StartFromCheckpoint
  BY <1>5 DEF StartFromCheckpoint, StartReceiver
<1>6. CASE StartLoad
  BY <1>6 DEF StartLoad, LoadHistorical
<1>7. CASE BeginReconcile
  BY <1>7 DEF BeginReconcile
<1>8. CASE ReconcileFails
  BY <1>8 DEF ReconcileFails
<1>9. CASE ReceiveSnapshot
  BY <1>9 DEF ReceiveSnapshot, AfterReceive
<1>10. ASSUME NEW due \in BOOLEAN, ReceiveRetry(due) PROVE FirstRun'
  BY <1>10 DEF ReceiveRetry, AfterReceive, LoadHistorical
<1>11. CASE ReceiveRead
  BY <1>11 DEF ReceiveRead
<1>12. CASE ReceiveMerge
  BY <1>12 DEF ReceiveMerge, AfterReceive, MergedPending
<1>13. ASSUME NEW S \in SUBSET pending, PollCommit(S) PROVE FirstRun'
  BY <1>13, FittingSubset DEF PollCommit, CheckpointWith, ReceiptOf
<1>14. CASE PollDeliver
  BY <1>14 DEF PollDeliver, Plus
<1>15. CASE ReceiverAck
  BY <1>15 DEF ReceiverAck
<1>16. CASE PollNothing
  BY <1>16 DEF PollNothing
<1>17. CASE EndStart
  BY <1>17 DEF EndStart, EndLocal
<1>18. CASE EndReconcile
  BY <1>18 DEF EndReconcile, EndLocal
<1>19. CASE BeginPoll
  BY <1>19 DEF BeginPoll, Begin
<1>20. CASE EndPoll
  BY <1>20 DEF EndPoll, EndLocal
<1>21. CASE ModelStep
  BY <1>21 DEF ModelStep
<1>22. CASE BeginManual
  BY <1>22 DEF BeginManual, Begin
<1>23. CASE EndManual
  BY <1>23 DEF EndManual, EndLocal
<1>24. CASE ToolResult
  BY <1>24 DEF ToolResult, Plus
<1>25. CASE BeginConfirm
  BY <1>25 DEF BeginConfirm, Begin
<1>26. CASE ConfirmCommit
  BY <1>26 DEF ConfirmCommit, ReceiptOf
<1>27. CASE ConfirmDeliver
  BY <1>27 DEF ConfirmDeliver
<1>28. CASE EndConfirm
  BY <1>28 DEF EndConfirm, EndLocal
<1>29. CASE PauseRun
  BY <1>29 DEF PauseRun
<1>30. CASE AnswerContinues
  BY <1>30 DEF AnswerContinues
<1>31. CASE BeginFinish
  BY <1>31 DEF BeginFinish
<1>32. CASE FinishPoll
  BY <1>32 DEF FinishPoll, Begin
<1>33. CASE FinishDelivered
  BY <1>33 DEF FinishDelivered, EndLocal
<1>34. CASE FinishClose
  BY <1>34 DEF FinishClose, EndLocal
<1>35. CASE FinishOverBudget
  BY <1>35 DEF FinishOverBudget, EndLocal
<1>36. CASE Abort
  BY <1>36 DEF Abort
<1>37. CASE BackgroundError
  BY <1>37 DEF BackgroundError, Abort
<1>38. CASE CloseReceiver
  BY <1>38 DEF CloseReceiver, ReceiverGone, NoMail
<1>39. CASE Crash
  BY <1>39 DEF Crash, ReceiverGone, NoMail
<1>40. CASE UNCHANGED vars
  BY <1>40
<1> QED
  BY <1>1, <1>2, <1>3, <1>4, <1>5, <1>6, <1>7, <1>8, <1>9, <1>10, <1>11,
     <1>12, <1>13, <1>14, <1>15, <1>16, <1>17, <1>18, <1>19, <1>20, <1>21,
     <1>22, <1>23, <1>24, <1>25, <1>26, <1>27, <1>28, <1>29, <1>30, <1>31,
     <1>32, <1>33, <1>34, <1>35, <1>36, <1>37, <1>38, <1>39, <1>40
  DEF Next, Sender, Timer, Receive, Poll, Loop, Quiescent

\* Every step keeps the old receipts until their messages are recorded.
LEMMA ReceiptsStep == IInv /\ ReceiptsNotLost /\ [Next]_vars => ReceiptsNotLost'
<1> SUFFICES ASSUME IInv, ReceiptsNotLost, [Next]_vars PROVE ReceiptsNotLost'
  OBVIOUS
<1> USE DEF ReceiptsNotLost, vars, durable, registry, receiver, local, run
<1>0. Recorded
  BY DEF IInv, Saved
<1> USE <1>0 DEF Recorded
<1>1. ASSUME NEW m \in Msg, SendInsert(m) PROVE ReceiptsNotLost'
  BY <1>1 DEF SendInsert
<1>2. ASSUME NEW m \in Msg, SendNotify(m) PROVE ReceiptsNotLost'
  BY <1>2 DEF SendNotify
<1>3. ASSUME NEW m \in Msg, SendCancelled(m) PROVE ReceiptsNotLost'
  BY <1>3 DEF SendCancelled
<1>4. CASE StartNew
  BY <1>4 DEF StartNew, StartReceiver
<1>5. CASE StartFromCheckpoint
  BY <1>5 DEF StartFromCheckpoint, StartReceiver
<1>6. CASE StartLoad
  BY <1>6 DEF StartLoad, LoadHistorical
<1>7. CASE BeginReconcile
  BY <1>7 DEF BeginReconcile
<1>8. CASE ReconcileFails
  BY <1>8 DEF ReconcileFails
<1>9. CASE ReceiveSnapshot
  BY <1>9 DEF ReceiveSnapshot, AfterReceive
<1>10. ASSUME NEW due \in BOOLEAN, ReceiveRetry(due) PROVE ReceiptsNotLost'
  BY <1>10 DEF ReceiveRetry, AfterReceive, LoadHistorical
<1>11. CASE ReceiveRead
  BY <1>11 DEF ReceiveRead
<1>12. CASE ReceiveMerge
  BY <1>12 DEF ReceiveMerge, AfterReceive, MergedPending
<1>13. ASSUME NEW S \in SUBSET pending, PollCommit(S) PROVE ReceiptsNotLost'
  BY <1>13 DEF PollCommit, CheckpointWith, ReceiptOf
<1>14. CASE PollDeliver
  BY <1>14 DEF PollDeliver
<1>15. CASE ReceiverAck
  BY <1>15 DEF ReceiverAck
<1>16. CASE PollNothing
  BY <1>16 DEF PollNothing
<1>17. CASE EndStart
  BY <1>17 DEF EndStart, EndLocal
<1>18. CASE EndReconcile
  BY <1>18 DEF EndReconcile, EndLocal
<1>19. CASE BeginPoll
  BY <1>19 DEF BeginPoll, Begin
<1>20. CASE EndPoll
  BY <1>20 DEF EndPoll, EndLocal
<1>21. CASE ModelStep
  BY <1>21 DEF ModelStep
<1>22. CASE BeginManual
  BY <1>22 DEF BeginManual, Begin
<1>23. CASE EndManual
  BY <1>23 DEF EndManual, EndLocal
<1>24. CASE ToolResult
  BY <1>24 DEF ToolResult
<1>25. CASE BeginConfirm
  BY <1>25 DEF BeginConfirm, Begin
<1>26. CASE ConfirmCommit
  BY <1>26 DEF ConfirmCommit, ReceiptOf
<1>27. CASE ConfirmDeliver
  BY <1>27 DEF ConfirmDeliver
<1>28. CASE EndConfirm
  BY <1>28 DEF EndConfirm, EndLocal
<1>29. CASE PauseRun
  BY <1>29 DEF PauseRun
<1>30. CASE AnswerContinues
  BY <1>30 DEF AnswerContinues
<1>31. CASE BeginFinish
  BY <1>31 DEF BeginFinish
<1>32. CASE FinishPoll
  BY <1>32 DEF FinishPoll, Begin
<1>33. CASE FinishDelivered
  BY <1>33 DEF FinishDelivered, EndLocal
<1>34. CASE FinishClose
  BY <1>34 DEF FinishClose, EndLocal
<1>35. CASE FinishOverBudget
  BY <1>35 DEF FinishOverBudget, EndLocal
<1>36. CASE Abort
  BY <1>36 DEF Abort
<1>37. CASE BackgroundError
  BY <1>37 DEF BackgroundError, Abort
<1>38. CASE CloseReceiver
  BY <1>38 DEF CloseReceiver, ReceiverGone
<1>39. CASE Crash
  BY <1>39 DEF Crash, ReceiverGone
<1>40. CASE UNCHANGED vars
  BY <1>40
<1> QED
  BY <1>1, <1>2, <1>3, <1>4, <1>5, <1>6, <1>7, <1>8, <1>9, <1>10, <1>11,
     <1>12, <1>13, <1>14, <1>15, <1>16, <1>17, <1>18, <1>19, <1>20, <1>21,
     <1>22, <1>23, <1>24, <1>25, <1>26, <1>27, <1>28, <1>29, <1>30, <1>31,
     <1>32, <1>33, <1>34, <1>35, <1>36, <1>37, <1>38, <1>39, <1>40
  DEF Next, Sender, Timer, Receive, Poll, Loop, Quiescent

\* A run completes only where try_finish closes the address.
LEMMA OnlyCloseCompletes ==
  [Next]_vars /\ status' = "finished" /\ status # "finished" => FinishClose
<1> DEFINE Completes == status' = "finished" /\ status # "finished" => FinishClose
<1> SUFFICES ASSUME [Next]_vars PROVE Completes
  OBVIOUS
<1> USE DEF vars, durable, registry, receiver, local, run
<1>1. ASSUME NEW m \in Msg, SendInsert(m) PROVE Completes
  BY <1>1 DEF SendInsert
<1>2. ASSUME NEW m \in Msg, SendNotify(m) PROVE Completes
  BY <1>2 DEF SendNotify
<1>3. ASSUME NEW m \in Msg, SendCancelled(m) PROVE Completes
  BY <1>3 DEF SendCancelled
<1>4. CASE StartNew
  BY <1>4 DEF StartNew, StartReceiver
<1>5. CASE StartFromCheckpoint
  BY <1>5 DEF StartFromCheckpoint, StartReceiver
<1>6. CASE StartLoad
  BY <1>6 DEF StartLoad, LoadHistorical
<1>7. CASE BeginReconcile
  BY <1>7 DEF BeginReconcile
<1>8. CASE ReconcileFails
  BY <1>8 DEF ReconcileFails
<1>9. CASE ReceiveSnapshot
  BY <1>9 DEF ReceiveSnapshot, AfterReceive
<1>10. ASSUME NEW due \in BOOLEAN, ReceiveRetry(due) PROVE Completes
  BY <1>10 DEF ReceiveRetry, AfterReceive, LoadHistorical
<1>11. CASE ReceiveRead
  BY <1>11 DEF ReceiveRead
<1>12. CASE ReceiveMerge
  BY <1>12 DEF ReceiveMerge, AfterReceive, MergedPending
<1>13. ASSUME NEW S \in SUBSET pending, PollCommit(S) PROVE Completes
  BY <1>13 DEF PollCommit, CheckpointWith, ReceiptOf
<1>14. CASE PollDeliver
  BY <1>14 DEF PollDeliver
<1>15. CASE ReceiverAck
  BY <1>15 DEF ReceiverAck
<1>16. CASE PollNothing
  BY <1>16 DEF PollNothing
<1>17. CASE EndStart
  BY <1>17 DEF EndStart, EndLocal
<1>18. CASE EndReconcile
  BY <1>18 DEF EndReconcile, EndLocal
<1>19. CASE BeginPoll
  BY <1>19 DEF BeginPoll, Begin
<1>20. CASE EndPoll
  BY <1>20 DEF EndPoll, EndLocal
<1>21. CASE ModelStep
  BY <1>21 DEF ModelStep
<1>22. CASE BeginManual
  BY <1>22 DEF BeginManual, Begin
<1>23. CASE EndManual
  BY <1>23 DEF EndManual, EndLocal
<1>24. CASE ToolResult
  BY <1>24 DEF ToolResult
<1>25. CASE BeginConfirm
  BY <1>25 DEF BeginConfirm, Begin
<1>26. CASE ConfirmCommit
  BY <1>26 DEF ConfirmCommit, ReceiptOf
<1>27. CASE ConfirmDeliver
  BY <1>27 DEF ConfirmDeliver
<1>28. CASE EndConfirm
  BY <1>28 DEF EndConfirm, EndLocal
<1>29. CASE PauseRun
  BY <1>29 DEF PauseRun
<1>30. CASE AnswerContinues
  BY <1>30 DEF AnswerContinues
<1>31. CASE BeginFinish
  BY <1>31 DEF BeginFinish
<1>32. CASE FinishPoll
  BY <1>32 DEF FinishPoll, Begin
<1>33. CASE FinishDelivered
  BY <1>33 DEF FinishDelivered, EndLocal
<1>34. CASE FinishClose
  BY <1>34
<1>35. CASE FinishOverBudget
  BY <1>35 DEF FinishOverBudget, EndLocal
<1>36. CASE Abort
  BY <1>36 DEF Abort
<1>37. CASE BackgroundError
  BY <1>37 DEF BackgroundError, Abort
<1>38. CASE CloseReceiver
  BY <1>38 DEF CloseReceiver, ReceiverGone
<1>39. CASE Crash
  BY <1>39 DEF Crash, ReceiverGone
<1>40. CASE UNCHANGED vars
  BY <1>40
<1> QED
  BY <1>1, <1>2, <1>3, <1>4, <1>5, <1>6, <1>7, <1>8, <1>9, <1>10, <1>11,
     <1>12, <1>13, <1>14, <1>15, <1>16, <1>17, <1>18, <1>19, <1>20, <1>21,
     <1>22, <1>23, <1>24, <1>25, <1>26, <1>27, <1>28, <1>29, <1>30, <1>31,
     <1>32, <1>33, <1>34, <1>35, <1>36, <1>37, <1>38, <1>39, <1>40
  DEF Next, Sender, Timer, Receive, Poll, Loop, Quiescent

-----------------------------------------------------------------------------
DeliveryInv ==
  IInv /\ Dated /\ Ordered /\ Draining /\ FirstRun /\ ReceiptsNotLost

\* The initial states satisfy it.
LEMMA InitDelivery == Init => DeliveryInv
<1> SUFFICES ASSUME Init PROVE DeliveryInv
  OBVIOUS
<1>1. IInv
  BY InitIInv
<1>2. Stored = Hist /\ created \in [Msg -> 0..Cardinality(Hist)]
  BY MailboxAssumption DEF Init, Stored
<1>3. Dated
  <2>1. Cardinality(Hist) \in Nat
    BY MailboxAssumption, Countable
  <2> QED BY <1>2, <2>1 DEF Dated, Init, ReceiverOff
<1>4. Ordered
  BY <1>2 DEF Ordered, InOrder, Queue, Rows
<1>5. Draining
  BY MailboxAssumption
  DEF Draining, Locked, LastBatch, LastLook, Init, ReceiverOff
<1>6. FirstRun
  BY DEF FirstRun, Active, Init, NoMail
<1>7. ReceiptsNotLost
  BY DEF ReceiptsNotLost, Init
<1> QED BY <1>1, <1>3, <1>4, <1>5, <1>6, <1>7 DEF DeliveryInv

\* It is inductive.
LEMMA DeliveryInvariance == Spec => []DeliveryInv
<1>1. IInv /\ [Next]_vars => IInv'
  BY TypeStep, ControlStep, SourcedStep, SavedStep, FreshStep DEF IInv
<1>2. DeliveryInv /\ [Next]_vars => DeliveryInv'
  BY <1>1, DatedStep, OrderedStep, LockedStep, LastBatchStep, LastLookStep,
     FirstRunStep, ReceiptsStep
  DEF DeliveryInv, Draining
<1> QED BY <1>2, InitDelivery, PTL DEF Spec

(***************************************************************************)
(* Actionable mail that the runtime injects enters the context in the      *)
(* order it was created, for every limit, batch size and budget, through   *)
(* trims of _pending, crashes and restarts (the stable sorts of            *)
(* read_mailbox_batch and of _receive).                                    *)
(***************************************************************************)
THEOREM DeliveredInOrder == Spec => []InjectedInOrder
<1>1. DeliveryInv => InjectedInOrder
  BY DEF DeliveryInv, Ordered, InOrder, Queue, InjectedInOrder
<1> QED BY <1>1, DeliveryInvariance, PTL

(***************************************************************************)
(* Injection, a tool's read and the receipts of an upgrade agree: nothing  *)
(* is acknowledged unsaved, injected twice, or deleted before a checkpoint *)
(* accounts for it (poll, confirm_manual, _load_historical).               *)
(***************************************************************************)
THEOREM AllSourcesAgree == Spec => []SourcesAgree
<1>1. DeliveryInv => ManualNotInjectedInSameRun
  <2> SUFFICES ASSUME DeliveryInv, runs = 1, NEW m \in Msg PROVE messages[m] <= 1
    BY DEF ManualNotInjectedInSameRun, ManualNotInjectedAgain
  <2> QED BY DEF DeliveryInv, FirstRun
<1>2. DeliveryInv => ReceiptsNotLost
  BY DEF DeliveryInv
<1>3. AckedIsSaved /\ InjectedOnce /\ ManualNotInjectedInSameRun /\ ReceiptsNotLost
        => SourcesAgree
  BY DEF SourcesAgree
<1> QED BY <1>1, <1>2, <1>3, DeliveryInvariance, NoAckedMailLost, InjectedAtMostOnce,
           PTL

(***************************************************************************)
(* A run that completes has taken in all actionable mail sent to it, its   *)
(* sender told or not, or leaves a backlog that its last read reported     *)
(* (try_finish under mailbox_lock; the close with an expected revision).   *)
(***************************************************************************)
THEOREM CompletedRunDrained == Spec => FinishDrains
<1>1. DeliveryInv /\ [Next]_vars
        => (status' = "finished" /\ status # "finished" => Drained \/ Backlog)
  <2> SUFFICES ASSUME DeliveryInv, [Next]_vars, status' = "finished",
                      status # "finished"
               PROVE  Drained \/ Backlog
    OBVIOUS
  <2>1. FinishClose
    BY OnlyCloseCompletes
  <2>2. op = "finish" /\ pc = "select" /\ ~ActionablePending /\ "finish" \notin dirty
    BY <2>1 DEF FinishClose
  <2>3. Wanted \subseteq ids \/ Backlog
    BY <2>2 DEF DeliveryInv, Draining, LastLook
  <2>4. told \subseteq Rows
    BY DEF DeliveryInv, Draining, Locked
  <2> QED BY <2>3, <2>4 DEF Drained, Wanted
<1>2. DeliveryInv /\ [Next]_vars
        => [status' = "finished" /\ status # "finished" => Drained \/ Backlog]_vars
  BY <1>1
<1> QED BY <1>2, DeliveryInvariance, PTL DEF Spec, FinishDrains
=============================================================================
