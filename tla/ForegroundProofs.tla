-------------------------- MODULE ForegroundProofs --------------------------
(***************************************************************************)
(* Proofs about Foreground for any number of items and pauses: the queue,  *)
(* the worker and the idle event agree, a cancelled item stays cancelled,  *)
(* and nothing runs after shutdown.                                        *)
(***************************************************************************)
EXTENDS Foreground, Integers, SequenceTheorems, TLAPS

(***************************************************************************)
(* The inductive invariant.                                                *)
(***************************************************************************)

\* No request twice, and the active item has none.
Distinct == \A j, k \in 1..Len(queue) : queue[j] = queue[k] => j = k

NoneTwice ==
  /\ Distinct
  /\ active \notin InQueue

\* The worker has an active item between taking a request and leaving it; a
\* client that holds the lock across an await holds an item, and the request
\* that cancel wants to remove is still there when it does; the worker returns
\* only when shutdown asked it to, and shutdown after the worker.
WorkerAgrees ==
  /\ active = NoItem <=> wpc \in {"wait", "finished", "done"}
  /\ lock # "free" => held \in Item
  /\ lock = "cancel" => held \in InQueue
  /\ lock = "recall" => Terminal
  /\ wpc = "done" => Shutdown
  /\ closing = "closed" => wpc = "done"

\* The event is set only when there is nothing to do; and, where no request is
\* recalled, whenever the worker waits for one.
IdleAgrees ==
  /\ (idle /\ closing # "closed") => queue = <<>> /\ active = NoItem
  /\ (~Terminal /\ wpc = "wait" /\ queue = <<>> /\ lock = "free" /\ ~Shutdown) => idle

\* Only the item the worker runs is running.
RunningIsActive ==
  \A i \in Item : status[i] = "running" => active = i /\ wpc = "run"

FInv == TypeOK /\ NoneTwice /\ WorkerAgrees /\ IdleAgrees /\ RunningIsActive

-----------------------------------------------------------------------------
(***************************************************************************)
(* Requests put into a sequence and taken out of it.                       *)
(***************************************************************************)

\* What a sequence holds, that it holds nothing twice, and the sequence with an
\* element put in behind the k-th.
Held(s) == {s[n] : n \in 1..Len(s)}
OnceEach(s) == \A m, n \in 1..Len(s) : s[m] = s[n] => m = n
PutAt(s, i, k) == SubSeq(s, 1, k) \o <<i>> \o SubSeq(s, k + 1, Len(s))

\* What stands where after an element was put in behind the k-th.
LEMMA PutIn ==
  ASSUME NEW S, NEW s \in Seq(S), NEW i \in S, NEW k \in 0..Len(s)
  PROVE  LET t == PutAt(s, i, k) IN
         /\ t \in Seq(S) /\ Len(t) = Len(s) + 1
         /\ \A n \in 1..Len(t) :
              t[n] = IF n <= k THEN s[n] ELSE IF n = k + 1 THEN i ELSE s[n - 1]
<1> DEFINE u == SubSeq(s, 1, k) 
           w == SubSeq(s, k + 1, Len(s))
           v == u \o <<i>>
<1>1. Len(s) \in Nat /\ k \in Nat /\ k <= Len(s) /\ \A n \in 1..Len(s) : s[n] \in S
  OBVIOUS
<1>2. u \in Seq(S) /\ Len(u) = k /\ \A n \in 1..k : u[n] = s[n]
  <2>1. \A n \in 1..k : s[n] \in S
    BY <1>1
  <2> QED BY <1>1, <2>1, SubSeqProperties
<1>3. w \in Seq(S) /\ Len(w) = Len(s) - k /\ \A n \in 1..(Len(s) - k) : w[n] = s[k + n]
  <2>1. \A n \in (k + 1)..Len(s) : s[n] \in S
    BY <1>1
  <2> QED BY <1>1, <2>1, SubSeqProperties
<1> HIDE DEF u, w
<1>4. /\ v \in Seq(S) /\ Len(v) = k + 1 /\ v[k + 1] = i
      /\ \A n \in 1..k : v[n] = s[n]
  <2>1. <<i>> \in Seq(S) /\ Len(<<i>>) = 1 /\ <<i>>[1] = i
    OBVIOUS
  <2> QED BY <1>1, <1>2, <2>1, ConcatProperties
<1> HIDE DEF v
<1>5. /\ v \o w \in Seq(S) /\ Len(v \o w) = Len(s) + 1
      /\ \A n \in 1..(Len(s) + 1) :
           (v \o w)[n] = IF n <= k + 1 THEN v[n] ELSE w[n - (k + 1)]
  BY <1>1, <1>3, <1>4, ConcatProperties
<1>6. \A n \in 1..(Len(s) + 1) :
        (v \o w)[n] = IF n <= k THEN s[n] ELSE IF n = k + 1 THEN i ELSE s[n - 1]
  <2> TAKE n \in 1..(Len(s) + 1)
  <2>1. CASE n <= k + 1
    BY <1>1, <1>4, <1>5, <2>1
  <2>2. CASE n > k + 1
    <3>1. n - (k + 1) \in 1..(Len(s) - k) /\ k + (n - (k + 1)) = n - 1
      BY <1>1, <2>2
    <3> QED BY <1>1, <1>3, <1>5, <2>2, <3>1
  <2>3. n <= k + 1 \/ n > k + 1
    BY <1>1
  <2> QED BY <2>1, <2>2, <2>3
<1> QED BY <1>5, <1>6 DEF PutAt, u, v, w

\* What stands where after the k-th element was taken out.
LEMMA TakenOut ==
  ASSUME NEW S, NEW s \in Seq(S), NEW k \in 1..Len(s)
  PROVE  LET t == SubSeq(s, 1, k - 1) \o SubSeq(s, k + 1, Len(s)) IN
         /\ t \in Seq(S) /\ Len(t) = Len(s) - 1
         /\ \A n \in 1..Len(t) : t[n] = IF n < k THEN s[n] ELSE s[n + 1]
<1> DEFINE u == SubSeq(s, 1, k - 1)
           w == SubSeq(s, k + 1, Len(s))
<1>1. Len(s) \in Nat /\ k \in Nat \ {0} /\ k <= Len(s) /\ \A n \in 1..Len(s) : s[n] \in S
  OBVIOUS
<1>2. u \in Seq(S) /\ Len(u) = k - 1 /\ \A n \in 1..(k - 1) : u[n] = s[n]
  <2>1. \A n \in 1..(k - 1) : s[n] \in S
    BY <1>1
  <2> QED BY <1>1, <2>1, SubSeqProperties
<1>3. w \in Seq(S) /\ Len(w) = Len(s) - k /\ \A n \in 1..(Len(s) - k) : w[n] = s[k + n]
  <2>1. \A n \in (k + 1)..Len(s) : s[n] \in S
    BY <1>1
  <2> QED BY <1>1, <2>1, SubSeqProperties
<1> HIDE DEF u, w
<1>4. /\ u \o w \in Seq(S) /\ Len(u \o w) = Len(s) - 1
      /\ \A n \in 1..(Len(s) - 1) :
           (u \o w)[n] = IF n <= k - 1 THEN u[n] ELSE w[n - (k - 1)]
  <2>1. Len(u) + Len(w) = Len(s) - 1
    BY <1>1, <1>2, <1>3
  <2>2. /\ u \o w \in Seq(S) /\ Len(u \o w) = Len(u) + Len(w)
        /\ \A n \in 1..(Len(u) + Len(w)) :
             (u \o w)[n] = IF n <= Len(u) THEN u[n] ELSE w[n - Len(u)]
    BY <1>2, <1>3, ConcatProperties
  <2> QED BY <1>2, <2>1, <2>2
<1>5. \A n \in 1..(Len(s) - 1) : (u \o w)[n] = IF n < k THEN s[n] ELSE s[n + 1]
  BY <1>1, <1>2, <1>3, <1>4
<1> QED BY <1>4, <1>5 DEF u, w

\* What it holds after an element was taken out.
LEMMA Removed ==
  ASSUME NEW S, NEW s \in Seq(S), NEW k \in 1..Len(s), NEW t \in Seq(S),
         Len(t) = Len(s) - 1,
         \A n \in 1..Len(t) : t[n] = IF n < k THEN s[n] ELSE s[n + 1]
  PROVE  /\ {t[n] : n \in 1..Len(t)} \subseteq {s[n] : n \in 1..Len(s)}
         /\ (\A m, n \in 1..Len(s) : s[m] = s[n] => m = n)
            => \A m, n \in 1..Len(t) : t[m] = t[n] => m = n
<1>1. ASSUME NEW n \in 1..Len(t) PROVE t[n] \in {s[m] : m \in 1..Len(s)}
  OBVIOUS
<1>2. ASSUME \A m, n \in 1..Len(s) : s[m] = s[n] => m = n,
             NEW m \in 1..Len(t), NEW n \in 1..Len(t), t[m] = t[n]
      PROVE  m = n
  BY <1>2
<1> QED BY <1>1, <1>2

\* What stands where after the last one was taken out.
LEMMA LastOut ==
  ASSUME NEW S, NEW s \in Seq(S), s # <<>>
  PROVE  LET t == SubSeq(s, 1, Len(s) - 1) IN
         /\ t \in Seq(S) /\ Len(t) = Len(s) - 1
         /\ \A n \in 1..(Len(s) - 1) : t[n] = s[n]
<1> DEFINE u == Len(s) - 1
<1>1. u \in Nat /\ Len(s) = u + 1 /\ \A n \in 1..u : s[n] \in S
  OBVIOUS
<1> HIDE DEF u
<1>2. /\ SubSeq(s, 1, u) \in Seq(S) /\ Len(SubSeq(s, 1, u)) = u
      /\ \A n \in 1..u : SubSeq(s, 1, u)[n] = s[n]
  BY <1>1, SubSeqProperties
<1> QED BY <1>1, <1>2 DEF u

\* What a sequence holds after an element was put in: that element too, and
\* nothing twice if nothing was.
LEMMA PutRequest ==
  ASSUME NEW S, NEW s \in Seq(S), NEW i \in S, NEW k \in 0..Len(s)
  PROVE  /\ PutAt(s, i, k) \in Seq(S) /\ PutAt(s, i, k) # <<>>
         /\ Held(PutAt(s, i, k)) = Held(s) \cup {i}
         /\ OnceEach(s) /\ i \notin Held(s) => OnceEach(PutAt(s, i, k))
<1> DEFINE t == PutAt(s, i, k)
<1>1. /\ t \in Seq(S) /\ Len(t) = Len(s) + 1
      /\ \A n \in 1..Len(t) :
           t[n] = IF n <= k THEN s[n] ELSE IF n = k + 1 THEN i ELSE s[n - 1]
  BY PutIn
<1> HIDE DEF t
<1>2. t # <<>>
  BY <1>1
<1>3. ASSUME NEW n \in 1..Len(t) PROVE t[n] \in {s[m] : m \in 1..Len(s)} \cup {i}
  BY <1>1
<1>4. ASSUME NEW n \in 1..Len(s) PROVE s[n] \in {t[m] : m \in 1..Len(t)}
  <2>1. CASE n <= k
    BY <1>1, <2>1
  <2>2. CASE n > k
    <3>1. n + 1 \in 1..Len(t) /\ t[n + 1] = s[n]
      BY <1>1, <2>2
    <3> QED BY <1>1, <3>1
  <2> QED BY <2>1, <2>2
<1>5. i \in {t[m] : m \in 1..Len(t)}
  <2>1. k + 1 \in 1..Len(t) /\ t[k + 1] = i
    BY <1>1
  <2> QED BY <2>1
<1>6. ASSUME \A m, n \in 1..Len(s) : s[m] = s[n] => m = n,
             i \notin {s[n] : n \in 1..Len(s)},
             NEW m \in 1..Len(t), NEW n \in 1..Len(t), t[m] = t[n]
      PROVE  m = n
  <2> DEFINE f(j) == IF j <= k THEN j ELSE j - 1
  <2>1. ASSUME NEW j \in 1..Len(t) \ {k + 1}
        PROVE  f(j) \in 1..Len(s) /\ t[j] = s[f(j)] /\ t[j] # i
    <3>1. f(j) \in 1..Len(s) /\ t[j] = s[f(j)]
      BY <1>1
    <3> QED BY <1>6, <3>1
  <2>2. t[k + 1] = i
    BY <1>1
  <2>3. CASE m # k + 1 /\ n # k + 1
    <3>1. f(m) = f(n)
      BY <1>6, <2>1, <2>3
    <3> QED BY <2>3, <3>1
  <2>4. CASE m = k + 1 \/ n = k + 1
    BY <1>6, <2>1, <2>2, <2>4
  <2> QED BY <2>3, <2>4
<1>7. {t[n] : n \in 1..Len(t)} = {s[n] : n \in 1..Len(s)} \cup {i}
  BY <1>3, <1>4, <1>5
<1> QED BY <1>1, <1>2, <1>6, <1>7 DEF t, Held, OnceEach

\* enqueue_item adds a request for an item that is not there.
LEMMA InsertStep ==
  ASSUME TypeOK, NEW i \in Item, Insert(i)
  PROVE  \/ Contains(i) /\ UNCHANGED <<queue, idle>>
         \/ /\ ~Contains(i) /\ idle' = FALSE
            /\ queue' \in Seq(Item) /\ queue' # <<>>
            /\ InQueue' = InQueue \cup {i} /\ (Distinct => Distinct')
<1>1. CASE Contains(i)
  BY <1>1 DEF Insert
<1>2. CASE ~Contains(i)
  <2>1. queue \in Seq(Item) /\ Len(queue) \in Nat
    BY DEF TypeOK
  <2>2. PICK k \in (IF Terminal THEN 0 ELSE Len(queue))..Len(queue) :
          queue' = PutAt(queue, i, k)
    BY <1>2 DEF Insert, PutAt
  <2>3. k \in 0..Len(queue)
    BY <2>1
  <2>4. /\ queue' \in Seq(Item) /\ queue' # <<>> /\ Held(queue') = Held(queue) \cup {i}
        /\ OnceEach(queue) /\ i \notin Held(queue) => OnceEach(queue')
    BY <2>1, <2>2, <2>3, PutRequest
  <2>5. idle' = FALSE
    BY <1>2 DEF Insert
  <2> QED BY <1>2, <2>4, <2>5 DEF InQueue, Contains, Distinct, Held, OnceEach
<1> QED BY <1>1, <1>2

\* It adds none for an item that is active or queued.
LEMMA InsertOnce ==
  ASSUME TypeOK, NoneTwice, NEW i \in Item, Insert(i), UNCHANGED active
  PROVE  NoneTwice'
<1>1. UNCHANGED queue => Distinct' /\ InQueue' = InQueue
  BY DEF NoneTwice, Distinct, InQueue
<1> QED BY <1>1, InsertStep DEF NoneTwice, Contains

\* cancel takes one request out.
LEMMA RemoveStep ==
  ASSUME TypeOK, RemoveHeld
  PROVE  /\ queue' \in Seq(Item) /\ queue # <<>>
         /\ InQueue' \subseteq InQueue /\ (Distinct => Distinct')
<1>1. queue \in Seq(Item)
  BY DEF TypeOK
<1>2. PICK k \in 1..Len(queue) :
        queue' = SubSeq(queue, 1, k - 1) \o SubSeq(queue, k + 1, Len(queue))
  BY DEF RemoveHeld
<1>3. /\ queue' \in Seq(Item) /\ Len(queue') = Len(queue) - 1
      /\ \A n \in 1..Len(queue') : queue'[n] = IF n < k THEN queue[n] ELSE queue[n + 1]
  BY <1>1, <1>2, TakenOut
<1>4. queue # <<>>
  BY <1>1
<1>5. /\ {queue'[n] : n \in 1..Len(queue')} \subseteq {queue[n] : n \in 1..Len(queue)}
      /\ (\A m, n \in 1..Len(queue) : queue[m] = queue[n] => m = n)
         => \A m, n \in 1..Len(queue') : queue'[m] = queue'[n] => m = n
  BY SMTT(30), <1>1, <1>3, Removed
<1> QED BY <1>3, <1>4, <1>5 DEF InQueue, Distinct

\* recall_latest takes the last one out.
LEMMA RecallStep ==
  ASSUME TypeOK, Recall
  PROVE  /\ queue' \in Seq(Item) /\ held' \in Item
         /\ InQueue' \subseteq InQueue /\ (Distinct => Distinct')
<1>1. queue \in Seq(Item) /\ Len(queue) \in Nat \ {0}
  BY DEF TypeOK, Recall
<1>2. \A n \in 1..(Len(queue) - 1) : queue[n] \in Item
  BY <1>1
<1>3. /\ queue' \in Seq(Item) /\ Len(queue') = Len(queue) - 1
      /\ \A n \in 1..(Len(queue) - 1) : queue'[n] = queue[n]
  <2>1. queue # <<>> /\ queue' = SubSeq(queue, 1, Len(queue) - 1)
    BY DEF Recall
  <2> QED BY <1>1, <2>1, LastOut
<1>4. InQueue' \subseteq InQueue /\ (Distinct => Distinct')
  BY <1>1, <1>3 DEF InQueue, Distinct
<1>5. held' \in Item
  BY <1>1 DEF Recall
<1> QED BY <1>3, <1>4, <1>5

-----------------------------------------------------------------------------
(***************************************************************************)
(* One step.                                                               *)
(***************************************************************************)

\* Every step keeps the types.
LEMMA TypeStep == TypeOK /\ WorkerAgrees /\ [Next]_vars => TypeOK'
<1> SUFFICES ASSUME TypeOK, WorkerAgrees, [Next]_vars PROVE TypeOK'
  OBVIOUS
<1> USE ForegroundAssumption DEF TypeOK, WorkerAgrees, data, worker, clients,
    close, vars, Terminal, Shutdown, InTask, InQueue, Contains
<1>1. CASE Pop
  BY <1>1 DEF Pop
<1>2. CASE WorkerReturns
  BY <1>2 DEF WorkerReturns
<1>3. CASE RunOrCancel
  BY <1>3 DEF RunOrCancel, CancelItem
<1>4. CASE RunStarts
  BY <1>4 DEF RunStarts, Startable, Task
<1>5. CASE RunRefused
  BY <1>5 DEF RunRefused, Task
<1>6. CASE RunEnds
  BY <1>6 DEF RunEnds, Task
<1>7. CASE RunPauses
  BY <1>7 DEF RunPauses, Task
<1>8. CASE RunReturns
  BY <1>8 DEF RunReturns, Task
<1>9. CASE RunCancelled
  BY <1>9 DEF RunCancelled, Task
<1>10. CASE HandleCancelled
  BY <1>10 DEF HandleCancelled, CancelItem, Task
<1>11. CASE Leave
  BY <1>11 DEF Leave
<1>12. CASE SetIdle
  BY <1>12 DEF SetIdle
<1>13. ASSUME NEW i \in Item, Enqueue(i) PROVE TypeOK'
  BY <1>13, InsertStep DEF Enqueue
<1>14. ASSUME NEW i \in Item, EnqueueBlocks(i) PROVE TypeOK'
  BY <1>14 DEF EnqueueBlocks
<1>15. ASSUME NEW i \in Item, EnqueueUnblocks(i) PROVE TypeOK'
  BY <1>15, InsertStep DEF EnqueueUnblocks
<1>16. ASSUME NEW i \in Item, EnqueueRefused(i) PROVE TypeOK'
  BY <1>16 DEF EnqueueRefused
<1>17. ASSUME NEW i \in Item, PassOn(i) PROVE TypeOK'
  BY <1>17 DEF PassOn
<1>18. ASSUME NEW i \in Item, Submit(i) PROVE TypeOK'
  BY <1>18 DEF Submit
<1>19. ASSUME NEW i \in Item, StartQueued(i) PROVE TypeOK'
  BY <1>19 DEF StartQueued
<1>20. ASSUME NEW i \in Item, CancelQueued(i) PROVE TypeOK'
  BY <1>20 DEF CancelQueued
<1>21. ASSUME NEW i \in Item, CancelDirectly(i) PROVE TypeOK'
  BY <1>21 DEF CancelDirectly, CancelItem
<1>22. ASSUME NEW i \in Item, Answer(i) PROVE TypeOK'
  BY <1>22 DEF Answer
<1>23. CASE Recall
  BY <1>23, RecallStep DEF Recall
<1>24. CASE CancelActive
  BY <1>24 DEF CancelActive
<1>25. CASE AnswerInDialog
  BY <1>25, InsertStep DEF AnswerInDialog
<1>26. CASE DismissDialog
  BY <1>26 DEF DismissDialog, Task
<1>27. CASE Recalled
  BY <1>27 DEF Recalled, CancelItem
<1>28. CASE CancelledQueued
  BY <1>28, RemoveStep DEF CancelledQueued, CancelItem
<1>29. CASE Close
  BY <1>29 DEF Close
<1>30. ASSUME NEW i \in Item, CloseCancels(i) PROVE TypeOK'
  BY <1>30 DEF CloseCancels, CancelItem
<1>31. CASE CloseActive
  BY <1>31 DEF CloseActive
<1>32. CASE Closed
  BY <1>32 DEF Closed
<1>33. CASE Rest
  BY <1>33 DEF Rest
<1>34. CASE UNCHANGED vars
  BY <1>34 DEF vars
<1> QED BY <1>1, <1>2, <1>3, <1>4, <1>5, <1>6, <1>7, <1>8, <1>9, <1>10, <1>11,
    <1>12, <1>13, <1>14, <1>15, <1>16, <1>17, <1>18, <1>19, <1>20, <1>21,
    <1>22, <1>23, <1>24, <1>25, <1>26, <1>27, <1>28, <1>29, <1>30, <1>31,
    <1>32, <1>33, <1>34
    DEF Next, WorkerStep, Call, Client, Locked, Closing, Rest

\* enqueue_item looks for the item before it adds a request, and the worker
\* takes one out when it makes its item the active one.
LEMMA NoneTwiceStep ==
  TypeOK /\ WorkerAgrees /\ NoneTwice /\ [Next]_vars
    => NoneTwice'
<1> SUFFICES ASSUME TypeOK, WorkerAgrees, NoneTwice, [Next]_vars
             PROVE  NoneTwice'
  OBVIOUS
<1> USE ForegroundAssumption DEF TypeOK, WorkerAgrees, NoneTwice, Distinct,
    data, worker, clients, close, vars, Terminal, Shutdown, InTask, InQueue,
    Contains
<1>1. CASE Pop
  <2>1. \A n \in 1..Len(queue') : n + 1 \in 1..Len(queue) /\ queue'[n] = queue[n + 1]
    BY <1>1 DEF Pop
  <2>2. active' = queue[1] /\ 1 \in 1..Len(queue) /\ queue' \in Seq(Item)
    BY <1>1 DEF Pop
  <2>3. ASSUME NEW j \in 1..Len(queue'), NEW k \in 1..Len(queue'), queue'[j] = queue'[k]
        PROVE  j = k
    <3>1. /\ j + 1 \in 1..Len(queue) /\ k + 1 \in 1..Len(queue)
          /\ queue[j + 1] = queue[k + 1]
      BY <2>1, <2>3
    <3>2. j + 1 = k + 1
      BY <3>1
    <3> QED BY <3>2
  <2>4. ASSUME NEW k \in 1..Len(queue') PROVE active' # queue'[k]
    <3>1. k + 1 \in 1..Len(queue) /\ queue'[k] = queue[k + 1] /\ k + 1 # 1
      BY <2>1
    <3> QED BY <3>1, <2>2
  <2> QED BY <2>3, <2>4
<1>2. CASE Leave
  BY <1>2 DEF Leave
<1>3. ASSUME NEW i \in Item, Enqueue(i) PROVE NoneTwice'
  BY <1>3, InsertOnce DEF Enqueue
<1>4. ASSUME NEW i \in Item, EnqueueUnblocks(i) PROVE NoneTwice'
  BY <1>4, InsertOnce DEF EnqueueUnblocks
<1>5. CASE Recall
  BY <1>5, RecallStep DEF Recall
<1>6. CASE AnswerInDialog
  BY <1>6, InsertStep DEF AnswerInDialog
<1>7. CASE CancelledQueued
  BY <1>7, RemoveStep DEF CancelledQueued, CancelItem
<1>8. CASE Close
  BY <1>8 DEF Close
<1>9. CASE WorkerReturns \/ RunOrCancel \/ RunStarts \/ RunRefused \/ RunEnds
           \/ RunPauses \/ RunReturns \/ RunCancelled \/ HandleCancelled \/
           SetIdle \/ CancelActive \/ DismissDialog \/ Recalled \/ CloseActive
           \/ Closed \/ Rest
  BY <1>9 DEF WorkerReturns, RunOrCancel, RunStarts, RunRefused, RunEnds,
    RunPauses, RunReturns, RunCancelled, HandleCancelled, SetIdle,
    CancelActive, DismissDialog, Recalled, CloseActive, Closed, Rest, Task
<1>10. ASSUME NEW i \in Item,
              EnqueueBlocks(i) \/ EnqueueRefused(i) \/ PassOn(i) \/ Submit(i)
              \/ StartQueued(i) \/ CancelQueued(i) \/ CancelDirectly(i) \/
              Answer(i) \/ CloseCancels(i)
       PROVE  NoneTwice'
  BY <1>10 DEF EnqueueBlocks, EnqueueRefused, PassOn, Submit, StartQueued,
    CancelQueued, CancelDirectly, Answer, CloseCancels
<1>11. CASE UNCHANGED vars
  BY <1>11 DEF vars
<1> QED BY <1>1, <1>2, <1>3, <1>4, <1>5, <1>6, <1>7, <1>8, <1>9, <1>10, <1>11
    DEF Next, WorkerStep, Call, Client, Locked, Closing, Rest

\* Worker, lock holder and shutdown stay in step.
LEMMA WorkerAgreesStep ==
  TypeOK /\ NoneTwice /\ WorkerAgrees /\ [Next]_vars
    => WorkerAgrees'
<1> SUFFICES ASSUME TypeOK, NoneTwice, WorkerAgrees, [Next]_vars
             PROVE  WorkerAgrees'
  OBVIOUS
<1> USE ForegroundAssumption DEF TypeOK, NoneTwice, WorkerAgrees, data, worker,
    clients, close, vars, Terminal, Shutdown, InTask, InQueue, Contains
<1>1. CASE Pop
  BY <1>1 DEF Pop
<1>2. CASE WorkerReturns
  BY <1>2 DEF WorkerReturns
<1>3. CASE RunOrCancel
  BY <1>3 DEF RunOrCancel, CancelItem
<1>4. CASE RunStarts
  BY <1>4 DEF RunStarts, Startable, Task
<1>5. CASE RunRefused
  BY <1>5 DEF RunRefused, Task
<1>6. CASE RunEnds
  BY <1>6 DEF RunEnds, Task
<1>7. CASE RunPauses
  BY <1>7 DEF RunPauses, Task
<1>8. CASE RunReturns
  BY <1>8 DEF RunReturns, Task
<1>9. CASE RunCancelled
  BY <1>9 DEF RunCancelled, Task
<1>10. CASE HandleCancelled
  BY <1>10 DEF HandleCancelled, CancelItem, Task
<1>11. CASE Leave
  BY <1>11 DEF Leave
<1>12. CASE SetIdle
  BY <1>12 DEF SetIdle
<1>13. ASSUME NEW i \in Item, Enqueue(i) PROVE WorkerAgrees'
  BY <1>13, InsertStep DEF Enqueue
<1>14. ASSUME NEW i \in Item, EnqueueUnblocks(i) PROVE WorkerAgrees'
  BY <1>14, InsertStep DEF EnqueueUnblocks
<1>15. ASSUME NEW i \in Item, CancelQueued(i) PROVE WorkerAgrees'
  BY <1>15 DEF CancelQueued
<1>16. CASE Recall
  BY <1>16, RecallStep DEF Recall
<1>17. CASE AnswerInDialog
  BY <1>17, InsertStep DEF AnswerInDialog
<1>18. CASE DismissDialog
  BY <1>18 DEF DismissDialog, Task
<1>19. CASE Recalled
  BY <1>19 DEF Recalled, CancelItem
<1>20. CASE CancelledQueued
  BY <1>20, RemoveStep DEF CancelledQueued, CancelItem
<1>21. CASE Close
  BY <1>21 DEF Close
<1>22. CASE CloseActive
  BY <1>22 DEF CloseActive
<1>23. CASE Closed
  BY <1>23 DEF Closed
<1>24. ASSUME NEW i \in Item,
              EnqueueBlocks(i) \/ EnqueueRefused(i) \/ PassOn(i) \/ Submit(i)
              \/ StartQueued(i) \/ CancelDirectly(i) \/ Answer(i) \/
              CloseCancels(i)
       PROVE  WorkerAgrees'
  BY <1>24 DEF EnqueueBlocks, EnqueueRefused, PassOn, Submit, StartQueued,
    CancelDirectly, Answer, CloseCancels
<1>25. CASE CancelActive \/ Rest
  BY <1>25 DEF CancelActive, Rest
<1>26. CASE UNCHANGED vars
  BY <1>26 DEF vars
<1> QED BY <1>1, <1>2, <1>3, <1>4, <1>5, <1>6, <1>7, <1>8, <1>9, <1>10, <1>11,
    <1>12, <1>13, <1>14, <1>15, <1>16, <1>17, <1>18, <1>19, <1>20, <1>21,
    <1>22, <1>23, <1>24, <1>25, <1>26
    DEF Next, WorkerStep, Call, Client, Locked, Closing, Rest

\* The event is cleared with every request and set when the last one is gone.
LEMMA IdleStep ==
  TypeOK /\ WorkerAgrees /\ IdleAgrees /\ [Next]_vars
    => IdleAgrees'
<1> SUFFICES ASSUME TypeOK, WorkerAgrees, IdleAgrees, [Next]_vars
             PROVE  IdleAgrees'
  OBVIOUS
<1> USE ForegroundAssumption DEF TypeOK, WorkerAgrees, IdleAgrees, data,
    worker, clients, close, vars, Terminal, Shutdown, InTask, InQueue, Contains
<1>1. CASE Pop
  BY <1>1 DEF Pop
<1>2. CASE WorkerReturns
  BY <1>2 DEF WorkerReturns
<1>3. CASE RunOrCancel
  BY <1>3 DEF RunOrCancel, CancelItem
<1>4. CASE RunStarts
  BY <1>4 DEF RunStarts, Startable, Task
<1>5. CASE RunRefused
  BY <1>5 DEF RunRefused, Task
<1>6. CASE RunEnds
  BY <1>6 DEF RunEnds, Task
<1>7. CASE RunPauses
  BY <1>7 DEF RunPauses, Task
<1>8. CASE RunReturns
  BY <1>8 DEF RunReturns, Task
<1>9. CASE RunCancelled
  BY <1>9 DEF RunCancelled, Task
<1>10. CASE HandleCancelled
  BY <1>10 DEF HandleCancelled, CancelItem, Task
<1>11. CASE Leave
  BY <1>11 DEF Leave
<1>12. CASE SetIdle
  BY <1>12 DEF SetIdle
<1>13. ASSUME NEW i \in Item, Enqueue(i) PROVE IdleAgrees'
  BY <1>13, InsertStep DEF Enqueue
<1>14. ASSUME NEW i \in Item, EnqueueUnblocks(i) PROVE IdleAgrees'
  BY <1>14, InsertStep DEF EnqueueUnblocks
<1>15. ASSUME NEW i \in Item, CancelQueued(i) PROVE IdleAgrees'
  BY <1>15 DEF CancelQueued
<1>16. CASE Recall
  BY <1>16, RecallStep DEF Recall
<1>17. CASE AnswerInDialog
  BY <1>17, InsertStep DEF AnswerInDialog
<1>18. CASE DismissDialog
  BY <1>18 DEF DismissDialog, Task
<1>19. CASE Recalled
  BY <1>19 DEF Recalled, CancelItem
<1>20. CASE CancelledQueued
  BY <1>20, RemoveStep DEF CancelledQueued, CancelItem
<1>21. CASE Close
  BY <1>21 DEF Close
<1>22. CASE CloseActive
  BY <1>22 DEF CloseActive
<1>23. CASE Closed
  BY <1>23 DEF Closed
<1>24. ASSUME NEW i \in Item,
              EnqueueBlocks(i) \/ EnqueueRefused(i) \/ PassOn(i) \/ Submit(i)
              \/ StartQueued(i) \/ CancelDirectly(i) \/ Answer(i) \/
              CloseCancels(i)
       PROVE  IdleAgrees'
  BY <1>24 DEF EnqueueBlocks, EnqueueRefused, PassOn, Submit, StartQueued,
    CancelDirectly, Answer, CloseCancels
<1>25. CASE CancelActive \/ Rest
  BY <1>25 DEF CancelActive, Rest
<1>26. CASE UNCHANGED vars
  BY <1>26 DEF vars
<1> QED BY <1>1, <1>2, <1>3, <1>4, <1>5, <1>6, <1>7, <1>8, <1>9, <1>10, <1>11,
    <1>12, <1>13, <1>14, <1>15, <1>16, <1>17, <1>18, <1>19, <1>20, <1>21,
    <1>22, <1>23, <1>24, <1>25, <1>26
    DEF Next, WorkerStep, Call, Client, Locked, Closing, Rest

\* Only the worker moves an item to running, and it leaves none behind.
LEMMA RunningStep ==
  TypeOK /\ WorkerAgrees /\ RunningIsActive /\ [Next]_vars
    => RunningIsActive'
<1> SUFFICES ASSUME TypeOK, WorkerAgrees, RunningIsActive, [Next]_vars
             PROVE  RunningIsActive'
  OBVIOUS
<1> USE ForegroundAssumption DEF TypeOK, WorkerAgrees, RunningIsActive, data,
    worker, clients, close, vars, Terminal, Shutdown, InTask, InQueue, Contains
<1>1. CASE Pop
  BY <1>1 DEF Pop
<1>2. CASE WorkerReturns
  BY <1>2 DEF WorkerReturns
<1>3. CASE RunOrCancel
  BY <1>3 DEF RunOrCancel, CancelItem
<1>4. CASE RunStarts
  BY <1>4 DEF RunStarts, Startable, Task
<1>5. CASE RunRefused
  BY <1>5 DEF RunRefused, Task
<1>6. CASE RunEnds
  BY <1>6 DEF RunEnds, Task
<1>7. CASE RunPauses
  BY <1>7 DEF RunPauses, Task
<1>8. CASE RunReturns
  BY <1>8 DEF RunReturns, Task
<1>9. CASE RunCancelled
  BY <1>9 DEF RunCancelled, Task
<1>10. CASE HandleCancelled
  BY <1>10 DEF HandleCancelled, CancelItem, Task
<1>11. CASE Leave
  BY <1>11 DEF Leave
<1>12. CASE SetIdle
  BY <1>12 DEF SetIdle
<1>13. ASSUME NEW i \in Item, Submit(i) PROVE RunningIsActive'
  BY <1>13 DEF Submit
<1>14. ASSUME NEW i \in Item, CancelDirectly(i) PROVE RunningIsActive'
  BY <1>14 DEF CancelDirectly, CancelItem
<1>15. CASE AnswerInDialog
  BY <1>15 DEF AnswerInDialog, Insert
<1>16. CASE DismissDialog
  BY <1>16 DEF DismissDialog, Task
<1>17. CASE Recalled
  BY <1>17 DEF Recalled, CancelItem
<1>18. CASE CancelledQueued
  BY <1>18 DEF CancelledQueued, CancelItem, RemoveHeld
<1>19. ASSUME NEW i \in Item, CloseCancels(i) PROVE RunningIsActive'
  BY <1>19 DEF CloseCancels, CancelItem
<1>20. ASSUME NEW i \in Item,
              Enqueue(i) \/ EnqueueBlocks(i) \/ EnqueueUnblocks(i) \/
              EnqueueRefused(i) \/ PassOn(i) \/ StartQueued(i) \/
              CancelQueued(i) \/ Answer(i)
       PROVE  RunningIsActive'
  BY <1>20 DEF Enqueue, EnqueueBlocks, EnqueueUnblocks, EnqueueRefused, PassOn,
    StartQueued, CancelQueued, Answer
<1>21. CASE Recall \/ CancelActive \/ Close \/ CloseActive \/ Closed \/ Rest
  BY <1>21 DEF Recall, CancelActive, Close, CloseActive, Closed, Rest
<1>22. CASE UNCHANGED vars
  BY <1>22 DEF vars
<1> QED BY <1>1, <1>2, <1>3, <1>4, <1>5, <1>6, <1>7, <1>8, <1>9, <1>10, <1>11,
    <1>12, <1>13, <1>14, <1>15, <1>16, <1>17, <1>18, <1>19, <1>20, <1>21, <1>22
    DEF Next, WorkerStep, Call, Client, Locked, Closing, Rest

-----------------------------------------------------------------------------
(***************************************************************************)
(* The theorems.                                                           *)
(***************************************************************************)

\* The invariant holds in every state.
LEMMA ForegroundInvariant == Spec => []FInv
<1>1. Init => FInv
  <2> SUFFICES ASSUME Init PROVE FInv
    OBVIOUS
  <2> USE ForegroundAssumption DEF Init, InTask, InQueue, Shutdown, Terminal
  <2>1. TypeOK
    <3>1. queue \in Seq(Item) /\ status \in [Item -> {"none"}] /\ pauses \in [Item -> 0..MaxPauses]
      OBVIOUS
    <3>2. answered \in [Item -> BOOLEAN] /\ cancelReq \in BOOLEAN /\ idle \in BOOLEAN
      OBVIOUS
    <3> QED BY <3>1, <3>2 DEF TypeOK
  <2>2. NoneTwice /\ WorkerAgrees
    BY DEF NoneTwice, Distinct, WorkerAgrees
  <2>3. IdleAgrees /\ RunningIsActive
    BY DEF IdleAgrees, RunningIsActive
  <2> QED BY <2>1, <2>2, <2>3 DEF FInv
<1>2. FInv /\ [Next]_vars => FInv'
  BY TypeStep, NoneTwiceStep, WorkerAgreesStep, IdleStep, RunningStep DEF FInv
<1> QED BY <1>1, <1>2, PTL DEF Spec

(***************************************************************************)
(* No item is twice in the controller, and wait_idle returns exactly when  *)
(* nothing is queued and nothing is active (enqueue_item, recall_latest,   *)
(* cancel and _worker).                                                    *)
(***************************************************************************)
THEOREM QueueAlwaysAgrees == Spec => []QueueAgrees
<1>1. FInv => QueueAgrees
  BY DEF FInv, NoneTwice, Distinct, IdleAgrees, QueueAgrees
<1> QED BY <1>1, ForegroundInvariant, PTL

(***************************************************************************)
(* After shutdown nothing is active and no item is running.                *)
(***************************************************************************)
THEOREM NothingRunsAfterClose == Spec => []ClosedRunsNothing
<1>1. FInv => ClosedRunsNothing
  BY DEF FInv, WorkerAgrees, RunningIsActive, ClosedRunsNothing
<1> QED BY <1>1, ForegroundInvariant, PTL

(***************************************************************************)
(* A cancelled item stays cancelled, wherever its request still is.        *)
(***************************************************************************)
THEOREM CancelledForGood == Spec => CancelledStays
<1>1. FInv /\ [Next]_vars =>
        [\A i \in Item : status[i] = "cancelled" => status'[i] = "cancelled"]_vars
  <2> SUFFICES ASSUME FInv, [Next]_vars, NEW j \in Item, status[j] = "cancelled"
               PROVE  status'[j] = "cancelled"
    OBVIOUS
  <2> USE DEF FInv, TypeOK
  <2>1. CASE WorkerStep
    BY <2>1 DEF WorkerStep, Pop, WorkerReturns, RunOrCancel, RunStarts, Startable,
      RunRefused, RunEnds, RunPauses, RunReturns, RunCancelled, HandleCancelled,
      Leave, SetIdle, CancelItem, data
  <2>2. ASSUME NEW i \in Item, Call(i) PROVE status'[j] = "cancelled"
    BY <2>2 DEF Call, Enqueue, EnqueueBlocks, EnqueueUnblocks, EnqueueRefused,
      PassOn, data
  <2>3. CASE Client
    BY <2>3 DEF Client, Submit, StartQueued, CancelQueued, CancelDirectly, Answer,
      Recall, CancelActive, AnswerInDialog, DismissDialog, CancelItem, data
  <2>4. CASE Locked \/ Closing
    BY <2>4 DEF Locked, Closing, Recalled, CancelledQueued, Close, CloseCancels,
      CloseActive, Closed, CancelItem, data
  <2>5. CASE Rest \/ UNCHANGED vars
    BY <2>5 DEF Rest, vars, data
  <2> QED BY <2>1, <2>2, <2>3, <2>4, <2>5 DEF Next
<1> QED BY <1>1, ForegroundInvariant, PTL DEF Spec, CancelledStays
=============================================================================
