---------------------------- MODULE ToolsProofs -----------------------------
(***************************************************************************)
(* Theorems of Tools: what runs outside the program and is talked to       *)
(* (plugin processes and their registry, MCP servers, language servers),   *)
(* and what tools change outside it (published artifacts and file actions, *)
(* worktrees, shell commands, and the application that opens and closes    *)
(* everything).  Each component has its inductive invariant and a lemma    *)
(* about its own specification; the theorem carries the lemma over to      *)
(* Tools.                                                                  *)
(***************************************************************************)
EXTENDS Tools, Sequences, SequenceTheorems, FiniteSetTheorems, TLAPS

-----------------------------------------------------------------------------
(***************************************************************************)
(* Plugin processes.                                                       *)
(***************************************************************************)

PoolTypes ==
  /\ DOMAIN proc = Pool!Procs /\ DOMAIN call = Call
  /\ \A n \in Pool!Procs : DOMAIN proc[n] = {"st", "lock", "in", "out", "reader"}
  /\ \A c \in Call : DOMAIN call[c] = {"pc", "sess", "lk", "victim", "got"}

\* The pool or a call refers to process n.
Known(n) == table = n \/ \E d \in Call : call[d].sess = n \/ call[d].victim = n

\* Call c has its process to itself: nobody else can reach it, and all that is
\* in its pipes are c's request and its reply.
OwnProcess(c) ==
  LET n == call[c].sess IN
  /\ n \in Pool!Procs /\ proc[n].st # "none" /\ table # n
  /\ \A d \in Call \ {c} : call[d].sess # n /\ call[d].victim # n
  /\ proc[n].in \in Seq({c}) /\ proc[n].out \in Seq({c})

\* A process that was not started is known to nobody, and a plugin that runs
\* for one invocation is that call's own: its first reply, which the call
\* takes without looking at the request's number, is the call's.
PoolInv ==
  /\ PoolTypes
  /\ \A n \in Pool!Procs : proc[n].st = "none" => ~Known(n) /\ proc[n].out = <<>>
  /\ \A c \in Call : call[c].pc = "exchange" => OwnProcess(c)
  /\ Pool!OwnReply

\* A step that changes one pooled call, which comes to know no process it or
\* the pool did not know, keeps the invariant when the processes it changes
\* were known to it.
LEMMA PooledStep ==
  ASSUME PoolInv, PoolTypes', NEW c \in Call,
         call[c].pc \notin {"exchange", "done"},
         call'[c].pc # "exchange",
         call'[c].pc = "done" => call'[c].got = {c},
         \A d \in Call \ {c} : call'[d] = call[d],
         call'[c].sess \in {call[c].sess, call[c].victim, table},
         call'[c].victim \in {call[c].victim, table, 0},
         table' \in {table, call[c].victim, 0},
         \A n \in Pool!Procs :
           \/ proc'[n].st = proc[n].st /\ proc'[n].in = proc[n].in /\ proc'[n].out = proc[n].out
           \/ n \in {call[c].sess, call[c].victim, table} /\ proc'[n].st # "none"
  PROVE  PoolInv'
<1>1. \A n \in Pool!Procs : n # 0
  BY DEF Pool!Procs
<1>2. \A n \in Pool!Procs : Known(n)' => Known(n)
  BY <1>1 DEF Known
<1>3. \A n \in Pool!Procs : proc'[n].st = "none" => proc[n].st = "none" /\ proc'[n].out = proc[n].out
  BY DEF PoolInv, Known
<1>4. ASSUME NEW e \in Call, call'[e].pc = "exchange" PROVE OwnProcess(e)'
  <2>1. e # c /\ call'[e] = call[e] /\ OwnProcess(e)
    BY <1>4 DEF PoolInv
  <2> DEFINE n == call[e].sess
  <2>2. n \in Pool!Procs /\ n \notin {call[c].sess, call[c].victim, table, 0}
    BY <1>1, <2>1 DEF OwnProcess
  <2>3. proc'[n].st = proc[n].st /\ proc'[n].in = proc[n].in /\ proc'[n].out = proc[n].out
    BY <2>2
  <2>4. table' # n /\ call'[c].sess # n /\ call'[c].victim # n
    BY <2>2
  <2>5. \A d \in Call \ {e} : call'[d].sess # n /\ call'[d].victim # n
    BY <2>1, <2>4 DEF OwnProcess
  <2> QED BY <2>1, <2>2, <2>3, <2>4, <2>5 DEF OwnProcess
<1>5. Pool!OwnReply'
  BY DEF PoolInv, Pool!OwnReply
<1> QED BY <1>2, <1>3, <1>4, <1>5 DEF PoolInv

ProcFields == {"st", "lock", "in", "out", "reader"}
Procs(p) == DOMAIN p = Pool!Procs /\ \A n \in Pool!Procs : DOMAIN p[n] = ProcFields

\* Killing a process leaves every other process alone.
LEMMA KilledIs ==
  ASSUME NEW p, Procs(p), NEW v
  PROVE  /\ Procs(Pool!Killed(p, v))
         /\ \A n \in Pool!Procs : n # v => Pool!Killed(p, v)[n] = p[n]
         /\ \A n \in Pool!Procs : n = v => Pool!Killed(p, v)[n].st = "dead"
<1>1. CASE v = 0
  BY <1>1 DEF Pool!Killed, Procs, Pool!Procs
<1>2. CASE v # 0
  <2>1. Pool!Killed(p, v) = [p EXCEPT ![v].st = "dead", ![v].in = <<>>]
    BY <1>2 DEF Pool!Killed
  <2> QED BY <2>1 DEF Procs, ProcFields
<1> QED BY <1>1, <1>2

\* Leaving the locks changes no process and no pipe.
LEMMA UnlockIs ==
  ASSUME NEW p, Procs(p), NEW c
  PROVE  /\ Procs(Pool!Unlock(p, c))
         /\ \A n \in Pool!Procs : /\ Pool!Unlock(p, c)[n].st = p[n].st
                                  /\ Pool!Unlock(p, c)[n].in = p[n].in
                                  /\ Pool!Unlock(p, c)[n].out = p[n].out
BY DEF Procs, ProcFields, Pool!Unlock

\* A pooled call ends, having killed at most the process it popped.
LEMMA Ended ==
  ASSUME PoolInv, NEW c \in Call, call[c].pc \notin {"exchange", "done"}, UNCHANGED table,
         NEW how \in {"failed", "cancelled"}, Pool!End(c, how), Procs(proc'),
         \A n \in Pool!Procs :
           \/ proc'[n].st = proc[n].st /\ proc'[n].in = proc[n].in /\ proc'[n].out = proc[n].out
           \/ n = call[c].victim /\ proc'[n].st # "none"
  PROVE  PoolInv'
<1>1. /\ DOMAIN call' = Call /\ DOMAIN call'[c] = DOMAIN call[c]
      /\ \A d \in Call \ {c} : call'[d] = call[d]
      /\ call'[c].pc = how /\ call'[c].sess = call[c].sess /\ call'[c].victim = 0
  BY DEF PoolInv, PoolTypes, Pool!End
<1>2. PoolTypes'
  BY <1>1 DEF PoolInv, PoolTypes, Procs, ProcFields
<1> QED BY <1>1, <1>2, PooledStep

\* A step that starts a process for a call that will hand it to the pool.
LEMMA FirstUse ==
  ASSUME PoolInv, NEW c \in Call, NEW n \in Pool!Procs, proc[n].st = "none",
         call[c].pc = "get", UNCHANGED table,
         proc' = [proc EXCEPT ![n].st = "starting"],
         call' = [call EXCEPT ![c].pc = "spawn", ![c].victim = n]
  PROVE  PoolInv'
<1>1. PoolTypes'
  BY DEF PoolInv, PoolTypes
<1>2. /\ call'[c].pc = "spawn" /\ call'[c].victim = n /\ call'[c].sess = call[c].sess
      /\ \A d \in Call \ {c} : call'[d] = call[d]
  BY DEF PoolInv, PoolTypes
<1>3. /\ proc'[n].st = "starting" /\ \A m \in Pool!Procs \ {n} : proc'[m] = proc[m]
  BY DEF PoolInv, PoolTypes
<1>4. ~Known(n)
  BY DEF PoolInv
<1>5. ASSUME NEW e \in Call, call'[e].pc = "exchange" PROVE OwnProcess(e)'
  <2>1. e # c /\ call'[e] = call[e] /\ OwnProcess(e)
    BY <1>2, <1>5 DEF PoolInv
  <2>2. call[e].sess # n
    BY <1>4 DEF Known
  <2>3. \A d \in Call \ {e} : call'[d].sess # call[e].sess /\ call'[d].victim # call[e].sess
    BY <1>2, <2>1, <2>2 DEF OwnProcess
  <2> QED BY <1>3, <2>1, <2>2, <2>3 DEF OwnProcess
<1>6. ASSUME NEW m \in Pool!Procs, proc'[m].st = "none" PROVE ~Known(m)' /\ proc'[m].out = <<>>
  <2>1. m # n /\ proc'[m] = proc[m]
    BY <1>3, <1>6
  <2>2. ~Known(m) /\ proc[m].out = <<>>
    BY <1>6, <2>1 DEF PoolInv
  <2> QED BY <1>2, <2>1, <2>2 DEF Known
<1>7. Pool!OwnReply'
  BY <1>2 DEF PoolInv, Pool!OwnReply
<1> QED BY <1>1, <1>5, <1>6, <1>7 DEF PoolInv

\* A process that ends takes the requests it was sent with it.
LEMMA AProcessDies ==
  ASSUME PoolInv, NEW n \in Pool!Procs, proc[n].st # "none", UNCHANGED <<table, call>>,
         proc' = [proc EXCEPT ![n].st = "dead", ![n].in = <<>>]
  PROVE  PoolInv'
<1>1. PoolTypes'
  BY DEF PoolInv, PoolTypes
<1>2. /\ proc'[n].st = "dead" /\ proc'[n].in = <<>> /\ proc'[n].out = proc[n].out
      /\ \A m \in Pool!Procs \ {n} : proc'[m] = proc[m]
  BY DEF PoolInv, PoolTypes
<1>3. \A c : <<>> \in Seq({c})
  OBVIOUS
<1>4. \A e \in Call : call'[e].pc = "exchange" => OwnProcess(e)'
  BY ZenonT(30), <1>2, <1>3 DEF PoolInv, OwnProcess
<1>5. \A m \in Pool!Procs : proc'[m].st = "none" => ~Known(m)' /\ proc'[m].out = <<>>
  BY <1>2 DEF PoolInv, Known
<1> QED BY <1>1, <1>4, <1>5 DEF PoolInv, Pool!OwnReply

\* PluginProcessClient: a call that succeeds has the reply to its own request,
\* for any calls, processes and capabilities, although a call that replaces
\* the pooled session may share the new process with another call.
LEMMA PoolSafe == Pool!Spec => []Pool!OwnReply
<1>1. Pool!Init => PoolInv
  <2> SUFFICES ASSUME Pool!Init PROVE PoolInv
    OBVIOUS
  <2>1. PoolTypes
    BY DEF Pool!Init, Pool!NoProc, Pool!NewCall, PoolTypes
  <2>2. /\ table = 0
        /\ \A c \in Call : call[c].sess = 0 /\ call[c].victim = 0 /\ call[c].pc = "idle"
        /\ \A n \in Pool!Procs : proc[n].out = <<>>
    BY DEF Pool!Init, Pool!NoProc, Pool!NewCall
  <2>3. \A n \in Pool!Procs : n # 0
    BY DEF Pool!Procs
  <2> QED BY <2>1, <2>2, <2>3 DEF PoolInv, Known, Pool!OwnReply
<1>2. PoolInv /\ [Pool!Next]_(Pool!vars) => PoolInv'
  <2> SUFFICES ASSUME PoolInv, [Pool!Next]_(Pool!vars) PROVE PoolInv'
    OBVIOUS
  <2>1. ASSUME NEW c \in Call, Pool!Start(c) PROVE PoolInv'
    <3>1. PoolTypes'
      BY <2>1 DEF PoolInv, PoolTypes, Pool!Start
    <3>2. /\ call[c].pc \notin {"exchange", "done"}
          /\ call'[c].pc # "exchange" /\ (call'[c].pc = "done" => call'[c].got = {c})
          /\ \A d \in Call \ {c} : call'[d] = call[d]
      BY <2>1 DEF PoolInv, PoolTypes, Pool!Start
    <3>3. /\ call'[c].sess \in {call[c].sess, call[c].victim, table}
          /\ call'[c].victim \in {call[c].victim, table, 0}
          /\ table' \in {table, call[c].victim, 0}
      BY <2>1 DEF PoolInv, PoolTypes, Pool!Start
    <3>4. \A n \in Pool!Procs :
            \/ proc'[n].st = proc[n].st /\ proc'[n].in = proc[n].in /\ proc'[n].out = proc[n].out
            \/ n \in {call[c].sess, call[c].victim, table} /\ proc'[n].st # "none"
      BY <2>1 DEF PoolInv, PoolTypes, Known, Pool!Start
    <3> QED BY <3>1, <3>2, <3>3, <3>4, PooledStep
  <2>2. ASSUME NEW c \in Call, Pool!Spawned(c) PROVE PoolInv'
    <3>1. PoolTypes'
      BY <2>2 DEF PoolInv, PoolTypes, Pool!Spawned, Pool!Has
    <3>2. /\ call[c].pc \notin {"exchange", "done"}
          /\ call'[c].pc # "exchange" /\ (call'[c].pc = "done" => call'[c].got = {c})
          /\ \A d \in Call \ {c} : call'[d] = call[d]
      BY <2>2 DEF PoolInv, PoolTypes, Pool!Spawned, Pool!Has
    <3>3. /\ call'[c].sess \in {call[c].sess, call[c].victim, table}
          /\ call'[c].victim \in {call[c].victim, table, 0}
          /\ table' \in {table, call[c].victim, 0}
      BY <2>2 DEF PoolInv, PoolTypes, Pool!Spawned, Pool!Has
    <3>4. \A n \in Pool!Procs :
            \/ proc'[n].st = proc[n].st /\ proc'[n].in = proc[n].in /\ proc'[n].out = proc[n].out
            \/ n \in {call[c].sess, call[c].victim, table} /\ proc'[n].st # "none"
      BY <2>2 DEF PoolInv, PoolTypes, Known, Pool!Spawned, Pool!Has
    <3> QED BY <3>1, <3>2, <3>3, <3>4, PooledStep
  <2>3. ASSUME NEW c \in Call, Pool!SpawnFails(c) PROVE PoolInv'
    <3> DEFINE v == call[c].victim
               stray == [proc EXCEPT ![v].st = "stray"]
    <3>1. /\ \E how \in {"failed", "cancelled"} : Pool!End(c, how)
          /\ proc' = Pool!Unlock(Pool!Killed(proc, v), c) \/ proc' = Pool!Unlock(stray, c)
          /\ UNCHANGED table /\ call[c].pc = "spawn"
      BY <2>3 DEF Pool!SpawnFails
    <3>2. Procs(proc)
      BY DEF PoolInv, PoolTypes, Procs, ProcFields
    <3>3. Procs(stray) /\ \A n \in Pool!Procs : n # v => stray[n] = proc[n]
      BY <3>2 DEF Procs, ProcFields
    <3>4. \A n \in Pool!Procs : n = v => stray[n].st = "stray"
      BY <3>2 DEF Procs, ProcFields
    <3>5. Procs(Pool!Killed(proc, v))
      BY <3>2, KilledIs
    <3> HIDE DEF v, stray
    <3>6. CASE proc' = Pool!Unlock(Pool!Killed(proc, v), c)
      <4>1. /\ Procs(proc')
            /\ \A n \in Pool!Procs :
                 \/ proc'[n].st = proc[n].st /\ proc'[n].in = proc[n].in /\ proc'[n].out = proc[n].out
                 \/ n = v /\ proc'[n].st # "none"
        BY <3>2, <3>5, <3>6, KilledIs, UnlockIs
      <4> QED BY <3>1, <4>1, Ended DEF v
    <3>7. CASE proc' = Pool!Unlock(stray, c)
      <4>1. /\ Procs(proc')
            /\ \A n \in Pool!Procs :
                 \/ proc'[n].st = proc[n].st /\ proc'[n].in = proc[n].in /\ proc'[n].out = proc[n].out
                 \/ n = v /\ proc'[n].st # "none"
        BY <3>3, <3>4, <3>7, UnlockIs
      <4> QED BY <3>1, <4>1, Ended DEF v
    <3> QED BY <3>1, <3>6, <3>7
  <2>4. ASSUME NEW c \in Call, Pool!LockSession(c) PROVE PoolInv'
    <3>1. PoolTypes'
      BY <2>4 DEF PoolInv, PoolTypes, Pool!LockSession
    <3>2. /\ call[c].pc \notin {"exchange", "done"}
          /\ call'[c].pc # "exchange" /\ (call'[c].pc = "done" => call'[c].got = {c})
          /\ \A d \in Call \ {c} : call'[d] = call[d]
      BY <2>4 DEF PoolInv, PoolTypes, Pool!LockSession
    <3>3. /\ call'[c].sess \in {call[c].sess, call[c].victim, table}
          /\ call'[c].victim \in {call[c].victim, table, 0}
          /\ table' \in {table, call[c].victim, 0}
      BY <2>4 DEF PoolInv, PoolTypes, Pool!LockSession
    <3>4. \A n \in Pool!Procs :
            \/ proc'[n].st = proc[n].st /\ proc'[n].in = proc[n].in /\ proc'[n].out = proc[n].out
            \/ n \in {call[c].sess, call[c].victim, table} /\ proc'[n].st # "none"
      BY <2>4 DEF PoolInv, PoolTypes, Known, Pool!LockSession
    <3> QED BY <3>1, <3>2, <3>3, <3>4, PooledStep
  <2>5. ASSUME NEW c \in Call, Pool!Dropped(c) PROVE PoolInv'
    <3>1. PoolTypes'
      BY <2>5 DEF PoolInv, PoolTypes, Pool!Dropped, Pool!Killed
    <3>2. /\ call[c].pc \notin {"exchange", "done"}
          /\ call'[c].pc # "exchange" /\ (call'[c].pc = "done" => call'[c].got = {c})
          /\ \A d \in Call \ {c} : call'[d] = call[d]
      BY <2>5 DEF PoolInv, PoolTypes, Pool!Dropped, Pool!Killed
    <3>3. /\ call'[c].sess \in {call[c].sess, call[c].victim, table}
          /\ call'[c].victim \in {call[c].victim, table, 0}
          /\ table' \in {table, call[c].victim, 0}
      BY <2>5 DEF PoolInv, PoolTypes, Pool!Dropped, Pool!Killed
    <3>4. \A n \in Pool!Procs :
            \/ proc'[n].st = proc[n].st /\ proc'[n].in = proc[n].in /\ proc'[n].out = proc[n].out
            \/ n \in {call[c].sess, call[c].victim, table} /\ proc'[n].st # "none"
      BY <2>5 DEF PoolInv, PoolTypes, Known, Pool!Dropped, Pool!Killed
    <3> QED BY <3>1, <3>2, <3>3, <3>4, PooledStep
  <2>6. ASSUME NEW c \in Call, Pool!Send(c) PROVE PoolInv'
    <3>1. PoolTypes'
      BY <2>6 DEF PoolInv, PoolTypes, Pool!Send, Pool!Pop
    <3>2. /\ call[c].pc \notin {"exchange", "done"}
          /\ call'[c].pc # "exchange" /\ (call'[c].pc = "done" => call'[c].got = {c})
          /\ \A d \in Call \ {c} : call'[d] = call[d]
      BY <2>6 DEF PoolInv, PoolTypes, Pool!Send, Pool!Pop
    <3>3. /\ call'[c].sess \in {call[c].sess, call[c].victim, table}
          /\ call'[c].victim \in {call[c].victim, table, 0}
          /\ table' \in {table, call[c].victim, 0}
      BY <2>6 DEF PoolInv, PoolTypes, Pool!Send, Pool!Pop
    <3>4. \A n \in Pool!Procs :
            \/ proc'[n].st = proc[n].st /\ proc'[n].in = proc[n].in /\ proc'[n].out = proc[n].out
            \/ n \in {call[c].sess, call[c].victim, table} /\ proc'[n].st # "none"
      BY <2>6 DEF PoolInv, PoolTypes, Known, Pool!Send, Pool!Pop
    <3> QED BY <3>1, <3>2, <3>3, <3>4, PooledStep
  <2>7. ASSUME NEW c \in Call, Pool!Read(c) PROVE PoolInv'
    <3>1. PoolTypes'
      BY <2>7 DEF PoolInv, PoolTypes, Pool!Read, Pool!Pop
    <3>2. /\ call[c].pc \notin {"exchange", "done"}
          /\ call'[c].pc # "exchange" /\ (call'[c].pc = "done" => call'[c].got = {c})
          /\ \A d \in Call \ {c} : call'[d] = call[d]
      BY <2>7 DEF PoolInv, PoolTypes, Pool!Read, Pool!Pop
    <3>3. /\ call'[c].sess \in {call[c].sess, call[c].victim, table}
          /\ call'[c].victim \in {call[c].victim, table, 0}
          /\ table' \in {table, call[c].victim, 0}
      BY <2>7 DEF PoolInv, PoolTypes, Pool!Read, Pool!Pop
    <3>4. \A n \in Pool!Procs :
            \/ proc'[n].st = proc[n].st /\ proc'[n].in = proc[n].in /\ proc'[n].out = proc[n].out
            \/ n \in {call[c].sess, call[c].victim, table} /\ proc'[n].st # "none"
      BY <2>7 DEF PoolInv, PoolTypes, Known, Pool!Read, Pool!Pop
    <3> QED BY <3>1, <3>2, <3>3, <3>4, PooledStep
  <2>8. ASSUME NEW c \in Call, Pool!Take(c) PROVE PoolInv'
    <3> DEFINE s == call[c].sess
               m == Head(proc[s].out)
               taken == [proc EXCEPT ![s].out = Tail(@)]
    <3>1. /\ call[c].pc = "read"
          /\ IF m = c
             THEN /\ proc' = Pool!Unlock(taken, c) /\ UNCHANGED table
                  /\ call' = [call EXCEPT ![c] =
                                [@ EXCEPT !.pc = "done", !.lk = 0, !.got = {m}]]
             ELSE /\ proc' = taken /\ table' = 0
                  /\ call' = [call EXCEPT ![c].pc = "failing", ![c].victim = table]
      BY <2>8 DEF Pool!Take, Pool!Pop, Pool!IsReply
    <3>2. Procs(proc)
      BY DEF PoolInv, PoolTypes, Procs, ProcFields
    <3>3. /\ Procs(taken) /\ \A n \in Pool!Procs : n # s => taken[n] = proc[n]
          /\ \A n \in Pool!Procs : taken[n].st = proc[n].st
      BY <3>2 DEF Procs, ProcFields
    <3> HIDE DEF taken, m
    <3>4. /\ Procs(proc')
          /\ \A n \in Pool!Procs : /\ proc'[n].st = proc[n].st
                                   /\ n # s => /\ proc'[n].in = proc[n].in
                                               /\ proc'[n].out = proc[n].out
      BY <3>1, <3>3, UnlockIs
    <3>5. CASE m = c
      <4>1. /\ UNCHANGED table
            /\ call' = [call EXCEPT ![c] = [@ EXCEPT !.pc = "done", !.lk = 0, !.got = {m}]]
        BY <3>1, <3>5
      <4>2. /\ DOMAIN call' = Call /\ DOMAIN call'[c] = DOMAIN call[c]
            /\ \A d \in Call \ {c} : call'[d] = call[d]
            /\ call'[c].sess = s /\ call'[c].victim = call[c].victim
            /\ call'[c].pc = "done" /\ call'[c].got = {m}
        BY <4>1 DEF PoolInv, PoolTypes
      <4>3. PoolTypes'
        BY <3>4, <4>2 DEF PoolInv, PoolTypes, Procs, ProcFields
      <4>4. \A n \in Pool!Procs : n = s => proc'[n].st # "none"
        BY <3>4 DEF PoolInv, Known
      <4> QED BY <3>1, <3>4, <3>5, <4>1, <4>2, <4>3, <4>4, PooledStep
    <3>6. CASE m # c
      <4>1. /\ table' = 0
            /\ call' = [call EXCEPT ![c].pc = "failing", ![c].victim = table]
        BY <3>1, <3>6
      <4>2. /\ DOMAIN call' = Call /\ DOMAIN call'[c] = DOMAIN call[c]
            /\ \A d \in Call \ {c} : call'[d] = call[d]
            /\ call'[c].sess = s /\ call'[c].victim = table /\ call'[c].pc = "failing"
        BY <4>1 DEF PoolInv, PoolTypes
      <4>3. PoolTypes'
        BY <3>4, <4>2 DEF PoolInv, PoolTypes, Procs, ProcFields
      <4>4. \A n \in Pool!Procs : n = s => proc'[n].st # "none"
        BY <3>4 DEF PoolInv, Known
      <4> QED BY <3>1, <3>4, <4>1, <4>2, <4>3, <4>4, PooledStep
    <3> QED BY <3>5, <3>6
  <2>9. ASSUME NEW c \in Call, Pool!Serve(c) PROVE PoolInv'
    <3>1. PoolTypes'
      BY <2>9 DEF PoolInv, PoolTypes, Pool!Serve
    <3>2. /\ call[c].pc \notin {"exchange", "done"}
          /\ call'[c].pc # "exchange" /\ (call'[c].pc = "done" => call'[c].got = {c})
          /\ \A d \in Call \ {c} : call'[d] = call[d]
      BY <2>9 DEF PoolInv, PoolTypes, Pool!Serve
    <3>3. /\ call'[c].sess \in {call[c].sess, call[c].victim, table}
          /\ call'[c].victim \in {call[c].victim, table, 0}
          /\ table' \in {table, call[c].victim, 0}
      BY <2>9 DEF PoolInv, PoolTypes, Pool!Serve
    <3>4. \A n \in Pool!Procs :
            \/ proc'[n].st = proc[n].st /\ proc'[n].in = proc[n].in /\ proc'[n].out = proc[n].out
            \/ n \in {call[c].sess, call[c].victim, table} /\ proc'[n].st # "none"
      BY <2>9 DEF PoolInv, PoolTypes, Known, Pool!Serve
    <3> QED BY <3>1, <3>2, <3>3, <3>4, PooledStep
  <2>10. ASSUME NEW c \in Call, Pool!Broken(c) PROVE PoolInv'
    <3>1. PoolTypes'
      BY <2>10 DEF PoolInv, PoolTypes, Pool!Broken, Pool!Pop
    <3>2. /\ call[c].pc \notin {"exchange", "done"}
          /\ call'[c].pc # "exchange" /\ (call'[c].pc = "done" => call'[c].got = {c})
          /\ \A d \in Call \ {c} : call'[d] = call[d]
      BY <2>10 DEF PoolInv, PoolTypes, Pool!Broken, Pool!Pop
    <3>3. /\ call'[c].sess \in {call[c].sess, call[c].victim, table}
          /\ call'[c].victim \in {call[c].victim, table, 0}
          /\ table' \in {table, call[c].victim, 0}
      BY <2>10 DEF PoolInv, PoolTypes, Pool!Broken, Pool!Pop
    <3>4. \A n \in Pool!Procs :
            \/ proc'[n].st = proc[n].st /\ proc'[n].in = proc[n].in /\ proc'[n].out = proc[n].out
            \/ n \in {call[c].sess, call[c].victim, table} /\ proc'[n].st # "none"
      BY <2>10 DEF PoolInv, PoolTypes, Known, Pool!Broken, Pool!Pop
    <3> QED BY <3>1, <3>2, <3>3, <3>4, PooledStep
  <2>11. ASSUME NEW c \in Call, Pool!Failed(c) PROVE PoolInv'
    <3> DEFINE v == call[c].victim
    <3>1. /\ \E how \in {"failed", "cancelled"} : Pool!End(c, how)
          /\ proc' = Pool!Unlock(Pool!Killed(proc, v), c)
          /\ UNCHANGED table /\ call[c].pc \in {"failing", "cancelling"}
      BY <2>11 DEF Pool!Failed
    <3>2. Procs(proc) /\ Procs(Pool!Killed(proc, v))
      BY KilledIs DEF PoolInv, PoolTypes, Procs, ProcFields
    <3>3. /\ Procs(proc')
          /\ \A n \in Pool!Procs :
               \/ proc'[n].st = proc[n].st /\ proc'[n].in = proc[n].in /\ proc'[n].out = proc[n].out
               \/ n = v /\ proc'[n].st # "none"
      BY <3>1, <3>2, KilledIs, UnlockIs
    <3> QED BY <3>1, <3>3, Ended
  <2>12. ASSUME NEW c \in Call, Pool!CancelWaiting(c) PROVE PoolInv'
    <3>1. /\ Pool!End(c, "cancelled") /\ proc' = Pool!Unlock(proc, c)
          /\ UNCHANGED table /\ call[c].pc \in {"get", "want"}
      BY <2>12 DEF Pool!CancelWaiting
    <3>2. Procs(proc)
      BY DEF PoolInv, PoolTypes, Procs, ProcFields
    <3> QED BY <3>1, <3>2, Ended, UnlockIs
  <2>13. ASSUME NEW c \in Call, Pool!GetSession(c) PROVE PoolInv'
    <3>1. CASE table # 0
      <4>1. /\ UNCHANGED <<table, proc>>
            /\ \E n \in {"want", "send"} : call' = [call EXCEPT ![c].sess = table, ![c].pc = n]
            /\ call[c].pc = "get"
        BY <2>13, <3>1 DEF Pool!GetSession, Pool!Has
      <4>2. PoolTypes'
        BY <4>1 DEF PoolInv, PoolTypes
      <4>3. /\ call'[c].pc \in {"want", "send"} /\ call'[c].sess = table
            /\ call'[c].victim = call[c].victim
            /\ \A d \in Call \ {c} : call'[d] = call[d]
        <5>1. PICK n \in {"want", "send"} :
                call' = [call EXCEPT ![c].sess = table, ![c].pc = n]
          BY <4>1
        <5> QED BY <5>1 DEF PoolInv, PoolTypes
      <4> QED BY <4>1, <4>2, <4>3, PooledStep
    <3>2. CASE table = 0
      <4>1. PICK n \in Pool!Procs :
              /\ proc[n].st = "none"
              /\ proc' = [proc EXCEPT ![n].st = "starting"]
              /\ call' = [call EXCEPT ![c].pc = "spawn", ![c].victim = n]
        BY <2>13, <3>2 DEF Pool!GetSession, Pool!Fresh
      <4>2. UNCHANGED table /\ call[c].pc = "get"
        BY <2>13 DEF Pool!GetSession
      <4> QED BY <4>1, <4>2, FirstUse
    <3> QED BY <3>1, <3>2
  <2>14. ASSUME NEW c \in Call, Pool!Exchange(c) PROVE PoolInv'
    <3>1. PICK n \in Pool!Procs :
            /\ proc[n].st = "none"
            /\ proc' = [proc EXCEPT ![n].st = "live", ![n].in = <<c>>]
            /\ call' = [call EXCEPT ![c].pc = "exchange", ![c].sess = n]
      BY <2>14 DEF Pool!Exchange, Pool!Fresh
    <3>2. UNCHANGED table /\ call[c].pc = "idle"
      BY <2>14 DEF Pool!Exchange
    <3>3. PoolTypes'
      BY <3>1 DEF PoolInv, PoolTypes
    <3>4. ~Known(n) /\ proc[n].out = <<>>
      BY <3>1 DEF PoolInv
    <3>5. /\ call'[c].pc = "exchange" /\ call'[c].sess = n /\ call'[c].victim = call[c].victim
          /\ \A d \in Call \ {c} : call'[d] = call[d]
      BY <3>1 DEF PoolInv, PoolTypes
    <3>6. /\ proc'[n].st = "live" /\ proc'[n].in = <<c>> /\ proc'[n].out = <<>>
          /\ \A m \in Pool!Procs \ {n} : proc'[m] = proc[m]
      BY <3>1, <3>4 DEF PoolInv, PoolTypes
    <3>7. OwnProcess(c)'
      <4>1. <<c>> \in Seq({c}) /\ <<>> \in Seq({c})
        OBVIOUS
      <4> QED BY <3>2, <3>4, <3>5, <3>6, <4>1 DEF OwnProcess, Known
    <3>8. ASSUME NEW e \in Call, call'[e].pc = "exchange" PROVE OwnProcess(e)'
      <4>1. CASE e = c
        BY <3>5, <3>7, <4>1
      <4>2. CASE e # c
        <5>1. call'[e] = call[e] /\ OwnProcess(e)
          BY <3>5, <3>8, <4>2 DEF PoolInv
        <5>2. call[e].sess # n
          BY <3>4 DEF Known
        <5> QED BY <3>2, <3>5, <3>6, <5>1, <5>2 DEF OwnProcess
      <4> QED BY <4>1, <4>2
    <3>9. \A m \in Pool!Procs : proc'[m].st = "none" => ~Known(m)' /\ proc'[m].out = <<>>
      BY <3>2, <3>5, <3>6 DEF PoolInv, Known
    <3>10. Pool!OwnReply'
      BY <3>5 DEF PoolInv, Pool!OwnReply
    <3> QED BY <3>3, <3>8, <3>9, <3>10 DEF PoolInv
  <2>15. ASSUME NEW c \in Call, Pool!Exchanged(c) PROVE PoolInv'
    <3> DEFINE s == call[c].sess
    <3>1. call[c].pc = "exchange" /\ OwnProcess(c) /\ UNCHANGED table
      BY <2>15 DEF PoolInv, Pool!Exchanged
    <3>2. s \in Pool!Procs /\ s # 0 /\ proc[s].out \in Seq({c})
      BY <3>1 DEF OwnProcess, Pool!Procs
    <3>3. proc' = [proc EXCEPT ![s].st = "dead", ![s].in = <<>>]
      BY <2>15, <3>2 DEF Pool!Exchanged, Pool!Killed
    <3>4. /\ \A d \in Call \ {c} : call'[d] = call[d]
          /\ DOMAIN call' = Call /\ DOMAIN call'[c] = DOMAIN call[c]
          /\ call'[c].pc \in {"done", "failed", "cancelled"}
          /\ call'[c].sess = s /\ call'[c].victim \in {call[c].victim, 0}
      <4>1. CASE call' = [call EXCEPT ![c] = [@ EXCEPT !.pc = "done",
                            !.got = {Head(proc[s].out)} \cap Call]]
        BY <4>1 DEF PoolInv, PoolTypes
      <4>2. ASSUME NEW how \in {"failed", "cancelled"}, Pool!End(c, how)
            PROVE  /\ \A d \in Call \ {c} : call'[d] = call[d]
                   /\ DOMAIN call' = Call /\ DOMAIN call'[c] = DOMAIN call[c]
                   /\ call'[c].pc = how /\ call'[c].sess = s /\ call'[c].victim = 0
        BY <4>2 DEF PoolInv, PoolTypes, Pool!End
      <4> QED BY <2>15, <4>1, <4>2 DEF Pool!Exchanged
    <3>5. call'[c].pc = "done" => call'[c].got = {c}
      <4>1. CASE /\ proc[s].out # <<>>
                 /\ call' = [call EXCEPT ![c] = [@ EXCEPT !.pc = "done",
                            !.got = {Head(proc[s].out)} \cap Call]]
        <5>1. Head(proc[s].out) = c
          BY <3>2, <4>1
        <5>2. call'[c].got = {Head(proc[s].out)} \cap Call
          BY <4>1 DEF PoolInv, PoolTypes
        <5> QED BY <5>1, <5>2
      <4>2. ASSUME NEW how \in {"failed", "cancelled"}, Pool!End(c, how)
            PROVE  call'[c].pc # "done"
        BY <4>2 DEF PoolInv, PoolTypes, Pool!End
      <4> QED BY <2>15, <4>1, <4>2 DEF Pool!Exchanged
    <3>6. /\ proc'[s].st = "dead" /\ \A m \in Pool!Procs \ {s} : proc'[m] = proc[m]
          /\ DOMAIN proc' = Pool!Procs /\ DOMAIN proc'[s] = DOMAIN proc[s]
      BY <3>2, <3>3 DEF PoolInv, PoolTypes
    <3> HIDE DEF s
    <3>7. PoolTypes'
      BY <3>4, <3>6 DEF PoolInv, PoolTypes
    <3>8. \A n \in Pool!Procs : n # 0 /\ (Known(n)' => Known(n))
      BY <3>1, <3>4 DEF Known, s, Pool!Procs
    <3>9. ASSUME NEW e \in Call, call'[e].pc = "exchange" PROVE OwnProcess(e)'
      <4>1. e # c /\ call'[e] = call[e] /\ OwnProcess(e)
        BY <3>4, <3>9 DEF PoolInv
      <4>2. call[e].sess # s /\ call[e].sess # 0
        BY <3>2, <4>1 DEF OwnProcess, s, Pool!Procs
      <4> QED BY <3>1, <3>4, <3>6, <4>1, <4>2 DEF OwnProcess
    <3>10. \A m \in Pool!Procs : proc'[m].st = "none" => ~Known(m)' /\ proc'[m].out = <<>>
      BY <3>6, <3>8 DEF PoolInv
    <3>11. Pool!OwnReply'
      BY <3>4, <3>5 DEF PoolInv, Pool!OwnReply
    <3> QED BY <3>7, <3>9, <3>10, <3>11 DEF PoolInv
  <2>16. ASSUME NEW n \in Pool!Procs, Pool!PluginReplies(n) PROVE PoolInv'
    <3>1. /\ proc' = [proc EXCEPT ![n].out = Append(@, Head(proc[n].in)), ![n].in = Tail(@)]
          /\ UNCHANGED <<table, call>> /\ proc[n].st = "live" /\ proc[n].in # <<>>
      BY <2>16 DEF Pool!PluginReplies
    <3>2. /\ proc'[n].st = "live" /\ proc'[n].in = Tail(proc[n].in)
          /\ proc'[n].out = Append(proc[n].out, Head(proc[n].in))
          /\ DOMAIN proc' = Pool!Procs /\ DOMAIN proc'[n] = DOMAIN proc[n]
          /\ \A m \in Pool!Procs \ {n} : proc'[m] = proc[m]
      BY <3>1 DEF PoolInv, PoolTypes
    <3>3. PoolTypes'
      BY <3>1, <3>2 DEF PoolInv, PoolTypes
    <3>4. ASSUME NEW e \in Call, call'[e].pc = "exchange" PROVE OwnProcess(e)'
      <4>1. call'[e] = call[e] /\ OwnProcess(e)
        BY <3>1, <3>4 DEF PoolInv
      <4>2. CASE call[e].sess # n
        BY <3>1, <3>2, <4>1, <4>2 DEF OwnProcess
      <4>3. CASE call[e].sess = n
        <5>1. proc[n].in \in Seq({e}) /\ proc[n].out \in Seq({e})
          BY <4>1, <4>3 DEF OwnProcess
        <5>2. Head(proc[n].in) \in {e} /\ Tail(proc[n].in) \in Seq({e})
          BY <3>1, <5>1, HeadTailProperties
        <5>3. Append(proc[n].out, Head(proc[n].in)) \in Seq({e})
          BY <5>1, <5>2, AppendProperties
        <5> QED BY <3>1, <3>2, <4>1, <4>3, <5>2, <5>3 DEF OwnProcess
      <4> QED BY <4>2, <4>3
    <3>5. \A m \in Pool!Procs : proc'[m].st = "none" => ~Known(m)' /\ proc'[m].out = <<>>
      BY <3>1, <3>2 DEF PoolInv, Known
    <3> QED BY <3>1, <3>3, <3>4, <3>5 DEF PoolInv, Pool!OwnReply
  <2>17. ASSUME NEW n \in Pool!Procs, NEW cap \in Asked, Pool!PluginAsks(n, cap) PROVE PoolInv'
    <3>1. /\ proc' = [proc EXCEPT ![n].out = Append(@, cap)]
          /\ UNCHANGED <<table, call>> /\ proc[n].st = "live"
          /\ \A c \in Call : call[c].pc # "exchange" \/ call[c].sess # n
      BY <2>17 DEF Pool!PluginAsks
    <3>2. /\ proc'[n].st = "live"
          /\ DOMAIN proc' = Pool!Procs /\ DOMAIN proc'[n] = DOMAIN proc[n]
          /\ \A m \in Pool!Procs \ {n} : proc'[m] = proc[m]
      BY <3>1 DEF PoolInv, PoolTypes
    <3>3. PoolTypes'
      BY <3>1, <3>2 DEF PoolInv, PoolTypes
    <3>4. \A e \in Call : call'[e].pc = "exchange" => OwnProcess(e)'
      BY <3>1, <3>2 DEF PoolInv, OwnProcess
    <3>5. \A m \in Pool!Procs : proc'[m].st = "none" => ~Known(m)' /\ proc'[m].out = <<>>
      BY <3>1, <3>2 DEF PoolInv, Known
    <3> QED BY <3>1, <3>3, <3>4, <3>5 DEF PoolInv, Pool!OwnReply
  <2>18. ASSUME NEW n \in Pool!Procs, Pool!PluginDies(n) PROVE PoolInv'
    <3>1. n # 0 /\ proc[n].st = "live" /\ UNCHANGED <<table, call>>
      BY <2>18 DEF Pool!PluginDies, Pool!Procs
    <3>2. proc' = [proc EXCEPT ![n].st = "dead", ![n].in = <<>>]
      BY <2>18, <3>1 DEF Pool!PluginDies, Pool!Killed
    <3> QED BY <3>1, <3>2, AProcessDies
  <2>19. CASE Pool!Close
    <3>1. /\ table # 0 /\ proc' = Pool!Killed(proc, table) /\ table' = 0 /\ UNCHANGED call
          /\ \A c \in Call : call[c].pc \in {"done", "failed", "cancelled"}
      BY <2>19 DEF Pool!Close
    <3>2. proc' = [proc EXCEPT ![table].st = "dead", ![table].in = <<>>]
      BY <3>1 DEF Pool!Killed
    <3>3. /\ DOMAIN proc' = Pool!Procs
          /\ \A m \in Pool!Procs \ {table} : proc'[m] = proc[m]
          /\ table \in Pool!Procs => DOMAIN proc'[table] = DOMAIN proc[table] /\ proc'[table].st = "dead"
      BY <3>2 DEF PoolInv, PoolTypes
    <3>4. PoolTypes'
      BY <3>1, <3>3 DEF PoolInv, PoolTypes
    <3>5. \A m \in Pool!Procs : m # 0 /\ (Known(m)' => Known(m))
      BY <3>1 DEF Known, Pool!Procs
    <3>6. \A m \in Pool!Procs : proc'[m].st = "none" => ~Known(m)' /\ proc'[m].out = <<>>
      BY <3>3, <3>5 DEF PoolInv
    <3> QED BY <3>1, <3>4, <3>6 DEF PoolInv, Pool!OwnReply
  <2>20. CASE UNCHANGED Pool!vars
    BY SMTT(30), <2>20 DEF Pool!vars, PoolInv, PoolTypes, Known, OwnProcess, Pool!OwnReply
  <2> QED BY <2>1, <2>2, <2>3, <2>4, <2>5, <2>6, <2>7, <2>8, <2>9, <2>10, <2>11,
        <2>12, <2>13, <2>14, <2>15, <2>16, <2>17, <2>18, <2>19, <2>20 DEF
        Pool!Next
<1>3. PoolInv => Pool!OwnReply
  BY DEF PoolInv
<1> QED BY <1>1, <1>2, <1>3, PTL DEF Pool!Spec

-----------------------------------------------------------------------------
(***************************************************************************)
(* Language servers.                                                       *)
(***************************************************************************)


LspTypes ==
  /\ DOMAIN req = Req /\ starts \in Nat
  /\ \A r \in Req : /\ DOMAIN req[r] = {"pc", "id", "gen", "read", "got"}
                    /\ req[r].gen \in Nat /\ req[r].gen <= starts
  /\ DOMAIN srv = {"st", "next", "pending", "asked", "opened", "sees"}
  /\ srv.next \in Nat
  /\ srv.asked \in Seq([id : Nat, by : Req])

Waits(r) == req[r].pc = "wait" /\ req[r].gen = starts

\* Identifiers grow while a server lives, so what the server was asked under
\* the identifier that a request waits for is that request's question; nobody
\* waits for a server that is gone.
LspInv ==
  /\ LspTypes
  /\ \A r \in Req : Waits(r) => srv.st = "up" /\ req[r].id \in Nat /\ req[r].id < srv.next
  /\ \A i \in DOMAIN srv.asked : srv.asked[i].id < srv.next
  /\ \A r \in Req, i \in DOMAIN srv.asked :
       Waits(r) /\ srv.asked[i].id = req[r].id => srv.asked[i].by = r
  /\ srv.st # "up" => srv.asked = <<>>
  /\ starting # {} => srv.st # "up"
  /\ Lsp!OwnAnswer

\* What is left of a sequence when one element is taken out.
LEMMA TakeOut ==
  ASSUME NEW S, NEW s \in Seq(S), NEW i \in 1 .. Len(s)
  PROVE  /\ SubSeq(s, 1, i - 1) \o SubSeq(s, i + 1, Len(s)) \in Seq(S)
         /\ \A j \in DOMAIN (SubSeq(s, 1, i - 1) \o SubSeq(s, i + 1, Len(s))) :
              \E k \in DOMAIN s :
                (SubSeq(s, 1, i - 1) \o SubSeq(s, i + 1, Len(s)))[j] = s[k]
<1> DEFINE a == SubSeq(s, 1, i - 1)
           b == SubSeq(s, i + 1, Len(s))
<1>0. Len(s) \in Nat /\ i \in Nat /\ DOMAIN s = 1 .. Len(s)
  OBVIOUS
<1>1. a \in Seq(S) /\ Len(a) = i - 1 /\ \A j \in 1 .. i - 1 : a[j] = s[j]
  OBVIOUS
<1>2. b \in Seq(S) /\ Len(b) = Len(s) - i /\ \A j \in 1 .. Len(s) - i : b[j] = s[i + j]
  OBVIOUS
<1> HIDE DEF a, b
<1>3. /\ a \o b \in Seq(S) /\ Len(a \o b) = Len(s) - 1
      /\ DOMAIN (a \o b) = 1 .. Len(s) - 1
  <2>1. a \o b \in Seq(S) /\ Len(a \o b) = Len(a) + Len(b)
    BY <1>1, <1>2, ConcatProperties
  <2>2. Len(a \o b) = Len(s) - 1
    BY <1>0, <1>1, <1>2, <2>1
  <2> QED BY <2>1, <2>2
<1>4. ASSUME NEW j \in 1 .. Len(s) - 1
      PROVE  \E k \in 1 .. Len(s) : (a \o b)[j] = s[k]
  <2>0. j \in Nat
    BY <1>0
  <2>1. CASE j <= i - 1
    BY <1>0, <2>0, <1>1, <1>2, <2>1
  <2>2. CASE ~(j <= i - 1)
    <3>1. (a \o b)[j] = b[j - (i - 1)]
      BY <1>1, <1>2, <2>2
    <3>2. b[j - (i - 1)] = s[j + 1]
      BY <1>2, <2>2
    <3>3. j + 1 \in 1 .. Len(s)
      BY <1>0
    <3> QED BY <3>1, <3>2, <3>3
  <2> QED BY <1>0, <2>0, <2>1, <2>2
<1> QED BY <1>0, <1>3, <1>4 DEF a, b

\* A step that leaves the server's identifiers and questions alone, and lets
\* no request start to wait, keeps the invariant.
LEMMA NoNewWait ==
  ASSUME LspInv, LspTypes', UNCHANGED <<starts, starting>>,
         srv'.st = srv.st, srv'.next = srv.next, srv'.asked = srv.asked,
         \A r \in Req : /\ Waits(r)' => Waits(r) /\ req'[r].id = req[r].id
                        /\ req'[r].pc = "done" => req[r].pc = "done" /\ req'[r].got = req[r].got
  PROVE  LspInv'
BY DEF LspInv, Waits, Lsp!OwnAnswer

\* LspManager.request and _read: a request that is answered got the answer to
\* its own question, for any requests, notifications, restarts and edits.
LEMMA LspSafe == Lsp!Spec => []Lsp!OwnAnswer
<1>1. Lsp!Init => LspInv
  <2> SUFFICES ASSUME Lsp!Init PROVE LspInv
    OBVIOUS
  <2>1. LspTypes
    BY DEF Lsp!Init, Lsp!NoServer, LspTypes
  <2>2. srv.asked = <<>> /\ starting = {} /\ \A r \in Req : req[r].pc = "idle"
    BY DEF Lsp!Init, Lsp!NoServer
  <2> QED BY <2>1, <2>2 DEF LspInv, Waits, Lsp!OwnAnswer
<1>2. LspInv /\ [Lsp!Next]_(Lsp!vars) => LspInv'
  <2> SUFFICES ASSUME LspInv, [Lsp!Next]_(Lsp!vars) PROVE LspInv'
    OBVIOUS
  <2> USE DEF Lsp!Set, Lsp!Mine, Lsp!NewId
  <2>1. ASSUME NEW r \in Req, Lsp!Ensure(r) PROVE LspInv'
    <3>1. CASE srv.st = "up"
      <4>1. LspTypes'
        BY <2>1, <3>1 DEF LspInv, LspTypes, Lsp!Ensure
      <4>2. UNCHANGED <<srv, starting, starts>> /\ req' = [req EXCEPT ![r].pc = "open", ![r].gen = starts]
        BY <2>1, <3>1 DEF Lsp!Ensure
      <4> QED BY <4>1, <4>2, NoNewWait DEF LspInv, LspTypes, Waits
    <3>2. CASE srv.st # "up"
      <4>1. /\ srv' = [st |-> "starting", next |-> 1, pending |-> {0}, asked |-> <<>>,
                       opened |-> FALSE, sees |-> 0]
            /\ starts' = starts + 1 /\ req' = [req EXCEPT ![r].pc = "start"]
        BY <2>1, <3>2 DEF Lsp!Ensure, Lsp!NoServer
      <4>2. LspTypes'
        BY <4>1 DEF LspInv, LspTypes
      <4>3. \A q \in Req : ~Waits(q)'
        BY <4>1 DEF LspInv, LspTypes, Waits
      <4> QED BY <4>1, <4>2, <4>3 DEF LspInv, LspTypes, Lsp!OwnAnswer
    <3> QED BY <3>1, <3>2
  <2>2. ASSUME NEW r \in Req, Lsp!Started(r) PROVE LspInv'
    <3>1. CASE /\ srv' = [srv EXCEPT !.st = "up", !.pending = {}]
               /\ req' = [req EXCEPT ![r].pc = "open", ![r].gen = starts]
      <4>1. UNCHANGED starts /\ starting' = {}
        BY <2>2 DEF Lsp!Started
      <4>2. LspTypes'
        BY <3>1, <4>1 DEF LspInv, LspTypes
      <4>3. \A q \in Req : Waits(q)' => Waits(q) /\ req'[q].id = req[q].id
        BY <3>1, <4>1 DEF LspInv, LspTypes, Waits
      <4> QED BY <3>1, <4>1, <4>2, <4>3 DEF LspInv, LspTypes, Waits, Lsp!OwnAnswer
    <3>2. CASE srv' = Lsp!NoServer /\ req' = [req EXCEPT ![r].pc = "failed"]
      <4>1. UNCHANGED starts /\ starting = {r} /\ starting' = {} /\ req[r].pc = "start"
        BY <2>2 DEF Lsp!Started
      <4> QED BY <3>2, <4>1 DEF LspInv, LspTypes, Waits, Lsp!OwnAnswer, Lsp!NoServer
    <3> QED BY <2>2, <3>1, <3>2 DEF Lsp!Started
  <2>3. ASSUME NEW r \in Req, Lsp!ReadText(r) PROVE LspInv'
    <3>1. LspTypes'
      BY <2>3 DEF LspInv, LspTypes, Lsp!ReadText
    <3> QED BY <2>3, <3>1, NoNewWait DEF LspInv, LspTypes, Waits, Lsp!ReadText
  <2>4. ASSUME NEW r \in Req, Lsp!DidOpen(r) PROVE LspInv'
    <3>1. /\ UNCHANGED <<starting, starts>>
          /\ srv' = srv \/ srv' = [srv EXCEPT !.opened = TRUE, !.sees = req[r].read]
          /\ \E p \in {"ask", "failed"} : req' = [req EXCEPT ![r].pc = p]
      BY <2>4 DEF Lsp!DidOpen
    <3>2. LspTypes'
      BY <3>1 DEF LspInv, LspTypes
    <3>3. /\ srv'.st = srv.st /\ srv'.next = srv.next /\ srv'.asked = srv.asked
          /\ \A q \in Req \ {r} : req'[q] = req[q]
          /\ req'[r].pc \in {"ask", "failed"}
      <4>1. PICK p \in {"ask", "failed"} : req' = [req EXCEPT ![r].pc = p]
        BY <3>1
      <4>2. req'[r].pc = p
        BY <4>1 DEF LspInv, LspTypes
      <4>3. srv'.st = srv.st /\ srv'.next = srv.next /\ srv'.asked = srv.asked
        BY <3>1 DEF LspInv, LspTypes
      <4> QED BY <4>1, <4>2, <4>3 DEF LspInv, LspTypes
    <3> QED BY <3>1, <3>2, <3>3, NoNewWait DEF LspInv, LspTypes, Waits
  <2>5. ASSUME NEW r \in Req, Lsp!Ask(r) PROVE LspInv'
    <3>1. CASE Lsp!Mine(r)
      <4> DEFINE q == [id |-> srv.next, by |-> r]
      <4>1. /\ srv' = [srv EXCEPT !.next = @ + 1, !.pending = @ \cup {srv.next},
                                  !.asked = Append(@, q)]
            /\ req' = [req EXCEPT ![r].pc = "wait", ![r].id = srv.next]
            /\ UNCHANGED <<starting, starts>> /\ srv.st = "up"
        BY <2>5, <3>1 DEF Lsp!Ask
      <4>2. q \in [id : Nat, by : Req]
        BY DEF LspInv, LspTypes
      <4>3. /\ srv'.st = "up" /\ srv'.next = srv.next + 1 /\ srv'.asked = Append(srv.asked, q)
            /\ DOMAIN srv' = DOMAIN srv
        BY <4>1 DEF LspInv, LspTypes
      <4> HIDE DEF q
      <4>4. LspTypes'
        BY <4>1, <4>2, <4>3 DEF LspInv, LspTypes
      <4>5. \A i \in DOMAIN srv'.asked :
              \/ i \in DOMAIN srv.asked /\ srv'.asked[i] = srv.asked[i]
              \/ srv'.asked[i] = q
        BY <4>2, <4>3 DEF LspInv, LspTypes
      <4>6. q.id = srv.next /\ q.by = r
        BY DEF q
      <4>7. \A i \in DOMAIN srv.asked : srv.asked[i].id \in Nat /\ srv.asked[i].id < srv.next
        <5> SUFFICES ASSUME NEW i \in DOMAIN srv.asked
                     PROVE  srv.asked[i].id \in Nat /\ srv.asked[i].id < srv.next
          OBVIOUS
        <5>1. srv.asked \in Seq([id : Nat, by : Req])
          BY DEF LspInv, LspTypes
        <5>2. srv.asked[i] \in [id : Nat, by : Req]
          <6>1. DOMAIN srv.asked = 1 .. Len(srv.asked)
            BY <5>1
          <6> QED BY <5>1, <6>1, ElementOfSeq
        <5> QED BY <5>2 DEF LspInv
      <4>8. \A i \in DOMAIN srv'.asked : srv'.asked[i].id < srv'.next
        BY <4>3, <4>5, <4>6, <4>7 DEF LspInv, LspTypes
      <4>9. \A p \in Req : Waits(p)' => IF p = r THEN req'[p].id = srv.next
                                        ELSE Waits(p) /\ req'[p].id = req[p].id
        BY <4>1 DEF LspInv, LspTypes, Waits
      <4>10. \A p \in Req : Waits(p)' => req'[p].id \in Nat /\ req'[p].id < srv'.next
        BY <4>3, <4>9 DEF LspInv, LspTypes
      <4>11. \A p \in Req, i \in DOMAIN srv'.asked :
               Waits(p)' /\ srv'.asked[i].id = req'[p].id => srv'.asked[i].by = p
        <5> SUFFICES ASSUME NEW p \in Req, NEW i \in DOMAIN srv'.asked,
                            Waits(p)', srv'.asked[i].id = req'[p].id
                     PROVE  srv'.asked[i].by = p
          OBVIOUS
        <5>1. CASE p = r
          <6>1. srv'.asked[i].id = srv.next /\ srv.next \in Nat
            BY <4>9, <5>1 DEF LspInv, LspTypes
          <6>2. ASSUME i \in DOMAIN srv.asked PROVE srv.asked[i].id # srv.next
            BY <4>7, <6>1, <6>2
          <6> QED BY <4>5, <4>6, <5>1, <6>1, <6>2
        <5>2. CASE p # r
          <6>1. Waits(p) /\ srv'.asked[i].id = req[p].id
            BY <4>9, <5>2
          <6>2. req[p].id \in Nat /\ req[p].id < srv.next /\ srv.next \in Nat
            BY <6>1 DEF LspInv, LspTypes
          <6>3. srv'.asked[i] # q
            BY <4>6, <6>1, <6>2
          <6> QED BY <4>5, <6>1, <6>3 DEF LspInv
        <5> QED BY <5>1, <5>2
      <4>12. Lsp!OwnAnswer'
        BY <4>1 DEF LspInv, LspTypes, Lsp!OwnAnswer
      <4> QED BY <4>1, <4>3, <4>4, <4>8, <4>10, <4>11, <4>12 DEF LspInv
    <3>2. CASE ~Lsp!Mine(r)
      <4>1. UNCHANGED <<srv, starting, starts>> /\ req' = [req EXCEPT ![r].pc = "failed"]
        BY <2>5, <3>2 DEF Lsp!Ask
      <4>2. LspTypes'
        BY <4>1 DEF LspInv, LspTypes
      <4> QED BY <4>1, <4>2, NoNewWait DEF LspInv, LspTypes, Waits
    <3> QED BY <3>1, <3>2
  <2>6. ASSUME NEW r \in Req, Lsp!GiveUp(r) PROVE LspInv'
    <3>1. /\ req' = [req EXCEPT ![r].pc = "failed"] /\ UNCHANGED <<starting, starts>>
          /\ srv' = srv \/ srv' = [srv EXCEPT !.pending = @ \ {req[r].id}]
      BY <2>6 DEF Lsp!GiveUp
    <3>2. LspTypes'
      BY <3>1 DEF LspInv, LspTypes
    <3> QED BY <3>1, <3>2, NoNewWait DEF LspInv, LspTypes, Waits
  <2>7. ASSUME NEW i \in DOMAIN srv.asked, Lsp!Answer(i) PROVE LspInv'
    <3> DEFINE m == srv.asked[i]
               left == SubSeq(srv.asked, 1, i - 1) \o SubSeq(srv.asked, i + 1, Len(srv.asked))
    <3>1. /\ srv' = [srv EXCEPT !.asked = left, !.pending = @ \ {m.id}]
          /\ req' = [q \in Req |-> IF Waits(q) /\ req[q].id = m.id
                                   THEN [req[q] EXCEPT !.pc = "done", !.got = {m.by}]
                                   ELSE req[q]]
          /\ UNCHANGED <<starting, starts>> /\ srv.st = "up"
      BY <2>7 DEF Lsp!Answer, Waits
    <3>2. /\ left \in Seq([id : Nat, by : Req])
          /\ \A j \in DOMAIN left : \E k \in DOMAIN srv.asked : left[j] = srv.asked[k]
      <4>1. srv.asked \in Seq([id : Nat, by : Req]) /\ i \in 1 .. Len(srv.asked)
        BY DEF LspInv, LspTypes
      <4> QED BY <4>1, TakeOut
    <3>3. /\ srv'.st = "up" /\ srv'.next = srv.next /\ srv'.asked = left
          /\ DOMAIN srv' = DOMAIN srv
      BY <3>1 DEF LspInv, LspTypes
    <3> HIDE DEF m, left
    <3>4. LspTypes'
      BY <3>1, <3>2, <3>3 DEF LspInv, LspTypes
    <3>5. \A q \in Req : Waits(q)' => Waits(q) /\ req'[q].id = req[q].id
      BY <3>1 DEF LspInv, LspTypes, Waits
    <3>6. \A q \in Req : Waits(q) /\ req[q].id = m.id => m.by = q
      BY DEF LspInv, m
    <3>7. Lsp!OwnAnswer'
      BY <3>1, <3>6 DEF LspInv, LspTypes, Lsp!OwnAnswer
    <3>8. \A j \in DOMAIN srv'.asked : srv'.asked[j].id < srv'.next
      BY <3>2, <3>3 DEF LspInv
    <3>9. \A q \in Req, j \in DOMAIN srv'.asked :
            Waits(q)' /\ srv'.asked[j].id = req'[q].id => srv'.asked[j].by = q
      BY <3>2, <3>3, <3>5 DEF LspInv
    <3>10. \A q \in Req : Waits(q)' => req'[q].id \in Nat /\ req'[q].id < srv'.next
      BY <3>3, <3>5 DEF LspInv
    <3> QED BY <3>1, <3>3, <3>4, <3>7, <3>8, <3>9, <3>10 DEF LspInv
  <2>8. CASE Lsp!Stops
    <3>1. /\ srv' = [st |-> "none", next |-> 1, pending |-> {}, asked |-> <<>>,
                     opened |-> FALSE, sees |-> 0]
          /\ req' = [q \in Req |-> IF Waits(q) THEN [req[q] EXCEPT !.pc = "failed"]
                                   ELSE req[q]]
          /\ UNCHANGED <<starting, starts>>
      BY <2>8 DEF Lsp!Stops, Lsp!NoServer, Waits
    <3>2. LspTypes'
      BY <3>1 DEF LspInv, LspTypes
    <3>3. \A q \in Req : ~Waits(q)'
      BY <3>1 DEF LspInv, LspTypes, Waits
    <3> QED BY <3>1, <3>2, <3>3 DEF LspInv, LspTypes, Lsp!OwnAnswer
  <2>9. ASSUME NEW c \in Change, Lsp!Edit(c) \/ Lsp!Notify(c) \/ Lsp!DidChange(c)
        PROVE  LspInv'
    <3>1. /\ UNCHANGED <<req, starting, starts>>
          /\ srv' = srv \/ srv' = [srv EXCEPT !.sees = chg[c].read]
      BY <2>9 DEF Lsp!Edit, Lsp!Notify, Lsp!DidChange
    <3>2. LspTypes'
      BY <3>1 DEF LspInv, LspTypes
    <3> QED BY <3>1, <3>2, NoNewWait DEF LspInv, LspTypes, Waits
  <2>10. CASE UNCHANGED Lsp!vars
    BY <2>10 DEF Lsp!vars, LspInv, LspTypes, Waits, Lsp!OwnAnswer
  <2> QED BY <2>1, <2>2, <2>3, <2>4, <2>5, <2>6, <2>7, <2>8, <2>9, <2>10 DEF Lsp!Next
<1>3. LspInv => Lsp!OwnAnswer
  BY DEF LspInv
<1> QED BY <1>1, <1>2, <1>3, PTL DEF Lsp!Spec

\* PluginProcessClient and LspManager.request: in Tools, a call of a plugin and
\* a request to a language server that succeed have the reply to their own
\* question.
THEOREM RepliesReachTheirCalls == Spec => []OwnReply
<1>1. Init => Pool!Init \/ focus # "plugins"
  BY DEF Init
<1>2. [Next]_vars => [Pool!Next]_(Pool!vars)
  BY DEF Next, vars, PoolVars, Pool!vars
<1>3. focus # "plugins" /\ [Next]_vars => (focus # "plugins")'
  BY DEF Next, vars
<1>4. Init => Lsp!Init \/ focus # "lsp"
  BY DEF Init
<1>5. [Next]_vars => [Lsp!Next]_(Lsp!vars)
  BY DEF Next, vars, LspVars, Lsp!vars
<1>6. focus # "lsp" /\ [Next]_vars => (focus # "lsp")'
  BY DEF Next, vars
<1>7. /\ Pool!OwnReply \/ focus # "plugins"
      /\ Lsp!OwnAnswer \/ focus # "lsp"
      => OwnReply
  BY DEF OwnReply
<1> QED BY <1>1, <1>2, <1>3, PoolSafe, <1>4, <1>5, <1>6, LspSafe, <1>7, PTL DEF Spec,
     Pool!Spec, Lsp!Spec

-----------------------------------------------------------------------------
(***************************************************************************)
(* The plugin registry and its grants.                                     *)
(***************************************************************************)

GrantCallFields == {"pc", "approved", "ver", "grant", "enabled", "seen", "is", "swapped"}
InCall == {"looked", "granted", "hashed", "checked", "running"}

RegistryTypes ==
  /\ DOMAIN disk = Ver /\ DOMAIN grant = Ws /\ DOMAIN regAct = Ws
  /\ DOMAIN regOp = Ws /\ DOMAIN sess = Ws
  /\ DOMAIN reg = {"ver", "ws"} /\ reg.ver \in Ver \cup {None}
  /\ \A w \in Ws :
       /\ DOMAIN regOp[w] = {"pc", "kind", "ver", "doc"}
       /\ regOp[w].kind = "install" => regOp[w].ver \in Ver
       /\ DOMAIN regOp[w].doc = {"ver", "ws"} /\ regOp[w].doc.ver \in Ver \cup {None}
       /\ DOMAIN regAct[w] = GrantCallFields /\ DOMAIN sess[w] = Resident
       /\ regAct[w].pc \in InCall => regAct[w].ver \in Ver

\* What a call has read so far was enabled while it was being executed, and is
\* what was approved; behind its last comparison the package is still that, or
\* has been swapped.
CallAgrees(w) ==
  /\ regAct[w].pc = "looked" => grant[w].digest \in regAct[w].enabled \cup {None}
  /\ regAct[w].pc = "granted" => regAct[w].grant.digest \in regAct[w].enabled \cup {None}
  /\ regAct[w].pc \in {"hashed", "checked", "running"} => regAct[w].seen \in regAct[w].enabled
  /\ regAct[w].pc \in {"checked", "running"} => regAct[w].seen = regAct[w].approved
  /\ regAct[w].pc = "checked" =>
       disk[regAct[w].ver] = regAct[w].seen \/ regAct[w].swapped = TRUE
  /\ regAct[w].pc = "running" =>
       regAct[w].is = regAct[w].seen \/ regAct[w].swapped = TRUE

\* A process kept for a digest runs those contents, or was swapped.
ProcAgrees(w) ==
  \A d \in Resident :
    sess[w][d] = Registry!NoProc \/ sess[w][d].is = d \/ sess[w][d].swapped = TRUE

GrantsAgree ==
  RegistryTypes /\ \A w \in Ws : CallAgrees(w) /\ ProcAgrees(w)

\* PluginRegistry, the plugin handlers and the process client: a call runs what
\* was approved and is enabled, or what was put in its place behind the last
\* comparison, for any workspaces, versions and contents, and however installs,
\* crashes and changes on disk interleave.
LEMMA RegistrySafe == Registry!Spec => []Registry!RunsWhatWasEnabled
<1>1. Registry!Init => GrantsAgree
  BY DEF Registry!Init, GrantsAgree, RegistryTypes, CallAgrees, ProcAgrees, InCall,
     GrantCallFields, Registry!NoReg, Registry!NoGrant, Registry!NoOp, Registry!NoProc,
     Registry!NoCall
<1>2. GrantsAgree /\ [Registry!Next]_(Registry!vars) => GrantsAgree'
  <2> SUFFICES ASSUME GrantsAgree, [Registry!Next]_(Registry!vars) PROVE GrantsAgree'
    OBVIOUS
  <2> USE DEF InCall, GrantCallFields
  <2>1. ASSUME NEW w \in Ws, NEW v \in Ver, NEW d \in Digest, Registry!Install(w, v, d)
       PROVE  GrantsAgree'
    <3>1. RegistryTypes'
      BY <2>1 DEF GrantsAgree, RegistryTypes, Registry!Install, Registry!Begin,
         Registry!NoOp, Registry!NoReg, Registry!Swapped
    <3>2. ASSUME NEW x \in Ws PROVE CallAgrees(x)'
      BY <2>1 DEF GrantsAgree, RegistryTypes, CallAgrees, Registry!Install,
         Registry!Begin, Registry!NoOp, Registry!NoReg, Registry!Swapped
    <3>3. ASSUME NEW x \in Ws PROVE ProcAgrees(x)'
      BY <2>1 DEF GrantsAgree, RegistryTypes, ProcAgrees, Registry!Install,
         Registry!Begin, Registry!NoOp, Registry!NoReg, Registry!Swapped
    <3> QED BY <3>1, <3>2, <3>3 DEF GrantsAgree
  <2>2. ASSUME NEW w \in Ws, Registry!Enable(w)
       PROVE  GrantsAgree'
    <3>1. RegistryTypes'
      BY <2>2 DEF GrantsAgree, RegistryTypes, Registry!Enable, Registry!Begin,
         Registry!NoOp, Registry!NoReg, Registry!Enabling, Registry!Installed
    <3>2. ASSUME NEW x \in Ws PROVE CallAgrees(x)'
      BY <2>2 DEF GrantsAgree, RegistryTypes, CallAgrees, Registry!Enable,
         Registry!Begin, Registry!NoOp, Registry!NoReg, Registry!Enabling,
         Registry!Installed
    <3>3. ASSUME NEW x \in Ws PROVE ProcAgrees(x)'
      BY <2>2 DEF GrantsAgree, RegistryTypes, ProcAgrees, Registry!Enable,
         Registry!Begin, Registry!NoOp, Registry!NoReg, Registry!Enabling,
         Registry!Installed
    <3> QED BY <3>1, <3>2, <3>3 DEF GrantsAgree
  <2>3. ASSUME NEW w \in Ws, Registry!Disable(w)
       PROVE  GrantsAgree'
    <3>1. RegistryTypes'
      BY <2>3 DEF GrantsAgree, RegistryTypes, Registry!Disable, Registry!Begin,
         Registry!NoOp, Registry!NoReg, Registry!Installed, Registry!NoGrant
    <3>2. ASSUME NEW x \in Ws PROVE CallAgrees(x)'
      BY <2>3 DEF GrantsAgree, RegistryTypes, CallAgrees, Registry!Disable,
         Registry!Begin, Registry!NoOp, Registry!NoReg, Registry!Installed,
         Registry!NoGrant
    <3>3. ASSUME NEW x \in Ws PROVE ProcAgrees(x)'
      BY <2>3 DEF GrantsAgree, RegistryTypes, ProcAgrees, Registry!Disable,
         Registry!Begin, Registry!NoOp, Registry!NoReg, Registry!Installed,
         Registry!NoGrant
    <3> QED BY <3>1, <3>2, <3>3 DEF GrantsAgree
  <2>4. ASSUME NEW w \in Ws, Registry!Uninstall(w)
       PROVE  GrantsAgree'
    <3>1. RegistryTypes'
      BY <2>4 DEF GrantsAgree, RegistryTypes, Registry!Uninstall, Registry!Begin,
         Registry!NoOp, Registry!NoReg
    <3>2. ASSUME NEW x \in Ws PROVE CallAgrees(x)'
      BY <2>4 DEF GrantsAgree, RegistryTypes, CallAgrees, Registry!Uninstall,
         Registry!Begin, Registry!NoOp, Registry!NoReg
    <3>3. ASSUME NEW x \in Ws PROVE ProcAgrees(x)'
      BY <2>4 DEF GrantsAgree, RegistryTypes, ProcAgrees, Registry!Uninstall,
         Registry!Begin, Registry!NoOp, Registry!NoReg
    <3> QED BY <3>1, <3>2, <3>3 DEF GrantsAgree
  <2>5. ASSUME NEW w \in Ws, Registry!OtherPlugin(w)
       PROVE  GrantsAgree'
    <3>1. RegistryTypes'
      BY <2>5 DEF GrantsAgree, RegistryTypes, Registry!OtherPlugin, Registry!Begin,
         Registry!NoOp, Registry!NoReg
    <3>2. ASSUME NEW x \in Ws PROVE CallAgrees(x)'
      BY <2>5 DEF GrantsAgree, RegistryTypes, CallAgrees, Registry!OtherPlugin,
         Registry!Begin, Registry!NoOp, Registry!NoReg
    <3>3. ASSUME NEW x \in Ws PROVE ProcAgrees(x)'
      BY <2>5 DEF GrantsAgree, RegistryTypes, ProcAgrees, Registry!OtherPlugin,
         Registry!Begin, Registry!NoOp, Registry!NoReg
    <3> QED BY <3>1, <3>2, <3>3 DEF GrantsAgree
  <2>6. ASSUME NEW w \in Ws, Registry!ReadRegistry(w)
       PROVE  GrantsAgree'
    <3>1. RegistryTypes'
      BY <2>6 DEF GrantsAgree, RegistryTypes, Registry!ReadRegistry,
         Registry!Pointless, Registry!Document, Registry!NoOp, Registry!NoReg
    <3>2. ASSUME NEW x \in Ws PROVE CallAgrees(x)'
      BY <2>6 DEF GrantsAgree, RegistryTypes, CallAgrees, Registry!ReadRegistry,
         Registry!Pointless, Registry!Document, Registry!NoOp, Registry!NoReg
    <3>3. ASSUME NEW x \in Ws PROVE ProcAgrees(x)'
      BY <2>6 DEF GrantsAgree, RegistryTypes, ProcAgrees, Registry!ReadRegistry,
         Registry!Pointless, Registry!Document, Registry!NoOp, Registry!NoReg
    <3> QED BY <3>1, <3>2, <3>3 DEF GrantsAgree
  <2>7. ASSUME NEW w \in Ws, Registry!WriteRegistry(w)
       PROVE  GrantsAgree'
    <3>1. RegistryTypes'
      BY <2>7 DEF GrantsAgree, RegistryTypes, Registry!WriteRegistry, Registry!NoOp,
         Registry!NoReg
    <3>2. ASSUME NEW x \in Ws PROVE CallAgrees(x)'
      BY <2>7 DEF GrantsAgree, RegistryTypes, CallAgrees, Registry!WriteRegistry,
         Registry!NoOp, Registry!NoReg
    <3>3. ASSUME NEW x \in Ws PROVE ProcAgrees(x)'
      BY <2>7 DEF GrantsAgree, RegistryTypes, ProcAgrees, Registry!WriteRegistry,
         Registry!NoOp, Registry!NoReg
    <3> QED BY <3>1, <3>2, <3>3 DEF GrantsAgree
  <2>8. ASSUME NEW w \in Ws, Registry!RemoveFiles(w)
       PROVE  GrantsAgree'
    <3>1. RegistryTypes'
      BY <2>8 DEF GrantsAgree, RegistryTypes, Registry!RemoveFiles,
         Registry!Swapped, Registry!NoOp, Registry!NoReg
    <3>2. ASSUME NEW x \in Ws PROVE CallAgrees(x)'
      BY <2>8 DEF GrantsAgree, RegistryTypes, CallAgrees, Registry!RemoveFiles,
         Registry!Swapped, Registry!NoOp, Registry!NoReg
    <3>3. ASSUME NEW x \in Ws PROVE ProcAgrees(x)'
      BY <2>8 DEF GrantsAgree, RegistryTypes, ProcAgrees, Registry!RemoveFiles,
         Registry!Swapped, Registry!NoOp, Registry!NoReg
    <3> QED BY <3>1, <3>2, <3>3 DEF GrantsAgree
  <2>9. ASSUME NEW w \in Ws, Registry!CrashOp(w)
       PROVE  GrantsAgree'
    <3>1. RegistryTypes'
      BY <2>9 DEF GrantsAgree, RegistryTypes, Registry!CrashOp, Registry!NoOp,
         Registry!NoReg
    <3>2. ASSUME NEW x \in Ws PROVE CallAgrees(x)'
      BY <2>9 DEF GrantsAgree, RegistryTypes, CallAgrees, Registry!CrashOp,
         Registry!NoOp, Registry!NoReg
    <3>3. ASSUME NEW x \in Ws PROVE ProcAgrees(x)'
      BY <2>9 DEF GrantsAgree, RegistryTypes, ProcAgrees, Registry!CrashOp,
         Registry!NoOp, Registry!NoReg
    <3> QED BY <3>1, <3>2, <3>3 DEF GrantsAgree
  <2>10. ASSUME NEW v \in Ver, NEW d \in Digest, Registry!Tamper(v, d)
       PROVE  GrantsAgree'
    <3>1. RegistryTypes'
      BY <2>10 DEF GrantsAgree, RegistryTypes, Registry!Tamper, Registry!Swapped
    <3>2. ASSUME NEW x \in Ws PROVE CallAgrees(x)'
      BY <2>10 DEF GrantsAgree, RegistryTypes, CallAgrees, Registry!Tamper,
         Registry!Swapped
    <3>3. ASSUME NEW x \in Ws PROVE ProcAgrees(x)'
      BY <2>10 DEF GrantsAgree, RegistryTypes, ProcAgrees, Registry!Tamper,
         Registry!Swapped
    <3> QED BY <3>1, <3>2, <3>3 DEF GrantsAgree
  <2>11. ASSUME NEW w \in Ws, Registry!ProposeCall(w)
       PROVE  GrantsAgree'
    <3>1. RegistryTypes'
      BY <2>11 DEF GrantsAgree, RegistryTypes, Registry!ProposeCall,
         Registry!NoCall, Registry!NoGrant
    <3>2. ASSUME NEW x \in Ws PROVE CallAgrees(x)'
      BY <2>11 DEF GrantsAgree, RegistryTypes, CallAgrees, Registry!ProposeCall,
         Registry!NoCall, Registry!NoGrant
    <3>3. ASSUME NEW x \in Ws PROVE ProcAgrees(x)'
      BY <2>11 DEF GrantsAgree, RegistryTypes, ProcAgrees, Registry!ProposeCall,
         Registry!NoCall, Registry!NoGrant
    <3> QED BY <3>1, <3>2, <3>3 DEF GrantsAgree
  <2>12. ASSUME NEW w \in Ws, Registry!LookUp(w)
       PROVE  GrantsAgree'
    <3>1. RegistryTypes'
      BY <2>12 DEF GrantsAgree, RegistryTypes, Registry!LookUp, Registry!Refuse,
         Registry!NoCall, Registry!NoGrant
    <3>2. ASSUME NEW x \in Ws PROVE CallAgrees(x)'
      BY <2>12 DEF GrantsAgree, RegistryTypes, CallAgrees, Registry!LookUp,
         Registry!Refuse, Registry!NoCall, Registry!NoGrant
    <3>3. ASSUME NEW x \in Ws PROVE ProcAgrees(x)'
      BY <2>12 DEF GrantsAgree, RegistryTypes, ProcAgrees, Registry!LookUp,
         Registry!Refuse, Registry!NoCall, Registry!NoGrant
    <3> QED BY <3>1, <3>2, <3>3 DEF GrantsAgree
  <2>13. ASSUME NEW w \in Ws, Registry!ReadGrant(w)
       PROVE  GrantsAgree'
    <3>1. RegistryTypes'
      BY <2>13 DEF GrantsAgree, RegistryTypes, Registry!ReadGrant
    <3>2. ASSUME NEW x \in Ws PROVE CallAgrees(x)'
      BY <2>13 DEF GrantsAgree, RegistryTypes, CallAgrees, Registry!ReadGrant
    <3>3. ASSUME NEW x \in Ws PROVE ProcAgrees(x)'
      BY <2>13 DEF GrantsAgree, RegistryTypes, ProcAgrees, Registry!ReadGrant
    <3> QED BY <3>1, <3>2, <3>3 DEF GrantsAgree
  <2>14. ASSUME NEW w \in Ws, Registry!HashPackage(w)
       PROVE  GrantsAgree'
    <3>1. RegistryTypes'
      BY <2>14 DEF GrantsAgree, RegistryTypes, Registry!HashPackage,
         Registry!Authorizes, Registry!Refuse, Registry!NoCall, Registry!NoGrant
    <3>2. ASSUME NEW x \in Ws PROVE CallAgrees(x)'
      BY <2>14 DEF GrantsAgree, RegistryTypes, CallAgrees, Registry!HashPackage,
         Registry!Authorizes, Registry!Refuse, Registry!NoCall, Registry!NoGrant
    <3>3. ASSUME NEW x \in Ws PROVE ProcAgrees(x)'
      BY <2>14 DEF GrantsAgree, RegistryTypes, ProcAgrees, Registry!HashPackage,
         Registry!Authorizes, Registry!Refuse, Registry!NoCall, Registry!NoGrant
    <3> QED BY <3>1, <3>2, <3>3 DEF GrantsAgree
  <2>15. ASSUME NEW w \in Ws, Registry!HashAgain(w)
       PROVE  GrantsAgree'
    <3>1. RegistryTypes'
      BY <2>15 DEF GrantsAgree, RegistryTypes, Registry!HashAgain, Registry!Same,
         Registry!Approved, Registry!Refuse, Registry!NoCall, Registry!NoGrant
    <3>2. ASSUME NEW x \in Ws PROVE CallAgrees(x)'
      BY <2>15 DEF GrantsAgree, RegistryTypes, CallAgrees, Registry!HashAgain,
         Registry!Same, Registry!Approved, Registry!Refuse, Registry!NoCall,
         Registry!NoGrant
    <3>3. ASSUME NEW x \in Ws PROVE ProcAgrees(x)'
      BY <2>15 DEF GrantsAgree, RegistryTypes, ProcAgrees, Registry!HashAgain,
         Registry!Same, Registry!Approved, Registry!Refuse, Registry!NoCall,
         Registry!NoGrant
    <3> QED BY <3>1, <3>2, <3>3 DEF GrantsAgree
  <2>16. ASSUME NEW w \in Ws, Registry!Spawn(w)
       PROVE  GrantsAgree'
    <3>1. RegistryTypes'
      BY <2>16 DEF GrantsAgree, RegistryTypes, Registry!Spawn, Registry!Spawned,
         Registry!Run, Registry!Refuse, Registry!NoCall, Registry!NoGrant,
         Registry!NoProc
    <3>2. ASSUME NEW x \in Ws PROVE CallAgrees(x)'
      BY <2>16 DEF GrantsAgree, RegistryTypes, CallAgrees, Registry!Spawn,
         Registry!Spawned, Registry!Run, Registry!Refuse, Registry!NoCall,
         Registry!NoGrant, Registry!NoProc
    <3>3. ASSUME NEW x \in Ws PROVE ProcAgrees(x)'
      <4>1. CASE UNCHANGED sess
        BY <4>1 DEF GrantsAgree, ProcAgrees
      <4>2. CASE /\ regAct[w].seen \in Resident
                 /\ sess' = [sess EXCEPT ![w][regAct[w].seen] = Registry!Spawned(w)]
        <5>1. regAct[w].pc = "checked" /\ CallAgrees(w) /\ ProcAgrees(x)
          BY <2>16 DEF Registry!Spawn, GrantsAgree
        <5>2. \/ Registry!Spawned(w).is = regAct[w].seen
              \/ Registry!Spawned(w).swapped = TRUE
          BY <5>1 DEF CallAgrees, Registry!Spawned
        <5>3. ASSUME NEW d \in Resident
              PROVE  sess'[x][d] = IF x = w /\ d = regAct[w].seen THEN Registry!Spawned(w)
                                   ELSE sess[x][d]
          BY <4>2 DEF GrantsAgree, RegistryTypes
        <5> QED BY <5>1, <5>2, <5>3 DEF ProcAgrees
      <4> QED BY <2>16, <4>1, <4>2 DEF Registry!Spawn
    <3> QED BY <3>1, <3>2, <3>3 DEF GrantsAgree
  <2>17. ASSUME NEW w \in Ws, Registry!Reuse(w)
       PROVE  GrantsAgree'
    <3>1. RegistryTypes'
      BY <2>17 DEF GrantsAgree, RegistryTypes, Registry!Reuse, Registry!Run,
         Registry!NoProc
    <3>2. ASSUME NEW x \in Ws PROVE CallAgrees(x)'
      <4>1. /\ regAct[w].pc = "checked" /\ CallAgrees(w) /\ ProcAgrees(w) /\ CallAgrees(x)
            /\ regAct[w].seen \in Resident /\ sess[w][regAct[w].seen] # Registry!NoProc
            /\ UNCHANGED <<disk, grant>>
        BY <2>17 DEF Registry!Reuse, GrantsAgree
      <4> DEFINE p == sess[w][regAct[w].seen]
      <4>2. p.is = regAct[w].seen \/ p.swapped = TRUE
        BY <4>1 DEF ProcAgrees
      <4>3. regAct' = [regAct EXCEPT ![w].pc = "running", ![w].is = p.is,
                                     ![w].swapped = p.swapped]
        BY <2>17 DEF Registry!Reuse, Registry!Run
      <4> HIDE DEF p
      <4> QED BY <4>1, <4>2, <4>3 DEF GrantsAgree, RegistryTypes, CallAgrees
    <3>3. ASSUME NEW x \in Ws PROVE ProcAgrees(x)'
      BY <2>17 DEF GrantsAgree, RegistryTypes, ProcAgrees, Registry!Reuse,
         Registry!Run, Registry!NoProc
    <3> QED BY <3>1, <3>2, <3>3 DEF GrantsAgree
  <2>18. ASSUME NEW w \in Ws, Registry!EndCall(w)
       PROVE  GrantsAgree'
    <3>1. RegistryTypes'
      BY <2>18 DEF GrantsAgree, RegistryTypes, Registry!EndCall, Registry!Refuse,
         Registry!NoCall, Registry!NoGrant
    <3>2. ASSUME NEW x \in Ws PROVE CallAgrees(x)'
      BY <2>18 DEF GrantsAgree, RegistryTypes, CallAgrees, Registry!EndCall,
         Registry!Refuse, Registry!NoCall, Registry!NoGrant
    <3>3. ASSUME NEW x \in Ws PROVE ProcAgrees(x)'
      BY <2>18 DEF GrantsAgree, RegistryTypes, ProcAgrees, Registry!EndCall,
         Registry!Refuse, Registry!NoCall, Registry!NoGrant
    <3> QED BY <3>1, <3>2, <3>3 DEF GrantsAgree
  <2>19. ASSUME NEW w \in Ws, NEW d \in Resident, Registry!DropSession(w, d)
       PROVE  GrantsAgree'
    <3>1. RegistryTypes'
      BY <2>19 DEF GrantsAgree, RegistryTypes, Registry!DropSession, Registry!NoProc
    <3>2. ASSUME NEW x \in Ws PROVE CallAgrees(x)'
      BY <2>19 DEF GrantsAgree, RegistryTypes, CallAgrees, Registry!DropSession,
         Registry!NoProc
    <3>3. ASSUME NEW x \in Ws PROVE ProcAgrees(x)'
      BY <2>19 DEF GrantsAgree, RegistryTypes, ProcAgrees, Registry!DropSession,
         Registry!NoProc
    <3> QED BY <3>1, <3>2, <3>3 DEF GrantsAgree
  <2>20. CASE UNCHANGED Registry!vars
    BY <2>20 DEF GrantsAgree, RegistryTypes, CallAgrees, ProcAgrees, Registry!vars
  <2> QED BY <2>1, <2>2, <2>3, <2>4, <2>5, <2>6, <2>7, <2>8, <2>9, <2>10, <2>11,
      <2>12, <2>13, <2>14, <2>15, <2>16, <2>17, <2>18, <2>19, <2>20 DEF
      Registry!Next
<1>3. GrantsAgree => Registry!RunsWhatWasEnabled
  BY DEF GrantsAgree, CallAgrees, Registry!RunsWhatWasEnabled
<1> QED BY <1>1, <1>2, <1>3, PTL DEF Registry!Spec

\* PluginRegistry, the plugin handlers and the process client: in Tools, a call
\* runs what was approved and is enabled, unless it was swapped at the last.
THEOREM OnlyEnabledContentsRun == Spec => []RunsWhatWasEnabled
<1>1. Init => Registry!Init \/ focus # "registry"
  BY DEF Init
<1>2. [Next]_vars => [Registry!Next]_(Registry!vars)
  BY DEF Next, vars, RegistryVars, Registry!vars
<1>3. focus # "registry" /\ [Next]_vars => (focus # "registry")'
  BY DEF Next, vars
<1>4. Registry!RunsWhatWasEnabled \/ focus # "registry" => RunsWhatWasEnabled
  BY DEF RunsWhatWasEnabled
<1> QED BY <1>1, <1>2, <1>3, RegistrySafe, <1>4, PTL DEF Spec, Registry!Spec

-----------------------------------------------------------------------------
(***************************************************************************)
(* MCP calls.                                                              *)
(***************************************************************************)

CallFields == {"pc", "tool", "on", "ro", "retry", "new"}
Before == {"idle", "connect", "opening", "check", "want", "send"}

\* A request runs once in each of its rounds, after it was sent; only a call
\* that was found to be read-only has a second round, and it is not checked
\* again in it.
CallCounted(c) ==
  /\ DOMAIN mcpCall[c] = CallFields /\ mcpCall[c].retry \in BOOLEAN /\ mcpCall[c].ro \in BOOLEAN
  /\ mcpRan[c] \in Nat
  /\ mcpRan[c] <= (IF mcpCall[c].retry THEN 1 ELSE 0) + (IF mcpCall[c].pc \in Before THEN 0 ELSE 1)
  /\ mcpCall[c].retry => mcpCall[c].ro
  /\ mcpCall[c].pc \in {"idle", "check"} => ~mcpCall[c].retry

McpInv == /\ DOMAIN mcpCall = McpCall /\ DOMAIN mcpRan = McpCall
          /\ \A c \in McpCall : CallCounted(c)

\* A step that touches one call keeps the invariant when that call stays
\* counted.
LEMMA OneCall ==
  ASSUME McpInv, NEW c \in McpCall, DOMAIN mcpCall' = McpCall, DOMAIN mcpRan' = McpCall,
         \A d \in McpCall \ {c} : mcpCall'[d] = mcpCall[d] /\ mcpRan'[d] = mcpRan[d],
         CallCounted(c)'
  PROVE  McpInv'
BY DEF McpInv, CallCounted

\* StdioConnection.call and _reconnect: a call admitted as a write is executed
\* at most once and a read at most twice, for any calls, tools and
\* configurations, and however connections are lost and shared.
LEMMA McpSafe == Mcp!Spec => []Mcp!NoReplay
<1>1. Mcp!Init => McpInv
  <2> SUFFICES ASSUME Mcp!Init PROVE McpInv
    OBVIOUS
  <2>1. DOMAIN Mcp!NewCall = CallFields
    BY DEF Mcp!NewCall, CallFields
  <2>2. /\ Mcp!NewCall.retry = FALSE /\ Mcp!NewCall.ro = FALSE
        /\ Mcp!NewCall.pc = "idle"
    BY DEF Mcp!NewCall
  <2>3. \A c \in McpCall : mcpCall[c] = Mcp!NewCall /\ mcpRan[c] = 0
    BY DEF Mcp!Init
  <2>4. DOMAIN mcpCall = McpCall /\ DOMAIN mcpRan = McpCall
    BY DEF Mcp!Init
  <2>5. ASSUME NEW c \in McpCall PROVE CallCounted(c)
    <3>1. /\ DOMAIN mcpCall[c] = CallFields /\ mcpCall[c].retry = FALSE /\ mcpCall[c].ro = FALSE
          /\ mcpCall[c].pc = "idle" /\ mcpRan[c] = 0
      BY <2>1, <2>2, <2>3
    <3>2. ~mcpCall[c].retry /\ mcpCall[c].retry \in BOOLEAN /\ mcpCall[c].ro \in BOOLEAN
      BY <3>1
    <3> QED BY <3>1, <3>2 DEF CallCounted, Before
  <2> QED BY <2>4, <2>5 DEF McpInv
<1>2. McpInv /\ [Mcp!Next]_(Mcp!vars) => McpInv'
  <2> SUFFICES ASSUME McpInv, [Mcp!Next]_(Mcp!vars) PROVE McpInv'
    OBVIOUS
  <2> USE DEF CallCounted, CallFields, Before
  <2>1. ASSUME NEW c \in McpCall, NEW t \in Tool, Mcp!ConnectCall(c, t) PROVE McpInv'
    <3>1. DOMAIN mcpCall' = McpCall /\ DOMAIN mcpRan' = McpCall /\
          \A d \in McpCall \ {c} : mcpCall'[d] = mcpCall[d] /\ mcpRan'[d] = mcpRan[d]
      BY <2>1 DEF McpInv, Mcp!ConnectCall, Mcp!Connect, Mcp!Use
    <3>2. CallCounted(c)'
      <4>1. /\ UNCHANGED mcpRan /\ DOMAIN mcpCall'[c] = CallFields
            /\ mcpCall[c].pc \in {"idle", "connect"} /\ mcpCall'[c].pc \in Before \ {"idle"}
            /\ mcpCall'[c].retry = mcpCall[c].retry /\ mcpCall'[c].ro = mcpCall[c].ro
        <5> USE DEF Mcp!ConnectCall, Mcp!Connect, Mcp!Use
        <5>1. CASE mcpCall[c].pc = "idle"
          <6>1. PICK n \in {"check", "connect"} :
                  \/ mcpCall'[c] = [mcpCall[c] EXCEPT !.tool = t, !.on = mcpTable, !.pc = n]
                  \/ mcpCall'[c] = [mcpCall[c] EXCEPT !.tool = t, !.pc = n]
            BY <2>1, <5>1 DEF McpInv
          <6>2. UNCHANGED mcpRan
            BY <2>1
          <6> QED BY <5>1, <6>1, <6>2 DEF McpInv
        <5>2. CASE mcpCall[c].pc = "connect" /\ mcpTable # 0
          BY <2>1, <5>2 DEF McpInv
        <5>3. CASE mcpCall[c].pc = "connect" /\ mcpTable = 0
          BY <2>1, <5>3 DEF McpInv
        <5> QED BY <2>1, <5>1, <5>2, <5>3
      <4>2. mcpCall'[c].pc = "check" => ~mcpCall[c].retry
        BY <2>1 DEF McpInv, Mcp!ConnectCall, Mcp!Connect, Mcp!Use
      <4> QED BY <4>1, <4>2 DEF McpInv
    <3> QED BY <3>1, <3>2, OneCall
  <2>2. ASSUME NEW c \in McpCall, Mcp!Connected(c) PROVE McpInv'
    <3>1. DOMAIN mcpCall' = McpCall /\ DOMAIN mcpRan' = McpCall /\
          \A d \in McpCall \ {c} : mcpCall'[d] = mcpCall[d] /\ mcpRan'[d] = mcpRan[d]
      BY <2>2 DEF McpInv, Mcp!Connected, Mcp!Use
    <3>2. CallCounted(c)'
      BY <2>2 DEF McpInv, Mcp!Connected, Mcp!Use
    <3> QED BY <3>1, <3>2, OneCall
  <2>3. ASSUME NEW c \in McpCall, Mcp!ConnectFails(c) PROVE McpInv'
    <3>1. DOMAIN mcpCall' = McpCall /\ DOMAIN mcpRan' = McpCall /\
          \A d \in McpCall \ {c} : mcpCall'[d] = mcpCall[d] /\ mcpRan'[d] = mcpRan[d]
      BY <2>3 DEF McpInv, Mcp!ConnectFails
    <3>2. CallCounted(c)'
      BY <2>3 DEF McpInv, Mcp!ConnectFails
    <3> QED BY <3>1, <3>2, OneCall
  <2>4. ASSUME NEW c \in McpCall, Mcp!Check(c) PROVE McpInv'
    <3>1. DOMAIN mcpCall' = McpCall /\ DOMAIN mcpRan' = McpCall /\
          \A d \in McpCall \ {c} : mcpCall'[d] = mcpCall[d] /\ mcpRan'[d] = mcpRan[d]
      BY <2>4 DEF McpInv, Mcp!Check, Mcp!End
    <3>2. CallCounted(c)'
      BY <2>4 DEF McpInv, Mcp!Check, Mcp!End
    <3> QED BY <3>1, <3>2, OneCall
  <2>5. ASSUME NEW c \in McpCall, Mcp!CheckResource(c) PROVE McpInv'
    <3>1. DOMAIN mcpCall' = McpCall /\ DOMAIN mcpRan' = McpCall /\
          \A d \in McpCall \ {c} : mcpCall'[d] = mcpCall[d] /\ mcpRan'[d] = mcpRan[d]
      BY <2>5 DEF McpInv, Mcp!CheckResource
    <3>2. CallCounted(c)'
      BY <2>5 DEF McpInv, Mcp!CheckResource
    <3> QED BY <3>1, <3>2, OneCall
  <2>6. ASSUME NEW c \in McpCall, Mcp!Lock(c) PROVE McpInv'
    <3>1. DOMAIN mcpCall' = McpCall /\ DOMAIN mcpRan' = McpCall /\
          \A d \in McpCall \ {c} : mcpCall'[d] = mcpCall[d] /\ mcpRan'[d] = mcpRan[d]
      BY <2>6 DEF McpInv, Mcp!Lock
    <3>2. CallCounted(c)'
      BY <2>6 DEF McpInv, Mcp!Lock
    <3> QED BY <3>1, <3>2, OneCall
  <2>7. ASSUME NEW c \in McpCall, Mcp!Execute(c) PROVE McpInv'
    <3>1. DOMAIN mcpCall' = McpCall /\ DOMAIN mcpRan' = McpCall /\
          \A d \in McpCall \ {c} : mcpCall'[d] = mcpCall[d] /\ mcpRan'[d] = mcpRan[d]
      BY <2>7 DEF McpInv, Mcp!Execute
    <3>2. CallCounted(c)'
      BY <2>7 DEF McpInv, Mcp!Execute
    <3> QED BY <3>1, <3>2, OneCall
  <2>8. ASSUME NEW c \in McpCall, Mcp!Answered(c) PROVE McpInv'
    <3>1. DOMAIN mcpCall' = McpCall /\ DOMAIN mcpRan' = McpCall /\
          \A d \in McpCall \ {c} : mcpCall'[d] = mcpCall[d] /\ mcpRan'[d] = mcpRan[d]
      BY <2>8 DEF McpInv, Mcp!Answered, Mcp!End
    <3>2. CallCounted(c)'
      BY <2>8 DEF McpInv, Mcp!Answered, Mcp!End
    <3> QED BY <3>1, <3>2, OneCall
  <2>9. ASSUME NEW c \in McpCall, Mcp!Fails(c) PROVE McpInv'
    <3>1. DOMAIN mcpCall' = McpCall /\ DOMAIN mcpRan' = McpCall /\
          \A d \in McpCall \ {c} : mcpCall'[d] = mcpCall[d] /\ mcpRan'[d] = mcpRan[d]
      BY <2>9 DEF McpInv, Mcp!Fails, Mcp!MayRetry, Mcp!End
    <3>2. CallCounted(c)'
      BY <2>9 DEF McpInv, Mcp!Fails, Mcp!MayRetry, Mcp!End
    <3> QED BY <3>1, <3>2, OneCall
  <2>10. ASSUME NEW c \in McpCall, Mcp!Cancel(c) PROVE McpInv'
    <3>1. DOMAIN mcpCall' = McpCall /\ DOMAIN mcpRan' = McpCall /\
          \A d \in McpCall \ {c} : mcpCall'[d] = mcpCall[d] /\ mcpRan'[d] = mcpRan[d]
      BY <2>10 DEF McpInv, Mcp!Cancel, Mcp!End
    <3>2. CallCounted(c)'
      BY <2>10 DEF McpInv, Mcp!Cancel, Mcp!End
    <3> QED BY <3>1, <3>2, OneCall
  <2>11. CASE Mcp!RefreshMetadata \/ Mcp!Disconnect
    BY <2>11 DEF McpInv, Mcp!RefreshMetadata, Mcp!Disconnect
  <2>12. ASSUME NEW s \in Configs, Mcp!Configure(s) PROVE McpInv'
    BY <2>12 DEF McpInv, Mcp!Configure
  <2>13. ASSUME NEW h \in Hints, Mcp!Advertise(h) PROVE McpInv'
    BY <2>13 DEF McpInv, Mcp!Advertise
  <2>14. CASE UNCHANGED Mcp!vars
    BY <2>14 DEF McpInv, Mcp!vars
  <2> QED BY <2>1, <2>2, <2>3, <2>4, <2>5, <2>6, <2>7, <2>8, <2>9, <2>10, <2>11, <2>12,
       <2>13, <2>14 DEF Mcp!Next
<1>3. McpInv => Mcp!NoReplay
  BY DEF McpInv, CallCounted, Mcp!NoReplay
<1> QED BY <1>1, <1>2, <1>3, PTL DEF Mcp!Spec

\* StdioConnection.call: in Tools, a lost connection makes no call run again
\* that may have written.
THEOREM WritesAreNotReplayed == Spec => []NoReplay
<1>1. Init => Mcp!Init \/ focus # "mcp"
  BY DEF Init
<1>2. [Next]_vars => [Mcp!Next]_(Mcp!vars)
  BY DEF Next, vars, McpVars, Mcp!vars
<1>3. focus # "mcp" /\ [Next]_vars => (focus # "mcp")'
  BY DEF Next, vars
<1>4. Mcp!NoReplay \/ focus # "mcp" => NoReplay
  BY DEF NoReplay
<1> QED BY <1>1, <1>2, <1>3, McpSafe, <1>4, PTL DEF Spec, Mcp!Spec

-----------------------------------------------------------------------------
(***************************************************************************)
(* Publications and file actions.                                          *)
(***************************************************************************)

ChildFields == {"pc", "files", "base", "orig", "todo", "at", "arts"}
PubFields == {"pc", "who", "want", "arts", "done", "undo", "at", "kept", "backup"}
ActFields == {"pc", "path", "before", "after"}
PubLocked == {"prepared", "checked", "replacing", "undoing"}
ActLocked == {"writing", "undoing"}

PublishTypes ==
  /\ DOMAIN parent = Path /\ DOMAIN by = Path /\ DOMAIN child = Child /\ DOMAIN act = Act
  /\ \A c \in Child : DOMAIN child[c] = ChildFields
  /\ \A a \in Act : /\ "pc" \in DOMAIN act[a]
                    /\ act[a].pc # "none" => DOMAIN act[a] = ActFields /\ act[a].path \in Path
  /\ DOMAIN pub = PubFields /\ DOMAIN pub.backup = Path
  /\ pub.arts \subseteq Path /\ pub.done \subseteq pub.arts

\* One writer holds the workspace lock at a time.
OneWriter ==
  /\ \A a \in Act : act[a].pc \in ActLocked => pub.pc \notin PubLocked
  /\ \A a, b \in Act : act[a].pc \in ActLocked /\ act[b].pc \in ActLocked => a = b

\* While a publication is under way its child keeps its manifest.
ChildStands ==
  /\ pub.pc \in {"idle", "staged", "saving"} \cup PubLocked
  /\ pub.pc = "idle" => pub.who = {}
  /\ \A c \in Child : c \in pub.who => pub.who = {c} /\ child[c].pc = "verified"

\* What the writer compared under the lock is still there when it writes,
\* unless the user's editor, which takes no lock, changed it.
StillExpected ==
  /\ pub.pc \in {"checked", "replacing"} =>
       \A c \in pub.who \cap Child, p \in pub.arts \ pub.done :
         by[p] = "managed" => parent[p] = child[c].base[p]
  /\ pub.pc = "undoing" =>
       \A p \in pub.at : by[p] = "managed" => parent[p] = pub.want[p]
  /\ \A a \in Act : act[a].pc = "writing" /\ by[act[a].path] = "managed"
                      => parent[act[a].path] = act[a].before
  /\ \A a \in Act : act[a].pc = "undoing" /\ by[act[a].path] = "managed"
                      => parent[act[a].path] = act[a].after

\* Every file is in one place: not yet replaced, replaced, being put back, or
\* given up.
Undoing ==
  /\ pub.pc \notin {"replacing", "undoing", "saving"} => pub.done = {}
  /\ pub.pc # "undoing" => pub.undo = {} /\ pub.kept = {} /\ pub.at = {}
  /\ pub.undo \subseteq pub.done /\ pub.kept \subseteq pub.done
  /\ pub.at \subseteq pub.undo /\ pub.undo \cap pub.kept = {}

\* The backups of the publication hold what the manifest knows, until they are
\* put back.
Backed ==
  /\ pub.pc \in {"replacing", "undoing"} =>
       \A c \in pub.who \cap Child, p \in pub.arts :
         pub.backup[p] = IF pub.pc = "undoing" /\ p \in pub.done \ (pub.undo \cup pub.kept)
                         THEN Absent ELSE child[c].base[p]
  /\ pub.pc = "saving" => \A p \in Path : pub.backup[p] = Absent

\* Originals are in backups an earlier publication left or in those of the files
\* this one has replaced; the other backups of this one will be removed.
OriginalsHeld ==
  \A r \in stands :
    \/ r \in aside
    \/ \E p \in pub.done : pub.backup[p] # Absent /\ r = [path |-> p, text |-> pub.backup[p]]

PublishInv ==
  /\ PublishTypes /\ OneWriter /\ ChildStands /\ StillExpected
  /\ Undoing /\ Backed /\ OriginalsHeld
  /\ pub.who \subseteq Child
  /\ Publish!ManagedWritesKept /\ Publish!PutBackOrReported

\* WorkspaceMutationCoordinator.lock, publish_artifacts and the file actions:
\* no managed write overwrites another one unseen, and what a publication
\* replaced is put back or kept beside the file, for any files, children,
\* actions, edits and crashes.
LEMMA PublishSafe == Publish!Spec => []Publish!PublishHolds
<1>1. Publish!Init => PublishInv
  BY DEF Publish!Init, Publish!Files, Publish!NewChild, Publish!Idle, Publish!NoFiles,
     PublishInv, PublishTypes, Undoing, Backed, OriginalsHeld,
     OneWriter, ChildStands, StillExpected, Publish!ManagedWritesKept,
     Publish!PutBackOrReported, ChildFields, PubFields, ActLocked, PubLocked
<1>2. PublishInv /\ [Publish!Next]_(Publish!vars) => PublishInv'
  <2> SUFFICES ASSUME PublishInv, [Publish!Next]_(Publish!vars) PROVE PublishInv'
    OBVIOUS
  <2> USE DEF ActLocked, PubLocked, Publish!Rest
  <2>0. DOMAIN Publish!NoFiles = Path /\ \A p \in Path : Publish!NoFiles[p] = Absent
    BY DEF Publish!NoFiles
  <2>1. ASSUME NEW c \in Child, Publish!CreateSnapshot(c)
       PROVE  PublishInv'
    <3>1. PublishTypes'
      BY <2>1 DEF PublishInv, PublishTypes, ChildFields, PubFields, ActFields,
           Publish!CreateSnapshot
    <3>2. OneWriter'
      BY <2>1 DEF PublishInv, PublishTypes, PubFields, ActFields, OneWriter,
           Publish!CreateSnapshot
    <3>3. ChildStands' /\ (pub.who \subseteq Child)'
      BY <2>1 DEF PublishInv, PublishTypes, ChildFields, PubFields, ChildStands,
           Publish!CreateSnapshot
    <3>4. StillExpected'
      BY <2>1 DEF PublishInv, PublishTypes, ChildFields, PubFields, ActFields,
           OneWriter, ChildStands, StillExpected, Publish!CreateSnapshot
    <3>5. Publish!ManagedWritesKept'
      BY <2>1 DEF PublishInv, PublishTypes, StillExpected,
           Publish!ManagedWritesKept, Publish!CreateSnapshot
    <3>6. Publish!PutBackOrReported'
      BY <2>1 DEF PublishInv, PublishTypes, ChildFields, PubFields, OneWriter,
           ChildStands, Undoing, Backed, Publish!PutBackOrReported,
           Publish!CreateSnapshot
    <3>7. Undoing'
      BY <2>1 DEF PublishInv, PublishTypes, PubFields, ChildStands, Undoing,
           Publish!CreateSnapshot
    <3>8. Backed'
      BY <2>1 DEF PublishInv, PublishTypes, ChildFields, PubFields, ChildStands,
           Undoing, Backed, Publish!CreateSnapshot
    <3>9. OriginalsHeld'
      BY <2>1 DEF PublishInv, PublishTypes, PubFields, ChildStands, Undoing, Backed,
           OriginalsHeld, Publish!CreateSnapshot
    <3> QED BY <3>1, <3>2, <3>3, <3>4, <3>5, <3>6, <3>7, <3>8, <3>9 DEF PublishInv
  <2>2. ASSUME NEW c \in Child, Publish!SnapshotReady(c)
       PROVE  PublishInv'
    <3>1. PublishTypes'
      BY <2>2 DEF PublishInv, PublishTypes, ChildFields, PubFields, ActFields,
           Publish!SnapshotReady
    <3>2. OneWriter'
      BY <2>2 DEF PublishInv, PublishTypes, PubFields, ActFields, OneWriter,
           Publish!SnapshotReady
    <3>3. ChildStands' /\ (pub.who \subseteq Child)'
      BY <2>2 DEF PublishInv, PublishTypes, ChildFields, PubFields, ChildStands,
           Publish!SnapshotReady
    <3>4. StillExpected'
      BY <2>2 DEF PublishInv, PublishTypes, ChildFields, PubFields, ActFields,
           OneWriter, ChildStands, StillExpected, Publish!SnapshotReady
    <3>5. Publish!ManagedWritesKept'
      BY <2>2 DEF PublishInv, PublishTypes, StillExpected,
           Publish!ManagedWritesKept, Publish!SnapshotReady
    <3>6. Publish!PutBackOrReported'
      BY <2>2 DEF PublishInv, PublishTypes, ChildFields, PubFields, OneWriter,
           ChildStands, Undoing, Backed, Publish!PutBackOrReported,
           Publish!SnapshotReady
    <3>7. Undoing'
      BY <2>2 DEF PublishInv, PublishTypes, PubFields, ChildStands, Undoing,
           Publish!SnapshotReady
    <3>8. Backed'
      BY <2>2 DEF PublishInv, PublishTypes, ChildFields, PubFields, ChildStands,
           Undoing, Backed, Publish!SnapshotReady
    <3>9. OriginalsHeld'
      BY <2>2 DEF PublishInv, PublishTypes, PubFields, ChildStands, Undoing, Backed,
           OriginalsHeld, Publish!SnapshotReady
    <3> QED BY <3>1, <3>2, <3>3, <3>4, <3>5, <3>6, <3>7, <3>8, <3>9 DEF PublishInv
  <2>3. ASSUME NEW c \in Child, Publish!VerifyFails(c)
       PROVE  PublishInv'
    <3>1. PublishTypes'
      BY <2>3 DEF PublishInv, PublishTypes, ChildFields, PubFields, ActFields,
           Publish!VerifyFails
    <3>2. OneWriter'
      BY <2>3 DEF PublishInv, PublishTypes, PubFields, ActFields, OneWriter,
           Publish!VerifyFails
    <3>3. ChildStands' /\ (pub.who \subseteq Child)'
      BY <2>3 DEF PublishInv, PublishTypes, ChildFields, PubFields, ChildStands,
           Publish!VerifyFails
    <3>4. StillExpected'
      BY <2>3 DEF PublishInv, PublishTypes, ChildFields, PubFields, ActFields,
           OneWriter, ChildStands, StillExpected, Publish!VerifyFails
    <3>5. Publish!ManagedWritesKept'
      BY <2>3 DEF PublishInv, PublishTypes, StillExpected,
           Publish!ManagedWritesKept, Publish!VerifyFails
    <3>6. Publish!PutBackOrReported'
      BY <2>3 DEF PublishInv, PublishTypes, ChildFields, PubFields, OneWriter,
           ChildStands, Undoing, Backed, Publish!PutBackOrReported,
           Publish!VerifyFails
    <3>7. Undoing'
      BY <2>3 DEF PublishInv, PublishTypes, PubFields, ChildStands, Undoing,
           Publish!VerifyFails
    <3>8. Backed'
      BY <2>3 DEF PublishInv, PublishTypes, ChildFields, PubFields, ChildStands,
           Undoing, Backed, Publish!VerifyFails
    <3>9. OriginalsHeld'
      BY <2>3 DEF PublishInv, PublishTypes, PubFields, ChildStands, Undoing, Backed,
           OriginalsHeld, Publish!VerifyFails
    <3> QED BY <3>1, <3>2, <3>3, <3>4, <3>5, <3>6, <3>7, <3>8, <3>9 DEF PublishInv
  <2>4. ASSUME NEW c \in Child, Publish!Cleanup(c)
       PROVE  PublishInv'
    <3>1. PublishTypes'
      BY <2>4 DEF PublishInv, PublishTypes, ChildFields, PubFields, ActFields,
           Publish!Cleanup, Publish!NewChild
    <3>2. OneWriter'
      BY <2>4 DEF PublishInv, PublishTypes, PubFields, ActFields, OneWriter,
           Publish!Cleanup, Publish!NewChild
    <3>3. ChildStands' /\ (pub.who \subseteq Child)'
      BY <2>4 DEF PublishInv, PublishTypes, ChildFields, PubFields, ChildStands,
           Publish!Cleanup, Publish!NewChild
    <3>4. StillExpected'
      BY <2>4 DEF PublishInv, PublishTypes, ChildFields, PubFields, ActFields,
           OneWriter, ChildStands, StillExpected, Publish!Cleanup, Publish!NewChild
    <3>5. Publish!ManagedWritesKept'
      BY <2>4 DEF PublishInv, PublishTypes, StillExpected,
           Publish!ManagedWritesKept, Publish!Cleanup, Publish!NewChild
    <3>6. Publish!PutBackOrReported'
      BY <2>4 DEF PublishInv, PublishTypes, ChildFields, PubFields, OneWriter,
           ChildStands, Undoing, Backed, Publish!PutBackOrReported, Publish!Cleanup,
           Publish!NewChild
    <3>7. Undoing'
      BY <2>4 DEF PublishInv, PublishTypes, PubFields, ChildStands, Undoing,
           Publish!Cleanup, Publish!NewChild
    <3>8. Backed'
      BY <2>4 DEF PublishInv, PublishTypes, ChildFields, PubFields, ChildStands,
           Undoing, Backed, Publish!Cleanup, Publish!NewChild
    <3>9. OriginalsHeld'
      BY <2>4 DEF PublishInv, PublishTypes, PubFields, ChildStands, Undoing, Backed,
           OriginalsHeld, Publish!Cleanup, Publish!NewChild
    <3> QED BY <3>1, <3>2, <3>3, <3>4, <3>5, <3>6, <3>7, <3>8, <3>9 DEF PublishInv
  <2>5. ASSUME NEW c \in Child, NEW p \in Path, Publish!CopyFile(c, p)
       PROVE  PublishInv'
    <3>1. PublishTypes'
      BY <2>5 DEF PublishInv, PublishTypes, ChildFields, PubFields, ActFields,
           Publish!CopyFile
    <3>2. OneWriter'
      BY <2>5 DEF PublishInv, PublishTypes, PubFields, ActFields, OneWriter,
           Publish!CopyFile
    <3>3. ChildStands' /\ (pub.who \subseteq Child)'
      BY <2>5 DEF PublishInv, PublishTypes, ChildFields, PubFields, ChildStands,
           Publish!CopyFile
    <3>4. StillExpected'
      BY <2>5 DEF PublishInv, PublishTypes, ChildFields, PubFields, ActFields,
           OneWriter, ChildStands, StillExpected, Undoing, Publish!CopyFile
    <3>5. Publish!ManagedWritesKept'
      BY <2>5 DEF PublishInv, PublishTypes, StillExpected,
           Publish!ManagedWritesKept, Publish!CopyFile
    <3>6. Publish!PutBackOrReported'
      BY <2>5 DEF PublishInv, PublishTypes, ChildFields, PubFields, OneWriter,
           ChildStands, Undoing, Backed, Publish!PutBackOrReported, Publish!CopyFile
    <3>7. Undoing'
      BY <2>5 DEF PublishInv, PublishTypes, PubFields, ChildStands, Undoing,
           Publish!CopyFile
    <3>8. Backed'
      BY <2>5 DEF PublishInv, PublishTypes, ChildFields, PubFields, ChildStands,
           Undoing, Backed, Publish!CopyFile
    <3>9. OriginalsHeld'
      BY <2>5 DEF PublishInv, PublishTypes, PubFields, ChildStands, Undoing, Backed,
           OriginalsHeld, Publish!CopyFile
    <3> QED BY <3>1, <3>2, <3>3, <3>4, <3>5, <3>6, <3>7, <3>8, <3>9 DEF PublishInv
  <2>6. ASSUME NEW c \in Child, NEW p \in Path, Publish!HashFile(c, p)
       PROVE  PublishInv'
    <3>1. PublishTypes'
      BY <2>6 DEF PublishInv, PublishTypes, ChildFields, PubFields, ActFields,
           Publish!HashFile, Publish!NewChild
    <3>2. OneWriter'
      BY <2>6 DEF PublishInv, PublishTypes, PubFields, ActFields, OneWriter,
           Publish!HashFile, Publish!NewChild
    <3>3. ChildStands' /\ (pub.who \subseteq Child)'
      BY <2>6 DEF PublishInv, PublishTypes, ChildFields, PubFields, ChildStands,
           Publish!HashFile, Publish!NewChild
    <3>4. StillExpected'
      BY <2>6 DEF PublishInv, PublishTypes, ChildFields, PubFields, ActFields,
           OneWriter, ChildStands, StillExpected, Undoing, Publish!HashFile,
           Publish!NewChild
    <3>5. Publish!ManagedWritesKept'
      BY <2>6 DEF PublishInv, PublishTypes, StillExpected,
           Publish!ManagedWritesKept, Publish!HashFile, Publish!NewChild
    <3>6. Publish!PutBackOrReported'
      BY <2>6 DEF PublishInv, PublishTypes, ChildFields, PubFields, OneWriter,
           ChildStands, Undoing, Backed, Publish!PutBackOrReported,
           Publish!HashFile, Publish!NewChild
    <3>7. Undoing'
      BY <2>6 DEF PublishInv, PublishTypes, PubFields, ChildStands, Undoing,
           Publish!HashFile, Publish!NewChild
    <3>8. Backed'
      BY <2>6 DEF PublishInv, PublishTypes, ChildFields, PubFields, ChildStands,
           Undoing, Backed, Publish!HashFile, Publish!NewChild
    <3>9. OriginalsHeld'
      BY <2>6 DEF PublishInv, PublishTypes, PubFields, ChildStands, Undoing, Backed,
           OriginalsHeld, Publish!HashFile, Publish!NewChild
    <3> QED BY <3>1, <3>2, <3>3, <3>4, <3>5, <3>6, <3>7, <3>8, <3>9 DEF PublishInv
  <2>7. ASSUME NEW c \in Child, NEW p \in Path, NEW t \in Txt, Publish!Work(c, p, t)
       PROVE  PublishInv'
    <3>1. PublishTypes'
      BY <2>7 DEF PublishInv, PublishTypes, ChildFields, PubFields, ActFields,
           Publish!Work
    <3>2. OneWriter'
      BY <2>7 DEF PublishInv, PublishTypes, PubFields, ActFields, OneWriter,
           Publish!Work
    <3>3. ChildStands' /\ (pub.who \subseteq Child)'
      BY <2>7 DEF PublishInv, PublishTypes, ChildFields, PubFields, ChildStands,
           Publish!Work
    <3>4. StillExpected'
      BY <2>7 DEF PublishInv, PublishTypes, ChildFields, PubFields, ActFields,
           OneWriter, ChildStands, StillExpected, Undoing, Publish!Work
    <3>5. Publish!ManagedWritesKept'
      BY <2>7 DEF PublishInv, PublishTypes, StillExpected,
           Publish!ManagedWritesKept, Publish!Work
    <3>6. Publish!PutBackOrReported'
      BY <2>7 DEF PublishInv, PublishTypes, ChildFields, PubFields, OneWriter,
           ChildStands, Undoing, Backed, Publish!PutBackOrReported, Publish!Work
    <3>7. Undoing'
      BY <2>7 DEF PublishInv, PublishTypes, PubFields, ChildStands, Undoing,
           Publish!Work
    <3>8. Backed'
      BY <2>7 DEF PublishInv, PublishTypes, ChildFields, PubFields, ChildStands,
           Undoing, Backed, Publish!Work
    <3>9. OriginalsHeld'
      BY <2>7 DEF PublishInv, PublishTypes, PubFields, ChildStands, Undoing, Backed,
           OriginalsHeld, Publish!Work
    <3> QED BY <3>1, <3>2, <3>3, <3>4, <3>5, <3>6, <3>7, <3>8, <3>9 DEF PublishInv
  <2>8. ASSUME NEW c \in Child, NEW ps \in SUBSET Path, Publish!Verify(c, ps)
       PROVE  PublishInv'
    <3>1. PublishTypes'
      BY <2>8 DEF PublishInv, PublishTypes, ChildFields, PubFields, ActFields,
           Publish!Verify
    <3>2. OneWriter'
      BY <2>8 DEF PublishInv, PublishTypes, PubFields, ActFields, OneWriter,
           Publish!Verify
    <3>3. ChildStands' /\ (pub.who \subseteq Child)'
      BY <2>8 DEF PublishInv, PublishTypes, ChildFields, PubFields, ChildStands,
           Publish!Verify
    <3>4. StillExpected'
      BY <2>8 DEF PublishInv, PublishTypes, ChildFields, PubFields, ActFields,
           OneWriter, ChildStands, StillExpected, Undoing, Publish!Verify
    <3>5. Publish!ManagedWritesKept'
      BY <2>8 DEF PublishInv, PublishTypes, StillExpected,
           Publish!ManagedWritesKept, Publish!Verify
    <3>6. Publish!PutBackOrReported'
      BY <2>8 DEF PublishInv, PublishTypes, ChildFields, PubFields, OneWriter,
           ChildStands, Undoing, Backed, Publish!PutBackOrReported, Publish!Verify
    <3>7. Undoing'
      BY <2>8 DEF PublishInv, PublishTypes, PubFields, ChildStands, Undoing,
           Publish!Verify
    <3>8. Backed'
      BY <2>8 DEF PublishInv, PublishTypes, ChildFields, PubFields, ChildStands,
           Undoing, Backed, Publish!Verify
    <3>9. OriginalsHeld'
      BY <2>8 DEF PublishInv, PublishTypes, PubFields, ChildStands, Undoing, Backed,
           OriginalsHeld, Publish!Verify
    <3> QED BY <3>1, <3>2, <3>3, <3>4, <3>5, <3>6, <3>7, <3>8, <3>9 DEF PublishInv
  <2>9. ASSUME NEW c \in Child, Publish!Stage(c)
       PROVE  PublishInv'
    <3>1. /\ pub.pc = "idle" /\ child[c].pc = "verified"
          /\ UNCHANGED <<parent, by, act, aside, lost, stands>>
      BY <2>9 DEF Publish!Stage
    <3>2. CASE /\ UNCHANGED child
               /\ pub' = [pc |-> "staged", who |-> {c}, want |-> child[c].arts,
                          arts |-> Publish!Arts(c), done |-> {}, undo |-> {}, at |-> {},
                          kept |-> {}, backup |-> Publish!NoFiles]
      <4>1. Publish!Arts(c) \subseteq Path
        BY DEF Publish!Arts
      <4>2. /\ DOMAIN pub' = PubFields /\ pub'.pc = "staged" /\ pub'.who = {c}
            /\ pub'.arts \subseteq Path /\ pub'.done = {} /\ DOMAIN pub'.backup = Path
            /\ pub'.undo = {} /\ pub'.at = {} /\ pub'.kept = {}
        BY <3>2, <4>1 DEF PubFields, Publish!NoFiles
      <4> QED BY <3>1, <3>2, <4>2 DEF PublishInv, PublishTypes, OneWriter, ChildStands,
                StillExpected, Undoing, Backed, OriginalsHeld, Publish!ManagedWritesKept,
                Publish!PutBackOrReported
    <3>3. CASE child' = [child EXCEPT ![c].pc = "rejected"] /\ UNCHANGED pub
      BY <3>1, <3>3 DEF PublishInv, PublishTypes, ChildFields, OneWriter, ChildStands,
           StillExpected, Undoing, Backed, OriginalsHeld, Publish!ManagedWritesKept,
           Publish!PutBackOrReported
    <3> QED BY <2>9, <3>2, <3>3 DEF Publish!Stage, Publish!Idle, Publish!Reject
  <2>10. ASSUME NEW c \in Child, Publish!Prepare(c)
       PROVE  PublishInv'
    <3>1. PublishTypes'
      BY <2>10 DEF PublishInv, PublishTypes, ChildFields, PubFields, ActFields,
           Publish!Prepare, Publish!Locked
    <3>2. OneWriter'
      BY <2>10 DEF PublishInv, PublishTypes, PubFields, ActFields, OneWriter,
           Publish!Prepare, Publish!Locked
    <3>3. ChildStands' /\ (pub.who \subseteq Child)'
      BY <2>10 DEF PublishInv, PublishTypes, ChildFields, PubFields, ChildStands,
           Publish!Prepare, Publish!Locked
    <3>4. StillExpected'
      BY <2>10 DEF PublishInv, PublishTypes, ChildFields, PubFields, ActFields,
           OneWriter, ChildStands, StillExpected, Publish!Prepare, Publish!Locked
    <3>5. Publish!ManagedWritesKept'
      BY <2>10 DEF PublishInv, PublishTypes, StillExpected,
           Publish!ManagedWritesKept, Publish!Prepare, Publish!Locked
    <3>6. Publish!PutBackOrReported'
      BY <2>10 DEF PublishInv, PublishTypes, ChildFields, PubFields, OneWriter,
           ChildStands, Undoing, Backed, Publish!PutBackOrReported, Publish!Prepare,
           Publish!Locked
    <3>7. Undoing'
      BY <2>10 DEF PublishInv, PublishTypes, PubFields, ChildStands, Undoing,
           Publish!Prepare, Publish!Locked
    <3>8. Backed'
      BY <2>10 DEF PublishInv, PublishTypes, ChildFields, PubFields, ChildStands,
           Undoing, Backed, Publish!Prepare, Publish!Locked
    <3>9. OriginalsHeld'
      BY <2>10 DEF PublishInv, PublishTypes, PubFields, ChildStands, Undoing,
           Backed, OriginalsHeld, Publish!Prepare, Publish!Locked
    <3> QED BY <3>1, <3>2, <3>3, <3>4, <3>5, <3>6, <3>7, <3>8, <3>9 DEF PublishInv
  <2>11. ASSUME NEW c \in Child, Publish!Revalidate(c)
       PROVE  PublishInv'
    <3>1. PublishTypes'
      BY <2>0, <2>11 DEF PublishInv, PublishTypes, ChildFields, PubFields, ActFields,
           Publish!Revalidate, Publish!Matches, Publish!Fail, Publish!Reject,
           Publish!Idle
    <3>2. OneWriter'
      BY <2>0, <2>11 DEF PublishInv, PublishTypes, PubFields, ActFields, OneWriter,
           Publish!Revalidate, Publish!Matches, Publish!Fail, Publish!Reject,
           Publish!Idle
    <3>3. ChildStands' /\ (pub.who \subseteq Child)'
      BY <2>0, <2>11 DEF PublishInv, PublishTypes, ChildFields, PubFields, ChildStands,
           Publish!Revalidate, Publish!Matches, Publish!Fail, Publish!Reject,
           Publish!Idle
    <3>4. StillExpected'
      BY <2>0, <2>11 DEF PublishInv, PublishTypes, ChildFields, PubFields, ActFields,
           OneWriter, ChildStands, StillExpected, Publish!Revalidate,
           Publish!Matches, Publish!Fail, Publish!Reject, Publish!Idle
    <3>5. Publish!ManagedWritesKept'
      BY <2>0, <2>11 DEF PublishInv, PublishTypes, StillExpected,
           Publish!ManagedWritesKept, Publish!Revalidate, Publish!Matches,
           Publish!Fail, Publish!Reject, Publish!Idle
    <3>6. Publish!PutBackOrReported'
      BY <2>0, <2>11 DEF PublishInv, PublishTypes, ChildFields, PubFields, OneWriter,
           ChildStands, Undoing, Backed, Publish!PutBackOrReported,
           Publish!Revalidate, Publish!Matches, Publish!Fail, Publish!Reject,
           Publish!Idle
    <3>7. Undoing'
      BY <2>0, <2>11 DEF PublishInv, PublishTypes, PubFields, ChildStands, Undoing,
           Publish!Revalidate, Publish!Matches, Publish!Fail, Publish!Reject,
           Publish!Idle
    <3>8. Backed'
      BY <2>0, <2>11 DEF PublishInv, PublishTypes, ChildFields, PubFields, ChildStands,
           Undoing, Backed, Publish!Revalidate, Publish!Matches, Publish!Fail,
           Publish!Reject, Publish!Idle
    <3>9. OriginalsHeld'
      BY <2>0, <2>11 DEF PublishInv, PublishTypes, PubFields, ChildStands, Undoing,
           Backed, OriginalsHeld, Publish!Revalidate, Publish!Matches, Publish!Fail,
           Publish!Reject, Publish!Idle
    <3> QED BY <3>1, <3>2, <3>3, <3>4, <3>5, <3>6, <3>7, <3>8, <3>9 DEF PublishInv
  <2>12. ASSUME NEW c \in Child, Publish!BackUp(c)
       PROVE  PublishInv'
    <3>1. CASE /\ \A p \in pub.arts : child[c].base[p] # Absent => parent[p] = child[c].base[p]
               /\ UNCHANGED <<parent, by, child, act, aside, lost, stands>>
               /\ pub' = [pub EXCEPT !.pc = "replacing", !.backup =
                    [p \in Path |-> IF p \in pub.arts THEN child[c].base[p] ELSE Absent]]
      <4> DEFINE files == [p \in Path |-> IF p \in pub.arts THEN child[c].base[p] ELSE Absent]
      <4>1. DOMAIN files = Path /\ \A p \in Path : p \in pub.arts => files[p] = child[c].base[p]
        OBVIOUS
      <4> HIDE DEF files
      <4>2. /\ DOMAIN pub' = PubFields /\ pub'.pc = "replacing" /\ pub'.backup = files
            /\ pub'.who = pub.who /\ pub'.arts = pub.arts /\ pub'.done = pub.done
            /\ pub'.undo = pub.undo /\ pub'.at = pub.at /\ pub'.kept = pub.kept
        BY <3>1 DEF PublishInv, PublishTypes, PubFields, files
      <4>3. pub.pc = "checked" /\ pub.who = {c}
        BY <2>12 DEF Publish!BackUp
      <4> QED BY <3>1, <4>1, <4>2, <4>3 DEF PublishInv, PublishTypes, PubFields, OneWriter,
                ChildStands, StillExpected, Undoing, Backed, OriginalsHeld,
                Publish!ManagedWritesKept, Publish!PutBackOrReported
    <3>2. CASE Publish!Fail(c)
      <4>1. pub.pc = "checked" /\ pub.who = {c}
        BY <2>12 DEF Publish!BackUp
      <4> QED BY <2>0, <3>2, <4>1 DEF Publish!Fail, Publish!Reject, Publish!Idle, PublishInv,
                PublishTypes, ChildFields, PubFields, OneWriter, ChildStands, StillExpected,
                Undoing, Backed, OriginalsHeld, Publish!ManagedWritesKept,
                Publish!PutBackOrReported
    <3> QED BY <2>12, <3>1, <3>2 DEF Publish!BackUp, Publish!Rest
  <2>13. ASSUME NEW c \in Child, Publish!RollBack(c)
       PROVE  PublishInv'
    <3>1. PublishTypes'
      BY <2>13 DEF PublishInv, PublishTypes, ChildFields, PubFields, ActFields,
           Publish!RollBack
    <3>2. OneWriter'
      BY <2>13 DEF PublishInv, PublishTypes, PubFields, ActFields, OneWriter,
           Publish!RollBack
    <3>3. ChildStands' /\ (pub.who \subseteq Child)'
      BY <2>13 DEF PublishInv, PublishTypes, ChildFields, PubFields, ChildStands,
           Publish!RollBack
    <3>4. StillExpected'
      BY <2>13 DEF PublishInv, PublishTypes, ChildFields, PubFields, ActFields,
           OneWriter, ChildStands, StillExpected, Undoing, Publish!RollBack
    <3>5. Publish!ManagedWritesKept'
      BY <2>13 DEF PublishInv, PublishTypes, StillExpected,
           Publish!ManagedWritesKept, Publish!RollBack
    <3>6. Publish!PutBackOrReported'
      BY <2>13 DEF PublishInv, PublishTypes, ChildFields, PubFields, OneWriter,
           ChildStands, Undoing, Backed, Publish!PutBackOrReported, Publish!RollBack
    <3>7. Undoing'
      BY <2>13 DEF PublishInv, PublishTypes, PubFields, ChildStands, Undoing,
           Publish!RollBack
    <3>8. Backed'
      BY <2>13 DEF PublishInv, PublishTypes, ChildFields, PubFields, ChildStands,
           Undoing, Backed, Publish!RollBack
    <3>9. OriginalsHeld'
      BY <2>13 DEF PublishInv, PublishTypes, PubFields, ChildStands, Undoing,
           Backed, OriginalsHeld, Publish!RollBack
    <3> QED BY <3>1, <3>2, <3>3, <3>4, <3>5, <3>6, <3>7, <3>8, <3>9 DEF PublishInv
  <2>14. ASSUME NEW c \in Child, Publish!Raise(c)
       PROVE  PublishInv'
    <3>1. PublishTypes'
      BY <2>0, <2>14 DEF PublishInv, PublishTypes, ChildFields, PubFields, ActFields,
           Publish!Raise, Publish!Retained, Publish!Backups, Publish!Reject,
           Publish!Idle
    <3>2. OneWriter'
      BY <2>0, <2>14 DEF PublishInv, PublishTypes, PubFields, ActFields, OneWriter,
           Publish!Raise, Publish!Retained, Publish!Backups, Publish!Reject,
           Publish!Idle
    <3>3. ChildStands' /\ (pub.who \subseteq Child)'
      BY <2>0, <2>14 DEF PublishInv, PublishTypes, ChildFields, PubFields, ChildStands,
           Publish!Raise, Publish!Retained, Publish!Backups, Publish!Reject,
           Publish!Idle
    <3>4. StillExpected'
      BY <2>0, <2>14 DEF PublishInv, PublishTypes, ChildFields, PubFields, ActFields,
           OneWriter, ChildStands, StillExpected, Publish!Raise, Publish!Retained,
           Publish!Backups, Publish!Reject, Publish!Idle
    <3>5. Publish!ManagedWritesKept'
      BY <2>0, <2>14 DEF PublishInv, PublishTypes, StillExpected,
           Publish!ManagedWritesKept, Publish!Raise, Publish!Retained,
           Publish!Backups, Publish!Reject, Publish!Idle
    <3>6. Publish!PutBackOrReported'
      BY <2>0, <2>14 DEF PublishInv, PublishTypes, ChildFields, PubFields, OneWriter,
           ChildStands, Undoing, Backed, Publish!PutBackOrReported, Publish!Raise,
           Publish!Retained, Publish!Backups, Publish!Reject, Publish!Idle
    <3>7. Undoing'
      BY <2>0, <2>14 DEF PublishInv, PublishTypes, PubFields, ChildStands, Undoing,
           Publish!Raise, Publish!Retained, Publish!Backups, Publish!Reject,
           Publish!Idle
    <3>8. Backed'
      BY <2>0, <2>14 DEF PublishInv, PublishTypes, ChildFields, PubFields, ChildStands,
           Undoing, Backed, Publish!Raise, Publish!Retained, Publish!Backups,
           Publish!Reject, Publish!Idle
    <3>9. OriginalsHeld'
      BY <2>0, <2>14 DEF PublishInv, PublishTypes, PubFields, ChildStands, Undoing,
           Backed, OriginalsHeld, Publish!Raise, Publish!Retained, Publish!Backups,
           Publish!Reject, Publish!Idle
    <3> QED BY <3>1, <3>2, <3>3, <3>4, <3>5, <3>6, <3>7, <3>8, <3>9 DEF PublishInv
  <2>15. ASSUME NEW c \in Child, Publish!Finish(c)
       PROVE  PublishInv'
    <3>1. PublishTypes'
      BY <2>0, <2>15 DEF PublishInv, PublishTypes, ChildFields, PubFields, ActFields,
           Publish!Finish, Publish!Originals
    <3>2. OneWriter'
      BY <2>0, <2>15 DEF PublishInv, PublishTypes, PubFields, ActFields, OneWriter,
           Publish!Finish, Publish!Originals
    <3>3. ChildStands' /\ (pub.who \subseteq Child)'
      BY <2>0, <2>15 DEF PublishInv, PublishTypes, ChildFields, PubFields, ChildStands,
           Publish!Finish, Publish!Originals
    <3>4. StillExpected'
      BY <2>0, <2>15 DEF PublishInv, PublishTypes, ChildFields, PubFields, ActFields,
           OneWriter, ChildStands, StillExpected, Publish!Finish, Publish!Originals
    <3>5. Publish!ManagedWritesKept'
      BY <2>0, <2>15 DEF PublishInv, PublishTypes, StillExpected,
           Publish!ManagedWritesKept, Publish!Finish, Publish!Originals
    <3>6. Publish!PutBackOrReported'
      BY <2>0, <2>15 DEF PublishInv, PublishTypes, ChildFields, PubFields, OneWriter,
           ChildStands, Undoing, Backed, Publish!PutBackOrReported, Publish!Finish,
           Publish!Originals
    <3>7. Undoing'
      BY <2>0, <2>15 DEF PublishInv, PublishTypes, PubFields, ChildStands, Undoing,
           Publish!Finish, Publish!Originals
    <3>8. Backed'
      BY <2>0, <2>15 DEF PublishInv, PublishTypes, ChildFields, PubFields, ChildStands,
           Undoing, Backed, Publish!Finish, Publish!Originals
    <3>9. OriginalsHeld'
      BY <2>0, <2>15 DEF PublishInv, PublishTypes, PubFields, ChildStands, Undoing,
           Backed, OriginalsHeld, Publish!Finish, Publish!Originals
    <3> QED BY <3>1, <3>2, <3>3, <3>4, <3>5, <3>6, <3>7, <3>8, <3>9 DEF PublishInv
  <2>16. ASSUME NEW c \in Child, Publish!SaveBaseline(c)
       PROVE  PublishInv'
    <3>1. /\ pub.pc = "saving" /\ pub' = Publish!Idle
          /\ UNCHANGED <<parent, by, act, aside, lost, stands>>
      BY <2>16, Zenon DEF Publish!SaveBaseline
    <3>2. DOMAIN child' = Child /\ \A d \in Child : DOMAIN child'[d] = ChildFields
      <4> DEFINE given == [p \in Path |-> IF p \in pub.arts THEN pub.want[p] ELSE child[c].base[p]]
                 copied == [p \in Path |-> IF p \in pub.arts THEN pub.want[p] ELSE child[c].orig[p]]
      <4>1. child' = [child EXCEPT ![c].pc = "working", ![c].arts = Publish!NoFiles,
                                   ![c].base = given, ![c].orig = copied]
        BY <2>16, Zenon DEF Publish!SaveBaseline
      <4> HIDE DEF given, copied
      <4> QED BY <4>1 DEF PublishInv, PublishTypes
    <3>3. /\ DOMAIN pub' = PubFields /\ pub'.pc = "idle" /\ pub'.who = {} /\ pub'.arts = {}
          /\ pub'.done = {} /\ pub'.undo = {} /\ pub'.at = {} /\ pub'.kept = {}
          /\ DOMAIN pub'.backup = Path
      BY <2>0, <3>1 DEF Publish!Idle, PubFields
    <3>4. \A r \in stands : r \in aside
      BY <3>1 DEF PublishInv, PublishTypes, Backed, OriginalsHeld
    <3> QED BY <3>1, <3>2, <3>3, <3>4 DEF PublishInv, PublishTypes, OneWriter, ChildStands,
              StillExpected, Undoing, Backed, OriginalsHeld, Publish!ManagedWritesKept,
              Publish!PutBackOrReported
  <2>17. ASSUME NEW c \in Child, NEW p \in Path, Publish!Replace(c, p)
       PROVE  PublishInv'
    <3>1. PublishTypes'
      BY <2>17 DEF PublishInv, PublishTypes, ChildFields, PubFields, ActFields,
           Publish!Replace, Publish!Write, Publish!Overwrites, Publish!Originals
    <3>2. OneWriter'
      BY <2>17 DEF PublishInv, PublishTypes, PubFields, ActFields, OneWriter,
           Publish!Replace, Publish!Write, Publish!Overwrites, Publish!Originals
    <3>3. ChildStands' /\ (pub.who \subseteq Child)'
      BY <2>17 DEF PublishInv, PublishTypes, ChildFields, PubFields, ChildStands,
           Publish!Replace, Publish!Write, Publish!Overwrites, Publish!Originals
    <3>4. StillExpected'
      BY <2>17 DEF PublishInv, PublishTypes, ChildFields, PubFields, ActFields,
           OneWriter, ChildStands, StillExpected, Undoing, Publish!Replace,
           Publish!Write, Publish!Overwrites, Publish!Originals
    <3>5. Publish!ManagedWritesKept'
      BY <2>17 DEF PublishInv, PublishTypes, StillExpected,
           Publish!ManagedWritesKept, Publish!Replace, Publish!Write,
           Publish!Overwrites, Publish!Originals
    <3>6. Publish!PutBackOrReported'
      BY <2>17 DEF PublishInv, PublishTypes, ChildFields, PubFields, OneWriter,
           ChildStands, Undoing, Backed, Publish!PutBackOrReported, Publish!Replace,
           Publish!Write, Publish!Overwrites, Publish!Originals
    <3>7. Undoing'
      BY <2>17 DEF PublishInv, PublishTypes, PubFields, ChildStands, Undoing,
           Publish!Replace, Publish!Write, Publish!Overwrites, Publish!Originals
    <3>8. Backed'
      BY <2>17 DEF PublishInv, PublishTypes, ChildFields, PubFields, ChildStands,
           Undoing, Backed, Publish!Replace, Publish!Write, Publish!Overwrites,
           Publish!Originals
    <3>9. OriginalsHeld'
      BY <2>17 DEF PublishInv, PublishTypes, PubFields, ChildStands, Undoing,
           Backed, OriginalsHeld, Publish!Replace, Publish!Write,
           Publish!Overwrites, Publish!Originals
    <3> QED BY <3>1, <3>2, <3>3, <3>4, <3>5, <3>6, <3>7, <3>8, <3>9 DEF PublishInv
  <2>18. ASSUME NEW c \in Child, NEW p \in Path, Publish!CheckBack(c, p)
       PROVE  PublishInv'
    <3>1. PublishTypes'
      BY <2>18 DEF PublishInv, PublishTypes, ChildFields, PubFields, ActFields,
           Publish!CheckBack
    <3>2. OneWriter'
      BY <2>18 DEF PublishInv, PublishTypes, PubFields, ActFields, OneWriter,
           Publish!CheckBack
    <3>3. ChildStands' /\ (pub.who \subseteq Child)'
      BY <2>18 DEF PublishInv, PublishTypes, ChildFields, PubFields, ChildStands,
           Publish!CheckBack
    <3>4. StillExpected'
      BY <2>18 DEF PublishInv, PublishTypes, ChildFields, PubFields, ActFields,
           OneWriter, ChildStands, StillExpected, Undoing, Publish!CheckBack
    <3>5. Publish!ManagedWritesKept'
      BY <2>18 DEF PublishInv, PublishTypes, StillExpected,
           Publish!ManagedWritesKept, Publish!CheckBack
    <3>6. Publish!PutBackOrReported'
      BY <2>18 DEF PublishInv, PublishTypes, ChildFields, PubFields, OneWriter,
           ChildStands, Undoing, Backed, Publish!PutBackOrReported,
           Publish!CheckBack
    <3>7. Undoing'
      BY <2>18 DEF PublishInv, PublishTypes, PubFields, ChildStands, Undoing,
           Publish!CheckBack
    <3>8. Backed'
      BY <2>18 DEF PublishInv, PublishTypes, ChildFields, PubFields, ChildStands,
           Undoing, Backed, Publish!CheckBack
    <3>9. OriginalsHeld'
      BY <2>18 DEF PublishInv, PublishTypes, PubFields, ChildStands, Undoing,
           Backed, OriginalsHeld, Publish!CheckBack
    <3> QED BY <3>1, <3>2, <3>3, <3>4, <3>5, <3>6, <3>7, <3>8, <3>9 DEF PublishInv
  <2>19. ASSUME NEW c \in Child, NEW p \in Path, Publish!PutBack(c, p)
       PROVE  PublishInv'
    <3>1. PublishTypes'
      BY <2>19 DEF PublishInv, PublishTypes, ChildFields, PubFields, ActFields,
           Publish!PutBack, Publish!Write, Publish!Overwrites, Publish!Originals
    <3>2. OneWriter'
      BY <2>19 DEF PublishInv, PublishTypes, PubFields, ActFields, OneWriter,
           Publish!PutBack, Publish!Write, Publish!Overwrites, Publish!Originals
    <3>3. ChildStands' /\ (pub.who \subseteq Child)'
      BY <2>19 DEF PublishInv, PublishTypes, ChildFields, PubFields, ChildStands,
           Publish!PutBack, Publish!Write, Publish!Overwrites, Publish!Originals
    <3>4. StillExpected'
      BY <2>19 DEF PublishInv, PublishTypes, ChildFields, PubFields, ActFields,
           OneWriter, ChildStands, StillExpected, Undoing, Publish!PutBack,
           Publish!Write, Publish!Overwrites, Publish!Originals
    <3>5. Publish!ManagedWritesKept'
      BY <2>19 DEF PublishInv, PublishTypes, StillExpected,
           Publish!ManagedWritesKept, Publish!PutBack, Publish!Write,
           Publish!Overwrites, Publish!Originals
    <3>6. Publish!PutBackOrReported'
      BY <2>19 DEF PublishInv, PublishTypes, ChildFields, PubFields, OneWriter,
           ChildStands, Undoing, Backed, Publish!PutBackOrReported, Publish!PutBack,
           Publish!Write, Publish!Overwrites, Publish!Originals
    <3>7. Undoing'
      BY <2>19 DEF PublishInv, PublishTypes, PubFields, ChildStands, Undoing,
           Publish!PutBack, Publish!Write, Publish!Overwrites, Publish!Originals
    <3>8. Backed'
      BY <2>19 DEF PublishInv, PublishTypes, ChildFields, PubFields, ChildStands,
           Undoing, Backed, Publish!PutBack, Publish!Write, Publish!Overwrites,
           Publish!Originals
    <3>9. OriginalsHeld'
      BY <2>19 DEF PublishInv, PublishTypes, PubFields, ChildStands, Undoing,
           Backed, OriginalsHeld, Publish!PutBack, Publish!Write,
           Publish!Overwrites, Publish!Originals
    <3> QED BY <3>1, <3>2, <3>3, <3>4, <3>5, <3>6, <3>7, <3>8, <3>9 DEF PublishInv
  <2>20. ASSUME NEW c \in Child, NEW p \in Path, Publish!CannotPutBack(c, p)
       PROVE  PublishInv'
    <3>1. PublishTypes'
      BY <2>20 DEF PublishInv, PublishTypes, ChildFields, PubFields, ActFields,
           Publish!CannotPutBack
    <3>2. OneWriter'
      BY <2>20 DEF PublishInv, PublishTypes, PubFields, ActFields, OneWriter,
           Publish!CannotPutBack
    <3>3. ChildStands' /\ (pub.who \subseteq Child)'
      BY <2>20 DEF PublishInv, PublishTypes, ChildFields, PubFields, ChildStands,
           Publish!CannotPutBack
    <3>4. StillExpected'
      BY <2>20 DEF PublishInv, PublishTypes, ChildFields, PubFields, ActFields,
           OneWriter, ChildStands, StillExpected, Undoing, Publish!CannotPutBack
    <3>5. Publish!ManagedWritesKept'
      BY <2>20 DEF PublishInv, PublishTypes, StillExpected,
           Publish!ManagedWritesKept, Publish!CannotPutBack
    <3>6. Publish!PutBackOrReported'
      BY <2>20 DEF PublishInv, PublishTypes, ChildFields, PubFields, OneWriter,
           ChildStands, Undoing, Backed, Publish!PutBackOrReported,
           Publish!CannotPutBack
    <3>7. Undoing'
      BY <2>20 DEF PublishInv, PublishTypes, PubFields, ChildStands, Undoing,
           Publish!CannotPutBack
    <3>8. Backed'
      BY <2>20 DEF PublishInv, PublishTypes, ChildFields, PubFields, ChildStands,
           Undoing, Backed, Publish!CannotPutBack
    <3>9. OriginalsHeld'
      BY <2>20 DEF PublishInv, PublishTypes, PubFields, ChildStands, Undoing,
           Backed, OriginalsHeld, Publish!CannotPutBack
    <3> QED BY <3>1, <3>2, <3>3, <3>4, <3>5, <3>6, <3>7, <3>8, <3>9 DEF PublishInv
  <2>21. ASSUME NEW a \in Act, Publish!BeginApply(a)
       PROVE  PublishInv'
    <3>1. PublishTypes'
      BY <2>21 DEF PublishInv, PublishTypes, ChildFields, PubFields, ActFields,
           Publish!BeginApply, Publish!Locked, Publish!Unchanged, Publish!Refuse
    <3>2. OneWriter'
      BY <2>21 DEF PublishInv, PublishTypes, PubFields, ActFields, OneWriter,
           Publish!BeginApply, Publish!Locked, Publish!Unchanged, Publish!Refuse
    <3>3. ChildStands' /\ (pub.who \subseteq Child)'
      BY <2>21 DEF PublishInv, PublishTypes, ChildFields, PubFields, ChildStands,
           Publish!BeginApply, Publish!Locked, Publish!Unchanged, Publish!Refuse
    <3>4. StillExpected'
      BY <2>21 DEF PublishInv, PublishTypes, ChildFields, PubFields, ActFields,
           OneWriter, ChildStands, StillExpected, Publish!BeginApply,
           Publish!Locked, Publish!Unchanged, Publish!Refuse
    <3>5. Publish!ManagedWritesKept'
      BY <2>21 DEF PublishInv, PublishTypes, StillExpected,
           Publish!ManagedWritesKept, Publish!BeginApply, Publish!Locked,
           Publish!Unchanged, Publish!Refuse
    <3>6. Publish!PutBackOrReported'
      BY <2>21 DEF PublishInv, PublishTypes, ChildFields, PubFields, OneWriter,
           ChildStands, Undoing, Backed, Publish!PutBackOrReported,
           Publish!BeginApply, Publish!Locked, Publish!Unchanged, Publish!Refuse
    <3>7. Undoing'
      BY <2>21 DEF PublishInv, PublishTypes, PubFields, ChildStands, Undoing,
           Publish!BeginApply, Publish!Locked, Publish!Unchanged, Publish!Refuse
    <3>8. Backed'
      BY <2>21 DEF PublishInv, PublishTypes, ChildFields, PubFields, ChildStands,
           Undoing, Backed, Publish!BeginApply, Publish!Locked, Publish!Unchanged,
           Publish!Refuse
    <3>9. OriginalsHeld'
      BY <2>21 DEF PublishInv, PublishTypes, PubFields, ChildStands, Undoing,
           Backed, OriginalsHeld, Publish!BeginApply, Publish!Locked,
           Publish!Unchanged, Publish!Refuse
    <3> QED BY <3>1, <3>2, <3>3, <3>4, <3>5, <3>6, <3>7, <3>8, <3>9 DEF PublishInv
  <2>22. ASSUME NEW a \in Act, Publish!Apply(a)
       PROVE  PublishInv'
    <3>1. PublishTypes'
      BY <2>22 DEF PublishInv, PublishTypes, ChildFields, PubFields, ActFields,
           Publish!Apply, Publish!Write, Publish!Overwrites
    <3>2. OneWriter'
      BY <2>22 DEF PublishInv, PublishTypes, PubFields, ActFields, OneWriter,
           Publish!Apply, Publish!Write, Publish!Overwrites
    <3>3. ChildStands' /\ (pub.who \subseteq Child)'
      BY <2>22 DEF PublishInv, PublishTypes, ChildFields, PubFields, ChildStands,
           Publish!Apply, Publish!Write, Publish!Overwrites
    <3>4. StillExpected'
      BY <2>22 DEF PublishInv, PublishTypes, ChildFields, PubFields, ActFields,
           OneWriter, ChildStands, StillExpected, Publish!Apply, Publish!Write,
           Publish!Overwrites
    <3>5. Publish!ManagedWritesKept'
      BY <2>22 DEF PublishInv, PublishTypes, StillExpected,
           Publish!ManagedWritesKept, Publish!Apply, Publish!Write,
           Publish!Overwrites
    <3>6. Publish!PutBackOrReported'
      BY <2>22 DEF PublishInv, PublishTypes, ChildFields, PubFields, OneWriter,
           ChildStands, Undoing, Backed, Publish!PutBackOrReported, Publish!Apply,
           Publish!Write, Publish!Overwrites
    <3>7. Undoing'
      BY <2>22 DEF PublishInv, PublishTypes, PubFields, ChildStands, Undoing,
           Publish!Apply, Publish!Write, Publish!Overwrites
    <3>8. Backed'
      BY <2>22 DEF PublishInv, PublishTypes, ChildFields, PubFields, ChildStands,
           Undoing, Backed, Publish!Apply, Publish!Write, Publish!Overwrites
    <3>9. OriginalsHeld'
      BY <2>22 DEF PublishInv, PublishTypes, PubFields, ChildStands, Undoing,
           Backed, OriginalsHeld, Publish!Apply, Publish!Write, Publish!Overwrites
    <3> QED BY <3>1, <3>2, <3>3, <3>4, <3>5, <3>6, <3>7, <3>8, <3>9 DEF PublishInv
  <2>23. ASSUME NEW a \in Act, Publish!BeginReverse(a)
       PROVE  PublishInv'
    <3>1. PublishTypes'
      BY <2>23 DEF PublishInv, PublishTypes, ChildFields, PubFields, ActFields,
           Publish!BeginReverse, Publish!Locked
    <3>2. OneWriter'
      BY <2>23 DEF PublishInv, PublishTypes, PubFields, ActFields, OneWriter,
           Publish!BeginReverse, Publish!Locked
    <3>3. ChildStands' /\ (pub.who \subseteq Child)'
      BY <2>23 DEF PublishInv, PublishTypes, ChildFields, PubFields, ChildStands,
           Publish!BeginReverse, Publish!Locked
    <3>4. StillExpected'
      BY <2>23 DEF PublishInv, PublishTypes, ChildFields, PubFields, ActFields,
           OneWriter, ChildStands, StillExpected, Publish!BeginReverse,
           Publish!Locked
    <3>5. Publish!ManagedWritesKept'
      BY <2>23 DEF PublishInv, PublishTypes, StillExpected,
           Publish!ManagedWritesKept, Publish!BeginReverse, Publish!Locked
    <3>6. Publish!PutBackOrReported'
      BY <2>23 DEF PublishInv, PublishTypes, ChildFields, PubFields, OneWriter,
           ChildStands, Undoing, Backed, Publish!PutBackOrReported,
           Publish!BeginReverse, Publish!Locked
    <3>7. Undoing'
      BY <2>23 DEF PublishInv, PublishTypes, PubFields, ChildStands, Undoing,
           Publish!BeginReverse, Publish!Locked
    <3>8. Backed'
      BY <2>23 DEF PublishInv, PublishTypes, ChildFields, PubFields, ChildStands,
           Undoing, Backed, Publish!BeginReverse, Publish!Locked
    <3>9. OriginalsHeld'
      BY <2>23 DEF PublishInv, PublishTypes, PubFields, ChildStands, Undoing,
           Backed, OriginalsHeld, Publish!BeginReverse, Publish!Locked
    <3> QED BY <3>1, <3>2, <3>3, <3>4, <3>5, <3>6, <3>7, <3>8, <3>9 DEF PublishInv
  <2>24. ASSUME NEW a \in Act, Publish!Reverse(a)
       PROVE  PublishInv'
    <3>1. PublishTypes'
      BY <2>24 DEF PublishInv, PublishTypes, ChildFields, PubFields, ActFields,
           Publish!Reverse, Publish!Write, Publish!Overwrites
    <3>2. OneWriter'
      BY <2>24 DEF PublishInv, PublishTypes, PubFields, ActFields, OneWriter,
           Publish!Reverse, Publish!Write, Publish!Overwrites
    <3>3. ChildStands' /\ (pub.who \subseteq Child)'
      BY <2>24 DEF PublishInv, PublishTypes, ChildFields, PubFields, ChildStands,
           Publish!Reverse, Publish!Write, Publish!Overwrites
    <3>4. StillExpected'
      BY <2>24 DEF PublishInv, PublishTypes, ChildFields, PubFields, ActFields,
           OneWriter, ChildStands, StillExpected, Publish!Reverse, Publish!Write,
           Publish!Overwrites
    <3>5. Publish!ManagedWritesKept'
      BY <2>24 DEF PublishInv, PublishTypes, StillExpected,
           Publish!ManagedWritesKept, Publish!Reverse, Publish!Write,
           Publish!Overwrites
    <3>6. Publish!PutBackOrReported'
      BY <2>24 DEF PublishInv, PublishTypes, ChildFields, PubFields, OneWriter,
           ChildStands, Undoing, Backed, Publish!PutBackOrReported, Publish!Reverse,
           Publish!Write, Publish!Overwrites
    <3>7. Undoing'
      BY <2>24 DEF PublishInv, PublishTypes, PubFields, ChildStands, Undoing,
           Publish!Reverse, Publish!Write, Publish!Overwrites
    <3>8. Backed'
      BY <2>24 DEF PublishInv, PublishTypes, ChildFields, PubFields, ChildStands,
           Undoing, Backed, Publish!Reverse, Publish!Write, Publish!Overwrites
    <3>9. OriginalsHeld'
      BY <2>24 DEF PublishInv, PublishTypes, PubFields, ChildStands, Undoing,
           Backed, OriginalsHeld, Publish!Reverse, Publish!Write, Publish!Overwrites
    <3> QED BY <3>1, <3>2, <3>3, <3>4, <3>5, <3>6, <3>7, <3>8, <3>9 DEF PublishInv
  <2>25. ASSUME NEW a \in Act, NEW p \in Path, NEW t \in Txt, Publish!ProposeFile(a, p, t)
       PROVE  PublishInv'
    <3>1. PublishTypes'
      BY <2>25 DEF PublishInv, PublishTypes, ChildFields, PubFields, ActFields,
           Publish!ProposeFile
    <3>2. OneWriter'
      BY <2>25 DEF PublishInv, PublishTypes, PubFields, ActFields, OneWriter,
           Publish!ProposeFile
    <3>3. ChildStands' /\ (pub.who \subseteq Child)'
      BY <2>25 DEF PublishInv, PublishTypes, ChildFields, PubFields, ChildStands,
           Publish!ProposeFile
    <3>4. StillExpected'
      BY <2>25 DEF PublishInv, PublishTypes, ChildFields, PubFields, ActFields,
           OneWriter, ChildStands, StillExpected, Undoing, Publish!ProposeFile
    <3>5. Publish!ManagedWritesKept'
      BY <2>25 DEF PublishInv, PublishTypes, StillExpected,
           Publish!ManagedWritesKept, Publish!ProposeFile
    <3>6. Publish!PutBackOrReported'
      BY <2>25 DEF PublishInv, PublishTypes, ChildFields, PubFields, OneWriter,
           ChildStands, Undoing, Backed, Publish!PutBackOrReported,
           Publish!ProposeFile
    <3>7. Undoing'
      BY <2>25 DEF PublishInv, PublishTypes, PubFields, ChildStands, Undoing,
           Publish!ProposeFile
    <3>8. Backed'
      BY <2>25 DEF PublishInv, PublishTypes, ChildFields, PubFields, ChildStands,
           Undoing, Backed, Publish!ProposeFile
    <3>9. OriginalsHeld'
      BY <2>25 DEF PublishInv, PublishTypes, PubFields, ChildStands, Undoing,
           Backed, OriginalsHeld, Publish!ProposeFile
    <3> QED BY <3>1, <3>2, <3>3, <3>4, <3>5, <3>6, <3>7, <3>8, <3>9 DEF PublishInv
  <2>26. ASSUME NEW p \in Path, NEW t \in Txt \cup {Absent}, Publish!UserEdit(p, t)
       PROVE  PublishInv'
    <3>1. PublishTypes'
      BY <2>26 DEF PublishInv, PublishTypes, ChildFields, PubFields, ActFields,
           Publish!UserEdit
    <3>2. OneWriter'
      BY <2>26 DEF PublishInv, PublishTypes, PubFields, ActFields, OneWriter,
           Publish!UserEdit
    <3>3. ChildStands' /\ (pub.who \subseteq Child)'
      BY <2>26 DEF PublishInv, PublishTypes, ChildFields, PubFields, ChildStands,
           Publish!UserEdit
    <3>4. StillExpected'
      BY <2>26 DEF PublishInv, PublishTypes, ChildFields, PubFields, ActFields,
           OneWriter, ChildStands, StillExpected, Publish!UserEdit
    <3>5. Publish!ManagedWritesKept'
      BY <2>26 DEF PublishInv, PublishTypes, StillExpected,
           Publish!ManagedWritesKept, Publish!UserEdit
    <3>6. Publish!PutBackOrReported'
      BY <2>26 DEF PublishInv, PublishTypes, ChildFields, PubFields, OneWriter,
           ChildStands, Undoing, Backed, Publish!PutBackOrReported, Publish!UserEdit
    <3>7. Undoing'
      BY <2>26 DEF PublishInv, PublishTypes, PubFields, ChildStands, Undoing,
           Publish!UserEdit
    <3>8. Backed'
      BY <2>26 DEF PublishInv, PublishTypes, ChildFields, PubFields, ChildStands,
           Undoing, Backed, Publish!UserEdit
    <3>9. OriginalsHeld'
      BY <2>26 DEF PublishInv, PublishTypes, PubFields, ChildStands, Undoing,
           Backed, OriginalsHeld, Publish!UserEdit
    <3> QED BY <3>1, <3>2, <3>3, <3>4, <3>5, <3>6, <3>7, <3>8, <3>9 DEF PublishInv
  <2>27. CASE Publish!Crash
    BY <2>0, <2>27 DEF Publish!Crash, Publish!Idle, Publish!Backups, PublishInv, PublishTypes, ChildFields, PubFields,
         ActFields, OneWriter, ChildStands, StillExpected, Undoing, Backed, OriginalsHeld,
         Publish!ManagedWritesKept, Publish!PutBackOrReported
  <2>28. CASE UNCHANGED Publish!vars
    BY <2>28 DEF Publish!vars, PublishInv, PublishTypes, ChildFields, PubFields,
         ActFields, OneWriter, ChildStands, StillExpected, Undoing, Backed, OriginalsHeld,
         Publish!ManagedWritesKept, Publish!PutBackOrReported
  <2> QED BY <2>1, <2>2, <2>3, <2>4, <2>5, <2>6, <2>7, <2>8, <2>9, <2>10, <2>11,
        <2>12, <2>13, <2>14, <2>15, <2>16, <2>17, <2>18, <2>19, <2>20, <2>21, <2>22,
        <2>23, <2>24, <2>25, <2>26, <2>27, <2>28 DEF Publish!Next,
        Publish!ChildNext, Publish!PublishNext, Publish!ActionNext
<1>3. PublishInv => Publish!PublishHolds
  <2> SUFFICES ASSUME PublishInv PROVE Publish!OriginalsAside
    BY DEF PublishInv, Publish!PublishHolds
  <2> QED BY DEF PublishInv, PublishTypes, OriginalsHeld, Publish!OriginalsAside,
             Publish!Backups
<1> QED BY <1>1, <1>2, <1>3, PTL DEF Publish!Spec

\* publish_artifacts and the file actions: in Tools, no managed write
\* overwrites another since it looked at the file, and a failed publication puts
\* back what it replaced or keeps the original.
THEOREM WritersKeepEachOther == Spec => []PublishHolds
<1>1. Init => Publish!Init \/ focus # "publish"
  BY DEF Init
<1>2. [Next]_vars => [Publish!Next]_(Publish!vars)
  BY DEF Next, vars, PublishVars, Publish!vars, Publish!Rest
<1>3. focus # "publish" /\ [Next]_vars => (focus # "publish")'
  BY DEF Next, vars
<1>4. Publish!PublishHolds \/ focus # "publish" => PublishHolds
  BY DEF PublishHolds
<1> QED BY <1>1, <1>2, <1>3, PublishSafe, <1>4, PTL DEF Spec, Publish!Spec

-----------------------------------------------------------------------------
(***************************************************************************)
(* Worktrees.                                                              *)
(***************************************************************************)

NoJobIn == \A j \in Job : job[j] \notin Wt

\* The session's root exists, or is the workspace itself; an exit leaves the
\* tree before it is removed; and a job stands in a tree that is gone only
\* when it started after the preflight of the action that removed it.  A new
\* action is proposed when all of those have ended.
WorktreeInv ==
  /\ scope \in Wt \cup {Control} /\ active \subseteq Wt
  /\ \A v, w \in active : v = w
  /\ DOMAIN tree = Wt /\ DOMAIN job = Job
  /\ op \in [pc : {"none", "pending", "add", "deactivate", "insert", "switch", "leave",
                  "remove", "branch", "close"},
            kind : {"none", "create", "keep", "remove"}, wt : Wt \cup {Control},
            discard : BOOLEAN]
  /\ op.pc # "none" => op.wt \in Wt
  /\ scope # Control => tree[scope] # "absent"
  /\ \A j \in Job : job[j] \in Wt => (tree[job[j]] # "absent" \/ raced)
  /\ op.pc = "pending" => \A j \in Job : job[j] \in Wt => tree[job[j]] # "absent"
  /\ op.pc \in {"leave", "remove"} => NoJobIn \/ raced
  /\ op.pc = "remove" => scope = Control
  /\ op.pc \in {"deactivate", "insert", "switch"} => tree[op.wt] # "absent"

\* WorktreeActionHandler and SessionProcessManager: neither the session nor a
\* background job that the preflight could see is left in a directory that was
\* removed, for any worktrees, jobs and limits.
LEMMA WorktreeSafe == Worktree!Spec => []Worktree!StandsOnGround
<1>0. Control \notin Wt /\ "none" \notin Wt /\ "ended" \notin Wt
  BY ToolsAssumption
<1> USE <1>0
<1> USE DEF WorktreeInv, NoJobIn, Worktree!NoOp
<1>1. Worktree!Init => WorktreeInv
  BY DEF Worktree!Init
<1>2. WorktreeInv /\ [Worktree!Next]_(Worktree!vars) => WorktreeInv'
  <2> SUFFICES ASSUME WorktreeInv, [Worktree!Next]_(Worktree!vars) PROVE WorktreeInv'
    OBVIOUS
  <2> USE DEF Worktree!Executing, Worktree!At, Worktree!Preflight, Worktree!HasActiveJob,
        Worktree!Started
  <2>1. ASSUME NEW w \in Wt, Worktree!Edit(w) PROVE WorktreeInv'
    BY <2>1 DEF Worktree!Edit
  <2>2. ASSUME NEW w \in Wt, Worktree!Commit(w) PROVE WorktreeInv'
    BY <2>2 DEF Worktree!Commit
  <2>3. ASSUME NEW j \in Job, Worktree!StartJob(j) PROVE WorktreeInv'
    BY <2>3 DEF Worktree!StartJob
  <2>4. ASSUME NEW j \in Job, Worktree!EndJob(j) PROVE WorktreeInv'
    BY <2>4 DEF Worktree!EndJob
  <2>5. ASSUME NEW w \in Wt, Worktree!ProposeCreate(w) PROVE WorktreeInv'
    BY <2>5 DEF Worktree!ProposeCreate
  <2>6. ASSUME NEW k \in {"keep", "remove"}, NEW d \in BOOLEAN, Worktree!ProposeExit(k, d)
        PROVE  WorktreeInv'
    BY <2>6 DEF Worktree!ProposeExit
  <2>7. CASE Worktree!Reject
    BY <2>7 DEF Worktree!Reject
  <2>8. CASE Worktree!Approve
    <3>1. /\ UNCHANGED <<scope, active, tree, job>> /\ raced' = FALSE
          /\ op' = Worktree!NoOp \/ (Worktree!Preflight /\ \E n \in {"add", "leave"} :
                                       op' = [op EXCEPT !.pc = n])
      BY <2>8 DEF Worktree!Approve
    <3>2. op.pc = "pending"
      BY <2>8 DEF Worktree!Approve
    <3>3. CASE op' = Worktree!NoOp
      BY <3>1, <3>2, <3>3
    <3>4. ASSUME NEW n \in {"add", "leave"}, op' = [op EXCEPT !.pc = n],
                 Worktree!Preflight
          PROVE  WorktreeInv'
      <4>1. NoJobIn
        BY <3>4
      <4>2. /\ op' \in [pc : {"add", "leave"}, kind : {"none", "create", "keep", "remove"},
                       wt : Wt \cup {Control}, discard : BOOLEAN]
            /\ op'.wt \in Wt
        BY <3>2, <3>4
      <4> QED BY <3>1, <4>1, <4>2
    <3> QED BY <3>1, <3>3, <3>4
  <2>9. CASE Worktree!GitAdd
    BY <2>9 DEF Worktree!GitAdd
  <2>10. CASE Worktree!Deactivate
    BY <2>10 DEF Worktree!Deactivate
  <2>11. CASE Worktree!InsertRow
    BY <2>11 DEF Worktree!InsertRow
  <2>12. CASE Worktree!Switch
    BY <2>12 DEF Worktree!Switch
  <2>13. CASE Worktree!LeaveTree
    BY <2>13 DEF Worktree!LeaveTree
  <2>14. CASE Worktree!GitRemove
    BY <2>14 DEF Worktree!GitRemove
  <2>15. CASE Worktree!GitDeleteBranch
    BY <2>15 DEF Worktree!GitDeleteBranch
  <2>16. CASE Worktree!CloseRow
    BY <2>16 DEF Worktree!CloseRow
  <2>17. CASE Worktree!Fail
    BY <2>17 DEF Worktree!Fail
  <2>18. CASE Worktree!Restart
    BY <2>18 DEF Worktree!Restart
  <2>19. CASE UNCHANGED Worktree!vars
    BY <2>19 DEF Worktree!vars
  <2> QED BY <2>1, <2>2, <2>3, <2>4, <2>5, <2>6, <2>7, <2>8, <2>9, <2>10, <2>11, <2>12,
        <2>13, <2>14, <2>15, <2>16, <2>17, <2>18, <2>19 DEF Worktree!Next
<1>3. WorktreeInv => Worktree!StandsOnGround
  BY DEF Worktree!StandsOnGround
<1> QED BY <1>1, <1>2, <1>3, PTL DEF Worktree!Spec

\* WorktreeActionHandler: in Tools, the session and its background jobs stand
\* in directories that exist.
THEOREM NothingStandsInARemovedTree == Spec => []StandsOnGround
<1>1. Init => Worktree!Init \/ focus # "worktree"
  BY DEF Init
<1>2. [Next]_vars => [Worktree!Next]_(Worktree!vars)
  BY DEF Next, vars, WorktreeVars, Worktree!vars
<1>3. focus # "worktree" /\ [Next]_vars => (focus # "worktree")'
  BY DEF Next, vars
<1>4. Worktree!StandsOnGround \/ focus # "worktree" => StandsOnGround
  BY DEF StandsOnGround
<1> QED BY <1>1, <1>2, <1>3, WorktreeSafe, <1>4, PTL DEF Spec, Worktree!Spec

-----------------------------------------------------------------------------
(***************************************************************************)
(* Shell commands.                                                         *)
(***************************************************************************)

CmdPcs == {"new", "pending", "approved", "refused", "failed", "built", "wait", "timeout",
           "cancel", "cancelled", "done", "stop"}
InForeground == {"wait", "timeout", "cancel"}
CmdFields == {"pc", "shell", "background"}

\* Only what waits for a process, has handed it to the manager or has lost it
\* for ever has one; the command of a shell keeps the temporary directory until
\* its process is dead; nothing is on its way to a process, and no job is being
\* stopped, when the manager is closed.
ContainedCmd(k) ==
  /\ DOMAIN cmd[k] = CmdFields /\ cmd[k].pc \in CmdPcs
  /\ cmd[k].shell \in BOOLEAN /\ cmd[k].background \in BOOLEAN
  /\ cmd[k].background = TRUE => cmd[k].shell = TRUE
  /\ cmd[k].pc \in InForeground \cup {"built"} =>
       (cmd[k].shell = TRUE => k \in temp) /\ k \notin jobs /\ ~closed
  /\ k \in jobs => cmd[k].pc \in {"done", "stop"}
  /\ cmdProc[k] = "alive" /\ k \notin adrift =>
       /\ cmd[k].shell = TRUE => k \in temp
       /\ ~closed
       /\ k \in jobs \/ cmd[k].pc \in InForeground
ShellInv ==
  /\ DOMAIN cmd = Cmd /\ DOMAIN cmdProc = Cmd /\ closed \in BOOLEAN
  /\ \A k \in Cmd : ContainedCmd(k)

\* A step that touches one command keeps the invariant when that command stays
\* contained.
LEMMA OneCommand ==
  ASSUME ShellInv, NEW k \in Cmd, DOMAIN cmd' = Cmd, DOMAIN cmdProc' = Cmd, UNCHANGED closed,
         \A i \in Cmd \ {k} : /\ cmd'[i] = cmd[i] /\ cmdProc'[i] = cmdProc[i]
                              /\ (i \in temp' <=> i \in temp)
                              /\ (i \in jobs' <=> i \in jobs)
                              /\ (i \in adrift' <=> i \in adrift),
         ContainedCmd(k)'
  PROVE  ShellInv'
<1>1. ASSUME NEW i \in Cmd \ {k} PROVE ContainedCmd(i)'
  BY <1>1 DEF ShellInv, ContainedCmd
<1> QED BY <1>1 DEF ShellInv

\* CommandActionHandler.execute and SessionProcessManager: every running
\* process has its directory and somebody who will stop it, for any commands,
\* except where a cancellation hits the two seconds between SIGTERM and SIGKILL
\* after a timeout.
LEMMA ShellSafe == Shell!Spec => []Shell!CommandsContained
<1>1. Shell!Init => ShellInv
  <2> SUFFICES ASSUME Shell!Init PROVE ShellInv
    OBVIOUS
  <2>1. /\ DOMAIN Shell!NewCmd = CmdFields /\ Shell!NewCmd.pc = "new"
        /\ Shell!NewCmd.shell = FALSE /\ Shell!NewCmd.background = FALSE
    BY DEF Shell!NewCmd, CmdFields
  <2>2. ASSUME NEW k \in Cmd PROVE ContainedCmd(k)
    <3>1. cmd[k] = Shell!NewCmd /\ cmdProc[k] = "none" /\ jobs = {}
      BY DEF Shell!Init
    <3>2. cmd[k].shell = FALSE /\ cmd[k].background = FALSE
      BY <2>1, <3>1
    <3> QED BY <2>1, <3>1, <3>2 DEF ContainedCmd, CmdPcs, InForeground
  <2> QED BY <2>2 DEF Shell!Init, ShellInv
<1>2. ShellInv /\ [Shell!Next]_(Shell!vars) => ShellInv'
  <2> SUFFICES ASSUME ShellInv, [Shell!Next]_(Shell!vars) PROVE ShellInv'
    OBVIOUS
  <2> USE DEF CmdPcs, InForeground, CmdFields, Shell!Go, Shell!Leave
  <2>1. ASSUME NEW k \in Cmd, NEW s \in BOOLEAN, NEW b \in BOOLEAN,
               NEW w \in {"refused", "approved", "pending"}, Shell!Propose(k, s, b, w), UNCHANGED adrift
        PROVE  ShellInv'
    <3>1. /\ DOMAIN cmd' = Cmd /\ DOMAIN cmdProc' = Cmd /\ UNCHANGED closed
          /\ \A i \in Cmd \ {k} : cmd'[i] = cmd[i] /\ cmdProc'[i] = cmdProc[i]
      BY <2>1 DEF ShellInv, Shell!Propose
    <3>2. \A i \in Cmd \ {k} : /\ (i \in temp' <=> i \in temp)
                                /\ (i \in jobs' <=> i \in jobs)
                                /\ (i \in adrift' <=> i \in adrift)
      BY <2>1 DEF Shell!Propose
    <3>3. ContainedCmd(k)'
      BY <2>1 DEF ShellInv, ContainedCmd, Shell!Propose
    <3> QED BY <3>1, <3>2, <3>3, OneCommand
  <2>2. ASSUME NEW k \in Cmd, NEW y \in BOOLEAN, Shell!Decide(k, y), UNCHANGED adrift
        PROVE  ShellInv'
    <3>1. /\ DOMAIN cmd' = Cmd /\ DOMAIN cmdProc' = Cmd /\ UNCHANGED closed
          /\ \A i \in Cmd \ {k} : cmd'[i] = cmd[i] /\ cmdProc'[i] = cmdProc[i]
      BY <2>2 DEF ShellInv, Shell!Decide
    <3>2. \A i \in Cmd \ {k} : /\ (i \in temp' <=> i \in temp)
                                /\ (i \in jobs' <=> i \in jobs)
                                /\ (i \in adrift' <=> i \in adrift)
      BY <2>2 DEF Shell!Decide
    <3>3. ContainedCmd(k)'
      BY <2>2 DEF ShellInv, ContainedCmd, Shell!Decide
    <3> QED BY <3>1, <3>2, <3>3, OneCommand
  <2>3. ASSUME NEW k \in Cmd, Shell!NoSandbox(k), UNCHANGED adrift
        PROVE  ShellInv'
    <3>1. /\ DOMAIN cmd' = Cmd /\ DOMAIN cmdProc' = Cmd /\ UNCHANGED closed
          /\ \A i \in Cmd \ {k} : cmd'[i] = cmd[i] /\ cmdProc'[i] = cmdProc[i]
      BY <2>3 DEF ShellInv, Shell!NoSandbox
    <3>2. \A i \in Cmd \ {k} : /\ (i \in temp' <=> i \in temp)
                                /\ (i \in jobs' <=> i \in jobs)
                                /\ (i \in adrift' <=> i \in adrift)
      BY <2>3 DEF Shell!NoSandbox
    <3>3. ContainedCmd(k)'
      BY <2>3 DEF ShellInv, ContainedCmd, Shell!NoSandbox
    <3> QED BY <3>1, <3>2, <3>3, OneCommand
  <2>4. ASSUME NEW k \in Cmd, Shell!Build(k), UNCHANGED adrift
        PROVE  ShellInv'
    <3>1. /\ DOMAIN cmd' = Cmd /\ DOMAIN cmdProc' = Cmd /\ UNCHANGED closed
          /\ \A i \in Cmd \ {k} : cmd'[i] = cmd[i] /\ cmdProc'[i] = cmdProc[i]
      BY <2>4 DEF ShellInv, Shell!Build
    <3>2. \A i \in Cmd \ {k} : /\ (i \in temp' <=> i \in temp)
                                /\ (i \in jobs' <=> i \in jobs)
                                /\ (i \in adrift' <=> i \in adrift)
      BY <2>4 DEF Shell!Build
    <3>3. ContainedCmd(k)'
      BY <2>4 DEF ShellInv, ContainedCmd, Shell!Build
    <3> QED BY <3>1, <3>2, <3>3, OneCommand
  <2>5. ASSUME NEW k \in Cmd, Shell!Spawn(k), UNCHANGED adrift
        PROVE  ShellInv'
    <3>1. /\ DOMAIN cmd' = Cmd /\ DOMAIN cmdProc' = Cmd /\ UNCHANGED closed
          /\ \A i \in Cmd \ {k} : cmd'[i] = cmd[i] /\ cmdProc'[i] = cmdProc[i]
      BY <2>5 DEF ShellInv, Shell!Spawn
    <3>2. \A i \in Cmd \ {k} : /\ (i \in temp' <=> i \in temp)
                                /\ (i \in jobs' <=> i \in jobs)
                                /\ (i \in adrift' <=> i \in adrift)
      BY <2>5 DEF Shell!Spawn
    <3>3. ContainedCmd(k)'
      BY <2>5 DEF ShellInv, ContainedCmd, Shell!Spawn
    <3> QED BY <3>1, <3>2, <3>3, OneCommand
  <2>6. ASSUME NEW k \in Cmd, Shell!SpawnFails(k), UNCHANGED adrift
        PROVE  ShellInv'
    <3>1. /\ DOMAIN cmd' = Cmd /\ DOMAIN cmdProc' = Cmd /\ UNCHANGED closed
          /\ \A i \in Cmd \ {k} : cmd'[i] = cmd[i] /\ cmdProc'[i] = cmdProc[i]
      BY <2>6 DEF ShellInv, Shell!SpawnFails
    <3>2. \A i \in Cmd \ {k} : /\ (i \in temp' <=> i \in temp)
                                /\ (i \in jobs' <=> i \in jobs)
                                /\ (i \in adrift' <=> i \in adrift)
      BY <2>6 DEF Shell!SpawnFails
    <3>3. ContainedCmd(k)'
      BY <2>6 DEF ShellInv, ContainedCmd, Shell!SpawnFails
    <3> QED BY <3>1, <3>2, <3>3, OneCommand
  <2>7. ASSUME NEW k \in Cmd, Shell!Exit(k), UNCHANGED adrift
        PROVE  ShellInv'
    <3>1. /\ DOMAIN cmd' = Cmd /\ DOMAIN cmdProc' = Cmd /\ UNCHANGED closed
          /\ \A i \in Cmd \ {k} : cmd'[i] = cmd[i] /\ cmdProc'[i] = cmdProc[i]
      BY <2>7 DEF ShellInv, Shell!Exit
    <3>2. \A i \in Cmd \ {k} : /\ (i \in temp' <=> i \in temp)
                                /\ (i \in jobs' <=> i \in jobs)
                                /\ (i \in adrift' <=> i \in adrift)
      BY <2>7 DEF Shell!Exit
    <3>3. ContainedCmd(k)'
      BY <2>7 DEF ShellInv, ContainedCmd, Shell!Exit
    <3> QED BY <3>1, <3>2, <3>3, OneCommand
  <2>8. ASSUME NEW k \in Cmd, Shell!Kill(k), UNCHANGED adrift
        PROVE  ShellInv'
    <3>1. /\ DOMAIN cmd' = Cmd /\ DOMAIN cmdProc' = Cmd /\ UNCHANGED closed
          /\ \A i \in Cmd \ {k} : cmd'[i] = cmd[i] /\ cmdProc'[i] = cmdProc[i]
      BY <2>8 DEF ShellInv, Shell!Kill
    <3>2. \A i \in Cmd \ {k} : /\ (i \in temp' <=> i \in temp)
                                /\ (i \in jobs' <=> i \in jobs)
                                /\ (i \in adrift' <=> i \in adrift)
      BY <2>8 DEF Shell!Kill
    <3>3. ContainedCmd(k)'
      BY <2>8 DEF ShellInv, ContainedCmd, Shell!Kill
    <3> QED BY <3>1, <3>2, <3>3, OneCommand
  <2>9. ASSUME NEW k \in Cmd, Shell!Collect(k), UNCHANGED adrift
        PROVE  ShellInv'
    <3>1. /\ DOMAIN cmd' = Cmd /\ DOMAIN cmdProc' = Cmd /\ UNCHANGED closed
          /\ \A i \in Cmd \ {k} : cmd'[i] = cmd[i] /\ cmdProc'[i] = cmdProc[i]
      BY <2>9 DEF ShellInv, Shell!Collect
    <3>2. \A i \in Cmd \ {k} : /\ (i \in temp' <=> i \in temp)
                                /\ (i \in jobs' <=> i \in jobs)
                                /\ (i \in adrift' <=> i \in adrift)
      BY <2>9 DEF Shell!Collect
    <3>3. ContainedCmd(k)'
      BY <2>9 DEF ShellInv, ContainedCmd, Shell!Collect
    <3> QED BY <3>1, <3>2, <3>3, OneCommand
  <2>10. ASSUME NEW k \in Cmd, Shell!Timeout(k), UNCHANGED adrift
        PROVE  ShellInv'
    <3>1. /\ DOMAIN cmd' = Cmd /\ DOMAIN cmdProc' = Cmd /\ UNCHANGED closed
          /\ \A i \in Cmd \ {k} : cmd'[i] = cmd[i] /\ cmdProc'[i] = cmdProc[i]
      BY <2>10 DEF ShellInv, Shell!Timeout
    <3>2. \A i \in Cmd \ {k} : /\ (i \in temp' <=> i \in temp)
                                /\ (i \in jobs' <=> i \in jobs)
                                /\ (i \in adrift' <=> i \in adrift)
      BY <2>10 DEF Shell!Timeout
    <3>3. ContainedCmd(k)'
      BY <2>10 DEF ShellInv, ContainedCmd, Shell!Timeout
    <3> QED BY <3>1, <3>2, <3>3, OneCommand
  <2>11. ASSUME NEW k \in Cmd, Shell!Cancel(k), UNCHANGED adrift
        PROVE  ShellInv'
    <3>1. /\ DOMAIN cmd' = Cmd /\ DOMAIN cmdProc' = Cmd /\ UNCHANGED closed
          /\ \A i \in Cmd \ {k} : cmd'[i] = cmd[i] /\ cmdProc'[i] = cmdProc[i]
      BY <2>11 DEF ShellInv, Shell!Cancel
    <3>2. \A i \in Cmd \ {k} : /\ (i \in temp' <=> i \in temp)
                                /\ (i \in jobs' <=> i \in jobs)
                                /\ (i \in adrift' <=> i \in adrift)
      BY <2>11 DEF Shell!Cancel
    <3>3. ContainedCmd(k)'
      BY <2>11 DEF ShellInv, ContainedCmd, Shell!Cancel
    <3> QED BY <3>1, <3>2, <3>3, OneCommand
  <2>12. ASSUME NEW k \in Cmd, Shell!Stopped(k), UNCHANGED adrift
        PROVE  ShellInv'
    <3>1. /\ DOMAIN cmd' = Cmd /\ DOMAIN cmdProc' = Cmd /\ UNCHANGED closed
          /\ \A i \in Cmd \ {k} : cmd'[i] = cmd[i] /\ cmdProc'[i] = cmdProc[i]
      BY <2>12 DEF ShellInv, Shell!Stopped
    <3>2. \A i \in Cmd \ {k} : /\ (i \in temp' <=> i \in temp)
                                /\ (i \in jobs' <=> i \in jobs)
                                /\ (i \in adrift' <=> i \in adrift)
      BY <2>12 DEF Shell!Stopped
    <3>3. ContainedCmd(k)'
      BY <2>12 DEF ShellInv, ContainedCmd, Shell!Stopped
    <3> QED BY <3>1, <3>2, <3>3, OneCommand
  <2>13. ASSUME NEW k \in Cmd, Shell!Stop(k), UNCHANGED adrift
        PROVE  ShellInv'
    <3>1. /\ DOMAIN cmd' = Cmd /\ DOMAIN cmdProc' = Cmd /\ UNCHANGED closed
          /\ \A i \in Cmd \ {k} : cmd'[i] = cmd[i] /\ cmdProc'[i] = cmdProc[i]
      BY <2>13 DEF ShellInv, Shell!Stop
    <3>2. \A i \in Cmd \ {k} : /\ (i \in temp' <=> i \in temp)
                                /\ (i \in jobs' <=> i \in jobs)
                                /\ (i \in adrift' <=> i \in adrift)
      BY <2>13 DEF Shell!Stop
    <3>3. ContainedCmd(k)'
      BY <2>13 DEF ShellInv, ContainedCmd, Shell!Stop
    <3> QED BY <3>1, <3>2, <3>3, OneCommand
  <2>14. ASSUME NEW k \in Cmd, Shell!StopCancelled(k), UNCHANGED adrift
        PROVE  ShellInv'
    <3>1. /\ DOMAIN cmd' = Cmd /\ DOMAIN cmdProc' = Cmd /\ UNCHANGED closed
          /\ \A i \in Cmd \ {k} : cmd'[i] = cmd[i] /\ cmdProc'[i] = cmdProc[i]
      BY <2>14 DEF ShellInv, Shell!StopCancelled
    <3>2. \A i \in Cmd \ {k} : /\ (i \in temp' <=> i \in temp)
                                /\ (i \in jobs' <=> i \in jobs)
                                /\ (i \in adrift' <=> i \in adrift)
      BY <2>14 DEF Shell!StopCancelled
    <3>3. ContainedCmd(k)'
      BY <2>14 DEF ShellInv, ContainedCmd, Shell!StopCancelled
    <3> QED BY <3>1, <3>2, <3>3, OneCommand
  <2>15. ASSUME NEW k \in Cmd, Shell!Cleanup(k), UNCHANGED adrift
        PROVE  ShellInv'
    <3>1. /\ DOMAIN cmd' = Cmd /\ DOMAIN cmdProc' = Cmd /\ UNCHANGED closed
          /\ \A i \in Cmd \ {k} : cmd'[i] = cmd[i] /\ cmdProc'[i] = cmdProc[i]
      BY <2>15 DEF ShellInv, Shell!Cleanup
    <3>2. \A i \in Cmd \ {k} : /\ (i \in temp' <=> i \in temp)
                                /\ (i \in jobs' <=> i \in jobs)
                                /\ (i \in adrift' <=> i \in adrift)
      BY <2>15 DEF Shell!Cleanup
    <3>3. ContainedCmd(k)'
      BY <2>15 DEF ShellInv, ContainedCmd, Shell!Cleanup
    <3> QED BY <3>1, <3>2, <3>3, OneCommand
  <2>16. ASSUME NEW k \in Cmd, Shell!CancelInGrace(k)
        PROVE  ShellInv'
    <3>1. /\ DOMAIN cmd' = Cmd /\ DOMAIN cmdProc' = Cmd /\ UNCHANGED closed
          /\ \A i \in Cmd \ {k} : cmd'[i] = cmd[i] /\ cmdProc'[i] = cmdProc[i]
      BY <2>16 DEF ShellInv, Shell!CancelInGrace
    <3>2. \A i \in Cmd \ {k} : /\ (i \in temp' <=> i \in temp)
                                /\ (i \in jobs' <=> i \in jobs)
                                /\ (i \in adrift' <=> i \in adrift)
      BY <2>16 DEF Shell!CancelInGrace
    <3>3. ContainedCmd(k)'
      BY <2>16 DEF ShellInv, ContainedCmd, Shell!CancelInGrace
    <3> QED BY <3>1, <3>2, <3>3, OneCommand
  <2>17. ASSUME Shell!Close, UNCHANGED adrift PROVE ShellInv'
    BY <2>17 DEF ShellInv, ContainedCmd, Shell!Close
  <2>18. CASE UNCHANGED Shell!vars
    BY <2>18 DEF ShellInv, ContainedCmd, Shell!vars
  <2> QED BY <2>1, <2>2, <2>3, <2>4, <2>5, <2>6, <2>7, <2>8, <2>9, <2>10, <2>11,
        <2>12, <2>13, <2>14, <2>15, <2>16, <2>17, <2>18 DEF Shell!Next
<1>3. ShellInv => Shell!CommandsContained
  BY DEF ShellInv, ContainedCmd, InForeground, Shell!CommandsContained
<1> QED BY <1>1, <1>2, <1>3, PTL DEF Shell!Spec

-----------------------------------------------------------------------------
(***************************************************************************)
(* Opening and closing applications.                                       *)
(***************************************************************************)

App == Application!App
Resources == {"client", "workspace", "memory", "bridge", "plugins", "mcp", "lsp", "processes"}
Leased == {a \in App : "workspace" \in held[a]}
Cancelled(a) == "cancelled" \in faults[a]
OnStack(a) == {stack[a][i] : i \in DOMAIN stack[a]}
Left(a) == {todo[a][i] : i \in DOMAIN todo[a]}

\* What is on a sequence after an element was appended, the last one was
\* dropped, or the first one was taken.
LEMMA PushedOn ==
  ASSUME NEW S, NEW s \in Seq(S), NEW r \in S
  PROVE  /\ Append(s, r) \in Seq(S)
         /\ {Append(s, r)[i] : i \in DOMAIN Append(s, r)} = {s[i] : i \in DOMAIN s} \cup {r}
         /\ (/\ r \notin {s[i] : i \in DOMAIN s}
             /\ \A i, j \in DOMAIN s : s[i] = s[j] => i = j)
            => \A i, j \in DOMAIN Append(s, r) : Append(s, r)[i] = Append(s, r)[j] => i = j
<1> DEFINE t == Append(s, r)
<1>1. /\ t \in Seq(S) /\ Len(s) \in Nat /\ DOMAIN s = 1 .. Len(s)
      /\ DOMAIN t = 1 .. Len(s) + 1 /\ t[Len(s) + 1] = r
      /\ \A i \in 1 .. Len(s) : t[i] = s[i]
  BY AppendProperties, LenProperties
<1> HIDE DEF t
<1>2. \A i \in DOMAIN t : i \in DOMAIN s \/ i = Len(s) + 1
  BY <1>1
<1>3. DOMAIN s \subseteq DOMAIN t /\ Len(s) + 1 \in DOMAIN t
  BY <1>1
<1>4. {t[i] : i \in DOMAIN t} = {s[i] : i \in DOMAIN s} \cup {r}
  BY <1>1, <1>2, <1>3
<1>5. (/\ r \notin {s[i] : i \in DOMAIN s} /\ \A i, j \in DOMAIN s : s[i] = s[j] => i = j)
      => \A i, j \in DOMAIN t : t[i] = t[j] => i = j
  BY <1>1, <1>2
<1> QED BY <1>1, <1>4, <1>5 DEF t

LEMMA PoppedOff ==
  ASSUME NEW S, NEW s \in Seq(S), s # <<>>, \A i, j \in DOMAIN s : s[i] = s[j] => i = j
  PROVE  /\ SubSeq(s, 1, Len(s) - 1) \in Seq(S)
         /\ {SubSeq(s, 1, Len(s) - 1)[i] : i \in DOMAIN SubSeq(s, 1, Len(s) - 1)}
              = {s[i] : i \in DOMAIN s} \ {s[Len(s)]}
         /\ s[Len(s)] \in {s[i] : i \in DOMAIN s}
         /\ \A i, j \in DOMAIN SubSeq(s, 1, Len(s) - 1) :
              SubSeq(s, 1, Len(s) - 1)[i] = SubSeq(s, 1, Len(s) - 1)[j] => i = j
<1> DEFINE t == SubSeq(s, 1, Len(s) - 1)
<1>1. Len(s) \in Nat /\ DOMAIN s = 1 .. Len(s) /\ Len(s) # 0
  BY LenProperties, EmptySeq
<1>2. t \in Seq(S) /\ Len(t) = Len(s) - 1 /\ \A i \in 1 .. Len(s) - 1 : t[i] = s[i]
  BY <1>1
<1>3. DOMAIN t = 1 .. Len(s) - 1
  BY <1>2, LenProperties
<1> HIDE DEF t
<1>4. \A i \in DOMAIN s : (i \in DOMAIN t /\ t[i] = s[i]) \/ i = Len(s)
  BY <1>1, <1>2, <1>3
<1>5. DOMAIN t \subseteq DOMAIN s /\ Len(s) \in DOMAIN s /\ Len(s) \notin DOMAIN t
  BY <1>1, <1>3
<1>6. \A i \in DOMAIN t : t[i] = s[i]
  BY <1>2, <1>3
<1>7. {t[i] : i \in DOMAIN t} = {s[i] : i \in DOMAIN s} \ {s[Len(s)]}
  BY <1>4, <1>5, <1>6
<1>8. \A i, j \in DOMAIN t : t[i] = t[j] => i = j
  BY <1>5, <1>6
<1> QED BY <1>2, <1>5, <1>7, <1>8 DEF t

LEMMA TakenFirst ==
  ASSUME NEW S, NEW s \in Seq(S), s # <<>>
  PROVE  /\ Tail(s) \in Seq(S) /\ Head(s) \in S
         /\ {s[i] : i \in DOMAIN s} = {Tail(s)[i] : i \in DOMAIN Tail(s)} \cup {Head(s)}
<1> DEFINE t == Tail(s)
<1>1. /\ t \in Seq(S) /\ Head(s) \in S /\ Head(s) = s[1]
      /\ Len(t) = Len(s) - 1 /\ \A i \in 1 .. Len(t) : t[i] = s[i + 1]
  BY HeadTailProperties
<1>2. Len(s) \in Nat /\ Len(s) # 0 /\ DOMAIN s = 1 .. Len(s) /\ DOMAIN t = 1 .. Len(s) - 1
  BY <1>1, LenProperties, EmptySeq
<1> HIDE DEF t
<1>3. \A i \in DOMAIN s : i = 1 \/ (i - 1 \in DOMAIN t /\ t[i - 1] = s[i])
  BY <1>1, <1>2
<1>4. 1 \in DOMAIN s /\ \A i \in DOMAIN t : i + 1 \in DOMAIN s /\ t[i] = s[i + 1]
  BY <1>1, <1>2
<1>5. {s[i] : i \in DOMAIN s} = {t[i] : i \in DOMAIN t} \cup {Head(s)}
  <2>1. ASSUME NEW i \in DOMAIN s PROVE s[i] \in {t[j] : j \in DOMAIN t} \cup {Head(s)}
    BY <1>1, <1>3
  <2>2. ASSUME NEW j \in DOMAIN t PROVE t[j] \in {s[i] : i \in DOMAIN s}
    BY <1>4
  <2>3. Head(s) \in {s[i] : i \in DOMAIN s}
    BY <1>1, <1>4
  <2> QED BY <2>1, <2>2, <2>3
<1> QED BY <1>1, <1>5 DEF t

\* What a child's application does without.
Missing(a) == IF a \in Main THEN {} ELSE {"client", "bridge"}

\* What open acquires, and what close closes before the databases.
LEMMA OpenedAre ==
  ASSUME NEW a
  PROVE  /\ DOMAIN Application!Opened(a) = 1 .. Len(Application!Opened(a))
         /\ \A n \in DOMAIN Application!Opened(a) :
              /\ Application!Opened(a)[n] \in Resources
              /\ a \notin Main => Application!Opened(a)[n] \notin {"client", "bridge"}
         /\ \A r \in {"workspace", "memory"} :
              \E n \in DOMAIN Application!Opened(a) : Application!Opened(a)[n] = r
<1>1. CASE a \in Main
  <2> DEFINE s == <<"client", "workspace", "memory", "bridge", "plugins", "mcp", "lsp",
                    "processes">>
  <2>1. Application!Opened(a) = s
    BY <1>1 DEF Application!Opened
  <2>2. /\ DOMAIN s = 1 .. 8 /\ Len(s) = 8 /\ s[2] = "workspace" /\ s[3] = "memory"
    OBVIOUS
  <2>3. \A n \in 1 .. 8 : s[n] \in Resources
    BY DEF Resources
  <2> HIDE DEF s
  <2> QED BY <1>1, <2>1, <2>2, <2>3
<1>2. CASE a \notin Main
  <2> DEFINE s == <<"workspace", "memory", "plugins", "mcp", "lsp", "processes">>
  <2>1. Application!Opened(a) = s
    BY <1>2 DEF Application!Opened
  <2>2. /\ DOMAIN s = 1 .. 6 /\ Len(s) = 6 /\ s[1] = "workspace" /\ s[2] = "memory"
    OBVIOUS
  <2>3. \A n \in 1 .. 6 : s[n] \in Resources \ {"client", "bridge"}
    BY DEF Resources
  <2> HIDE DEF s
  <2> QED BY <1>2, <2>1, <2>2, <2>3
<1> QED BY <1>1, <1>2

LEMMA ComponentsAre ==
  ASSUME NEW a
  PROVE  /\ Application!Components(a) \in Seq(Resources \ Application!Databases)
         /\ Resources \ (Application!Databases \cup Missing(a))
              \subseteq {Application!Components(a)[i] : i \in DOMAIN Application!Components(a)}
<1>1. CASE a \in Main
  <2> DEFINE s == <<"processes", "mcp", "lsp", "plugins", "bridge", "client">>
  <2>1. Application!Components(a) = s
    BY <1>1 DEF Application!Components
  <2>2. /\ DOMAIN s = 1 .. 6 /\ s[1] = "processes" /\ s[2] = "mcp" /\ s[3] = "lsp"
        /\ s[4] = "plugins" /\ s[5] = "bridge" /\ s[6] = "client"
    OBVIOUS
  <2>3. s \in Seq(Resources \ Application!Databases)
    BY DEF Resources, Application!Databases
  <2> HIDE DEF s
  <2>4. {"processes", "mcp", "lsp", "plugins", "bridge", "client"} \subseteq {s[i] : i \in DOMAIN s}
    BY <2>2
  <2> QED BY <1>1, <2>1, <2>3, <2>4 DEF Resources, Missing, Application!Databases
<1>2. CASE a \notin Main
  <2> DEFINE s == <<"processes", "mcp", "lsp", "plugins">>
  <2>1. Application!Components(a) = s
    BY <1>2 DEF Application!Components
  <2>2. /\ DOMAIN s = 1 .. 4 /\ s[1] = "processes" /\ s[2] = "mcp" /\ s[3] = "lsp"
        /\ s[4] = "plugins"
    OBVIOUS
  <2>3. s \in Seq(Resources \ Application!Databases)
    BY DEF Resources, Application!Databases
  <2> HIDE DEF s
  <2>4. {"processes", "mcp", "lsp", "plugins"} \subseteq {s[i] : i \in DOMAIN s}
    BY <2>2
  <2> QED BY <1>2, <2>1, <2>3, <2>4 DEF Resources, Missing, Application!Databases
<1> QED BY <1>1, <1>2

AppTypes ==
  /\ DOMAIN pc = App /\ DOMAIN stack = App /\ DOMAIN held = App /\ DOMAIN todo = App
  /\ DOMAIN faults = App /\ refs \in Nat /\ IsFiniteSet(Leased)

\* What each application holds follows from how far it has come: while it opens
\* or unwinds, exactly what its stack will close, once each; while it closes,
\* both databases and, unless something raised, what is still to be closed.
HoldsByPc(a) ==
  /\ stack[a] \in Seq(Resources) /\ todo[a] \in Seq(Resources \ Application!Databases)
  /\ held[a] \subseteq Resources
  /\ pc[a] \in {"none", "opening", "unwinding"} =>
       /\ held[a] = OnStack(a)
       /\ \A i, j \in DOMAIN stack[a] : stack[a][i] = stack[a][j] => i = j
  /\ pc[a] = "none" => held[a] = {}
  /\ pc[a] \in {"open", "closing", "jobs", "workspace"} => Application!Databases \subseteq held[a]
  /\ pc[a] \in {"open", "opening"} => (a \notin Main => held[a] \cap {"client", "bridge"} = {})
  /\ pc[a] = "closing" /\ faults[a] = {} => held[a] \subseteq Left(a) \cup Application!Databases
  /\ pc[a] \in {"jobs", "workspace"} /\ faults[a] = {} => held[a] \subseteq Application!Databases
  /\ pc[a] = "memory" => "memory" \in held[a] /\ (Cancelled(a) \/ "workspace" \notin held[a])
  /\ pc[a] = "memory" /\ faults[a] = {} => held[a] \subseteq {"memory"}
  /\ pc[a] = "over" /\ ~Cancelled(a) => /\ held[a] \cap Application!Databases = {}
                                        /\ faults[a] = {} => held[a] = {}
  /\ a \in drains /\ ~Cancelled(a) => pc[a] \in {"open", "closing", "jobs"}
  /\ pc[a] \in {"none", "opening", "unwinding", "open", "closing", "jobs", "workspace"}
       => ~Cancelled(a)

AppInv == /\ AppTypes /\ refs = Cardinality(Leased)
          /\ \A a \in App : HoldsByPc(a)

\* Only application a takes a step, and the lease counts whether it holds the
\* workspace.
StepOf(a) ==
  /\ DOMAIN pc' = App /\ DOMAIN stack' = App /\ DOMAIN held' = App
  /\ DOMAIN todo' = App /\ DOMAIN faults' = App
  /\ \A b \in App \ {a} : /\ pc'[b] = pc[b] /\ stack'[b] = stack[b] /\ held'[b] = held[b]
                          /\ todo'[b] = todo[b] /\ faults'[b] = faults[b]
                          /\ (b \in drains' <=> b \in drains)
CountedBy(a) ==
  refs' = IF "workspace" \in held'[a] /\ "workspace" \notin held[a] THEN refs + 1
          ELSE IF "workspace" \in held[a] /\ "workspace" \notin held'[a] THEN refs - 1
          ELSE refs

\* A step of one application keeps the invariant when what it holds still
\* follows from how far it has come, and the lease counts it.
LEMMA OneApplication ==
  ASSUME AppInv, NEW a \in App, StepOf(a), CountedBy(a), HoldsByPc(a)'
  PROVE  AppInv'
<1>1. IsFiniteSet(Leased) /\ refs = Cardinality(Leased) /\ refs \in Nat
  BY DEF AppInv, AppTypes
<1>2. /\ IsFiniteSet(Leased)' /\ refs' = Cardinality(Leased)'
  <2>1. CASE "workspace" \in held'[a] /\ "workspace" \notin held[a]
    <3>1. Leased' = Leased \cup {a} /\ a \notin Leased
      BY <2>1 DEF Leased, StepOf
    <3> QED BY <1>1, <2>1, <3>1, FS_AddElement DEF CountedBy
  <2>2. CASE "workspace" \in held[a] /\ "workspace" \notin held'[a]
    <3>1. Leased' = Leased \ {a} /\ a \in Leased
      BY <2>2 DEF Leased, StepOf
    <3> QED BY <1>1, <2>2, <3>1, FS_RemoveElement DEF CountedBy
  <2>3. CASE "workspace" \in held[a] <=> "workspace" \in held'[a]
    <3>1. Leased' = Leased
      BY <2>3 DEF Leased, StepOf
    <3> QED BY <1>1, <2>3, <3>1 DEF CountedBy
  <2> QED BY <2>1, <2>2, <2>3
<1>3. refs' \in Nat
  BY <1>2, FS_CardinalityType
<1>4. ASSUME NEW b \in App \ {a} PROVE HoldsByPc(b)'
  BY DEF AppInv, HoldsByPc, OnStack, Left, Cancelled, StepOf
<1> QED BY <1>2, <1>3, <1>4 DEF StepOf, AppInv, AppTypes

\* WorkspaceApplication.open and close: whatever raises, an application that is
\* over and was not cancelled has no database open and no job at work, and
\* nothing at all when its components closed; and the lease has one reference
\* for each application that has the workspace open.
LEMMA ApplicationSafe ==
  Application!Spec => []Application!NothingLeftOpen
<1>1. Application!Init => AppInv
  <2> SUFFICES ASSUME Application!Init PROVE AppInv
    OBVIOUS
  <2>1. Leased = {}
    BY DEF Application!Init, Leased, App
  <2>2. ASSUME NEW a \in App PROVE HoldsByPc(a)
    BY DEF Application!Init, HoldsByPc, OnStack, Left, Cancelled, App
  <2> QED BY <2>1, <2>2, FS_EmptySet DEF Application!Init, AppInv, AppTypes, App
<1>2. AppInv /\ [Application!Next]_(Application!vars) => AppInv'
  <2> SUFFICES ASSUME AppInv, [Application!Next]_(Application!vars) PROVE AppInv'
    OBVIOUS
  <2>1. ASSUME NEW a \in App, Application!Open(a) PROVE AppInv'
    <3>1. HoldsByPc(a)
      BY DEF AppInv
    <3>2. StepOf(a)
      BY <2>1 DEF AppInv, AppTypes, StepOf, Application!Open, Application!Go
    <3>3. CountedBy(a)
      BY <2>1, <3>1 DEF AppInv, AppTypes, HoldsByPc, Application!Databases, CountedBy,
           Application!Open, Application!Go
    <3>4. HoldsByPc(a)'
      BY <2>1, <3>1 DEF AppInv, AppTypes, HoldsByPc, OnStack, Left, Cancelled,
           Application!Databases, Application!Open, Application!Go
    <3> QED BY <3>2, <3>3, <3>4, OneApplication
  <2>2. ASSUME NEW a \in App, Application!Acquire(a) PROVE AppInv'
    <3>1. HoldsByPc(a)
      BY DEF AppInv
    <3>2. StepOf(a)
      BY <2>2 DEF AppInv, AppTypes, StepOf, Application!Acquire, Application!Pushed,
           Application!HasFirst
    <3>3. CountedBy(a)
      BY <2>2, <3>1 DEF AppInv, AppTypes, CountedBy, Application!Acquire
    <3>4. HoldsByPc(a)'
      <4>1. PICK n \in DOMAIN Application!Opened(a) :
              /\ pc[a] = "opening" /\ Application!Opened(a)[n] \notin held[a]
              /\ held' = [held EXCEPT ![a] = @ \cup {Application!Opened(a)[n]}]
              /\ stack' = [stack EXCEPT ![a] = Append(@, Application!Opened(a)[n])]
              /\ UNCHANGED <<pc, todo, drains, faults>>
        BY <2>2 DEF Application!Acquire, Application!Pushed
      <4> DEFINE r == Application!Opened(a)[n]
      <4>2. r \in Resources /\ (a \notin Main => r \notin {"client", "bridge"})
        BY OpenedAre
      <4> HIDE DEF r
      <4>3. /\ held'[a] = held[a] \cup {r} /\ stack'[a] = Append(stack[a], r)
            /\ r \notin held[a] /\ pc[a] = "opening"
        BY <4>1 DEF AppInv, AppTypes, r
      <4>4. /\ stack[a] \in Seq(Resources) /\ held[a] = OnStack(a)
            /\ \A i, j \in DOMAIN stack[a] : stack[a][i] = stack[a][j] => i = j
        BY <3>1, <4>3 DEF HoldsByPc
      <4>5. /\ stack'[a] \in Seq(Resources) /\ OnStack(a)' = OnStack(a) \cup {r}
            /\ \A i, j \in DOMAIN stack'[a] : stack'[a][i] = stack'[a][j] => i = j
        BY SMTT(30), <4>2, <4>3, <4>4, PushedOn DEF OnStack
      <4> QED BY <3>1, <4>1, <4>2, <4>3, <4>4, <4>5 DEF HoldsByPc, Left, Cancelled
    <3> QED BY <3>2, <3>3, <3>4, OneApplication
  <2>3. ASSUME NEW a \in App, Application!Ready(a) PROVE AppInv'
    <3>1. HoldsByPc(a)
      BY DEF AppInv
    <3>2. StepOf(a)
      BY <2>3 DEF AppInv, AppTypes, StepOf, Application!Ready, Application!Go,
           Application!HasFirst
    <3>3. CountedBy(a)
      BY <2>3 DEF AppInv, AppTypes, CountedBy, Application!Ready
    <3>4. HoldsByPc(a)'
      <4>1. /\ pc[a] = "opening" /\ pc'[a] = "open" /\ stack'[a] = <<>>
            /\ UNCHANGED <<held, todo, drains, faults>>
        BY <2>3 DEF AppInv, AppTypes, Application!Ready, Application!Go
      <4>2. Application!Databases \subseteq held[a]
        <5>1. \A i \in DOMAIN Application!Opened(a) : Application!Opened(a)[i] \in held[a]
          BY <2>3, OpenedAre DEF Application!Ready, Application!HasFirst
        <5> QED BY <5>1, OpenedAre DEF Application!Databases
      <4>3. <<>> \in Seq(Resources)
        OBVIOUS
      <4> QED BY <3>1, <4>1, <4>2, <4>3 DEF HoldsByPc, Left, Cancelled
    <3> QED BY <3>2, <3>3, <3>4, OneApplication
  <2>4. ASSUME NEW a \in App, Application!OpenRaises(a) PROVE AppInv'
    <3>1. HoldsByPc(a)
      BY DEF AppInv
    <3>2. StepOf(a)
      BY <2>4 DEF AppInv, AppTypes, StepOf, Application!OpenRaises, Application!Go
    <3>3. CountedBy(a)
      BY <2>4, <3>1 DEF AppInv, AppTypes, HoldsByPc, Application!Databases, CountedBy,
           Application!OpenRaises, Application!Go
    <3>4. HoldsByPc(a)'
      BY <2>4, <3>1 DEF AppInv, AppTypes, HoldsByPc, OnStack, Left, Cancelled,
           Application!Databases, Application!OpenRaises, Application!Go
    <3> QED BY <3>2, <3>3, <3>4, OneApplication
  <2>5. ASSUME NEW a \in App, Application!OpenCancelled(a) PROVE AppInv'
    <3>1. HoldsByPc(a)
      BY DEF AppInv
    <3>2. StepOf(a)
      BY <2>5 DEF AppInv, AppTypes, StepOf, Application!OpenCancelled, Application!Go,
           Application!Fault
    <3>3. CountedBy(a)
      BY <2>5, <3>1 DEF AppInv, AppTypes, HoldsByPc, Application!Databases, CountedBy,
           Application!OpenCancelled, Application!Go, Application!Fault
    <3>4. HoldsByPc(a)'
      BY <2>5, <3>1 DEF AppInv, AppTypes, HoldsByPc, OnStack, Left, Cancelled,
           Application!Databases, Application!OpenCancelled, Application!Go,
           Application!Fault
    <3> QED BY <3>2, <3>3, <3>4, OneApplication
  <2>6. ASSUME NEW a \in App, Application!Unwind(a) PROVE AppInv'
    <3>1. HoldsByPc(a)
      BY DEF AppInv
    <3>2. StepOf(a)
      BY <2>6 DEF AppInv, AppTypes, StepOf, Application!Unwind, Application!Released
    <3> DEFINE r == stack[a][Len(stack[a])]
    <3>a. /\ pc[a] = "unwinding" /\ stack[a] # <<>>
          /\ held'[a] = held[a] \ {r} /\ stack'[a] = SubSeq(stack[a], 1, Len(stack[a]) - 1)
          /\ refs' = (IF r = "workspace" THEN refs - 1 ELSE refs)
          /\ UNCHANGED <<pc, todo, drains, faults>>
      BY <2>6 DEF AppInv, AppTypes, Application!Unwind, Application!Released
    <3>b. /\ stack[a] \in Seq(Resources) /\ held[a] = OnStack(a)
          /\ \A i, j \in DOMAIN stack[a] : stack[a][i] = stack[a][j] => i = j
      BY <3>1, <3>a DEF HoldsByPc
    <3>c. /\ stack'[a] \in Seq(Resources) /\ OnStack(a)' = OnStack(a) \ {r}
          /\ r \in OnStack(a)
          /\ \A i, j \in DOMAIN stack'[a] : stack'[a][i] = stack'[a][j] => i = j
      <4> DEFINE t == SubSeq(stack[a], 1, Len(stack[a]) - 1)
      <4>1. /\ t \in Seq(Resources) /\ \A i, j \in DOMAIN t : t[i] = t[j] => i = j
            /\ {t[i] : i \in DOMAIN t} = OnStack(a) \ {r} /\ r \in OnStack(a)
        BY <3>a, <3>b, PoppedOff DEF OnStack
      <4>2. stack'[a] = t
        BY <3>a
      <4> HIDE DEF t, r
      <4>3. OnStack(a)' = {t[i] : i \in DOMAIN t}
        BY <4>2 DEF OnStack
      <4> QED BY <4>1, <4>2, <4>3
    <3> HIDE DEF r
    <3>3. CountedBy(a)
      BY <3>a, <3>b, <3>c DEF CountedBy
    <3>4. HoldsByPc(a)'
      BY <3>1, <3>a, <3>b, <3>c DEF HoldsByPc, Left, Cancelled
    <3> QED BY <3>2, <3>3, <3>4, OneApplication
  <2>7. ASSUME NEW a \in App, Application!Unwound(a) PROVE AppInv'
    <3>1. HoldsByPc(a)
      BY DEF AppInv
    <3>2. StepOf(a)
      BY <2>7 DEF AppInv, AppTypes, StepOf, Application!Unwound, Application!Go
    <3>3. CountedBy(a)
      BY <2>7, <3>1 DEF AppInv, AppTypes, HoldsByPc, Application!Databases, CountedBy,
           Application!Unwound, Application!Go
    <3>4. HoldsByPc(a)'
      BY <2>7, <3>1 DEF AppInv, AppTypes, HoldsByPc, OnStack, Left, Cancelled,
           Application!Databases, Application!Unwound, Application!Go
    <3> QED BY <3>2, <3>3, <3>4, OneApplication
  <2>8. ASSUME NEW a \in App, Application!Wake(a) PROVE AppInv'
    <3>1. HoldsByPc(a)
      BY DEF AppInv
    <3>2. StepOf(a)
      BY <2>8 DEF AppInv, AppTypes, StepOf, Application!Wake
    <3>3. CountedBy(a)
      BY <2>8, <3>1 DEF AppInv, AppTypes, HoldsByPc, Application!Databases, CountedBy,
           Application!Wake
    <3>4. HoldsByPc(a)'
      BY <2>8, <3>1 DEF AppInv, AppTypes, HoldsByPc, OnStack, Left, Cancelled,
           Application!Databases, Application!Wake
    <3> QED BY <3>2, <3>3, <3>4, OneApplication
  <2>9. ASSUME NEW a \in App, Application!Drained(a) PROVE AppInv'
    <3>1. HoldsByPc(a)
      BY DEF AppInv
    <3>2. StepOf(a)
      BY <2>9 DEF AppInv, AppTypes, StepOf, Application!Drained
    <3>3. CountedBy(a)
      BY <2>9, <3>1 DEF AppInv, AppTypes, HoldsByPc, Application!Databases, CountedBy,
           Application!Drained
    <3>4. HoldsByPc(a)'
      BY <2>9, <3>1 DEF AppInv, AppTypes, HoldsByPc, OnStack, Left, Cancelled,
           Application!Databases, Application!Drained
    <3> QED BY <3>2, <3>3, <3>4, OneApplication
  <2>10. ASSUME NEW a \in App, Application!Close(a) PROVE AppInv'
    <3>1. HoldsByPc(a)
      BY DEF AppInv
    <3>2. StepOf(a)
      BY <2>10 DEF AppInv, AppTypes, StepOf, Application!Close, Application!Go,
           Application!Components
    <3>3. CountedBy(a)
      BY <2>10 DEF AppInv, AppTypes, CountedBy, Application!Close
    <3>4. HoldsByPc(a)'
      <4>1. /\ pc[a] = "open" /\ pc'[a] = "closing" /\ todo'[a] = Application!Components(a)
            /\ UNCHANGED <<stack, held, drains, faults>>
        BY <2>10 DEF AppInv, AppTypes, Application!Close, Application!Go
      <4>2. /\ todo'[a] \in Seq(Resources \ Application!Databases)
            /\ Resources \ (Application!Databases \cup Missing(a))
                 \subseteq Left(a)'
        BY <4>1, ComponentsAre DEF Left
      <4>3. held[a] \subseteq Left(a)' \cup Application!Databases
        BY <3>1, <4>1, <4>2 DEF HoldsByPc, Missing
      <4> QED BY <3>1, <4>1, <4>2, <4>3 DEF HoldsByPc, OnStack, Cancelled
    <3> QED BY <3>2, <3>3, <3>4, OneApplication
  <2>11. ASSUME NEW a \in App, Application!CloseNext(a) PROVE AppInv'
    <3>1. HoldsByPc(a)
      BY DEF AppInv
    <3>2. StepOf(a)
      BY <2>11 DEF AppInv, AppTypes, StepOf, Application!CloseNext, Application!Released
    <3> DEFINE r == Head(todo[a])
    <3>a. /\ pc[a] = "closing" /\ todo[a] # <<>>
          /\ held'[a] = held[a] \ {r} /\ todo'[a] = Tail(todo[a])
          /\ refs' = (IF r = "workspace" THEN refs - 1 ELSE refs)
          /\ UNCHANGED <<pc, stack, drains, faults>>
      BY <2>11 DEF AppInv, AppTypes, Application!CloseNext, Application!Released
    <3>b. todo[a] \in Seq(Resources \ Application!Databases)
      BY <3>1 DEF HoldsByPc
    <3>c. /\ todo'[a] \in Seq(Resources \ Application!Databases)
          /\ r \in Resources \ Application!Databases /\ Left(a) = Left(a)' \cup {r}
      <4> DEFINE t == Tail(todo[a])
      <4>1. /\ t \in Seq(Resources \ Application!Databases)
            /\ r \in Resources \ Application!Databases
            /\ Left(a) = {t[i] : i \in DOMAIN t} \cup {r}
        BY <3>a, <3>b, TakenFirst DEF Left
      <4>2. todo'[a] = t
        BY <3>a
      <4> HIDE DEF t, r
      <4>3. Left(a)' = {t[i] : i \in DOMAIN t}
        BY <4>2 DEF Left
      <4> QED BY <4>1, <4>2, <4>3
    <3> HIDE DEF r
    <3>3. CountedBy(a)
      BY <3>a, <3>c DEF CountedBy, Application!Databases
    <3>4. HoldsByPc(a)'
      BY <3>1, <3>a, <3>c DEF HoldsByPc, OnStack, Cancelled
    <3> QED BY <3>2, <3>3, <3>4, OneApplication
  <2>12. ASSUME NEW a \in App, Application!ComponentsClosed(a) PROVE AppInv'
    <3>1. HoldsByPc(a)
      BY DEF AppInv
    <3>2. StepOf(a)
      BY <2>12 DEF AppInv, AppTypes, StepOf, Application!ComponentsClosed, Application!Go
    <3>3. CountedBy(a)
      BY <2>12, <3>1 DEF AppInv, AppTypes, HoldsByPc, Application!Databases, CountedBy,
           Application!ComponentsClosed, Application!Go
    <3>4. HoldsByPc(a)'
      BY <2>12, <3>1 DEF AppInv, AppTypes, HoldsByPc, OnStack, Left, Cancelled,
           Application!Databases, Application!ComponentsClosed, Application!Go
    <3> QED BY <3>2, <3>3, <3>4, OneApplication
  <2>13. ASSUME NEW a \in App, Application!CloseRaises(a) PROVE AppInv'
    <3>1. HoldsByPc(a)
      BY DEF AppInv
    <3>2. StepOf(a)
      BY <2>13 DEF AppInv, AppTypes, StepOf, Application!CloseRaises, Application!Go,
           Application!Fault
    <3>3. CountedBy(a)
      BY <2>13, <3>1 DEF AppInv, AppTypes, HoldsByPc, Application!Databases, CountedBy,
           Application!CloseRaises, Application!Go, Application!Fault
    <3>4. HoldsByPc(a)'
      BY <2>13, <3>1 DEF AppInv, AppTypes, HoldsByPc, OnStack, Left, Cancelled,
           Application!Databases, Application!CloseRaises, Application!Go, Application!Fault
    <3> QED BY <3>2, <3>3, <3>4, OneApplication
  <2>14. ASSUME NEW a \in App, Application!CloseJobs(a) PROVE AppInv'
    <3>1. HoldsByPc(a)
      BY DEF AppInv
    <3>2. StepOf(a)
      BY <2>14 DEF AppInv, AppTypes, StepOf, Application!CloseJobs, Application!Go
    <3>3. CountedBy(a)
      BY <2>14, <3>1 DEF AppInv, AppTypes, HoldsByPc, Application!Databases, CountedBy,
           Application!CloseJobs, Application!Go
    <3>4. HoldsByPc(a)'
      BY <2>14, <3>1 DEF AppInv, AppTypes, HoldsByPc, OnStack, Left, Cancelled,
           Application!Databases, Application!CloseJobs, Application!Go
    <3> QED BY <3>2, <3>3, <3>4, OneApplication
  <2>15. ASSUME NEW a \in App, Application!CloseJobsCancelled(a) PROVE AppInv'
    <3>1. HoldsByPc(a)
      BY DEF AppInv
    <3>2. StepOf(a)
      BY <2>15 DEF AppInv, AppTypes, StepOf, Application!CloseJobsCancelled,
           Application!Go, Application!Fault
    <3>3. CountedBy(a)
      BY <2>15, <3>1 DEF AppInv, AppTypes, HoldsByPc, Application!Databases, CountedBy,
           Application!CloseJobsCancelled, Application!Go, Application!Fault
    <3>4. HoldsByPc(a)'
      BY <2>15, <3>1 DEF AppInv, AppTypes, HoldsByPc, OnStack, Left, Cancelled,
           Application!Databases, Application!CloseJobsCancelled, Application!Go,
           Application!Fault
    <3> QED BY <3>2, <3>3, <3>4, OneApplication
  <2>16. ASSUME NEW a \in App, Application!CloseWorkspace(a) PROVE AppInv'
    <3>1. HoldsByPc(a)
      BY DEF AppInv
    <3>2. StepOf(a)
      BY <2>16 DEF AppInv, AppTypes, StepOf, Application!CloseWorkspace, Application!Go,
           Application!Released
    <3>3. CountedBy(a)
      BY <2>16, <3>1 DEF AppInv, AppTypes, HoldsByPc, Application!Databases, CountedBy,
           Application!CloseWorkspace, Application!Go, Application!Released
    <3>4. HoldsByPc(a)'
      BY <2>16, <3>1 DEF AppInv, AppTypes, HoldsByPc, OnStack, Left, Cancelled,
           Application!Databases, Application!CloseWorkspace, Application!Go,
           Application!Released
    <3> QED BY <3>2, <3>3, <3>4, OneApplication
  <2>17. ASSUME NEW a \in App, Application!CloseMemory(a) PROVE AppInv'
    <3>1. HoldsByPc(a)
      BY DEF AppInv
    <3>2. StepOf(a)
      BY <2>17 DEF AppInv, AppTypes, StepOf, Application!CloseMemory, Application!Go,
           Application!Released
    <3>3. CountedBy(a)
      BY <2>17, <3>1 DEF AppInv, AppTypes, HoldsByPc, Application!Databases, CountedBy,
           Application!CloseMemory, Application!Go, Application!Released
    <3>4. HoldsByPc(a)'
      BY <2>17, <3>1 DEF AppInv, AppTypes, HoldsByPc, OnStack, Left, Cancelled,
           Application!Databases, Application!CloseMemory, Application!Go,
           Application!Released
    <3> QED BY <3>2, <3>3, <3>4, OneApplication
  <2>18. CASE UNCHANGED Application!vars
    <3>1. UNCHANGED <<pc, stack, held, todo, faults, refs, drains>>
      BY <2>18 DEF Application!vars
    <3>2. Leased' = Leased
      BY <3>1 DEF Leased
    <3>3. AppTypes' /\ (refs = Cardinality(Leased))'
      BY <3>1, <3>2 DEF AppInv, AppTypes
    <3>4. ASSUME NEW a \in App PROVE HoldsByPc(a)'
      <4>1. HoldsByPc(a)
        BY DEF AppInv
      <4>2. OnStack(a)' = OnStack(a) /\ Left(a)' = Left(a) /\ Cancelled(a)' = Cancelled(a)
        BY <3>1 DEF OnStack, Left, Cancelled
      <4>3. /\ pc'[a] = pc[a] /\ stack'[a] = stack[a] /\ held'[a] = held[a]
            /\ todo'[a] = todo[a] /\ faults'[a] = faults[a] /\ drains' = drains
        BY <3>1
      <4> QED BY <4>1, <4>2, <4>3 DEF HoldsByPc
    <3> QED BY <3>3, <3>4 DEF AppInv
  <2> QED BY <2>1, <2>2, <2>3, <2>4, <2>5, <2>6, <2>7, <2>8, <2>9, <2>10, <2>11,
        <2>12, <2>13, <2>14, <2>15, <2>16, <2>17, <2>18 DEF Application!Next, App
<1>3. AppInv => Application!NothingLeftOpen
  <2>1. {a \in Application!App : "workspace" \in held[a]} = Leased
    BY DEF Leased, App
  <2>2. ASSUME AppInv, NEW a \in App, ~Cancelled(a)
        PROVE  /\ a \in drains => "memory" \in held[a]
               /\ pc[a] = "over" => /\ held[a] \cap Application!Databases = {}
                                    /\ faults[a] = {} => held[a] = {}
    BY <2>2 DEF AppInv, HoldsByPc, Application!Databases
  <2>3. AppInv => refs = Cardinality({a \in Application!App : "workspace" \in held[a]})
    BY <2>1 DEF AppInv
  <2> SUFFICES ASSUME AppInv PROVE Application!NothingLeftOpen
    OBVIOUS
  <2>4. ASSUME NEW a \in Application!App, "cancelled" \notin faults[a]
        PROVE  /\ a \in drains => "memory" \in held[a]
               /\ pc[a] = "over" => /\ held[a] \cap Application!Databases = {}
                                    /\ faults[a] = {} => held[a] = {}
    BY <2>2, <2>4 DEF App, Cancelled
  <2>5. ASSUME NEW S PROVE Application!Cardinality(S) = Cardinality(S)
    BY DEF Application!Cardinality, Cardinality, Application!IsFiniteSet, IsFiniteSet
  <2> QED BY <2>3, <2>4, <2>5 DEF Application!NothingLeftOpen
<1> QED BY <1>1, <1>2, <1>3, PTL DEF Application!Spec

\* CommandActionHandler.execute and WorkspaceApplication.close: in Tools, no
\* command outlives its call unseen, and an application that is over left
\* nothing open; a command cancelled in the grace period of its time-out is the
\* one that may run on.
THEOREM NothingIsLeftOpen == Spec => []NothingLeftOpen
<1>1. Init => Shell!Init \/ focus # "shell"
  BY DEF Init
<1>2. [Next]_vars => [Shell!Next]_(Shell!vars)
  BY DEF Next, vars, ShellVars, Shell!vars
<1>3. focus # "shell" /\ [Next]_vars => (focus # "shell")'
  BY DEF Next, vars
<1>4. Init => Application!Init \/ focus # "application"
  BY DEF Init
<1>5. [Next]_vars => [Application!Next]_(Application!vars)
  BY DEF Next, vars, ApplicationVars, Application!vars
<1>6. focus # "application" /\ [Next]_vars => (focus # "application")'
  BY DEF Next, vars
<1>7. /\ Shell!CommandsContained \/ focus # "shell"
      /\ Application!NothingLeftOpen \/ focus # "application"
      => NothingLeftOpen
  BY DEF NothingLeftOpen
<1> QED BY <1>1, <1>2, <1>3, ShellSafe, <1>4, <1>5, <1>6, ApplicationSafe, <1>7, PTL
     DEF Spec, Shell!Spec, Application!Spec

=============================================================================
