---------------------------- MODULE StoresProofs ----------------------------
(***************************************************************************)
(* Theorems of Stores about what is kept on disk: the task list, the       *)
(* database and its upgrades, memories and their index, the jobs that      *)
(* extract them, artifacts, and the import of an archive, laid out as in   *)
(* ToolsProofs.                                                            *)
(***************************************************************************)
EXTENDS Stores, Sequences, FiniteSets, FiniteSetTheorems, TLAPS

-----------------------------------------------------------------------------
(***************************************************************************)
(* The task list.                                                          *)
(***************************************************************************)

TaskTypes ==
  /\ DOMAIN owner = Task /\ DOMAIN deps = Task /\ DOMAIN call = Call
  /\ \A t \in Task : deps[t] \subseteq Task
  /\ \A c \in Call : call[c] # None =>
       /\ call[c].task \in Task /\ call[c].ses \in Ses
       /\ call[c].deps # None => call[c].deps \subseteq Task

\* A task without a row waits for nothing; and since tasks wait only for
\* tasks of their session, nothing waits for it.
TasksInv ==
  /\ TaskTypes
  /\ \A t \in Task : owner[t] = None => deps[t] = {}
  /\ Tasks!SomeTaskFree

\* What is reachable from a task waits only for what is reachable.
LEMMA ReachableIsClosed ==
  ASSUME TaskTypes, NEW d \in Task
  PROVE  /\ deps[d] \subseteq Tasks!Reachable(d)
         /\ \A u \in Tasks!Reachable(d) : deps[u] \subseteq Tasks!Reachable(d)
<1>1. ASSUME NEW x \in deps[d] PROVE x \in Tasks!Reachable(d)
  BY DEF TaskTypes, Tasks!Reachable
<1>2. ASSUME NEW u \in Tasks!Reachable(d), NEW x \in deps[u] PROVE x \in Tasks!Reachable(d)
  <2>1. u \in Task /\ x \in Task
    BY DEF TaskTypes, Tasks!Reachable
  <2>2. ASSUME NEW S \in SUBSET Task, deps[d] \subseteq S, \A v \in S : deps[v] \subseteq S
        PROVE  x \in S
    <3>1. u \in S
      BY <2>2 DEF Tasks!Reachable
    <3> QED BY <2>2, <3>1
  <2> QED BY <2>1, <2>2 DEF Tasks!Reachable
<1> QED BY <1>1, <1>2

Free(f, S) == \E t \in S : f[t] \cap S = {}

\* Making t wait for D, none of which waits for t, closes no circle.
LEMMA NoCircle ==
  ASSUME TaskTypes, NEW t \in Task, NEW D \in SUBSET Task, t \notin D,
         \A d \in D : t \notin Tasks!Reachable(d),
         \A S \in SUBSET Task : S # {} => Free(deps, S),
         NEW S \in SUBSET Task, S # {}
  PROVE  Free([deps EXCEPT ![t] = D], S)
<1> DEFINE new == [deps EXCEPT ![t] = D]
<1>1. new[t] = D /\ \A u \in Task \ {t} : new[u] = deps[u]
  BY DEF TaskTypes
<1> HIDE DEF new
<1>2. CASE t \notin S
  BY <1>1, <1>2 DEF Free
<1>3. CASE t \in S /\ D \cap S = {}
  BY <1>1, <1>3 DEF Free
<1>4. ASSUME t \in S, NEW d \in D \cap S PROVE Free(new, S)
  <2> DEFINE R == Tasks!Reachable(d) \cup {d}
  <2>1. R \subseteq Task /\ t \notin R /\ \A u \in R : deps[u] \subseteq R
    BY ReachableIsClosed DEF Tasks!Reachable
  <2> HIDE DEF R
  <2>2. d \in S \cap R /\ S \cap R \in SUBSET Task
    BY <1>4 DEF R
  <2>3. PICK u \in S \cap R : deps[u] \cap (S \cap R) = {}
    BY <2>2 DEF Free
  <2>4. u \in Task \ {t} /\ deps[u] \subseteq R
    BY <2>1, <2>3
  <2>5. new[u] \cap S = {}
    BY <1>1, <2>3, <2>4
  <2> QED BY <2>3, <2>5 DEF Free
<1> QED BY <1>2, <1>3, <1>4 DEF new

\* TaskRepository: however calls that looked a task up before interleave, no
\* task waits for itself through others, so every set of unfinished tasks has
\* one that can be started; for any tasks, sessions and calls.
LEMMA TasksSafe == Tasks!Spec => []Tasks!SomeTaskFree
<1>0. None \notin Ses
  BY StoresAssumption
<1> USE <1>0
<1>1. Tasks!Init => TasksInv
  BY DEF Tasks!Init, TasksInv, TaskTypes, Tasks!SomeTaskFree, Tasks!InSession
<1>2. TasksInv /\ [Tasks!Next]_(Tasks!vars) => TasksInv'
  <2> SUFFICES ASSUME TasksInv, [Tasks!Next]_(Tasks!vars) PROVE TasksInv'
    OBVIOUS
  <2>0. \A S \in SUBSET Task : S # {} => Free(deps, S)
    BY DEF TasksInv, Tasks!SomeTaskFree, Free
  <2>a. \A t \in Task : \A d \in deps[t] : owner[d] = owner[t] /\ owner[d] # None
    BY DEF TasksInv, Tasks!SomeTaskFree, Tasks!InSession
  <2>1. ASSUME NEW t \in Task, NEW s \in Ses, NEW D \in SUBSET Task, Tasks!Create(t, s, D)
        PROVE  TasksInv'
    <3>1. /\ owner[t] = None /\ \A d \in D : owner[d] = s
          /\ owner' = [owner EXCEPT ![t] = s] /\ deps' = [deps EXCEPT ![t] = D]
          /\ UNCHANGED call
      BY <2>1 DEF Tasks!Create, Tasks!InSession
    <3>2. t \notin D /\ s # None
      BY <3>1
    <3>3. /\ owner'[t] = s /\ deps'[t] = D
          /\ \A u \in Task \ {t} : owner'[u] = owner[u] /\ deps'[u] = deps[u]
      BY <3>1 DEF TasksInv, TaskTypes
    <3>4. TaskTypes'
      BY <3>1, <3>3 DEF TasksInv, TaskTypes
    <3>5. ASSUME NEW S \in SUBSET Task, S # {} PROVE \E u \in S : deps'[u] \cap S = {}
      <4>1. CASE S \subseteq {t}
        BY <3>2, <3>3, <3>5, <4>1
      <4>2. CASE ~(S \subseteq {t})
        <5>1. PICK u \in S \ {t} : deps[u] \cap (S \ {t}) = {}
          BY <2>0, <4>2 DEF Free
        <5>2. t \notin deps[u]
          BY <2>a, <3>1
        <5> QED BY <3>3, <5>1, <5>2
      <4> QED BY <4>1, <4>2
    <3>6. \A u \in Task : \A d \in deps'[u] : owner'[d] = owner'[u]
      BY <2>a, <3>1, <3>2, <3>3 DEF TasksInv, TaskTypes
    <3>7. \A u \in Task : owner'[u] = None => deps'[u] = {}
      BY <3>2, <3>3 DEF TasksInv
    <3> QED BY <3>4, <3>5, <3>6, <3>7 DEF TasksInv, Tasks!SomeTaskFree, Tasks!InSession
  <2>2. ASSUME NEW c \in Call, NEW t \in Task, NEW s \in Ses,
               NEW D \in (SUBSET Task) \cup {None}, NEW st \in Statuses,
               Tasks!Look(c, t, s, D, st)
        PROVE  TasksInv'
    <3>1. /\ UNCHANGED <<owner, deps>>
          /\ call' = [call EXCEPT ![c] = [task |-> t, ses |-> s, deps |-> D, status |-> st]]
      BY <2>2 DEF Tasks!Look
    <3>2. TaskTypes'
      BY <3>1 DEF TasksInv, TaskTypes
    <3> QED BY <3>1, <3>2 DEF TasksInv, Tasks!SomeTaskFree, Tasks!InSession
  <2>3. ASSUME NEW c \in Call, Tasks!Update(c) PROVE TasksInv'
    <3> DEFINE t == call[c].task
               D == call[c].deps
    <3>1. /\ call[c] # None /\ call' = [call EXCEPT ![c] = None] /\ UNCHANGED owner
          /\ \/ UNCHANGED deps
             \/ /\ D # None /\ deps' = [deps EXCEPT ![t] = D] /\ owner[t] = call[c].ses
                /\ Tasks!Valid(t, call[c].ses, D)
      BY <2>3 DEF Tasks!Update, Tasks!Accepted
    <3>2. t \in Task /\ call[c].ses \in Ses
      BY <3>1 DEF TasksInv, TaskTypes
    <3>3. CASE UNCHANGED deps
      <4>1. TaskTypes'
        BY <3>1, <3>3 DEF TasksInv, TaskTypes
      <4> QED BY <3>1, <3>3, <4>1 DEF TasksInv, Tasks!SomeTaskFree, Tasks!InSession
    <3>4. CASE /\ D # None /\ deps' = [deps EXCEPT ![t] = D] /\ owner[t] = call[c].ses
               /\ Tasks!Valid(t, call[c].ses, D)
      <4>1. D \in SUBSET Task /\ TaskTypes
        BY <3>1, <3>4 DEF TasksInv, TaskTypes
      <4>2. t \notin D /\ (\A d \in D : t \notin Tasks!Reachable(d)) /\ \A d \in D : owner[d] = owner[t]
        BY <3>4 DEF Tasks!Valid, Tasks!InSession
      <4> HIDE DEF t, D
      <4>3. \A S \in SUBSET Task : S # {} => Free(deps', S)
        BY <2>0, <3>2, <3>4, <4>1, <4>2, NoCircle
      <4>4. deps'[t] = D /\ \A u \in Task \ {t} : deps'[u] = deps[u]
        BY <3>2, <3>4, <4>1 DEF TaskTypes
      <4>5. TaskTypes'
        BY <3>1, <3>2, <3>4, <4>1, <4>4 DEF TaskTypes
      <4>6. \A u \in Task : \A d \in deps'[u] : owner'[d] = owner'[u]
        BY <2>a, <3>1, <4>2, <4>4
      <4>7. \A u \in Task : owner'[u] = None => deps'[u] = {}
        BY <3>1, <3>2, <3>4, <4>4 DEF TasksInv
      <4> QED BY <4>3, <4>5, <4>6, <4>7 DEF TasksInv, Tasks!SomeTaskFree, Tasks!InSession,
           Free
    <3> QED BY <3>1, <3>3, <3>4
  <2>4. ASSUME NEW s \in Ses, Tasks!Delete(s) PROVE TasksInv'
    <3> DEFINE gone == {t \in Task : owner[t] = s}
    <3>1. /\ owner' = [t \in Task |-> IF t \in gone THEN None ELSE owner[t]]
          /\ deps' = [t \in Task |-> IF t \in gone THEN {} ELSE deps[t] \ gone]
          /\ UNCHANGED call
      BY <2>4 DEF Tasks!Delete
    <3>2. TaskTypes'
      BY <3>1 DEF TasksInv, TaskTypes
    <3>3. \A t \in Task : deps'[t] \subseteq deps[t]
      BY <3>1
    <3>4. ASSUME NEW S \in SUBSET Task, S # {} PROVE \E u \in S : deps'[u] \cap S = {}
      BY <2>0, <3>3, <3>4 DEF Free
    <3>5. \A u \in Task : \A d \in deps'[u] : owner'[d] = owner'[u]
      BY <2>a, <3>1 DEF TasksInv, TaskTypes
    <3>6. \A u \in Task : owner'[u] = None => deps'[u] = {}
      BY <3>1 DEF TasksInv
    <3> QED BY <3>2, <3>4, <3>5, <3>6 DEF TasksInv, Tasks!SomeTaskFree, Tasks!InSession
  <2>5. CASE UNCHANGED Tasks!vars
    BY <2>5 DEF Tasks!vars, TasksInv, TaskTypes, Tasks!SomeTaskFree, Tasks!InSession
  <2> QED BY <2>1, <2>2, <2>3, <2>4, <2>5 DEF Tasks!Next
<1>3. TasksInv => Tasks!SomeTaskFree
  BY DEF TasksInv
<1> QED BY <1>1, <1>2, <1>3, PTL DEF Tasks!Spec

\* TaskRepository: in Stores, dependencies never block every unfinished task of
\* a session.
THEOREM TasksNeverBlockEachOther == Spec => []SomeTaskFree
<1>1. Init => Tasks!Init \/ focus # "tasks"
  BY DEF Init
<1>2. [Next]_vars => [Tasks!Next]_(Tasks!vars)
  BY DEF Next, vars, TasksVars, Tasks!vars
<1>3. focus # "tasks" /\ [Next]_vars => (focus # "tasks")'
  BY DEF Next, vars
<1>4. Tasks!SomeTaskFree \/ focus # "tasks" => SomeTaskFree
  BY DEF SomeTaskFree
<1> QED BY <1>1, <1>2, <1>3, TasksSafe, <1>4, PTL DEF Spec, Tasks!Spec

-----------------------------------------------------------------------------
(***************************************************************************)
(* The owner lease and the upgrade of the workspace database.              *)
(***************************************************************************)

Held(p) == {i \in Database!Inst : i[1] = p /\ inst[i].pc # "closed"}

\* A lease counts the open instances of its process, which holds the lock.
LeaseCounts ==
  /\ DOMAIN refs = Proc
  /\ \A p \in Proc : IsFiniteSet(Held(p)) /\ refs[p] = Cardinality(Held(p))
  /\ \A i \in Database!Inst : inst[i].pc # "closed" => lock = i[1]

DatabaseTypes ==
  /\ DOMAIN inst = Database!Inst /\ DOMAIN db = {"version", "rows"}
  /\ \A i \in Database!Inst :
       /\ DOMAIN inst[i] = {"pc", "source", "image", "recovery"}
       /\ DOMAIN inst[i].image = {"version", "rows"}
       /\ inst[i].recovery \in BOOLEAN

\* Whoever took the lock is alone until it has recovered; only it upgrades.
FirstIsAlone == \A i \in Database!Inst :
  /\ inst[i].recovery /\ inst[i].pc \notin {"closed", "ready"}
       => \A j \in Database!Inst : j # i => inst[j].pc = "closed"
  /\ inst[i].pc \in {"checkpointed", "migrating", "failed", "recover"} => inst[i].recovery

\* Where an open stands tells what the file holds, and its image every row.
Stage(x, version, rows) ==
  /\ x.pc \in {"checkpointed", "migrating"} => x.source = version
  /\ x.pc \in {"valid", "recover", "ready"} => version = Current
  /\ x.pc = "open" /\ ~x.recovery => version = Current
  /\ x.pc \in {"migrating", "failed"} => rows \subseteq x.image.rows

StagesAgree == \A i \in Database!Inst : Stage(inst[i], db.version, done)

DatabaseInv ==
  /\ LeaseCounts /\ DatabaseTypes /\ FirstIsAlone /\ StagesAgree
  /\ done \subseteq db.rows

\* A step that opens or closes no instance leaves the lease as it was.
LEMMA LeaseKept ==
  ASSUME LeaseCounts, UNCHANGED <<refs, lock>>,
         \A j \in Database!Inst : (inst'[j].pc = "closed") <=> (inst[j].pc = "closed")
  PROVE  LeaseCounts'
<1>1. \A p \in Proc : Held(p)' = Held(p)
  BY DEF Held, Database!Inst
<1>2. DOMAIN refs' = Proc /\ refs' = refs /\ lock' = lock
  BY DEF LeaseCounts
<1>3. ASSUME NEW p \in Proc PROVE IsFiniteSet(Held(p)') /\ refs'[p] = Cardinality(Held(p)')
  BY <1>1, <1>2 DEF LeaseCounts
<1>4. ASSUME NEW i \in Database!Inst, inst'[i].pc # "closed" PROVE lock' = i[1]
  BY <1>2, <1>4 DEF LeaseCounts
<1>5. Database!Inst' = Database!Inst
  BY DEF Database!Inst
<1> QED BY <1>2, <1>3, <1>4, <1>5 DEF LeaseCounts

\* release_workspace_lease: the last reference, and only it, frees the lock.
LEMMA ReleaseCounts ==
  ASSUME Leased = TRUE, LeaseCounts, DatabaseTypes, NEW i \in Database!Inst,
         inst[i].pc # "closed",
         inst' = [inst EXCEPT ![i] = Database!Closed], Database!Release(i)
  PROVE  LeaseCounts'
<1> DEFINE p == i[1]
<1>1. p \in Proc /\ Database!Closed.pc = "closed"
  BY DEF Database!Inst, Database!Closed
<1>2. inst'[i].pc = "closed" /\ \A j \in Database!Inst : j # i => inst'[j] = inst[j]
  BY <1>1 DEF DatabaseTypes
<1>3. /\ Held(p)' = Held(p) \ {i} /\ i \in Held(p)
      /\ \A q \in Proc : q # p => Held(q)' = Held(q)
  BY <1>2 DEF Held, Database!Inst
<1>4. /\ IsFiniteSet(Held(p)') /\ Cardinality(Held(p)') = Cardinality(Held(p)) - 1
      /\ Cardinality(Held(p)) \in Nat
  <2> DEFINE S == Held(p)
  <2>1. IsFiniteSet(S) /\ i \in S
    BY <1>1, <1>3 DEF LeaseCounts
  <2> HIDE DEF S
  <2>2. IsFiniteSet(S \ {i}) /\ Cardinality(S \ {i}) = Cardinality(S) - 1
    BY <2>1, FS_RemoveElement
  <2>3. Cardinality(S) \in Nat
    BY <2>1, FS_CardinalityType
  <2> QED BY <2>2, <2>3, <1>3 DEF S
<1>5. /\ refs' = [refs EXCEPT ![p] = @ - 1]
      /\ lock' = IF refs[p] = 1 THEN Nobody ELSE lock
  BY DEF Database!Release
<1>6. /\ refs'[p] = refs[p] - 1 /\ DOMAIN refs' = Proc
      /\ \A q \in Proc : q # p => refs'[q] = refs[q]
  BY <1>1, <1>5 DEF LeaseCounts
<1>7. ASSUME NEW q \in Proc PROVE IsFiniteSet(Held(q)') /\ refs'[q] = Cardinality(Held(q)')
  <2>1. CASE q = p
    BY <2>1, <1>1, <1>4, <1>6 DEF LeaseCounts
  <2>2. CASE q # p
    BY <2>2, <1>3, <1>6 DEF LeaseCounts
  <2> QED BY <2>1, <2>2
<1>8. ASSUME NEW j \in Database!Inst, inst'[j].pc # "closed" PROVE lock' = j[1]
  <2>1. j # i /\ inst[j].pc # "closed"
    BY <1>2, <1>8
  <2>2. lock = p /\ lock = j[1]
    BY <2>1 DEF LeaseCounts
  <2>3. i \in Held(p)  /\ j \in Held(p)
    BY <2>1, <2>2, <1>3 DEF Held
  <2>4. Cardinality(Held(p)) # 1
    <3>1. IsFiniteSet(Held(p)) BY <1>1 DEF LeaseCounts
    <3>2. ASSUME Cardinality(Held(p)) = 1 PROVE FALSE
      <4>1. PICK x : Held(p) = {x}
        BY <3>1, <3>2, FS_Singleton
      <4> QED BY <4>1, <2>1, <2>3
    <3> QED BY <3>2
  <2>5. refs[p] # 1
    BY <1>1, <2>4 DEF LeaseCounts
  <2> QED BY <1>5, <2>2, <2>5
<1>9. Database!Inst' = Database!Inst
  BY DEF Database!Inst
<1> QED BY <1>6, <1>7, <1>8, <1>9 DEF LeaseCounts

\* An open that moves on and leaves the file alone.
LEMMA MovesOn ==
  ASSUME DatabaseInv, NEW i \in Database!Inst, NEW x,
         inst' = [inst EXCEPT ![i] = x], UNCHANGED <<db, done, refs, lock>>,
         DOMAIN x = {"pc", "source", "image", "recovery"},
         DOMAIN x.image = {"version", "rows"},
         x.recovery = inst[i].recovery,
         inst[i].pc \notin {"closed", "ready"}, x.pc # "closed",
         x.pc \in {"checkpointed", "migrating", "failed", "recover"} => x.recovery,
         Stage(x, db.version, done)
  PROVE  DatabaseInv'
<1>0. Database!Inst' = Database!Inst
  BY DEF Database!Inst
<1>1. inst'[i] = x /\ \A j \in Database!Inst : j # i => inst'[j] = inst[j]
  BY DEF DatabaseInv, DatabaseTypes
<1>2. LeaseCounts'
  <2>1. \A j \in Database!Inst : (inst'[j].pc = "closed") <=> (inst[j].pc = "closed")
    BY <1>1
  <2> QED BY <2>1, LeaseKept DEF DatabaseInv
<1>3. DatabaseTypes'
  BY <1>0, <1>1 DEF DatabaseInv, DatabaseTypes
<1>4. FirstIsAlone'
  <2>1. ASSUME NEW k \in Database!Inst, inst'[k].recovery, inst'[k].pc \notin {"closed", "ready"},
               NEW j \in Database!Inst, j # k
        PROVE  inst'[j].pc = "closed"
    <3>1. inst[k].recovery /\ inst[k].pc \notin {"closed", "ready"}
      BY <1>1, <2>1
    <3>2. inst[j].pc = "closed"
      BY <2>1, <3>1 DEF DatabaseInv, FirstIsAlone
    <3> QED BY <1>1, <3>2
  <2>2. ASSUME NEW k \in Database!Inst, inst'[k].pc \in {"checkpointed", "migrating", "failed", "recover"}
        PROVE  inst'[k].recovery
    BY <1>1, <2>2 DEF DatabaseInv, FirstIsAlone
  <2> QED BY <1>0, <2>1, <2>2 DEF FirstIsAlone
<1>5. StagesAgree'
  <2>1. \A k \in Database!Inst : Stage(inst'[k], db.version, done)
    BY <1>1 DEF DatabaseInv, StagesAgree
  <2>2. db' = db /\ done' = done
    OBVIOUS
  <2>3. \A k \in Database!Inst : Stage(inst'[k], db'.version, done')
    BY <2>1, <2>2
  <2> QED BY <2>3, <1>0 DEF StagesAgree
<1> QED BY <1>2, <1>3, <1>4, <1>5 DEF DatabaseInv

\* An instance closed, whatever it leaves in the file, when it was alone or
\* the file keeps its version.
LEMMA ClosesOne ==
  ASSUME Leased = TRUE, DatabaseInv, NEW i \in Database!Inst, inst[i].pc # "closed",
         inst' = [inst EXCEPT ![i] = Database!Closed], Database!Release(i),
         DOMAIN db' = {"version", "rows"}, done' = done, done \subseteq db'.rows,
         \/ db' = db
         \/ inst[i].recovery /\ inst[i].pc # "ready"
  PROVE  DatabaseInv'
<1> DEFINE C == Database!Closed
<1>0. Database!Inst' = Database!Inst
  BY DEF Database!Inst
<1>c. /\ DOMAIN C = {"pc", "source", "image", "recovery"} /\ DOMAIN C.image = {"version", "rows"}
      /\ C.pc = "closed" /\ C.recovery = FALSE
  BY DEF Database!Closed
<1>1. inst'[i] = C /\ \A j \in Database!Inst : j # i => inst'[j] = inst[j]
  BY DEF DatabaseInv, DatabaseTypes
<1> HIDE DEF C
<1>2. LeaseCounts'
  BY ReleaseCounts DEF DatabaseInv
<1>3. DatabaseTypes'
  <2>1. DOMAIN inst' = Database!Inst
    BY DEF DatabaseInv, DatabaseTypes
  <2> QED BY <2>1, <1>0, <1>1, <1>c DEF DatabaseInv, DatabaseTypes
<1>4. FirstIsAlone'
  <2>1. ASSUME NEW k \in Database!Inst, inst'[k].recovery, inst'[k].pc \notin {"closed", "ready"},
               NEW j \in Database!Inst, j # k
        PROVE  inst'[j].pc = "closed"
    <3>1. inst[k].recovery /\ inst[k].pc \notin {"closed", "ready"}
      BY <1>1, <1>c, <2>1
    <3>2. inst[j].pc = "closed"
      BY <2>1, <3>1 DEF DatabaseInv, FirstIsAlone
    <3> QED BY <1>1, <1>c, <3>2
  <2>2. ASSUME NEW k \in Database!Inst, inst'[k].pc \in {"checkpointed", "migrating", "failed", "recover"}
        PROVE  inst'[k].recovery
    BY <1>1, <1>c, <2>2 DEF DatabaseInv, FirstIsAlone
  <2> QED BY <1>0, <2>1, <2>2 DEF FirstIsAlone
<1>5. StagesAgree'
  <2>1. ASSUME NEW k \in Database!Inst PROVE Stage(inst'[k], db'.version, done')
    <3>1. CASE inst'[k].pc = "closed"
      BY <3>1 DEF Stage
    <3>2. CASE inst'[k].pc # "closed"
      <4>1. k # i /\ inst'[k] = inst[k]
        BY <3>2, <1>1, <1>c
      <4>2. inst[i].recovery /\ inst[i].pc # "ready" => FALSE
        BY <4>1, <3>2 DEF DatabaseInv, FirstIsAlone
      <4>3. db' = db
        BY <4>2
      <4>4. Stage(inst[k], db.version, done)
        BY DEF DatabaseInv, StagesAgree
      <4> QED BY <4>1, <4>3, <4>4
    <3> QED BY <3>1, <3>2
  <2> QED BY <2>1, <1>0 DEF StagesAgree
<1> QED BY <1>2, <1>3, <1>4, <1>5 DEF DatabaseInv

\* acquire_workspace_lease: the first opener finds everything closed, and a
\* child a parent that is ready.
LEMMA AcquireKeeps ==
  ASSUME Leased = TRUE, Nobody \notin Proc, DatabaseInv, NEW i \in Database!Inst,
         Database!Acquire(i)
  PROVE  DatabaseInv'
<1> DEFINE p == i[1]
           m == <<i[1], Nobody>>
           first == refs[p] = 0
           Ours == \A j \in Database!Inst : inst[j].pc # "closed" => j[1] = p
           x == [Database!Closed EXCEPT !.pc = "open", !.recovery = Leased /\ refs[p] = 0]
<1>0. Database!Inst' = Database!Inst /\ p \in Proc /\ m \in Database!Inst /\ m[1] = p
  BY DEF Database!Inst
<1>x. /\ DOMAIN x = {"pc", "source", "image", "recovery"} /\ DOMAIN x.image = {"version", "rows"}
      /\ x.pc = "open" /\ (x.recovery <=> first) /\ x.recovery \in BOOLEAN
  BY DEF Database!Closed
<1>a. /\ inst[i].pc = "closed"
      /\ i[2] # Nobody => inst[m].pc = "ready"
      /\ IF refs[p] > 0 THEN i[2] # Nobody ELSE lock = Nobody
      /\ lock' = p /\ refs' = [refs EXCEPT ![p] = @ + 1]
      /\ inst' = [inst EXCEPT ![i] = x] /\ db' = db /\ done' = done
  BY DEF Database!Acquire
<1> HIDE DEF x
<1>1. inst'[i] = x /\ \A j \in Database!Inst : j # i => inst'[j] = inst[j]
  BY <1>a DEF DatabaseInv, DatabaseTypes
<1>n. refs[p] \in Nat /\ refs[p] = Cardinality(Held(p)) /\ IsFiniteSet(Held(p))
  BY <1>0, FS_CardinalityType DEF DatabaseInv, LeaseCounts
<1>2. ASSUME first PROVE FirstIsAlone' /\ StagesAgree' /\ Ours
  <2>1. lock = Nobody
    BY <1>2, <1>a
  <2>2. \A j \in Database!Inst : inst[j].pc = "closed"
    <3>1. ASSUME NEW j \in Database!Inst, inst[j].pc # "closed" PROVE FALSE
      BY <2>1, <3>1 DEF DatabaseInv, LeaseCounts, Database!Inst
    <3> QED BY <3>1
  <2>3. FirstIsAlone'
    BY <2>2, <1>0, <1>1, <1>x, <1>2 DEF FirstIsAlone
  <2>4. StagesAgree'
    BY <2>2, <1>0, <1>1, <1>x, <1>2 DEF StagesAgree, Stage
  <2>5. Ours
    BY <2>2
  <2> QED BY <2>3, <2>4, <2>5
<1>3. ASSUME ~first PROVE FirstIsAlone' /\ StagesAgree' /\ Ours
  <2>1. refs[p] > 0
    BY <1>3, <1>n
  <2>2. inst[m].pc = "ready" /\ m # i
    BY <2>1, <1>a
  <2>3. lock = p
    BY <2>2, <1>0 DEF DatabaseInv, LeaseCounts
  <2>4. db.version = Current
    BY <2>2, <1>0 DEF DatabaseInv, StagesAgree, Stage
  <2>5. \A k \in Database!Inst : ~(inst[k].recovery /\ inst[k].pc \notin {"closed", "ready"})
    <3>1. ASSUME NEW k \in Database!Inst, inst[k].recovery, inst[k].pc \notin {"closed", "ready"}
          PROVE  FALSE
      BY <3>1, <2>2, <1>0 DEF DatabaseInv, FirstIsAlone
    <3> QED BY <3>1
  <2>6. FirstIsAlone'
    <3>1. ASSUME NEW k \in Database!Inst
          PROVE  /\ ~(inst'[k].recovery /\ inst'[k].pc \notin {"closed", "ready"})
                 /\ inst'[k].pc \in {"checkpointed", "migrating", "failed", "recover"} => inst'[k].recovery
      <4>1. CASE k = i
        BY <4>1, <1>1, <1>x, <1>3
      <4>2. CASE k # i
        <5>1. inst'[k] = inst[k] BY <4>2, <1>1
        <5> QED BY <5>1, <2>5 DEF DatabaseInv, FirstIsAlone
      <4> QED BY <4>1, <4>2
    <3> QED BY <3>1, <1>0 DEF FirstIsAlone
  <2>7. StagesAgree'
    <3>1. ASSUME NEW k \in Database!Inst PROVE Stage(inst'[k], db.version, done)
      <4>1. CASE k = i
        BY <4>1, <1>1, <1>x, <2>4 DEF Stage
      <4>2. CASE k # i
        BY <4>2, <1>1 DEF DatabaseInv, StagesAgree
      <4> QED BY <4>1, <4>2
    <3>2. \A k \in Database!Inst : Stage(inst'[k], db'.version, done')
      BY <3>1, <1>a
    <3> QED BY <3>2, <1>0 DEF StagesAgree
  <2>8. Ours
    BY <2>3 DEF DatabaseInv, LeaseCounts
  <2> QED BY <2>6, <2>7, <2>8
<1>4. FirstIsAlone' /\ StagesAgree' /\ Ours
  BY <1>2, <1>3
<1>5. LeaseCounts'
  <2>1. /\ Held(p)' = Held(p) \cup {i} /\ i \notin Held(p)
        /\ \A q \in Proc : q # p => Held(q)' = Held(q)
    BY <1>0, <1>1, <1>a, <1>x DEF Held
  <2>2. IsFiniteSet(Held(p)') /\ Cardinality(Held(p)') = refs[p] + 1
    BY <2>1, <1>n, FS_AddElement
  <2>3. refs'[p] = refs[p] + 1 /\ DOMAIN refs' = Proc /\ \A q \in Proc : q # p => refs'[q] = refs[q]
    BY <1>a, <1>0 DEF DatabaseInv, LeaseCounts
  <2>4. ASSUME NEW q \in Proc PROVE IsFiniteSet(Held(q)') /\ refs'[q] = Cardinality(Held(q)')
    <3>1. CASE q = p
      BY <3>1, <2>2, <2>3
    <3>2. CASE q # p
      BY <3>2, <2>1, <2>3 DEF DatabaseInv, LeaseCounts
    <3> QED BY <3>1, <3>2
  <2>5. ASSUME NEW j \in Database!Inst, inst'[j].pc # "closed" PROVE lock' = j[1]
    BY <2>5, <1>1, <1>4, <1>a
  <2> QED BY <1>0, <2>3, <2>4, <2>5 DEF LeaseCounts
<1>6. DatabaseTypes'
  <2>1. DOMAIN inst' = Database!Inst
    BY <1>a DEF DatabaseInv, DatabaseTypes
  <2> QED BY <2>1, <1>0, <1>1, <1>a, <1>x DEF DatabaseInv, DatabaseTypes
<1> QED BY <1>4, <1>5, <1>6, <1>a DEF DatabaseInv

\* An upgrade script commits: nobody else has the file open.
LEMMA MigrateKeeps ==
  ASSUME DatabaseInv, NEW i \in Database!Inst, Database!Migrate(i)
  PROVE  DatabaseInv'
<1>1. /\ inst[i].pc = "migrating" /\ inst[i].source = db.version /\ inst[i].recovery
      /\ done \subseteq inst[i].image.rows /\ DOMAIN inst[i] = {"pc", "source", "image", "recovery"}
      /\ DOMAIN inst[i].image = {"version", "rows"}
  BY DEF DatabaseInv, StagesAgree, Stage, FirstIsAlone, DatabaseTypes, Database!Migrate
<1> DEFINE x == [inst[i] EXCEPT !.source = @ + 1]
<1>2. /\ db' = [db EXCEPT !.version = @ + 1] /\ inst' = [inst EXCEPT ![i] = x]
      /\ UNCHANGED <<done, refs, lock>>
  BY <1>1 DEF Database!Migrate
<1>3. /\ DOMAIN x = {"pc", "source", "image", "recovery"} /\ x.image = inst[i].image
      /\ x.pc = "migrating" /\ x.recovery = inst[i].recovery /\ x.source = inst[i].source + 1
  BY <1>1
<1> HIDE DEF x
<1>4. db'.version = db.version + 1 /\ db'.rows = db.rows /\ DOMAIN db' = {"version", "rows"}
  BY <1>2 DEF DatabaseInv, DatabaseTypes
<1>5. inst'[i] = x /\ \A j \in Database!Inst : j # i => inst'[j] = inst[j]
  BY <1>2 DEF DatabaseInv, DatabaseTypes
<1>6. \A j \in Database!Inst : j # i => inst'[j].pc = "closed" /\ inst[j].pc = "closed"
  BY <1>1, <1>5 DEF DatabaseInv, FirstIsAlone
<1>0. Database!Inst' = Database!Inst
  BY DEF Database!Inst
<1>7. LeaseCounts'
  <2>1. \A j \in Database!Inst : (inst'[j].pc = "closed") <=> (inst[j].pc = "closed")
    BY <1>1, <1>3, <1>5
  <2> QED BY <2>1, <1>2, LeaseKept DEF DatabaseInv
<1>8. DatabaseTypes'
  <2>1. DOMAIN inst' = Database!Inst
    BY <1>2 DEF DatabaseInv, DatabaseTypes
  <2> QED BY <2>1, <1>0, <1>1, <1>3, <1>4, <1>5 DEF DatabaseInv, DatabaseTypes
<1>9. FirstIsAlone'
  BY <1>0, <1>1, <1>3, <1>5, <1>6 DEF FirstIsAlone
<1>10. StagesAgree'
  <2>1. ASSUME NEW k \in Database!Inst PROVE Stage(inst'[k], db'.version, done)
    <3>1. CASE k = i
      BY <3>1, <1>1, <1>3, <1>4, <1>5 DEF Stage
    <3>2. CASE k # i
      BY <3>2, <1>6 DEF Stage
    <3> QED BY <3>1, <3>2
  <2>2. \A k \in Database!Inst : Stage(inst'[k], db'.version, done')
    BY <2>1, <1>2
  <2> QED BY <2>2, <1>0 DEF StagesAgree
<1> QED BY <1>2, <1>4, <1>7, <1>8, <1>9, <1>10 DEF DatabaseInv

\* A transaction of an instance that is ready: no image is older than its row,
\* because whoever upgrades is alone.
LEMMA WriteKeeps ==
  ASSUME DatabaseInv, NEW i \in Database!Inst, Database!Write(i)
  PROVE  DatabaseInv'
<1>1. PICK new : /\ inst[i].pc = "ready" /\ db' = [db EXCEPT !.rows = @ \union {new}]
                 /\ done' = done \union {new} /\ UNCHANGED <<inst, refs, lock>>
  BY DEF Database!Write
<1>2. db'.version = db.version /\ db'.rows = db.rows \union {new} /\ DOMAIN db' = {"version", "rows"}
  BY <1>1 DEF DatabaseInv, DatabaseTypes
<1>0. Database!Inst' = Database!Inst
  BY DEF Database!Inst
<1>3. LeaseCounts'
  BY <1>1, LeaseKept DEF DatabaseInv
<1>4. DatabaseTypes' /\ FirstIsAlone'
  BY <1>0, <1>1, <1>2 DEF DatabaseInv, DatabaseTypes, FirstIsAlone
<1>5. StagesAgree'
  <2>1. ASSUME NEW k \in Database!Inst PROVE Stage(inst[k], db.version, done')
    <3>1. inst[k].pc \notin {"migrating", "failed"}
      BY <1>1 DEF DatabaseInv, FirstIsAlone
    <3> QED BY <3>1 DEF DatabaseInv, StagesAgree, Stage
  <2>2. \A k \in Database!Inst : Stage(inst'[k], db'.version, done')
    BY <2>1, <1>1, <1>2
  <2> QED BY <2>2, <1>0 DEF StagesAgree
<1> QED BY <1>1, <1>2, <1>3, <1>4, <1>5 DEF DatabaseInv

\* A process dies: the kernel drops its lock, and nothing of it is open.
LEMMA CrashKeeps ==
  ASSUME Nobody \notin Proc, DatabaseInv, NEW p \in Proc, Database!Crash(p)
  PROVE  DatabaseInv'
<1> DEFINE C == Database!Closed
<1>0. Database!Inst' = Database!Inst
  BY DEF Database!Inst
<1>c. /\ DOMAIN C = {"pc", "source", "image", "recovery"} /\ DOMAIN C.image = {"version", "rows"}
      /\ C.pc = "closed" /\ C.recovery = FALSE
  BY DEF Database!Closed
<1>1. /\ \A j \in Database!Inst : inst'[j] = IF j[1] = p THEN C ELSE inst[j]
      /\ DOMAIN inst' = Database!Inst /\ refs' = [refs EXCEPT ![p] = 0]
      /\ lock' = IF lock = p THEN Nobody ELSE lock
      /\ db' = db /\ done' = done
  BY DEF Database!Crash
<1> HIDE DEF C
<1>2. \A j \in Database!Inst : inst'[j].pc # "closed" => j[1] # p /\ inst'[j] = inst[j]
  BY <1>1, <1>c
<1>3. LeaseCounts'
  <2>1. Held(p)' = {} /\ \A q \in Proc : q # p => Held(q)' = Held(q)
    BY <1>0, <1>1, <1>c DEF Held
  <2>2. refs'[p] = 0 /\ DOMAIN refs' = Proc /\ \A q \in Proc : q # p => refs'[q] = refs[q]
    BY <1>1 DEF DatabaseInv, LeaseCounts
  <2>3. ASSUME NEW q \in Proc PROVE IsFiniteSet(Held(q)') /\ refs'[q] = Cardinality(Held(q)')
    <3>1. CASE q = p
      BY <3>1, <2>1, <2>2, FS_EmptySet
    <3>2. CASE q # p
      BY <3>2, <2>1, <2>2 DEF DatabaseInv, LeaseCounts
    <3> QED BY <3>1, <3>2
  <2>4. ASSUME NEW j \in Database!Inst, inst'[j].pc # "closed" PROVE lock' = j[1]
    <3>1. j[1] # p /\ lock = j[1]
      BY <2>4, <1>2 DEF DatabaseInv, LeaseCounts
    <3> QED BY <3>1, <1>1
  <2> QED BY <1>0, <2>2, <2>3, <2>4 DEF LeaseCounts
<1>4. DatabaseTypes'
  BY <1>0, <1>1, <1>c DEF DatabaseInv, DatabaseTypes
<1>5. FirstIsAlone'
  <2>1. ASSUME NEW k \in Database!Inst, inst'[k].pc # "closed"
        PROVE  /\ inst'[k].recovery /\ inst'[k].pc # "ready"
                    => \A j \in Database!Inst : j # k => inst'[j].pc = "closed"
               /\ inst'[k].pc \in {"checkpointed", "migrating", "failed", "recover"} => inst'[k].recovery
    BY <2>1, <1>1, <1>2, <1>c DEF DatabaseInv, FirstIsAlone
  <2> QED BY <2>1, <1>0 DEF FirstIsAlone
<1>6. StagesAgree'
  <2>1. ASSUME NEW k \in Database!Inst PROVE Stage(inst'[k], db.version, done)
    <3>1. CASE inst'[k].pc = "closed"
      BY <3>1 DEF Stage
    <3>2. CASE inst'[k].pc # "closed"
      BY <3>2, <1>2 DEF DatabaseInv, StagesAgree
    <3> QED BY <3>1, <3>2
  <2>2. \A k \in Database!Inst : Stage(inst'[k], db'.version, done')
    BY <2>1, <1>1
  <2> QED BY <2>2, <1>0 DEF StagesAgree
<1> QED BY <1>1, <1>3, <1>4, <1>5, <1>6 DEF DatabaseInv

\* AsyncDatabase, WorkspaceDatabase and the owner lease: for any processes,
\* children, versions and rows, recovery meets no live instance of the
\* workspace database, and no committed row is lost to a restored backup.
LEMMA DatabaseSafe ==
  ASSUME Leased = TRUE
  PROVE  Database!Spec => []Database!UpgradeSafe
<1>0. Nobody \notin Proc
  BY StoresAssumption
<1> USE <1>0
<1>1. Database!Init => DatabaseInv
  <2> SUFFICES ASSUME Database!Init PROVE DatabaseInv
    OBVIOUS
  <2>1. /\ DOMAIN inst = Database!Inst /\ \A i \in Database!Inst : inst[i] = Database!Closed
        /\ DOMAIN refs = Proc /\ \A p \in Proc : refs[p] = 0
        /\ DOMAIN db = {"version", "rows"} /\ done = {}
    BY DEF Database!Init
  <2>2. /\ Database!Closed.pc = "closed" /\ Database!Closed.recovery = FALSE
        /\ DOMAIN Database!Closed = {"pc", "source", "image", "recovery"}
        /\ DOMAIN Database!Closed.image = {"version", "rows"}
    BY DEF Database!Closed
  <2>3. \A p \in Proc : Held(p) = {}
    BY <2>1, <2>2 DEF Held
  <2>4. LeaseCounts
    BY <2>1, <2>2, <2>3, FS_EmptySet DEF LeaseCounts
  <2>5. DatabaseTypes /\ FirstIsAlone /\ StagesAgree
    BY <2>1, <2>2 DEF DatabaseTypes, FirstIsAlone, StagesAgree, Stage
  <2> QED BY <2>1, <2>4, <2>5 DEF DatabaseInv
<1>2. DatabaseInv /\ [Database!Next]_Database!vars => DatabaseInv'
  <2> SUFFICES ASSUME DatabaseInv, [Database!Next]_Database!vars PROVE DatabaseInv'
    OBVIOUS
  <2>1. ASSUME NEW i \in Database!Inst, inst[i].pc # "closed" /\ inst[i].pc # "ready"
        PROVE  /\ DOMAIN inst[i] = {"pc", "source", "image", "recovery"} /\ DOMAIN inst = Database!Inst
               /\ DOMAIN inst[i].image = {"version", "rows"} /\ inst[i].recovery \in BOOLEAN
               /\ Stage(inst[i], db.version, done)
               /\ inst[i].pc \in {"checkpointed", "migrating", "failed", "recover"} => inst[i].recovery
    BY DEF DatabaseInv, DatabaseTypes, StagesAgree, FirstIsAlone
  <2>2. ASSUME NEW i \in Database!Inst, Database!Acquire(i) PROVE DatabaseInv'
    BY <2>2, AcquireKeeps
  <2>3. ASSUME NEW i \in Database!Inst, Database!Inspect(i) PROVE DatabaseInv'
    <3> DEFINE x == IF db.version = Current THEN [inst[i] EXCEPT !.pc = "valid"]
                    ELSE [inst[i] EXCEPT !.pc = "checkpointed", !.source = db.version]
    <3>1. /\ inst[i].pc = "open" /\ inst' = [inst EXCEPT ![i] = x]
          /\ UNCHANGED <<db, done, refs, lock>>
      BY <2>3 DEF Database!Inspect, Database!Goto
    <3>2. /\ DOMAIN x = {"pc", "source", "image", "recovery"} /\ x.image = inst[i].image
          /\ x.recovery = inst[i].recovery
          /\ x.pc = IF db.version = Current THEN "valid" ELSE "checkpointed"
          /\ db.version # Current => x.source = db.version
      BY <2>1, <3>1
    <3>3. db.version # Current => inst[i].recovery
      BY <2>1, <3>1 DEF Stage
    <3> HIDE DEF x
    <3>4. Stage(x, db.version, done)
      BY <3>2 DEF Stage
    <3> QED BY <2>1, <3>1, <3>2, <3>3, <3>4, MovesOn
  <2>4. ASSUME NEW i \in Database!Inst, Database!Backup(i) PROVE DatabaseInv'
    <3> DEFINE x == [inst[i] EXCEPT !.pc = "migrating", !.image = db]
    <3>1. /\ inst[i].pc = "checkpointed" /\ inst' = [inst EXCEPT ![i] = x]
          /\ UNCHANGED <<db, done, refs, lock>>
      BY <2>4 DEF Database!Backup
    <3>2. /\ DOMAIN x = {"pc", "source", "image", "recovery"} /\ x.image = db
          /\ x.recovery = inst[i].recovery /\ x.pc = "migrating" /\ x.source = inst[i].source
      BY <2>1, <3>1
    <3> HIDE DEF x
    <3>3. Stage(x, db.version, done) /\ DOMAIN db = {"version", "rows"}
      BY <2>1, <3>1, <3>2 DEF Stage, DatabaseInv, DatabaseTypes
    <3> QED BY <2>1, <3>1, <3>2, <3>3, MovesOn
  <2>5. ASSUME NEW i \in Database!Inst, Database!Migrate(i) PROVE DatabaseInv'
    BY <2>5, MigrateKeeps
  <2>6. ASSUME NEW i \in Database!Inst, NEW pc, inst' = [inst EXCEPT ![i].pc = pc],
               UNCHANGED <<db, done, refs, lock>>,
               \/ inst[i].pc = "migrating" /\ pc = "failed"
               \/ inst[i].pc = "migrating" /\ inst[i].source = Current /\ pc = "valid"
               \/ inst[i].pc = "valid" /\ pc = IF inst[i].recovery THEN "recover" ELSE "ready"
               \/ inst[i].pc = "recover" /\ pc = "ready"
        PROVE  DatabaseInv'
    <3> DEFINE x == [inst[i] EXCEPT !.pc = pc]
    <3>1. inst' = [inst EXCEPT ![i] = x] /\ inst[i].pc \notin {"closed", "ready"} /\ pc # "closed"
      BY <2>6
    <3>2. /\ DOMAIN x = {"pc", "source", "image", "recovery"} /\ x.image = inst[i].image
          /\ x.recovery = inst[i].recovery /\ x.pc = pc /\ x.source = inst[i].source
      BY <2>1, <3>1
    <3> HIDE DEF x
    <3>3. Stage(x, db.version, done)
      BY <2>1, <2>6, <3>1, <3>2 DEF Stage
    <3>4. x.pc \in {"checkpointed", "migrating", "failed", "recover"} => x.recovery
      BY <2>1, <2>6, <3>1, <3>2
    <3> QED BY <2>1, <2>6, <3>1, <3>2, <3>3, <3>4, MovesOn
  <2>7. ASSUME NEW i \in Database!Inst, Database!MigrationFails(i) PROVE DatabaseInv'
    BY <2>6, <2>7 DEF Database!MigrationFails, Database!Goto
  <2>8. ASSUME NEW i \in Database!Inst, Database!Migrated(i) PROVE DatabaseInv'
    BY <2>6, <2>8 DEF Database!Migrated, Database!Goto
  <2>9. ASSUME NEW i \in Database!Inst, Database!Opened(i) PROVE DatabaseInv'
    <3>1. /\ inst[i].pc = "valid" /\ UNCHANGED <<db, done, refs, lock>>
          /\ inst' = [inst EXCEPT ![i].pc = IF inst[i].recovery THEN "recover" ELSE "ready"]
      BY <2>9 DEF Database!Opened, Database!Goto
    <3> QED BY <2>6, <3>1
  <2>10. ASSUME NEW i \in Database!Inst, Database!Recover(i) PROVE DatabaseInv'
    BY <2>6, <2>10 DEF Database!Recover, Database!Goto
  <2>11. ASSUME NEW i \in Database!Inst, Database!Restore(i) PROVE DatabaseInv'
    <3>1. /\ inst[i].pc = "failed" /\ db' = inst[i].image /\ done' = done
          /\ inst' = [inst EXCEPT ![i] = Database!Closed] /\ Database!Release(i)
      BY <2>11 DEF Database!Restore
    <3>2. inst[i].recovery /\ done \subseteq inst[i].image.rows /\ DOMAIN inst[i].image = {"version", "rows"}
      BY <2>1, <3>1 DEF Stage
    <3> QED BY <3>1, <3>2, ClosesOne
  <2>12. ASSUME NEW i \in Database!Inst, Database!Write(i) PROVE DatabaseInv'
    BY <2>12, WriteKeeps
  <2>13. ASSUME NEW i \in Database!Inst, Database!Close(i) PROVE DatabaseInv'
    <3>1. /\ inst[i].pc = "ready" /\ db' = db /\ done' = done
          /\ inst' = [inst EXCEPT ![i] = Database!Closed] /\ Database!Release(i)
      BY <2>13 DEF Database!Close
    <3>2. DOMAIN db' = {"version", "rows"} /\ done \subseteq db'.rows
      BY <3>1 DEF DatabaseInv, DatabaseTypes
    <3> QED BY <3>1, <3>2, ClosesOne
  <2>14. ASSUME NEW p \in Proc, Database!Crash(p) PROVE DatabaseInv'
    BY <2>14, CrashKeeps
  <2>15. CASE UNCHANGED Database!vars
    BY <2>15 DEF Database!vars, DatabaseInv, LeaseCounts, DatabaseTypes, FirstIsAlone,
       StagesAgree, Held, Database!Inst, Stage
  <2> QED BY <2>2, <2>3, <2>4, <2>5, <2>7, <2>8, <2>9, <2>10, <2>11, <2>12, <2>13, <2>14,
       <2>15
      DEF Database!Next
<1>3. DatabaseInv => Database!UpgradeSafe
  BY DEF DatabaseInv, FirstIsAlone, Database!UpgradeSafe, Database!RecoversAlone,
     Database!UpgradeKeepsRows
<1> QED BY <1>1, <1>2, <1>3, PTL DEF Database!Spec

\* AsyncDatabase: in Stores, upgrades and recovery under the owner lease lose
\* no row and meet no live instance.
THEOREM OpeningIsSafe ==
  ASSUME Leased = TRUE
  PROVE  Spec => []UpgradeSafe
<1>1. Init => Database!Init \/ focus # "database"
  BY DEF Init
<1>2. [Next]_vars => [Database!Next]_(Database!vars)
  BY DEF Next, vars, DatabaseVars, Database!vars
<1>3. focus # "database" /\ [Next]_vars => (focus # "database")'
  BY DEF Next, vars
<1>4. Database!UpgradeSafe \/ focus # "database" => UpgradeSafe
  BY DEF UpgradeSafe
<1> QED BY <1>1, <1>2, <1>3, DatabaseSafe, <1>4, PTL DEF Spec, Database!Spec

-----------------------------------------------------------------------------
(***************************************************************************)
(* The memory store.                                                       *)
(***************************************************************************)

Fields == {"status", "rev", "origin", "valid"}

MemoryTypes ==
  /\ DOMAIN mem = Mem /\ DOMAIN fts = Mem
  /\ \A m \in Mem : DOMAIN mem[m] = Fields
  /\ cmd.pc # "idle" => cmd.mem \in Mem

MemoryInv == MemoryTypes /\ Memory!MemoryIndexAgrees

\* A transaction that writes the row and the index entry of one memory.
LEMMA WritesOneMemory ==
  ASSUME MemoryInv, NEW m \in Mem, NEW x, NEW n,
         mem' = [mem EXCEPT ![m] = x], fts' = [fts EXCEPT ![m] = n],
         DOMAIN x = Fields, n = IF x.status = "active" THEN x.rev ELSE 0,
         cmd'.pc # "idle" => cmd'.mem \in Mem
  PROVE  MemoryInv'
<1>1. /\ DOMAIN mem' = Mem /\ DOMAIN fts' = Mem /\ mem'[m] = x /\ fts'[m] = n
      /\ \A k \in Mem : k # m => mem'[k] = mem[k] /\ fts'[k] = fts[k]
  BY DEF MemoryInv, MemoryTypes
<1>2. MemoryTypes'
  BY <1>1 DEF MemoryInv, MemoryTypes
<1>3. Memory!MemoryIndexAgrees'
  BY <1>1 DEF MemoryInv, Memory!MemoryIndexAgrees
<1> QED BY <1>2, <1>3 DEF MemoryInv

\* A change of the row that neither status nor revision sees.
LEMMA WritesElsewhere ==
  ASSUME MemoryInv, fts' = fts, DOMAIN mem' = Mem,
         \A m \in Mem : /\ DOMAIN mem'[m] = Fields
                        /\ mem'[m].status = mem[m].status /\ mem'[m].rev = mem[m].rev,
         cmd'.pc # "idle" => cmd'.mem \in Mem
  PROVE  MemoryInv'
BY DEF MemoryInv, MemoryTypes, Memory!MemoryIndexAgrees

\* MemoryLifecycle, MemoryService and the repositories: for any memories, the
\* search index shows exactly the current revision of the active ones,
\* although a revision is committed after the row was read and purges,
\* consolidations and crashes come in between.
LEMMA MemorySafe == Memory!Spec => []Memory!MemoryIndexAgrees
<1>1. Memory!Init => MemoryInv
  BY DEF Memory!Init, Memory!NoRow, Memory!Idle, MemoryInv, MemoryTypes, Fields,
     Memory!MemoryIndexAgrees
<1>2. MemoryInv /\ [Memory!Next]_Memory!vars => MemoryInv'
  <2> SUFFICES ASSUME MemoryInv, [Memory!Next]_Memory!vars PROVE MemoryInv'
    OBVIOUS
  <2>1. ASSUME Memory!Create PROVE MemoryInv'
    <3>1. PICK m \in Mem, t \in {"a", "b"}, o \in {"manual", "automatic"} : Memory!Insert(m, t, o)
      BY <2>1 DEF Memory!Create
    <3> DEFINE x == [Memory!NoRow EXCEPT !.status = "active", !.rev = 1, !.origin = o]
    <3>2. DOMAIN x = Fields /\ x.status = "active" /\ x.rev = 1
      BY DEF Memory!NoRow, Fields
    <3>3. mem' = [mem EXCEPT ![m] = x] /\ fts' = [fts EXCEPT ![m] = 1] /\ cmd' = cmd
      BY <2>1, <3>1 DEF Memory!Create, Memory!Insert
    <3> HIDE DEF x
    <3> QED BY <3>2, <3>3, WritesOneMemory DEF MemoryInv, MemoryTypes
  <2>2. ASSUME Memory!Commit PROVE MemoryInv'
    <3>1. cmd.pc # "idle" /\ cmd.mem \in Mem /\ cmd' = Memory!Idle /\ Memory!Idle.pc = "idle"
      BY <2>2 DEF Memory!Commit, MemoryInv, MemoryTypes, Memory!Idle
    <3>2. CASE UNCHANGED <<mem, hist, fts>>
      BY <3>1, <3>2, WritesElsewhere DEF MemoryInv, MemoryTypes
    <3>3. CASE Memory!AppendRevision(cmd.mem, cmd.rev, cmd.text, cmd.status)
      <4> DEFINE m == cmd.mem
                 x == [mem[m] EXCEPT !.status = cmd.status, !.rev = cmd.rev + 1]
                 n == IF cmd.status = "active" THEN cmd.rev + 1 ELSE 0
      <4>1. DOMAIN x = Fields /\ x.status = cmd.status /\ x.rev = cmd.rev + 1
        BY <3>1 DEF MemoryInv, MemoryTypes, Fields
      <4>2. mem' = [mem EXCEPT ![m] = x] /\ fts' = [fts EXCEPT ![m] = n]
        BY <3>1, <3>3 DEF Memory!AppendRevision, MemoryInv, MemoryTypes
      <4>3. n = IF x.status = "active" THEN x.rev ELSE 0
        BY <4>1
      <4> HIDE DEF x, n
      <4> QED BY <3>1, <4>1, <4>2, <4>3, WritesOneMemory
    <3> QED BY <2>2, <3>2, <3>3 DEF Memory!Commit
  <2>3. ASSUME NEW m \in Mem, Memory!Purge(m) PROVE MemoryInv'
    <3> DEFINE x == [mem[m] EXCEPT !.status = "purged", !.rev = 0]
    <3>1. DOMAIN x = Fields /\ x.status = "purged"
      BY DEF MemoryInv, MemoryTypes, Fields
    <3>2. mem' = [mem EXCEPT ![m] = x] /\ fts' = [fts EXCEPT ![m] = 0] /\ cmd' = cmd
      BY <2>3 DEF Memory!Purge, Memory!Erase
    <3> HIDE DEF x
    <3> QED BY <3>1, <3>2, WritesOneMemory DEF MemoryInv, MemoryTypes
  <2>4. ASSUME NEW m \in Mem, NEW v \in BOOLEAN, mem' = [mem EXCEPT ![m].valid = v],
               UNCHANGED <<fts, cmd>>
        PROVE  MemoryInv'
    <3>1. DOMAIN mem' = Mem /\ \A k \in Mem : k # m => mem'[k] = mem[k]
      BY <2>4 DEF MemoryInv, MemoryTypes
    <3>2. mem'[m] = [mem[m] EXCEPT !.valid = v] /\ DOMAIN mem[m] = Fields
      BY <2>4 DEF MemoryInv, MemoryTypes
    <3>3. DOMAIN mem'[m] = Fields /\ mem'[m].status = mem[m].status /\ mem'[m].rev = mem[m].rev
      BY <3>2 DEF Fields
    <3>4. ASSUME NEW k \in Mem
          PROVE  DOMAIN mem'[k] = Fields /\ mem'[k].status = mem[k].status /\ mem'[k].rev = mem[k].rev
      BY <3>1, <3>3 DEF MemoryInv, MemoryTypes
    <3> QED BY <2>4, <3>1, <3>4, WritesElsewhere DEF MemoryInv, MemoryTypes
  <2>5. ASSUME NEW m \in Mem, Memory!Invalidate(m) PROVE MemoryInv'
    BY <2>4, <2>5 DEF Memory!Invalidate
  <2>6. ASSUME NEW m \in Mem, Memory!AddSource(m) PROVE MemoryInv'
    BY <2>4, <2>6 DEF Memory!AddSource
  <2>7. ASSUME UNCHANGED <<mem, fts>>, cmd'.pc # "idle" => cmd'.mem \in Mem PROVE MemoryInv'
    BY <2>7, WritesElsewhere DEF MemoryInv, MemoryTypes
  <2>8. ASSUME NEW m \in Mem, NEW kind, NEW text, NEW st, Memory!Start(kind, m, text, st)
        PROVE  MemoryInv'
    BY <2>7, <2>8 DEF Memory!Start
  <2>9. ASSUME NEW m \in Mem, Memory!Edit(m) \/ Memory!Forget(m) \/ Memory!Undo(m) PROVE MemoryInv'
    BY <2>8, <2>9 DEF Memory!Edit, Memory!Forget, Memory!Undo
  <2>10. ASSUME NEW m \in Mem, Memory!Recall(m) PROVE MemoryInv'
    BY <2>7, <2>10 DEF Memory!Recall, MemoryInv, MemoryTypes
  <2>11. ASSUME Memory!ConsolidateRead PROVE MemoryInv'
    BY <2>7, <2>11 DEF Memory!ConsolidateRead, MemoryInv, MemoryTypes
  <2>12. ASSUME Memory!Consolidate PROVE MemoryInv'
    <3>1. CASE UNCHANGED <<mem, hist, fts>>
      BY <2>7, <2>12, <3>1 DEF Memory!Consolidate, MemoryInv, MemoryTypes
    <3>2. CASE ~UNCHANGED <<mem, hist, fts>>
      <4>1. PICK survivor \in [{x.text : x \in tidy} -> tidy] :
              LET gone == Memory!Forgotten(survivor)
                  ids == {x.mem : x \in gone}
                  rowOf(m) == CHOOSE x \in gone : x.mem = m IN
              /\ mem' = [m \in Mem |-> IF m \notin ids THEN mem[m] ELSE
                           [mem[m] EXCEPT !.status = "forgotten", !.rev = rowOf(m).rev + 1]]
              /\ fts' = [m \in Mem |-> IF m \in ids THEN 0 ELSE fts[m]]
        BY <2>12, <3>2 DEF Memory!Consolidate
      <4> DEFINE ids == {x.mem : x \in Memory!Forgotten(survivor)}
                 rev(m) == (CHOOSE x \in Memory!Forgotten(survivor) : x.mem = m).rev + 1
      <4>2. /\ mem' = [m \in Mem |-> IF m \notin ids THEN mem[m] ELSE
                         [mem[m] EXCEPT !.status = "forgotten", !.rev = rev(m)]]
            /\ fts' = [m \in Mem |-> IF m \in ids THEN 0 ELSE fts[m]]
        BY <4>1
      <4> HIDE DEF ids, rev
      <4>3. ASSUME NEW m \in Mem
            PROVE  /\ DOMAIN mem'[m] = Fields
                   /\ fts'[m] = IF mem'[m].status = "active" THEN mem'[m].rev ELSE 0
        <5>1. DOMAIN mem[m] = Fields /\ fts[m] = IF mem[m].status = "active" THEN mem[m].rev ELSE 0
          BY DEF MemoryInv, MemoryTypes, Memory!MemoryIndexAgrees
        <5>2. CASE m \notin ids
          BY <4>2, <5>1, <5>2
        <5>3. CASE m \in ids
          <6>1. mem'[m] = [mem[m] EXCEPT !.status = "forgotten", !.rev = rev(m)] /\ fts'[m] = 0
            BY <4>2, <5>3
          <6> QED BY <5>1, <6>1 DEF Fields
        <5> QED BY <5>2, <5>3
      <4>4. DOMAIN mem' = Mem /\ DOMAIN fts' = Mem
        BY <4>2
      <4>5. cmd' = cmd
        BY <2>12 DEF Memory!Consolidate
      <4>6. MemoryTypes'
        BY <4>3, <4>4, <4>5 DEF MemoryInv, MemoryTypes
      <4>7. Memory!MemoryIndexAgrees'
        BY <4>3 DEF Memory!MemoryIndexAgrees
      <4> QED BY <4>6, <4>7 DEF MemoryInv
    <3> QED BY <3>1, <3>2
  <2>13. ASSUME Memory!Crash PROVE MemoryInv'
    BY <2>7, <2>13 DEF Memory!Crash, Memory!Idle
  <2>14. CASE UNCHANGED Memory!vars
    BY <2>7, <2>14 DEF Memory!vars, MemoryInv, MemoryTypes
  <2> QED BY <2>1, <2>2, <2>3, <2>5, <2>6, <2>9, <2>10, <2>11, <2>12, <2>13, <2>14
       DEF Memory!Next
<1>3. MemoryInv => Memory!MemoryIndexAgrees
  BY DEF MemoryInv
<1> QED BY <1>1, <1>2, <1>3, PTL DEF Memory!Spec

\* MemoryLifecycle and MemoryService: in Stores, the search index always shows
\* the current revision of the active memories.
THEOREM IndexAlwaysAgrees == Spec => []MemoryIndexAgrees
<1>1. Init => Memory!Init \/ focus # "memory"
  BY DEF Init
<1>2. [Next]_vars => [Memory!Next]_(Memory!vars)
  BY DEF Next, vars, MemoryVars, Memory!vars
<1>3. focus # "memory" /\ [Next]_vars => (focus # "memory")'
  BY DEF Next, vars
<1>4. Memory!MemoryIndexAgrees \/ focus # "memory" => MemoryIndexAgrees
  BY DEF MemoryIndexAgrees
<1> QED BY <1>1, <1>2, <1>3, MemorySafe, <1>4, PTL DEF Spec, Memory!Spec

-----------------------------------------------------------------------------
(***************************************************************************)
(* The memory worker.                                                      *)
(***************************************************************************)

DrainFields == {"pc", "cand", "related", "exact", "created", "attempts"}

JobTypes ==
  /\ DOMAIN kept = Mem /\ DOMAIN maker = Mem /\ DOMAIN drain = Drain
  /\ DOMAIN job = {"status", "attempts"}
  /\ \A d \in Drain : DOMAIN drain[d] = DrainFields

\* m is in force and an extraction created it.
Adopted(m) == maker[m] = "extract" /\ kept[m] = "active"

\* One task at a time works on the job, which is running then.
OneWorks ==
  /\ \A d \in Drain : drain[d].pc # "idle" => job.status = "running"
  /\ \A d, e \in Drain : d # e => drain[d].pc = "idle" \/ drain[e].pc = "idle"

\* A task about to create a memory knows that there is none of its text.
WillAdd(x) == x.pc \in {"found", "stored"} /\ x.related = None

AddsFirst == \A d \in Drain : WillAdd(drain[d]) => \A m \in Mem : ~Adopted(m)

OneAdopted == \A m, n \in Mem : m # n => ~(Adopted(m) /\ Adopted(n))

JobsInv == JobTypes /\ (~crossed => OneWorks /\ AddsFirst /\ OneAdopted)

\* A task of the worker moves from one state to another, or sleeps again.
LEMMA DrainMoves ==
  ASSUME JobsInv, NEW d \in Drain, NEW x,
         drain' = [drain EXCEPT ![d] = x], UNCHANGED <<kept, maker, crossed>>,
         DOMAIN x = DrainFields, DOMAIN job' = {"status", "attempts"},
         ~crossed => /\ \A e \in Drain : e # d => drain[e].pc = "idle"
                     /\ x.pc # "idle" => job'.status = "running"
                     /\ WillAdd(x) => \A m \in Mem : ~Adopted(m)
  PROVE  JobsInv'
<1>1. DOMAIN drain' = Drain /\ drain'[d] = x /\ \A e \in Drain : e # d => drain'[e] = drain[e]
  BY DEF JobsInv, JobTypes
<1>2. JobTypes'
  BY <1>1 DEF JobsInv, JobTypes
<1>3. ASSUME ~crossed PROVE OneWorks' /\ AddsFirst' /\ OneAdopted'
  <2>1. \A e \in Drain : e # d => drain'[e].pc = "idle"
    BY <1>1, <1>3
  <2>2. OneWorks'
    BY <1>1, <1>3, <2>1 DEF OneWorks
  <2>3. \A m \in Mem : Adopted(m)' <=> Adopted(m)
    BY DEF Adopted
  <2>4. \A e \in Drain : WillAdd(drain'[e]) => \A m \in Mem : ~Adopted(m)
    BY <1>1, <1>3, <2>1 DEF WillAdd
  <2>5. AddsFirst'
    BY <2>3, <2>4 DEF AddsFirst, WillAdd
  <2>6. OneAdopted'
    BY <1>3, <2>3 DEF JobsInv, OneAdopted
  <2> QED BY <2>2, <2>5, <2>6
<1> QED BY <1>2, <1>3 DEF JobsInv

\* A change of the memories that adopts none.
LEMMA NoneAdopted ==
  ASSUME JobsInv, UNCHANGED <<drain, job, crossed>>, DOMAIN kept' = Mem, DOMAIN maker' = Mem,
         \A m \in Mem : Adopted(m)' => Adopted(m)
  PROVE  JobsInv'
<1>1. JobTypes'
  BY DEF JobsInv, JobTypes
<1>2. OneWorks => OneWorks'
  BY DEF OneWorks
<1>3. AddsFirst => AddsFirst'
  BY DEF AddsFirst, WillAdd
<1>4. OneAdopted => OneAdopted'
  BY DEF OneAdopted
<1> QED BY <1>1, <1>2, <1>3, <1>4 DEF JobsInv

\* MemoryJobWorker and the candidates' repository: for any memories,
\* candidates, tasks and attempts, retries and restarts never leave two
\* memories in force that one extraction created, unless another process
\* recovered the job under a task that still worked on it.
LEMMA JobsSafe == Jobs!Spec => []Jobs!MemoryAdoptedOnce
<1>0. None \notin Mem
  BY StoresAssumption
<1> USE <1>0
<1>1. Jobs!Init => JobsInv
  BY DEF Jobs!Init, Jobs!Asleep, JobsInv, JobTypes, DrainFields, OneWorks, AddsFirst,
       WillAdd,
     OneAdopted, Adopted
<1>2. JobsInv /\ [Jobs!Next]_Jobs!vars => JobsInv'
  <2> SUFFICES ASSUME JobsInv, [Jobs!Next]_Jobs!vars PROVE JobsInv'
    OBVIOUS
  <2>0. /\ DOMAIN Jobs!Asleep = DrainFields /\ Jobs!Asleep.pc = "idle"
        /\ ~WillAdd(Jobs!Asleep)
    BY DEF Jobs!Asleep, DrainFields, WillAdd
  <2>1. ASSUME NEW d \in Drain, drain[d].pc # "idle", ~crossed
        PROVE  job.status = "running" /\ \A e \in Drain : e # d => drain[e].pc = "idle"
    BY <2>1 DEF JobsInv, OneWorks
  <2>2. ASSUME Jobs!Enqueue PROVE JobsInv'
    <3>1. /\ job.status = "none" /\ UNCHANGED <<kept, maker, drain, crossed>>
          /\ DOMAIN job' = {"status", "attempts"}
      BY <2>2 DEF Jobs!Enqueue, JobsInv, JobTypes
    <3> QED BY <3>1 DEF JobsInv, JobTypes, OneWorks, AddsFirst, OneAdopted, Adopted
  <2>3. ASSUME NEW d \in Drain, Jobs!DrainClaim(d) PROVE JobsInv'
    <3> DEFINE x == [Jobs!Asleep EXCEPT !.pc = "capture"]
    <3>1. DOMAIN x = DrainFields /\ x.pc = "capture"
      BY DEF Jobs!Asleep, DrainFields
    <3>2. /\ drain' = [drain EXCEPT ![d] = x] /\ UNCHANGED <<kept, maker, crossed>>
          /\ job.status = "queued" /\ job' = [job EXCEPT !.status = "running", !.attempts = @ + 1]
      BY <2>3 DEF Jobs!DrainClaim, Jobs!Claim
    <3>3. job'.status = "running" /\ DOMAIN job' = {"status", "attempts"}
      BY <3>2 DEF JobsInv, JobTypes
    <3>4. ~crossed => \A e \in Drain : drain[e].pc = "idle"
      BY <3>2 DEF JobsInv, OneWorks
    <3>5. ~WillAdd(x)
      BY <3>1 DEF WillAdd
    <3> HIDE DEF x
    <3> QED BY <3>1, <3>2, <3>3, <3>4, <3>5, DrainMoves
  \* A step of a task that the job's row does not show.
  <2>4. ASSUME NEW d \in Drain, drain[d].pc # "idle", NEW x, drain' = [drain EXCEPT ![d] = x],
               UNCHANGED <<kept, maker, job, crossed>>, DOMAIN x = DrainFields,
               ~crossed /\ WillAdd(x) => \A m \in Mem : ~Adopted(m)
        PROVE  JobsInv'
    BY <2>1, <2>4, DrainMoves DEF JobsInv, JobTypes
  <2>5. ASSUME NEW d \in Drain, Jobs!Extract(d) PROVE JobsInv'
    <3>0. drain[d].pc = "capture" /\ UNCHANGED <<kept, maker, job, crossed>> /\ DOMAIN drain[d] = DrainFields
      BY <2>5 DEF Jobs!Extract, JobsInv, JobTypes
    <3>1. CASE drain' = [drain EXCEPT ![d].pc = "done"]
      <4> DEFINE x == [drain[d] EXCEPT !.pc = "done"]
      <4>1. DOMAIN x = DrainFields /\ ~WillAdd(x) /\ drain' = [drain EXCEPT ![d] = x]
        BY <3>0, <3>1 DEF WillAdd, DrainFields
      <4> HIDE DEF x
      <4> QED BY <3>0, <4>1, <2>4
    <3>2. CASE \E r \in Jobs!Related, b \in BOOLEAN :
                 drain' = [drain EXCEPT ![d].pc = "found", ![d].related = r, ![d].exact = b]
      <4>1. PICK r \in Jobs!Related, b \in BOOLEAN :
              drain' = [drain EXCEPT ![d].pc = "found", ![d].related = r, ![d].exact = b]
        BY <3>2
      <4> DEFINE x == [drain[d] EXCEPT !.pc = "found", !.related = r, !.exact = b]
      <4>2. DOMAIN x = DrainFields /\ x.related = r /\ drain' = [drain EXCEPT ![d] = x]
        BY <3>0, <4>1 DEF DrainFields
      <4>3. r = None => \A m \in Mem : kept[m] # "active"
        BY <4>1 DEF Jobs!Related
      <4>4. WillAdd(x) => \A m \in Mem : ~Adopted(m)
        BY <4>2, <4>3 DEF WillAdd, Adopted
      <4> HIDE DEF x
      <4> QED BY <3>0, <4>2, <4>4, <2>4
    <3> QED BY <2>5, <3>1, <3>2 DEF Jobs!Extract
  <2>6. ASSUME NEW d \in Drain, Jobs!Store(d) PROVE JobsInv'
    <3>1. PICK c \in Cand : drain' = [drain EXCEPT ![d].pc = "stored", ![d].cand = c]
      BY <2>6 DEF Jobs!Store
    <3>2. drain[d].pc = "found" /\ UNCHANGED <<kept, maker, job, crossed>> /\ DOMAIN drain[d] = DrainFields
      BY <2>6 DEF Jobs!Store, JobsInv, JobTypes
    <3> DEFINE x == [drain[d] EXCEPT !.pc = "stored", !.cand = c]
    <3>3. DOMAIN x = DrainFields /\ x.related = drain[d].related /\ drain' = [drain EXCEPT ![d] = x]
      BY <3>1, <3>2 DEF DrainFields
    <3>4. WillAdd(x) => WillAdd(drain[d])
      BY <3>2, <3>3 DEF WillAdd
    <3>5. ~crossed /\ WillAdd(x) => \A m \in Mem : ~Adopted(m)
      BY <3>4 DEF JobsInv, AddsFirst
    <3> HIDE DEF x
    <3> QED BY <3>2, <3>3, <3>5, <2>4
  <2>7. ASSUME NEW d \in Drain, Jobs!Adopt(d) PROVE JobsInv'
    <3> DEFINE b == drain[d].related = None
               x == [drain[d] EXCEPT !.pc = "adopted", !.created = b]
    <3>1. /\ drain[d].pc = "stored" /\ UNCHANGED <<job, crossed>> /\ DOMAIN drain[d] = DrainFields
          /\ drain' = [drain EXCEPT ![d].pc = "adopted", ![d].created = b]
      BY <2>7 DEF Jobs!Adopt, JobsInv, JobTypes
    <3>2. DOMAIN x = DrainFields /\ x.pc = "adopted" /\ drain' = [drain EXCEPT ![d] = x]
      BY <3>1 DEF DrainFields
    <3>3. ~WillAdd(x)
      BY <3>2 DEF WillAdd
    <3> HIDE DEF x
    <3>4. CASE UNCHANGED <<kept, maker>>
      BY <3>1, <3>2, <3>3, <3>4, <2>4
    <3>5. CASE b /\ Jobs!Create("extract")
      <4>1. PICK n \in Mem : /\ kept' = [kept EXCEPT ![n] = "active"]
                             /\ maker' = [maker EXCEPT ![n] = "extract"]
        BY <3>5 DEF Jobs!Create
      <4>2. DOMAIN kept' = Mem /\ DOMAIN maker' = Mem
        BY <4>1 DEF JobsInv, JobTypes
      <4>3. \A m \in Mem : m # n => (Adopted(m)' <=> Adopted(m))
        BY <4>1 DEF JobsInv, JobTypes, Adopted
      <4>4. DOMAIN drain' = Drain /\ drain'[d] = x /\ \A e \in Drain : e # d => drain'[e] = drain[e]
        BY <3>2 DEF JobsInv, JobTypes
      <4>5. JobTypes'
        BY <3>1, <3>2, <4>2, <4>4 DEF JobsInv, JobTypes
      <4>6. ASSUME ~crossed PROVE OneWorks' /\ AddsFirst' /\ OneAdopted'
        <5>1. WillAdd(drain[d])
          BY <3>1, <3>5 DEF WillAdd
        <5>2. \A m \in Mem : ~Adopted(m)
          BY <4>6, <5>1 DEF JobsInv, AddsFirst
        <5>3. OneAdopted'
          BY <4>3, <5>2 DEF OneAdopted
        <5>4. job.status = "running" /\ \A e \in Drain : e # d => drain[e].pc = "idle"
          BY <4>6, <3>1, <2>1
        <5>5. \A e \in Drain : e # d => drain'[e].pc = "idle"
          BY <4>4, <5>4
        <5>6. OneWorks'
          BY <3>1, <5>4, <5>5 DEF OneWorks
        <5>7. \A e \in Drain : ~WillAdd(drain'[e])
          BY <3>3, <4>4, <5>5 DEF WillAdd
        <5>8. AddsFirst'
          BY <5>7 DEF AddsFirst, WillAdd
        <5> QED BY <5>3, <5>6, <5>8
      <4> QED BY <3>1, <4>5, <4>6 DEF JobsInv
    <3> QED BY <2>7, <3>4, <3>5 DEF Jobs!Adopt
  <2>8. ASSUME NEW d \in Drain, NEW pc, drain[d].pc # "idle", pc \notin {"found", "stored"},
               drain' = [drain EXCEPT ![d].pc = pc], UNCHANGED <<kept, maker, job, crossed>>
        PROVE  JobsInv'
    <3> DEFINE x == [drain[d] EXCEPT !.pc = pc]
    <3>1. DOMAIN x = DrainFields /\ x.pc = pc /\ drain' = [drain EXCEPT ![d] = x]
      BY <2>8 DEF DrainFields, JobsInv, JobTypes
    <3>2. ~WillAdd(x)
      BY <2>8, <3>1 DEF WillAdd
    <3> HIDE DEF x
    <3> QED BY <2>8, <3>1, <3>2, <2>4
  <2>9. ASSUME NEW d \in Drain, Jobs!LeaveForReview(d) \/ Jobs!AdoptDecide(d) PROVE JobsInv'
    BY <2>8, <2>9 DEF Jobs!LeaveForReview, Jobs!AdoptDecide
  <2>10. ASSUME NEW d \in Drain, Jobs!FailRead(d) PROVE JobsInv'
    <3> DEFINE x == [drain[d] EXCEPT !.pc = "fail", !.attempts = job.attempts]
    <3>1. /\ drain[d].pc # "idle" /\ UNCHANGED <<kept, maker, job, crossed>>
          /\ DOMAIN drain[d] = DrainFields
          /\ drain' = [drain EXCEPT ![d].pc = "fail", ![d].attempts = job.attempts]
      BY <2>10 DEF Jobs!FailRead, JobsInv, JobTypes
    <3>2. DOMAIN x = DrainFields /\ x.pc = "fail" /\ drain' = [drain EXCEPT ![d] = x]
      BY <3>1 DEF DrainFields
    <3>3. ~WillAdd(x)
      BY <3>2 DEF WillAdd
    <3> HIDE DEF x
    <3> QED BY <3>1, <3>2, <3>3, <2>4
  <2>11. ASSUME NEW d \in Drain, Jobs!Complete(d) \/ Jobs!Fail(d) PROVE JobsInv'
    <3>1. /\ drain[d].pc # "idle" /\ drain' = [drain EXCEPT ![d] = Jobs!Asleep]
          /\ UNCHANGED <<kept, maker, crossed>> /\ DOMAIN job' = {"status", "attempts"}
      BY <2>11 DEF Jobs!Complete, Jobs!Fail, JobsInv, JobTypes
    <3> QED BY <3>1, <2>0, <2>1, DrainMoves
  <2>12. ASSUME Jobs!Restart PROVE JobsInv'
    <3>1. /\ drain' = [d \in Drain |-> Jobs!Asleep] /\ UNCHANGED <<kept, maker, crossed>>
          /\ DOMAIN job' = {"status", "attempts"}
      BY <2>12 DEF Jobs!Restart, Jobs!Recovered, JobsInv, JobTypes
    <3>2. DOMAIN drain' = Drain /\ \A d \in Drain : drain'[d] = Jobs!Asleep
      BY <3>1
    <3>3. JobTypes'
      BY <2>0, <3>1, <3>2 DEF JobsInv, JobTypes
    <3>4. OneWorks'
      BY <2>0, <3>2 DEF OneWorks
    <3>5. \A d \in Drain : ~WillAdd(drain'[d])
      BY <2>0, <3>2
    <3>6. AddsFirst'
      BY <3>5 DEF AddsFirst, WillAdd
    <3>7. OneAdopted => OneAdopted'
      BY <3>1 DEF OneAdopted, Adopted
    <3> QED BY <3>1, <3>3, <3>4, <3>6, <3>7 DEF JobsInv
  <2>13. ASSUME Jobs!OtherStarts PROVE JobsInv'
    <3>1. crossed' = TRUE /\ UNCHANGED <<kept, maker, drain>> /\ DOMAIN job' = {"status", "attempts"}
      BY <2>13 DEF Jobs!OtherStarts, Jobs!Recovered, JobsInv, JobTypes
    <3> QED BY <3>1 DEF JobsInv, JobTypes
  <2>14. ASSUME NEW c \in Cand, Jobs!AcceptRead(c) \/ Jobs!RejectOrPurge(c) PROVE JobsInv'
    <3>1. UNCHANGED <<kept, maker, drain, job, crossed>>
      BY <2>14 DEF Jobs!AcceptRead, Jobs!RejectOrPurge
    <3> QED BY <3>1, NoneAdopted DEF Adopted, JobsInv, JobTypes
  <2>15. ASSUME NEW m \in Mem, NEW k \in {"changed", "gone"}, kept' = [kept EXCEPT ![m] = k],
                UNCHANGED <<maker, drain, job, crossed>>
         PROVE  JobsInv'
    <3>1. DOMAIN kept' = Mem /\ DOMAIN maker' = Mem /\ \A n \in Mem : Adopted(n)' => Adopted(n)
      BY <2>15 DEF JobsInv, JobTypes, Adopted
    <3> QED BY <2>15, <3>1, NoneAdopted
  <2>16. ASSUME Jobs!AcceptWrite PROVE JobsInv'
    <3>1. UNCHANGED <<drain, job, crossed>>
      BY <2>16 DEF Jobs!AcceptWrite
    <3>2. CASE Jobs!Create("review")
      <4>1. PICK n \in Mem : /\ kept' = [kept EXCEPT ![n] = "active"]
                             /\ maker' = [maker EXCEPT ![n] = "review"]
        BY <3>2 DEF Jobs!Create
      <4>2. DOMAIN kept' = Mem /\ DOMAIN maker' = Mem /\ \A m \in Mem : Adopted(m)' => Adopted(m)
        BY <4>1 DEF JobsInv, JobTypes, Adopted
      <4> QED BY <3>1, <4>2, NoneAdopted
    <3> QED BY <2>15, <2>16, <3>1, <3>2 DEF Jobs!AcceptWrite
  <2>17. ASSUME Jobs!AcceptDecide PROVE JobsInv'
    <3>1. UNCHANGED <<kept, maker, drain, job, crossed>>
      BY <2>17 DEF Jobs!AcceptDecide
    <3> QED BY <3>1, NoneAdopted DEF Adopted, JobsInv, JobTypes
  <2>18. ASSUME NEW m \in Mem, Jobs!ChangeMemory(m) PROVE JobsInv'
    BY <2>15, <2>18 DEF Jobs!ChangeMemory
  <2>19. CASE UNCHANGED Jobs!vars
    <3>1. UNCHANGED <<kept, maker, drain, job, crossed>>
      BY <2>19 DEF Jobs!vars
    <3> QED BY <3>1, NoneAdopted DEF Adopted, JobsInv, JobTypes
  <2> QED BY <2>2, <2>3, <2>5, <2>6, <2>7, <2>9, <2>10, <2>11, <2>12, <2>13, <2>14, <2>16,
       <2>17,
             <2>18, <2>19 DEF Jobs!Next, Jobs!Work
<1>3. JobsInv => Jobs!MemoryAdoptedOnce
  BY DEF JobsInv, OneAdopted, Adopted, Jobs!MemoryAdoptedOnce
<1> QED BY <1>1, <1>2, <1>3, PTL DEF Jobs!Spec

\* MemoryJobWorker: in Stores, what one job extracted is adopted at most once.
THEOREM AdoptsOnce == Spec => []MemoryAdoptedOnce
<1>1. Init => Jobs!Init \/ focus # "jobs"
  BY DEF Init
<1>2. [Next]_vars => [Jobs!Next]_(Jobs!vars)
  BY DEF Next, vars, JobsVars, Jobs!vars
<1>3. focus # "jobs" /\ [Next]_vars => (focus # "jobs")'
  BY DEF Next, vars
<1>4. Jobs!MemoryAdoptedOnce \/ focus # "jobs" => MemoryAdoptedOnce
  BY DEF MemoryAdoptedOnce
<1> QED BY <1>1, <1>2, <1>3, JobsSafe, <1>4, PTL DEF Spec, Jobs!Spec

-----------------------------------------------------------------------------
(***************************************************************************)
(* Artifacts.                                                              *)
(***************************************************************************)

PutFields == {"pc", "s", "c", "flag", "record"}
DelFields == {"pc", "todo", "file", "fresh"}
Flags == {"text", "meta"}

ArtifactTypes ==
  /\ DOMAIN row = Ses /\ DOMAIN index = Ses /\ DOMAIN put = Put /\ DOMAIN del = Ses
  /\ \A s \in Ses : /\ DOMAIN row[s] = Content /\ DOMAIN index[s] = Content
                    /\ DOMAIN del[s] = DelFields
  /\ \A s \in Ses, c \in Content : row[s][c] \in {"none"} \cup Flags
  /\ \A p \in Put : put[p].pc # "idle" =>
       /\ DOMAIN put[p] = PutFields /\ put[p].s \in Ses /\ put[p].c \in Content
       /\ put[p].flag \in Flags /\ put[p].record \in Flags

\* The file of a row, and of a put about to insert one, is there or was torn.
FilesThere ==
  /\ \A p \in Put : put[p].pc = "insert" => put[p].c \in disk \cup torn
  /\ \A s \in Ses, c \in Content : row[s][c] # "none" => c \in disk \cup torn

\* A deleted session has no rows, and gets none.
RowsOfLiving == \A s \in Ses, c \in Content : s \notin alive => row[s][c] = "none"

\* A quarantining put that has found its row has marked it.
Marks(x) == x.pc \in {"index", "done"} /\ x.flag = "meta"
Marked == \A p \in Put : Marks(put[p]) =>
  put[p].record = "meta" /\ (put[p].s \in alive => row[put[p].s][put[p].c] = "meta")

\* A deletion about to unlink found no row: those there now came since.
FreshKnown == \A s \in Ses, t \in Ses, c \in Content :
  del[t].pc = "unlink" /\ c \in del[t].file /\ row[s][c] # "none" => del[t].fresh

\* Only a late put is about to index the text of a row that is quarantined.
Overtaken(x) == x.pc = "index" /\ x.record = "text" /\ row[x.s][x.c] = "meta"
LateKnown == \A p \in Put : Overtaken(put[p]) => p \in late

\* A put about to index has found or made its row.
RowFound == \A p \in Put :
  put[p].pc = "index" /\ put[p].s \in alive => row[put[p].s][put[p].c] # "none"

\* A late put has indexed c for s, and nobody after it.
LateShown(s, c) == \E p \in late \cap Put :
  put[p].pc = "done" /\ put[p].s = s /\ put[p].c = c
HiddenOrLate == \A s \in Ses, c \in Content : Artifacts!Hidden(s, c) \/ LateShown(s, c)

ArtifactsInv == /\ ArtifactTypes /\ FilesThere /\ RowsOfLiving /\ Marked
                /\ FreshKnown /\ LateKnown /\ RowFound /\ HiddenOrLate

\* What a late put shows stays shown as long as the put is one of the late.
LEMMA StillShown ==
  ASSUME NEW s, NEW c, LateShown(s, c),
         \A q \in late \cap Put : put[q].pc = "done" /\ put[q].s = s /\ put[q].c = c
           => put'[q] = put[q] /\ q \in late'
  PROVE  LateShown(s, c)'
BY DEF LateShown

\* What Step does to a put under way.
LEMMA PutSteps ==
  ASSUME ArtifactTypes, NEW p \in Put, put[p].pc # "idle", NEW pc, NEW record,
         Artifacts!Step(p, pc, record)
  PROVE  /\ DOMAIN put' = Put /\ DOMAIN put'[p] = PutFields
         /\ put'[p].pc = pc /\ put'[p].record = record /\ put'[p].s = put[p].s
         /\ put'[p].c = put[p].c /\ put'[p].flag = put[p].flag
         /\ \A q \in Put : q # p => put'[q] = put[q]
<1>1. DOMAIN put = Put /\ DOMAIN put[p] = PutFields
  BY DEF ArtifactTypes
<1>2. put' = [put EXCEPT ![p] = [put[p] EXCEPT !.pc = pc, !.record = record]]
  BY DEF Artifacts!Step
<1>3. put'[p] = [put[p] EXCEPT !.pc = pc, !.record = record] /\ DOMAIN put' = Put
      /\ \A q \in Put : q # p => put'[q] = put[q]
  BY <1>1, <1>2
<1> QED BY <1>1, <1>3 DEF PutFields

\* A put that neither starts relying on a file nor ends, while rows, files
\* and index stay, preserves the invariant if it is marked as its flag asks.
LEMMA PutMoves ==
  ASSUME ArtifactsInv, NEW p \in Put, put[p].pc \notin {"idle", "done"},
         NEW pc, NEW record, Artifacts!Step(p, pc, record), pc \notin {"insert", "done", "idle"},
         record \in Flags,
         UNCHANGED <<alive, disk, row, index, del, torn, late>>,
         pc = "index" /\ put[p].flag = "meta" =>
           record = "meta" /\ (put[p].s \in alive => row[put[p].s][put[p].c] = "meta"),
         pc = "index" => row[put[p].s][put[p].c] # "none",
         pc = "index" /\ record = "text" => row[put[p].s][put[p].c] # "meta"
  PROVE  ArtifactsInv'
<1>1. /\ DOMAIN put' = Put /\ DOMAIN put'[p] = PutFields
      /\ put'[p].pc = pc /\ put'[p].record = record /\ put'[p].s = put[p].s
      /\ put'[p].c = put[p].c /\ put'[p].flag = put[p].flag
      /\ \A q \in Put : q # p => put'[q] = put[q]
  BY PutSteps DEF ArtifactsInv
<1>2. ArtifactTypes'
  BY <1>1 DEF ArtifactsInv, ArtifactTypes
<1>3. FilesThere'
  BY <1>1 DEF ArtifactsInv, FilesThere
<1>4. RowsOfLiving'
  BY DEF ArtifactsInv, RowsOfLiving
<1>5. Marked'
  BY <1>1 DEF ArtifactsInv, Marked, Marks
<1>6. \A s \in Ses, c \in Content : Artifacts!Quarantined(s, c)' => Artifacts!Quarantined(s, c)
  BY <1>1 DEF Artifacts!Quarantined
<1>7. HiddenOrLate'
  <2>1. \A s \in Ses, c \in Content : LateShown(s, c) => LateShown(s, c)'
    BY <1>1, StillShown
  <2> QED BY <1>6, <2>1 DEF ArtifactsInv, HiddenOrLate, Artifacts!Hidden
<1>8. FreshKnown'
  BY DEF ArtifactsInv, FreshKnown
<1>9. LateKnown' /\ RowFound'
  BY <1>1 DEF ArtifactsInv, LateKnown, RowFound, Overtaken
<1> QED BY <1>2, <1>3, <1>4, <1>5, <1>7, <1>8, <1>9 DEF ArtifactsInv

\* _atomic_write: the put relies on a file that is there now.
LEMMA WriteFileKeeps ==
  ASSUME ArtifactsInv, NEW p \in Put, NEW s \in Ses, NEW c \in Content, NEW flag \in Flags,
         Artifacts!WriteFile(p, s, c, flag)
  PROVE  ArtifactsInv'
<1> DEFINE x == [pc |-> "insert", s |-> s, c |-> c, flag |-> flag, record |-> flag]
<1>1. /\ put[p].pc = "idle" /\ put' = [put EXCEPT ![p] = x]
      /\ disk' = disk \cup {c} /\ torn' = torn \ {c} /\ UNCHANGED <<alive, row, index, del, late>>
  BY DEF Artifacts!WriteFile, Artifacts!Idle
<1>2. DOMAIN put' = Put /\ put'[p] = x /\ \A q \in Put : q # p => put'[q] = put[q]
  BY <1>1 DEF ArtifactsInv, ArtifactTypes
<1>3. DOMAIN x = PutFields /\ x.pc = "insert" /\ x.s = s /\ x.c = c /\ x.flag = flag /\ x.record = flag
  BY DEF PutFields
<1> HIDE DEF x
<1>4. disk' \cup torn' = disk \cup torn \cup {c}
  BY <1>1
<1>5. ArtifactTypes'
  BY <1>1, <1>2, <1>3 DEF ArtifactsInv, ArtifactTypes
<1>6. FilesThere'
  BY <1>1, <1>2, <1>3, <1>4 DEF ArtifactsInv, FilesThere
<1>7. RowsOfLiving'
  BY <1>1 DEF ArtifactsInv, RowsOfLiving
<1>8. Marked'
  BY <1>1, <1>2, <1>3 DEF ArtifactsInv, Marked, Marks
<1>9. \A t \in Ses, d \in Content : Artifacts!Quarantined(t, d)' => Artifacts!Quarantined(t, d)
  BY <1>2, <1>3 DEF Artifacts!Quarantined
<1>10. HiddenOrLate'
  <2>1. \A t \in Ses, d \in Content : LateShown(t, d) => LateShown(t, d)'
    BY <1>1, <1>2, StillShown
  <2> QED BY <1>1, <1>9, <2>1 DEF ArtifactsInv, HiddenOrLate, Artifacts!Hidden
<1>11. FreshKnown' /\ LateKnown' /\ RowFound'
  BY <1>1, <1>2, <1>3 DEF ArtifactsInv, FreshKnown, LateKnown, RowFound, Overtaken
<1> QED BY <1>5, <1>6, <1>7, <1>8, <1>10, <1>11 DEF ArtifactsInv

\* A put whose record changes from none, or from text, to a flag.
LEMMA RowSet ==
  ASSUME ArtifactsInv, NEW s \in Ses, NEW c \in Content, NEW flag \in Flags,
         row' = [row EXCEPT ![s][c] = flag]
  PROVE  /\ DOMAIN row' = Ses /\ \A t \in Ses : DOMAIN row'[t] = Content
         /\ row'[s][c] = flag
         /\ \A t \in Ses, d \in Content : <<t, d>> # <<s, c>> => row'[t][d] = row[t][d]
<1>1. DOMAIN row = Ses /\ \A t \in Ses : DOMAIN row[t] = Content
  BY DEF ArtifactsInv, ArtifactTypes
<1> QED BY <1>1

\* The row of a new content: its session is alive, and no put has quarantined
\* the content there before, for that one would have left a row.
LEMMA NewRowKeeps ==
  ASSUME ArtifactsInv, NEW p \in Put, put[p].pc = "insert",
         put[p].s \in alive, row[put[p].s][put[p].c] = "none",
         row' = [row EXCEPT ![put[p].s][put[p].c] = put[p].flag],
         index' = [index EXCEPT ![put[p].s][put[p].c] = put[p].flag],
         Artifacts!Step(p, "index", put[p].flag), Artifacts!Inserted(put[p].c),
         UNCHANGED <<alive, disk, torn, late>>
  PROVE  ArtifactsInv'
<1> DEFINE s == put[p].s c == put[p].c flag == put[p].flag
<1>0. s \in Ses /\ c \in Content /\ flag \in Flags
  BY DEF ArtifactsInv, ArtifactTypes
<1>1. /\ DOMAIN put' = Put /\ DOMAIN put'[p] = PutFields
      /\ put'[p].pc = "index" /\ put'[p].record = flag /\ put'[p].s = s
      /\ put'[p].c = c /\ put'[p].flag = flag
      /\ \A q \in Put : q # p => put'[q] = put[q]
  BY PutSteps DEF ArtifactsInv
<1>2. /\ DOMAIN row' = Ses /\ \A t \in Ses : DOMAIN row'[t] = Content
      /\ row'[s][c] = flag
      /\ \A t \in Ses, d \in Content : <<t, d>> # <<s, c>> => row'[t][d] = row[t][d]
  BY <1>0, RowSet
<1>3. /\ DOMAIN index' = Ses /\ \A t \in Ses : DOMAIN index'[t] = Content
      /\ \A t \in Ses, d \in Content : <<t, d>> # <<s, c>> => index'[t][d] = index[t][d]
  BY <1>0 DEF ArtifactsInv, ArtifactTypes
<1>4. \A q \in Put : Marks(put[q]) => <<put[q].s, put[q].c>> # <<s, c>>
  BY <1>0 DEF ArtifactsInv, Marked
<1> DEFINE caught(u) == del[u].pc = "unlink" /\ c \in del[u].file
<1>20. /\ DOMAIN del' = Ses
       /\ \A u \in Ses : del'[u] = IF caught(u) THEN [del[u] EXCEPT !.fresh = TRUE] ELSE del[u]
  BY DEF Artifacts!Inserted
<1>21. \A u \in Ses : /\ DOMAIN del'[u] = DelFields
                      /\ del'[u].pc = del[u].pc /\ del'[u].file = del[u].file
                      /\ (del[u].fresh => del'[u].fresh)
                      /\ (caught(u) => del'[u].fresh)
  BY <1>20 DEF ArtifactsInv, ArtifactTypes, DelFields
<1>5. ArtifactTypes'
  <2>1. \A t \in Ses, d \in Content : row'[t][d] \in {"none"} \cup Flags
    BY <1>0, <1>2 DEF ArtifactsInv, ArtifactTypes
  <2> QED BY <1>0, <1>1, <1>2, <1>3, <1>20, <1>21, <2>1 DEF ArtifactsInv, ArtifactTypes
<1>6. FilesThere'
  <2>1. c \in disk \cup torn
    BY DEF ArtifactsInv, FilesThere
  <2>2. ASSUME NEW q \in Put, put'[q].pc = "insert" PROVE put'[q].c \in disk \cup torn
    BY <1>1, <2>2 DEF ArtifactsInv, FilesThere
  <2>3. ASSUME NEW t \in Ses, NEW d \in Content, row'[t][d] # "none" PROVE d \in disk \cup torn
    BY <1>2, <2>1, <2>3 DEF ArtifactsInv, FilesThere
  <2> QED BY <2>2, <2>3 DEF FilesThere
<1>7. RowsOfLiving'
  BY <1>2 DEF ArtifactsInv, RowsOfLiving
<1>8. Marked'
  <2>1. ASSUME NEW q \in Put, Marks(put'[q])
        PROVE  put'[q].record = "meta" /\ (put'[q].s \in alive => row'[put'[q].s][put'[q].c] = "meta")
    <3>1. CASE q = p
      BY <1>1, <1>2, <2>1, <3>1 DEF Marks
    <3>2. CASE q # p
      <4>1. put'[q] = put[q] /\ Marks(put[q]) /\ put[q].s \in Ses /\ put[q].c \in Content
        BY <1>1, <2>1, <3>2 DEF ArtifactsInv, ArtifactTypes, Marks
      <4>2. row'[put[q].s][put[q].c] = row[put[q].s][put[q].c]
        BY <1>2, <1>4, <4>1
      <4> QED BY <4>1, <4>2 DEF ArtifactsInv, Marked
    <3> QED BY <3>1, <3>2
  <2> QED BY <2>1 DEF Marked, Marks
<1>9. ASSUME NEW t \in Ses, NEW d \in Content, Artifacts!Quarantined(t, d)'
      PROVE  Artifacts!Quarantined(t, d) /\ <<t, d>> # <<s, c>>
  BY <1>1, <1>4, <1>9 DEF Artifacts!Quarantined, Marks
<1>10. HiddenOrLate'
  <2>1. ASSUME NEW t \in Ses, NEW d \in Content, Artifacts!Quarantined(t, d)', row'[t][d] # "none"
        PROVE  index'[t][d] = "meta" \/ LateShown(t, d)
    BY <2>1, <1>2, <1>3, <1>9 DEF ArtifactsInv, HiddenOrLate, Artifacts!Hidden
  <2>2. \A t \in Ses, d \in Content : LateShown(t, d) => LateShown(t, d)'
    BY <1>1, StillShown
  <2> QED BY <2>1, <2>2 DEF HiddenOrLate, Artifacts!Hidden
<1>11. FreshKnown'
  <2>1. ASSUME NEW t \in Ses, NEW u \in Ses, NEW d \in Content,
               del'[u].pc = "unlink", d \in del'[u].file, row'[t][d] # "none"
        PROVE  del'[u].fresh
    <3>1. CASE <<t, d>> = <<s, c>>
      BY <1>21, <2>1, <3>1
    <3>2. CASE <<t, d>> # <<s, c>>
      BY <1>2, <1>21, <2>1, <3>2 DEF ArtifactsInv, FreshKnown
    <3> QED BY <3>1, <3>2
  <2> QED BY <2>1 DEF FreshKnown
<1>12. LateKnown' /\ RowFound'
  <2>1. ASSUME NEW q \in Put, put'[q].pc = "index"
        PROVE  /\ put'[q].s \in alive => row'[put'[q].s][put'[q].c] # "none"
               /\ Overtaken(put[q])' => q \in late
    <3>1. CASE q = p
      BY <1>0, <1>1, <1>2, <3>1 DEF Overtaken, Flags
    <3>2. CASE q # p
      <4>1. put'[q] = put[q] /\ put[q].s \in Ses /\ put[q].c \in Content
        BY <1>1, <2>1, <3>2 DEF ArtifactsInv, ArtifactTypes
      <4>2. <<put[q].s, put[q].c>> # <<s, c>>
        BY <2>1, <4>1 DEF ArtifactsInv, RowFound
      <4>3. row'[put[q].s][put[q].c] = row[put[q].s][put[q].c]
        BY <1>2, <4>1, <4>2
      <4> QED BY <2>1, <4>1, <4>3 DEF ArtifactsInv, RowFound, LateKnown, Overtaken
    <3> QED BY <3>1, <3>2
  <2> QED BY <2>1 DEF LateKnown, RowFound, Overtaken
<1> QED BY <1>5, <1>6, <1>7, <1>8, <1>10, <1>11, <1>12 DEF ArtifactsInv

\* quarantine sets the row's flag, which no put changes back.
LEMMA QuarantineKeeps ==
  ASSUME ArtifactsInv, NEW p \in Put, Artifacts!Quarantine(p)
  PROVE  ArtifactsInv'
<1> DEFINE s == put[p].s c == put[p].c
<1>0. /\ put[p].pc = "quarantine" /\ s \in Ses /\ c \in Content
      /\ UNCHANGED <<alive, disk, index, del, torn>>
  BY DEF Artifacts!Quarantine, ArtifactsInv, ArtifactTypes
<1>1. CASE row[s][c] = "none"
  BY <1>0, <1>1, PutMoves DEF Artifacts!Quarantine, Flags
<1>2. CASE row[s][c] # "none"
  <2>1. /\ Artifacts!Step(p, "index", "meta") /\ row' = [row EXCEPT ![s][c] = "meta"]
        /\ late' = late \cup Artifacts!Holding(s, c)
    BY <1>2 DEF Artifacts!Quarantine
  <2>2. /\ DOMAIN put' = Put /\ DOMAIN put'[p] = PutFields
        /\ put'[p].pc = "index" /\ put'[p].record = "meta" /\ put'[p].s = s
        /\ put'[p].c = c /\ put'[p].flag = put[p].flag
        /\ \A q \in Put : q # p => put'[q] = put[q]
    BY <1>0, <2>1, PutSteps DEF ArtifactsInv
  <2>3. /\ DOMAIN row' = Ses /\ \A t \in Ses : DOMAIN row'[t] = Content
        /\ row'[s][c] = "meta"
        /\ \A t \in Ses, d \in Content : <<t, d>> # <<s, c>> => row'[t][d] = row[t][d]
    <3>1. "meta" \in Flags
      BY DEF Flags
    <3> QED BY ZenonT(30), <1>0, <2>1, <3>1, RowSet
  <2>4. \A t \in Ses, d \in Content : row'[t][d] # "none" => row[t][d] # "none"
    BY <1>2, <2>3
  <2>5. ArtifactTypes'
    <3>1. \A t \in Ses, d \in Content : row'[t][d] \in {"none"} \cup Flags
      BY <1>0, <2>3 DEF ArtifactsInv, ArtifactTypes, Flags
    <3>2. \A q \in Put : put'[q].pc # "idle" =>
            /\ DOMAIN put'[q] = PutFields /\ put'[q].s \in Ses /\ put'[q].c \in Content
            /\ put'[q].flag \in Flags /\ put'[q].record \in Flags
      BY <1>0, <2>2 DEF ArtifactsInv, ArtifactTypes, Flags
    <3> QED BY <1>0, <2>2, <2>3, <3>1, <3>2 DEF ArtifactsInv, ArtifactTypes
  <2>6. FilesThere'
    BY <1>0, <2>2, <2>4 DEF ArtifactsInv, FilesThere
  <2>7. RowsOfLiving'
    BY <1>0, <1>2, <2>3 DEF ArtifactsInv, RowsOfLiving
  <2>8. Marked'
    <3>1. ASSUME NEW q \in Put, Marks(put'[q])
          PROVE  put'[q].record = "meta" /\ (put'[q].s \in alive => row'[put'[q].s][put'[q].c] = "meta")
      <4>1. CASE q = p
        BY <2>2, <2>3, <4>1
      <4>2. CASE q # p
        <5>1. put'[q] = put[q] /\ Marks(put[q]) /\ put[q].s \in Ses /\ put[q].c \in Content
          BY <2>2, <3>1, <4>2 DEF ArtifactsInv, ArtifactTypes, Marks
        <5>2. \/ row'[put[q].s][put[q].c] = row[put[q].s][put[q].c]
              \/ row'[put[q].s][put[q].c] = "meta"
          BY <2>3, <5>1
        <5> QED BY <5>1, <5>2 DEF ArtifactsInv, Marked
      <4> QED BY <4>1, <4>2
    <3> QED BY <1>0, <3>1 DEF Marked, Marks
  <2>9. \A t \in Ses, d \in Content : Artifacts!Quarantined(t, d)' => Artifacts!Quarantined(t, d)
    BY <2>2 DEF Artifacts!Quarantined
  <2>10. HiddenOrLate'
    <3>1. \A t \in Ses, d \in Content : LateShown(t, d) => LateShown(t, d)'
      BY <1>0, <2>1, <2>2, StillShown
    <3> QED BY <1>0, <2>4, <2>9, <3>1 DEF ArtifactsInv, HiddenOrLate, Artifacts!Hidden
  <2>11. FreshKnown'
    BY <1>0, <2>4 DEF ArtifactsInv, FreshKnown
  <2>12. LateKnown' /\ RowFound'
    <3>1. ASSUME NEW q \in Put, put'[q].pc = "index"
          PROVE  /\ put'[q].s \in alive => row'[put'[q].s][put'[q].c] # "none"
                 /\ Overtaken(put[q])' => q \in late'
      <4>1. CASE q = p
        BY <2>2, <2>3, <4>1 DEF Overtaken
      <4>2. CASE q # p
        <5>1. put'[q] = put[q] /\ put[q].s \in Ses /\ put[q].c \in Content
          BY <2>2, <3>1, <4>2 DEF ArtifactsInv, ArtifactTypes
        <5>2. CASE <<put[q].s, put[q].c>> = <<s, c>>
          BY <2>1, <2>3, <3>1, <5>1, <5>2 DEF Overtaken, Artifacts!Holding
        <5>3. CASE <<put[q].s, put[q].c>> # <<s, c>>
          <6>1. row'[put[q].s][put[q].c] = row[put[q].s][put[q].c]
            BY <2>3, <5>1, <5>3
          <6> QED BY <2>1, <3>1, <5>1, <6>1 DEF ArtifactsInv, RowFound, LateKnown, Overtaken
        <5> QED BY <5>2, <5>3
      <4> QED BY <4>1, <4>2
    <3> QED BY <1>0, <3>1 DEF LateKnown, RowFound, Overtaken
  <2> QED BY <2>5, <2>6, <2>7, <2>8, <2>10, <2>11, <2>12 DEF ArtifactsInv
<1> QED BY <1>1, <1>2

\* EpisodicRepository.index: a put that shows the text of a marked row used a
\* record read before, and is late; any other put replaces what a late one shows.
LEMMA IndexKeeps ==
  ASSUME ArtifactsInv, NEW p \in Put, Artifacts!Index(p)
  PROVE  ArtifactsInv'
<1> DEFINE s == put[p].s c == put[p].c record == put[p].record
<1>0. /\ put[p].pc = "index" /\ s \in Ses /\ c \in Content /\ record \in Flags
      /\ UNCHANGED <<alive, disk, row, del, torn>>
  BY DEF Artifacts!Index, ArtifactsInv, ArtifactTypes
<1>1. CASE row[s][c] = "none"
  BY <1>0, <1>1, PutMoves DEF Artifacts!Index
<1>2. CASE row[s][c] # "none"
  <2>1. /\ Artifacts!Step(p, "done", record) /\ index' = [index EXCEPT ![s][c] = record]
        /\ late' = IF p \in late THEN late ELSE late \ Artifacts!Finished(s, c)
    BY <1>2 DEF Artifacts!Index
  <2>2. /\ DOMAIN put' = Put /\ DOMAIN put'[p] = PutFields
        /\ put'[p].pc = "done" /\ put'[p].record = record /\ put'[p].s = s
        /\ put'[p].c = c /\ put'[p].flag = put[p].flag
        /\ \A q \in Put : q # p => put'[q] = put[q]
    BY <1>0, <2>1, PutSteps DEF ArtifactsInv
  <2>3. /\ DOMAIN index' = Ses /\ \A t \in Ses : DOMAIN index'[t] = Content
        /\ index'[s][c] = record
        /\ \A t \in Ses, d \in Content : <<t, d>> # <<s, c>> => index'[t][d] = index[t][d]
    <3>1. DOMAIN index = Ses /\ \A t \in Ses : DOMAIN index[t] = Content
      BY DEF ArtifactsInv, ArtifactTypes
    <3> QED BY <1>0, <2>1, <3>1
  <2>4. ArtifactTypes'
    <3>1. \A q \in Put : put'[q].pc # "idle" =>
            /\ DOMAIN put'[q] = PutFields /\ put'[q].s \in Ses /\ put'[q].c \in Content
            /\ put'[q].flag \in Flags /\ put'[q].record \in Flags
      BY <1>0, <2>2 DEF ArtifactsInv, ArtifactTypes
    <3> QED BY <1>0, <2>2, <2>3, <3>1 DEF ArtifactsInv, ArtifactTypes
  <2>5. FilesThere'
    BY <1>0, <2>2 DEF ArtifactsInv, FilesThere
  <2>6. RowsOfLiving'
    BY <1>0 DEF ArtifactsInv, RowsOfLiving
  <2>7. \A q \in Put : Marks(put'[q]) => /\ Marks(put[q])
                                         /\ put'[q].s = put[q].s /\ put'[q].c = put[q].c
                                         /\ put'[q].record = put[q].record
    BY <1>0, <2>2 DEF Marks
  <2>8. Marked'
    <3>1. \A q \in Put : Marks(put'[q]) =>
            put'[q].record = "meta" /\ (put'[q].s \in alive => row[put'[q].s][put'[q].c] = "meta")
      BY <2>7 DEF ArtifactsInv, Marked
    <3> QED BY <1>0, <3>1 DEF Marked, Marks
  <2>9. HiddenOrLate'
    <3>1. ASSUME NEW t \in Ses, NEW d \in Content, Artifacts!Quarantined(t, d)', row[t][d] # "none"
          PROVE  index'[t][d] = "meta" \/ LateShown(t, d)'
      <4>1. PICK q \in Put : put'[q].pc = "done" /\ put'[q].s = t /\ put'[q].c = d /\ put'[q].flag = "meta"
        BY <3>1 DEF Artifacts!Quarantined
      <4>2. Marks(put'[q])
        BY <4>1 DEF Marks
      <4>3. row[t][d] = "meta"
        <5>1. t \in alive
          BY <3>1 DEF ArtifactsInv, RowsOfLiving
        <5>2. Marks(put[q]) /\ put[q].s = t /\ put[q].c = d
          BY <4>1, <4>2, <2>7
        <5> QED BY <5>1, <5>2 DEF ArtifactsInv, Marked
      <4>4. CASE <<t, d>> = <<s, c>>
        <5>1. CASE record = "meta"
          BY <2>3, <4>4, <5>1
        <5>2. CASE record = "text"
          <6>1. p \in late
            BY <1>0, <4>3, <4>4, <5>2 DEF ArtifactsInv, LateKnown, Overtaken
          <6>2. p \in late'
            BY <2>1, <6>1
          <6> QED BY <2>2, <4>4, <6>2 DEF LateShown
        <5> QED BY <1>0, <5>1, <5>2 DEF Flags
      <4>5. CASE <<t, d>> # <<s, c>>
        <5>1. q # p /\ put'[q] = put[q]
          BY <2>2, <4>1, <4>5
        <5>2. Artifacts!Quarantined(t, d)
          BY <4>1, <5>1 DEF Artifacts!Quarantined
        <5>3. index[t][d] = "meta" \/ LateShown(t, d)
          BY <3>1, <5>2 DEF ArtifactsInv, HiddenOrLate, Artifacts!Hidden
        <5>4. \A r \in late \cap Put : put[r].pc = "done" /\ put[r].s = t /\ put[r].c = d
                => put'[r] = put[r] /\ r \in late'
          BY <1>0, <2>1, <2>2, <4>5 DEF Artifacts!Finished
        <5>5. LateShown(t, d) => LateShown(t, d)'
          BY <5>4, StillShown
        <5> QED BY <2>3, <4>5, <5>3, <5>5
      <4> QED BY <4>4, <4>5
    <3>2. row' = row
      BY <1>0
    <3> QED BY <3>1, <3>2 DEF HiddenOrLate, Artifacts!Hidden
  <2>10. FreshKnown' /\ RowFound'
    <3>1. \A q \in Put : put'[q].pc = "index" => put'[q] = put[q]
      BY <2>2
    <3> QED BY <1>0, <3>1 DEF ArtifactsInv, FreshKnown, RowFound
  <2>11. LateKnown'
    <3>1. ASSUME NEW q \in Put, Overtaken(put[q])' PROVE q \in late'
      <4>1. put'[q] = put[q] /\ put[q].pc = "index"
        BY <2>2, <3>1 DEF Overtaken
      <4>2. q \in late
        BY <1>0, <3>1, <4>1 DEF ArtifactsInv, LateKnown, Overtaken
      <4> QED BY <2>1, <4>1, <4>2 DEF Artifacts!Finished
    <3> QED BY <3>1 DEF LateKnown
  <2> QED BY <2>4, <2>5, <2>6, <2>8, <2>9, <2>10, <2>11 DEF ArtifactsInv
<1> QED BY <1>1, <1>2

\* The rows go with the session, which does not come back.
LEMMA DeleteRowsKeeps ==
  ASSUME ArtifactsInv, NEW s \in Ses, Artifacts!DeleteRows(s)
  PROVE  ArtifactsInv'
<1> DEFINE none == Artifacts!NoRows
<1>1. /\ alive' = alive \ {s} /\ row' = [row EXCEPT ![s] = none]
      /\ index' = [index EXCEPT ![s] = none] /\ UNCHANGED <<disk, put, torn, late>>
      /\ DOMAIN del' = Ses /\ DOMAIN del'[s] = DelFields /\ del'[s].pc = "files"
      /\ \A u \in Ses : u # s => del'[u] = del[u]
  BY DEF Artifacts!DeleteRows, Artifacts!Shift, ArtifactsInv, ArtifactTypes, DelFields
<1>2. DOMAIN none = Content /\ \A c \in Content : none[c] = "none"
  BY DEF Artifacts!NoRows
<1> HIDE DEF none
<1>3. /\ DOMAIN row' = Ses /\ DOMAIN index' = Ses /\ row'[s] = none /\ index'[s] = none
      /\ \A t \in Ses : t # s => row'[t] = row[t] /\ index'[t] = index[t]
  BY <1>1 DEF ArtifactsInv, ArtifactTypes
<1>4. \A t \in Ses, c \in Content : row'[t][c] # "none" => t # s
  BY <1>2, <1>3
<1>5. ArtifactTypes'
  <2>1. \A t \in Ses, c \in Content : row'[t][c] \in {"none"} \cup Flags
    BY <1>2, <1>3 DEF ArtifactsInv, ArtifactTypes
  <2>3. \A t \in Ses : DOMAIN del'[t] = DelFields
    BY <1>1 DEF ArtifactsInv, ArtifactTypes
  <2>2. \A t \in Ses : DOMAIN row'[t] = Content /\ DOMAIN index'[t] = Content
    BY <1>2, <1>3 DEF ArtifactsInv, ArtifactTypes
  <2> QED BY <1>1, <1>3, <2>1, <2>2, <2>3 DEF ArtifactsInv, ArtifactTypes
<1>6. FilesThere'
  BY <1>1, <1>3, <1>4 DEF ArtifactsInv, FilesThere
<1>7. RowsOfLiving'
  BY <1>1, <1>3, <1>4 DEF ArtifactsInv, RowsOfLiving
<1>8. Marked'
  <2>1. ASSUME NEW p \in Put, Marks(put[p])
        PROVE  put[p].record = "meta" /\ (put[p].s \in alive' => row'[put[p].s][put[p].c] = "meta")
    <3>1. put[p].s \in Ses /\ put[p].c \in Content
      BY <2>1 DEF ArtifactsInv, ArtifactTypes, Marks
    <3>2. put[p].s \in alive' => put[p].s # s /\ put[p].s \in alive
      BY <1>1
    <3> QED BY <1>3, <2>1, <3>1, <3>2 DEF ArtifactsInv, Marked
  <2> QED BY <1>1, <2>1 DEF Marked, Marks
<1>9. HiddenOrLate'
  <2>1. \A t \in Ses, c \in Content : Artifacts!Quarantined(t, c)' => Artifacts!Quarantined(t, c)
    BY <1>1 DEF Artifacts!Quarantined
  <2>2. \A t \in Ses, c \in Content : LateShown(t, c) => LateShown(t, c)'
    BY <1>1, StillShown
  <2> QED BY <1>1, <1>3, <1>4, <2>1, <2>2 DEF ArtifactsInv, HiddenOrLate, Artifacts!Hidden
<1>10. FreshKnown'
  BY <1>1, <1>3, <1>4 DEF ArtifactsInv, FreshKnown
<1>11. LateKnown' /\ RowFound'
  <2>1. ASSUME NEW p \in Put, put[p].pc = "index"
        PROVE  /\ put[p].s \in alive' => row'[put[p].s][put[p].c] # "none"
               /\ row'[put[p].s][put[p].c] = "meta" => row[put[p].s][put[p].c] = "meta"
    <3>1. put[p].s \in Ses /\ put[p].c \in Content
      BY <2>1 DEF ArtifactsInv, ArtifactTypes
    <3>2. CASE put[p].s = s
      BY <1>1, <1>4, <3>1, <3>2
    <3>3. CASE put[p].s # s
      BY <1>1, <1>3, <2>1, <3>1, <3>3 DEF ArtifactsInv, RowFound
    <3> QED BY <3>2, <3>3
  <2> QED BY <1>1, <2>1 DEF ArtifactsInv, LateKnown, RowFound, Overtaken
<1> QED BY <1>5, <1>6, <1>7, <1>8, <1>9, <1>10, <1>11 DEF ArtifactsInv

\* Files may go, as long as those still relied on are known as torn.
LEMMA FilesGo ==
  ASSUME ArtifactsInv, UNCHANGED <<alive, row, index, put, late>>,
         DOMAIN del' = Ses, \A s \in Ses : DOMAIN del'[s] = DelFields, FreshKnown',
         \A p \in Put : put[p].pc = "insert" => put[p].c \in disk' \cup torn',
         \A s \in Ses, c \in Content : row[s][c] # "none" => c \in disk' \cup torn'
  PROVE  ArtifactsInv'
<1>1. ArtifactTypes'
  BY DEF ArtifactsInv, ArtifactTypes
<1>2. FilesThere'
  BY DEF FilesThere
<1>3. RowsOfLiving' /\ Marked'
  BY DEF ArtifactsInv, RowsOfLiving, Marked, Marks
<1>4. HiddenOrLate'
  <2>1. \A t \in Ses, c \in Content : LateShown(t, c) => LateShown(t, c)'
    BY StillShown
  <2>2. \A t \in Ses, c \in Content : Artifacts!Hidden(t, c)' <=> Artifacts!Hidden(t, c)
    BY DEF Artifacts!Hidden, Artifacts!Quarantined
  <2> QED BY <2>1, <2>2 DEF ArtifactsInv, HiddenOrLate
<1>5. LateKnown' /\ RowFound'
  BY DEF ArtifactsInv, LateKnown, RowFound, Overtaken
<1> QED BY <1>1, <1>2, <1>3, <1>4, <1>5 DEF ArtifactsInv

\* ToolArtifactStore and SessionRepository.delete: for any sessions, contents
\* and puts, every artifact a session names has its file, and a quarantined
\* content is never searchable as text, except in the two overlaps that torn
\* and late record.
LEMMA ArtifactsSafe == Artifacts!Spec => []Artifacts!ArtifactsKept
<1>1. Artifacts!Init => ArtifactsInv
  <2> SUFFICES ASSUME Artifacts!Init PROVE ArtifactsInv
    OBVIOUS
  <2>1. /\ alive = Ses /\ DOMAIN row = Ses /\ DOMAIN index = Ses /\ DOMAIN put = Put /\ DOMAIN del = Ses
        /\ \A s \in Ses : DOMAIN row[s] = Content /\ DOMAIN index[s] = Content
        /\ \A s \in Ses, c \in Content : row[s][c] = "none"
        /\ \A p \in Put : put[p].pc = "idle"
        /\ \A s \in Ses : DOMAIN del[s] = DelFields /\ del[s].pc = "none"
    BY DEF Artifacts!Init, Artifacts!NoRows, Artifacts!Idle, DelFields
  <2> QED BY <2>1 DEF ArtifactsInv, ArtifactTypes, FilesThere, RowsOfLiving, Marked, Marks,
             FreshKnown, LateKnown, RowFound, Overtaken, HiddenOrLate, Artifacts!Hidden
<1>2. ArtifactsInv /\ [Artifacts!Next]_Artifacts!vars => ArtifactsInv'
  <2> SUFFICES ASSUME ArtifactsInv, [Artifacts!Next]_Artifacts!vars PROVE ArtifactsInv'
    OBVIOUS
  <2>1. ASSUME NEW p \in Put, NEW s \in Ses, NEW c \in Content, NEW f \in {"text", "meta"},
               Artifacts!WriteFile(p, s, c, f)
        PROVE  ArtifactsInv'
    BY <2>1, WriteFileKeeps DEF Flags
  <2>2. ASSUME NEW p \in Put, Artifacts!Insert(p) PROVE ArtifactsInv'
    <3> DEFINE s == put[p].s c == put[p].c flag == put[p].flag
    <3>0. /\ put[p].pc = "insert" /\ s \in Ses /\ c \in Content /\ flag \in Flags
          /\ UNCHANGED <<alive, disk, torn, late>>
      BY <2>2 DEF Artifacts!Insert, ArtifactsInv, ArtifactTypes
    <3>1. CASE Artifacts!Step(p, "failed", flag) /\ UNCHANGED <<row, index, del>>
      BY <3>0, <3>1, PutMoves
    <3>2. CASE /\ s \in alive /\ row[s][c] = "none"
               /\ row' = [row EXCEPT ![s][c] = flag] /\ index' = [index EXCEPT ![s][c] = flag]
               /\ Artifacts!Step(p, "index", flag) /\ Artifacts!Inserted(c)
      BY <3>0, <3>2, NewRowKeeps
    <3>3. CASE /\ row[s][c] # "none" /\ UNCHANGED <<row, index, del>>
               /\ Artifacts!Step(p, IF flag = "meta" /\ row[s][c] = "text" THEN "quarantine" ELSE "index",
                                 row[s][c])
      <4>1. row[s][c] \in Flags
        BY <3>0, <3>3 DEF ArtifactsInv, ArtifactTypes
      <4>2. flag = "meta" /\ row[s][c] # "text" => row[s][c] = "meta"
        BY <4>1 DEF Flags
      <4> DEFINE pc == IF flag = "meta" /\ row[s][c] = "text" THEN "quarantine" ELSE "index"
      <4>3. pc \notin {"insert", "done", "idle"} /\ (pc = "index" /\ flag = "meta" => row[s][c] = "meta")
        BY <4>2
      <4>4. Artifacts!Step(p, pc, row[s][c]) /\ (row[s][c] = "text" => row[s][c] # "meta")
        BY <3>3
      <4> HIDE DEF pc
      <4> QED BY <3>0, <3>3, <4>1, <4>3, <4>4, PutMoves
    <3> QED BY <2>2, <3>1, <3>2, <3>3 DEF Artifacts!Insert, Artifacts!FoundRecord
  <2>3. ASSUME NEW p \in Put, Artifacts!Quarantine(p) PROVE ArtifactsInv'
    BY <2>3, QuarantineKeeps
  <2>4. ASSUME NEW p \in Put, Artifacts!Index(p) PROVE ArtifactsInv'
    BY <2>4, IndexKeeps
  <2>5. ASSUME DOMAIN del' = Ses, \A s \in Ses : DOMAIN del'[s] = DelFields, FreshKnown',
               UNCHANGED <<alive, disk, row, index, put, torn, late>>
        PROVE  ArtifactsInv'
    BY <2>5, FilesGo DEF ArtifactsInv, FilesThere
  <2>6. ASSUME NEW s \in Ses, NEW pc, NEW todo, NEW file, Artifacts!Shift(s, pc, todo, file),
               UNCHANGED row,
               pc = "unlink" => \A t \in Ses, c \in Content : c \in file => row[t][c] = "none"
        PROVE  /\ DOMAIN del' = Ses /\ \A t \in Ses : DOMAIN del'[t] = DelFields
               /\ FreshKnown'
    <3>1. /\ DOMAIN del' = Ses /\ DOMAIN del'[s] = DelFields
          /\ del'[s].pc = pc /\ del'[s].file = file
          /\ \A t \in Ses : t # s => del'[t] = del[t]
      BY <2>6 DEF Artifacts!Shift, ArtifactsInv, ArtifactTypes, DelFields
    <3> QED BY <2>6, <3>1 DEF ArtifactsInv, ArtifactTypes, FreshKnown
  <2>7. ASSUME NEW s \in Ses, Artifacts!ReadRows(s) PROVE ArtifactsInv'
    BY <2>5, <2>6, <2>7 DEF Artifacts!ReadRows
  <2>8. ASSUME NEW s \in Ses, Artifacts!DeleteRows(s) PROVE ArtifactsInv'
    BY <2>8, DeleteRowsKeeps
  <2>9. ASSUME NEW s \in Ses, NEW c \in Content, Artifacts!CheckFile(s, c) PROVE ArtifactsInv'
    <3> DEFINE pc == IF Artifacts!Remaining(c) THEN "files" ELSE "unlink"
    <3>1. pc = "unlink" => \A t \in Ses, d \in Content : d \in {c} => row[t][d] = "none"
      BY DEF Artifacts!Remaining
    <3>2. /\ Artifacts!Shift(s, pc, del[s].todo \ {c}, {c})
          /\ UNCHANGED <<alive, disk, row, index, put, torn, late>>
      BY <2>9 DEF Artifacts!CheckFile
    <3> HIDE DEF pc
    <3> QED BY <2>5, <2>6, <3>1, <3>2
  <2>10. ASSUME NEW s \in Ses, Artifacts!Unlink(s) PROVE ArtifactsInv'
    <3>1. /\ del[s].pc = "unlink" /\ disk' = disk \ del[s].file
          /\ torn' = torn \cup {c \in del[s].file : Artifacts!Relied(s, c)}
          /\ UNCHANGED <<alive, row, index, put, late>>
      BY <2>10 DEF Artifacts!Unlink
    <3>2. DOMAIN del' = Ses /\ (\A t \in Ses : DOMAIN del'[t] = DelFields) /\ FreshKnown'
      BY <2>6, <2>10 DEF Artifacts!Unlink
    <3>3. ASSUME NEW c, c \in disk \cup torn, c \in del[s].file => Artifacts!Relied(s, c)
          PROVE  c \in disk' \cup torn'
      BY <3>1, <3>3
    <3>4. ASSUME NEW p \in Put, put[p].pc = "insert" PROVE put[p].c \in disk' \cup torn'
      <4>1. put[p].c \in disk \cup torn
        BY <3>4 DEF ArtifactsInv, FilesThere
      <4>2. Artifacts!Relied(s, put[p].c)
        BY <3>4 DEF Artifacts!Relied
      <4> QED BY <3>3, <4>1, <4>2
    <3>5. ASSUME NEW t \in Ses, NEW c \in Content, row[t][c] # "none" PROVE c \in disk' \cup torn'
      <4>1. c \in disk \cup torn
        BY <3>5 DEF ArtifactsInv, FilesThere
      <4>2. c \in del[s].file => Artifacts!Relied(s, c)
        BY <3>1, <3>5 DEF Artifacts!Relied, ArtifactsInv, FreshKnown
      <4> QED BY <3>3, <4>1, <4>2
    <3> QED BY <3>1, <3>2, <3>4, <3>5, FilesGo
  <2>11. CASE UNCHANGED Artifacts!vars
    BY <2>5, <2>11 DEF Artifacts!vars, ArtifactsInv, ArtifactTypes, FreshKnown
  <2> QED BY <2>1, <2>2, <2>3, <2>4, <2>7, <2>8, <2>9, <2>10, <2>11 DEF Artifacts!Next
<1>3. ArtifactsInv => Artifacts!ArtifactsKept
  <2>1. \A s \in Ses, c \in Content : LateShown(s, c) => Artifacts!Finished(s, c) \cap late # {}
    BY DEF LateShown, Artifacts!Finished
  <2> QED BY <2>1 DEF ArtifactsInv, FilesThere, HiddenOrLate, Artifacts!ArtifactsKept, Artifacts!Opens
<1> QED BY <1>1, <1>2, <1>3, PTL DEF Artifacts!Spec

\* ToolArtifactStore: in Stores, artifacts that rows rely on keep their files,
\* and the index holds nothing quarantined.
THEOREM ArtifactsAreKept == Spec => []ArtifactsKept
<1>1. Init => Artifacts!Init \/ focus # "artifacts"
  BY DEF Init
<1>2. [Next]_vars => [Artifacts!Next]_(Artifacts!vars)
  BY DEF Next, vars, ArtifactsVars, Artifacts!vars
<1>3. focus # "artifacts" /\ [Next]_vars => (focus # "artifacts")'
  BY DEF Next, vars
<1>4. Artifacts!ArtifactsKept \/ focus # "artifacts" => ArtifactsKept
  BY DEF ArtifactsKept
<1> QED BY <1>1, <1>2, <1>3, ArtifactsSafe, <1>4, PTL DEF Spec, Artifacts!Spec

-----------------------------------------------------------------------------
(***************************************************************************)
(* The import of an archive.  Each database, and each image that a command *)
(* keeps or puts back, is as it was before the first command or has the    *)
(* archive merged in, the memory database perhaps more than once.  That    *)
(* alone keeps the rows that were there.                                   *)
(* That both databases change together needs more: which of the images are *)
(* whole while one command runs, and after it has died once.               *)
(***************************************************************************)

ArchiveTables == Archive!WsTables

\* What a table held before the first command: nothing or the row of the
\* archive's id, of the archive's body or of another.
RowBefore(r, t) ==
  /\ DOMAIN r = {0, 1, 2} /\ r[1] = Archive!NoRow /\ r[2] = Archive!NoRow
  /\ r[0] = Archive!NoRow \/ r[0].body \in {"a", "b"}

Bound == [body |-> "a", ref |-> 1, status |-> "none"]
MemoryBefore(x) ==
  x = Archive!NoRow \/ x = Bound \/ x = Archive!Archived("memories") \/ x.body = "b"

Origin ==
  /\ DOMAIN initial.ws = {"rows", "imported"} /\ DOMAIN initial.mm = {"rows", "imported"}
  /\ initial.ws.imported = FALSE /\ initial.mm.imported = FALSE
  /\ DOMAIN initial.ws.rows = ArchiveTables /\ DOMAIN initial.mm.rows = {"memories"}
  /\ \A t \in ArchiveTables : RowBefore(initial.ws.rows[t], t)
  /\ RowBefore(initial.mm.rows["memories"], "memories")
  /\ MemoryBefore(initial.mm.rows["memories"][0])
  /\ (initial.ws.rows["plans"][0] = Archive!NoRow)
       = (initial.ws.rows["revisions"][0] = Archive!NoRow)

\* The workspace is as it was at first or has the whole archive.
MergedWs == [rows |-> Archive!MergeWorkspace(initial.ws.rows), imported |-> TRUE]
WsKnown(w) == w = initial.ws \/ (w = MergedWs /\ ~Archive!Clashes(initial.ws.rows))

\* The local memory is as it was, or was the archive's and is bound; the others
\* are bound copies of the archive's.
MmKnown(m) ==
  LET r == m.rows["memories"]
      x == initial.mm.rows["memories"][0]
  IN /\ DOMAIN m.rows = {"memories"} /\ DOMAIN r = {0, 1, 2}
     /\ r[0] = x \/ (r[0] = Bound /\ (x = Archive!NoRow \/ x = Archive!Archived("memories")))
     /\ r[1] \in {Archive!NoRow, Bound} /\ r[2] \in {Archive!NoRow, Bound}
     /\ m.imported \in BOOLEAN
     /\ m.imported => r[0] # Archive!Archived("memories")
Image(d) == WsKnown(d.ws) /\ MmKnown(d.mm)

OpFields == {"pc", "recovery", "rollback"}
OpKnown(o) ==
  /\ DOMAIN o = OpFields
  /\ o.pc \in {"backed", "safe"} => Image(o.recovery)
  /\ o.pc \in {"locked", "half", "safe", "restoring", "replacing"} => Image(o.rollback)

ArchiveInv ==
  /\ Origin /\ WsKnown(ws) /\ MmKnown(mm)
  /\ DOMAIN op = Importer /\ \A p \in Importer : OpKnown(op[p])
  /\ journal = Archive!NoJournal \/ Image(journal.recovery)

\* Both databases have the archive or neither has.
Whole(d) == d.ws.imported <=> d.mm.imported

Now == [ws |-> ws, mm |-> mm]

\* A command that dies leaves a journal of a whole image, unless it was already
\* the repair after a crash.
WholeAt(o) ==
  /\ o.pc \in {"idle", "backed", "journalled", "locked", "half", "committed", "merged",
               "safe", "restoring", "replacing", "restored"}
  /\ o.pc \in {"backed", "journalled", "locked", "committed", "merged", "restored"}
       => Whole(Now)
  /\ o.pc = "idle" => Whole(Now) \/ (crashes = 1 /\ journal # Archive!NoJournal)
  /\ o.pc = "backed" => Whole(o.recovery)
  /\ o.pc \in {"locked", "half", "safe", "restoring", "replacing"} => Whole(o.rollback)
  /\ o.pc = "half" => ws.imported
  /\ o.pc = "replacing" => ws = o.rollback.ws
  /\ o.pc = "safe" /\ crashes = 0 => Whole(o.recovery)
  /\ o.pc \in {"safe", "restoring"} => Whole(Now) \/ crashes = 1
  /\ \/ journal = Archive!NoJournal \/ Whole(journal.recovery)
     \/ crashes = 1 /\ o.pc \in {"restoring", "replacing", "restored"}
  /\ o.pc \in {"journalled", "locked", "half", "committed", "restoring", "replacing",
               "restored"} => journal # Archive!NoJournal

WholeInv == crashes \in {0, 1} /\ \A p \in Importer : WholeAt(op[p])

\* merge_tables: a record is inserted under its target id, and a row that was
\* there under the archive's id stays.
LEMMA InsertedRecord ==
  ASSUME NEW rows, NEW t \in DOMAIN rows, DOMAIN rows[t] = {0, 1, 2}, NEW rec
  PROVE  LET d == Archive!Disposition(rows, t, rec)
             x == Archive!Target(rows, t, d)
             r == Archive!InsertRecord(rows, t, rec)[t]
         IN  /\ x \in {0, 1, 2} /\ DOMAIN r = {0, 1, 2}
             /\ rows[t][0] # Archive!NoRow /\ d # "remapped" => x = 0
             /\ rows[t][0] # Archive!NoRow /\ d \in {"imported", "remapped"} => x # 0
             /\ t # "settings" => r[x] = rec
             /\ rows[t][0] # Archive!NoRow => r[0] = rows[t][0]
             /\ \A i \in {0, 1, 2} : i # x => r[i] = rows[t][i]
<1> DEFINE d == Archive!Disposition(rows, t, rec)
           x == Archive!Target(rows, t, d)
           r == Archive!InsertRecord(rows, t, rec)[t]
<1>1. /\ rows[t][0] = Archive!NoRow => d = "imported"
      /\ rows[t][0] # Archive!NoRow /\ rows[t][0] = rec => d = "skipped"
      /\ rows[t][0] # Archive!NoRow /\ rows[t][0] # rec /\ t = "settings" => d = "blocked"
      /\ rows[t][0] # Archive!NoRow /\ rows[t][0] # rec /\ t # "settings" => d = "remapped"
  BY DEF Archive!Disposition
<1>2. (d # "remapped" => x = 0) /\ (d = "remapped" => x \in {1, 2})
  BY DEF Archive!Target, Archive!MaxId
<1>3. r = IF d \in {"imported", "remapped"} THEN [rows[t] EXCEPT ![x] = rec] ELSE rows[t]
  BY DEF Archive!InsertRecord
<1> HIDE DEF d, x, r
<1>4. x \in {0, 1, 2} /\ DOMAIN r = {0, 1, 2} /\ (t # "settings" => r[x] = rec)
  BY <1>1, <1>2, <1>3
<1>5. rows[t][0] # Archive!NoRow => r[0] = rows[t][0]
  BY <1>1, <1>2, <1>3
<1>6. \A i \in {0, 1, 2} : i # x => r[i] = rows[t][i]
  BY <1>2, <1>3
<1>7. rows[t][0] # Archive!NoRow /\ d \in {"imported", "remapped"} => x # 0
  BY <1>1, <1>2
<1> QED BY <1>2, <1>4, <1>5, <1>6, <1>7 DEF d, x, r

\* merge_archive: what was in the workspace stays, an imported plan and its
\* revision refer to each other, and an imported step to the archive's mail.
LEMMA WorkspaceMerged ==
  ASSUME Origin
  PROVE  LET R == initial.ws.rows
             new == Archive!MergeWorkspace(R)
             pm == Archive!MapOf(R, "plans")
             sm == Archive!MapOf(R, "steps")
         IN  /\ ~Archive!Clashes(R) =>
                  \A t \in ArchiveTables :
                    Archive!LocalRow(t, R[t][0], new[t][0], Archive!Rewritten(R, t))
             /\ /\ new["plans"][pm].body = "a"
                /\ new["revisions"][new["plans"][pm].ref].body = "a"
                /\ new["revisions"][new["plans"][pm].ref].ref = pm
             /\ /\ new["steps"][sm].body = "a"
                /\ new["mail"][new["steps"][sm].ref].body = "a"
                /\ new["mail"][new["steps"][sm].ref].status = "suspended"
<1> DEFINE R == initial.ws.rows
           new == Archive!MergeWorkspace(R)
           at(t) == Archive!MapOf(R, t)
           rec(t) == Archive!Rewritten(R, t)
           d(t) == Archive!Disposition(R, t, rec(t))
           m(t) == Archive!InsertRecord(R, t, rec(t))[t]
           merged == [t \in ArchiveTables |-> m(t)]
           deferred == Archive!RewriteDeferred(R, merged)
<1>0. ArchiveTables = {"plans", "revisions", "actions", "settings", "steps", "mail"}
  BY DEF ArchiveTables, Archive!WsTables
<1>1. DOMAIN R = ArchiveTables /\ \A t \in ArchiveTables : DOMAIN R[t] = {0, 1, 2}
  BY DEF Origin, RowBefore
<1>4. \A t : at(t) = Archive!Target(R, t, d(t))
  BY DEF Archive!MapOf
<1>2. ASSUME NEW t \in ArchiveTables
      PROVE  /\ DOMAIN m(t) = {0, 1, 2} /\ at(t) \in {0, 1, 2}
             /\ R[t][0] # Archive!NoRow /\ d(t) # "remapped" => at(t) = 0
             /\ R[t][0] # Archive!NoRow /\ d(t) \in {"imported", "remapped"} => at(t) # 0
             /\ t # "settings" => m(t)[at(t)] = rec(t)
             /\ R[t][0] # Archive!NoRow => m(t)[0] = R[t][0]
  <2>1. t \in DOMAIN R /\ DOMAIN R[t] = {0, 1, 2}
    BY <1>1
  <2>2. at(t) = Archive!Target(R, t, d(t))
    BY <1>4
  <2> HIDE DEF at, rec, R
  <2>3. LET dd == Archive!Disposition(R, t, rec(t))
            x == Archive!Target(R, t, dd)
            r == Archive!InsertRecord(R, t, rec(t))[t]
        IN  /\ x \in {0, 1, 2} /\ DOMAIN r = {0, 1, 2}
            /\ R[t][0] # Archive!NoRow /\ dd # "remapped" => x = 0
            /\ R[t][0] # Archive!NoRow /\ dd \in {"imported", "remapped"} => x # 0
            /\ t # "settings" => r[x] = rec(t)
            /\ R[t][0] # Archive!NoRow => r[0] = R[t][0]
    BY <2>1, InsertedRecord
  <2> QED BY <2>2, <2>3
<1>3. /\ rec("plans") = [body |-> "a", ref |-> 0, status |-> "none"]
      /\ rec("revisions") = [body |-> "a", ref |-> at("plans"), status |-> "none"]
      /\ rec("steps") = [body |-> "a", ref |-> 0, status |-> "none"]
      /\ rec("mail") = [body |-> "a", ref |-> 0, status |-> "suspended"]
  <2>1. /\ at("plans") = Archive!Target(R, "plans", d("plans"))
        /\ rec("plans") = Archive!Archived("plans")
        /\ rec("steps") = Archive!Archived("steps") /\ rec("mail") = Archive!Archived("mail")
    BY <1>4 DEF Archive!Rewritten
  <2>2. rec("revisions") = [Archive!Archived("revisions") EXCEPT !.ref = at("plans")]
    BY <2>1 DEF Archive!Rewritten
  <2> HIDE DEF at, rec
  <2> QED BY <2>1, <2>2 DEF Archive!Archived, Archive!Row
<1>5. deferred = [merged EXCEPT !["plans"][at("plans")].ref = at("revisions"),
                                !["steps"][at("steps")].ref = at("mail")]
  BY DEF Archive!RewriteDeferred
<1>6. \/ new = deferred
      \/ /\ d("actions") \in {"imported", "remapped"}
         /\ new = [deferred EXCEPT !["actions"][at("actions")].status =
                     IF @ = "approved" THEN "pending" ELSE @]
  <2>1. /\ d("actions") = Archive!Disposition(R, "actions", Archive!Archived("actions"))
        /\ at("actions") = Archive!Target(R, "actions", d("actions"))
    BY <1>4 DEF Archive!Rewritten
  <2>2. new = Archive!Normalize(R, deferred)
    BY DEF Archive!MergeWorkspace, ArchiveTables
  <2> HIDE DEF new, deferred, d, at
  <2> QED BY <2>1, <2>2 DEF Archive!Normalize
\* Without a clash a plan that was there has its revision, and a step is the same.
<1>c. ASSUME ~Archive!Clashes(R)
      PROVE  /\ R["plans"][0] # Archive!NoRow /\ R["plans"][0] = rec("plans")
                  => d("revisions") # "remapped"
             /\ d("steps") # "remapped"
  <2>1. R["plans"][0] # Archive!NoRow /\ R["plans"][0] = rec("plans")
          => d("plans") = "skipped" /\ rec("plans") = Archive!Archived("plans")
    BY DEF Archive!Disposition, Archive!Rewritten
  <2>2. rec("steps") = Archive!Archived("steps")
    BY DEF Archive!Rewritten
  <2> QED BY <1>c, <2>1, <2>2 DEF Archive!Clashes
<1>e. ASSUME NEW t \in {"plans", "steps"}, R[t][0] # Archive!NoRow, d(t) # "remapped"
      PROVE  R[t][0] = rec(t)
  BY <1>e DEF Archive!Disposition
<1>g. d("plans") = "remapped" => at("plans") # 0
  BY <1>4 DEF Archive!Target, Archive!MaxId
<1>o. (R["plans"][0] = Archive!NoRow) = (R["revisions"][0] = Archive!NoRow)
  BY DEF Origin
<1> HIDE DEF R, new, at, rec, d, m, deferred
<1>7. /\ DOMAIN merged = ArchiveTables /\ \A t \in ArchiveTables : merged[t] = m(t)
  OBVIOUS
<1> HIDE DEF merged
<1>8. /\ deferred["plans"] = [m("plans") EXCEPT ![at("plans")].ref = at("revisions")]
      /\ deferred["steps"] = [m("steps") EXCEPT ![at("steps")].ref = at("mail")]
      /\ \A t \in ArchiveTables \ {"plans", "steps"} : deferred[t] = m(t)
      /\ DOMAIN deferred = ArchiveTables
  BY <1>0, <1>5, <1>7
<1>9. /\ \A t \in ArchiveTables \ {"actions"} : new[t] = deferred[t]
      /\ R["actions"][0] # Archive!NoRow => new["actions"][0] = deferred["actions"][0]
  <2>1. CASE new = deferred
    BY <2>1
  <2>2. CASE /\ d("actions") \in {"imported", "remapped"}
             /\ new = [deferred EXCEPT !["actions"][at("actions")].status =
                         IF @ = "approved" THEN "pending" ELSE @]
    <3>1. \A t \in ArchiveTables \ {"actions"} : new[t] = deferred[t]
      BY <2>2, <1>8
    <3> DEFINE x == at("actions")
               a == deferred["actions"]
    <3>2. \E y : new["actions"] = [a EXCEPT ![x] = y]
      <4>1. "actions" \in DOMAIN deferred
        BY <1>0, <1>8
      <4> QED BY <2>2, <4>1
    <3>3. R["actions"][0] # Archive!NoRow => x # 0
      BY <1>0, <1>2, <2>2
    <3>4. 0 \in DOMAIN a
      BY <1>0, <1>2, <1>8
    <3> HIDE DEF x, a
    <3>5. R["actions"][0] # Archive!NoRow => new["actions"][0] = a[0]
      BY <3>2, <3>3, <3>4
    <3> QED BY <3>1, <3>5 DEF a
  <2> QED BY <1>6, <2>1, <2>2
<1>10. \A t \in {"plans", "revisions", "steps", "mail"} :
         m(t)[at(t)] = rec(t) /\ at(t) \in {0, 1, 2} /\ DOMAIN m(t) = {0, 1, 2}
  BY <1>0, <1>2
<1>12. /\ new["plans"] = [m("plans") EXCEPT ![at("plans")].ref = at("revisions")]
       /\ new["steps"] = [m("steps") EXCEPT ![at("steps")].ref = at("mail")]
       /\ new["revisions"] = m("revisions") /\ new["mail"] = m("mail")
  BY <1>0, <1>8, <1>9
<1>13. /\ new["plans"][at("plans")] = [body |-> "a", ref |-> at("revisions"), status |-> "none"]
       /\ new["steps"][at("steps")] = [body |-> "a", ref |-> at("mail"), status |-> "none"]
  <2>1. /\ new["plans"][at("plans")] = [rec("plans") EXCEPT !.ref = at("revisions")]
        /\ new["steps"][at("steps")] = [rec("steps") EXCEPT !.ref = at("mail")]
    BY <1>10, <1>12
  <2> QED BY <1>3, <2>1
<1>14. ASSUME ~Archive!Clashes(R), NEW t \in ArchiveTables, R[t][0] # Archive!NoRow
       PROVE  \/ new[t][0] = R[t][0]
              \/ /\ t = "steps" /\ R[t][0] = rec(t)
                 /\ new[t][0].body = R[t][0].body /\ new[t][0].status = R[t][0].status
  <2>1. CASE t = "plans"
    <3>1. CASE d("plans") = "remapped"
      <4>1. new["plans"][0] = m("plans")[0]
        BY <1>g, <1>10, <1>12, <3>1
      <4> QED BY <1>2, <1>14, <2>1, <4>1
    <3>2. CASE d("plans") # "remapped"
      <4>1. R["plans"][0] = rec("plans") /\ at("plans") = 0
        BY <1>0, <1>2, <1>e, <1>14, <2>1, <3>2
      <4>2. at("revisions") = 0
        BY <1>0, <1>2, <1>c, <1>o, <1>14, <2>1, <4>1
      <4>3. new["plans"][0] = [body |-> "a", ref |-> 0, status |-> "none"]
        BY <1>13, <4>1, <4>2
      <4> QED BY <1>3, <2>1, <4>1, <4>3
    <3> QED BY <3>1, <3>2
  <2>4. CASE t = "steps"
    <3>1. R["steps"][0] = rec("steps") /\ at("steps") = 0
      BY <1>0, <1>2, <1>c, <1>e, <1>14, <2>4
    <3>2. /\ new["steps"][0].body = "a" /\ new["steps"][0].status = "none"
          /\ rec("steps").body = "a" /\ rec("steps").status = "none"
      BY <1>3, <1>13, <3>1
    <3> QED BY <2>4, <3>1, <3>2
  <2>2. CASE t \in {"revisions", "settings", "mail"}
    BY <1>0, <1>2, <1>8, <1>9, <1>14, <2>2
  <2>3. CASE t = "actions"
    BY <1>0, <1>2, <1>8, <1>9, <1>14, <2>3
  <2> QED BY <1>0, <2>1, <2>2, <2>3, <2>4
<1>15. /\ new["revisions"][at("revisions")].body = "a"
       /\ new["revisions"][at("revisions")].ref = at("plans")
       /\ new["plans"][at("plans")].ref = at("revisions") /\ new["plans"][at("plans")].body = "a"
       /\ new["steps"][at("steps")].ref = at("mail") /\ new["steps"][at("steps")].body = "a"
       /\ new["mail"][at("mail")].body = "a" /\ new["mail"][at("mail")].status = "suspended"
  BY <1>3, <1>10, <1>12, <1>13
<1>16. ~Archive!Clashes(R) =>
         \A t \in ArchiveTables : Archive!LocalRow(t, R[t][0], new[t][0], rec(t))
  BY <1>14 DEF Archive!LocalRow
<1> QED BY <1>15, <1>16 DEF R, new, at, rec

\* rebind_imported_project_memories: whatever was merged before, one more merge
\* leaves the local memory, or binds it, and adds a bound copy.
LEMMA MemoryMerged ==
  ASSUME Origin, NEW m, MmKnown(m)
  PROVE  MmKnown([rows |-> Archive!MergeMemory(m.rows), imported |-> TRUE])
<1> DEFINE R == m.rows
           r == R["memories"]
           x == initial.mm.rows["memories"][0]
           rec == Archive!Archived("memories")
           i == Archive!MapOf(R, "memories")
           ins == Archive!InsertRecord(R, "memories", rec)["memories"]
           new == Archive!MergeMemory(R)
<1>1. /\ DOMAIN R = {"memories"} /\ DOMAIN r = {0, 1, 2}
      /\ r[0] = x \/ (r[0] = Bound /\ (x = Archive!NoRow \/ x = rec))
      /\ r[1] \in {Archive!NoRow, Bound} /\ r[2] \in {Archive!NoRow, Bound}
      /\ MemoryBefore(x)
  BY DEF MmKnown, Origin
<1>2. new = [[t \in {"memories"} |-> Archive!InsertRecord(R, t, Archive!Archived(t))[t]]
               EXCEPT !["memories"][i].ref = 1]
  BY DEF Archive!MergeMemory, Archive!Rebind, Archive!MmTables, Archive!Here
<1>3. i = Archive!Target(R, "memories", Archive!Disposition(R, "memories", rec))
  BY DEF Archive!MapOf, Archive!Rewritten
<1>4. rec = [body |-> "a", ref |-> 0, status |-> "none"]
  BY DEF Archive!Archived, Archive!Row
<1>5. rec # Archive!NoRow /\ rec # Bound /\ Archive!NoRow # Bound
  <2>1. /\ rec.body = "a" /\ rec.ref = 0 /\ Archive!NoRow.body = "none"
        /\ Bound.body = "a" /\ Bound.ref = 1
    BY <1>4 DEF Archive!NoRow, Bound
  <2> HIDE DEF rec
  <2> QED BY <2>1
<1>6. /\ i \in {0, 1, 2} /\ DOMAIN ins = {0, 1, 2} /\ ins[i] = rec
      /\ \A k \in {0, 1, 2} : k # i => ins[k] = r[k]
  <2>1. "memories" \in DOMAIN R
    BY <1>1
  <2> QED BY <1>1, <1>3, <2>1, InsertedRecord
<1>7. i = 0 => r[0] = Archive!NoRow \/ r[0] = rec
  BY <1>3 DEF Archive!Disposition, Archive!Target, Archive!MaxId
<1>12. i # 0 => r[0] # rec
  BY <1>3, <1>5 DEF Archive!Disposition, Archive!Target
<1>8. new = [[t \in {"memories"} |-> ins] EXCEPT !["memories"][i].ref = 1]
  BY <1>2
<1> HIDE DEF new, ins, i, rec, x, r, R
<1>9. DOMAIN new = {"memories"} /\ new["memories"] = [ins EXCEPT ![i].ref = 1]
  BY <1>8
<1>10. /\ DOMAIN new["memories"] = {0, 1, 2} /\ new["memories"][i] = Bound
       /\ \A k \in {0, 1, 2} : k # i => new["memories"][k] = r[k]
  <2>1. [rec EXCEPT !.ref = 1] = Bound
    BY <1>4 DEF Bound
  <2> QED BY <1>6, <1>9, <2>1
<1>13. r[0] = Archive!NoRow => x = Archive!NoRow
  BY <1>1, <1>5
<1>14. r[0] = rec => x = rec
  BY <1>1, <1>5
<1>11. /\ new["memories"][0] = x
           \/ (new["memories"][0] = Bound /\ (x = Archive!NoRow \/ x = rec))
       /\ new["memories"][1] \in {Archive!NoRow, Bound}
       /\ new["memories"][2] \in {Archive!NoRow, Bound}
       /\ new["memories"][0] # rec
  <2>1. CASE i = 0
    BY <1>1, <1>5, <1>7, <1>10, <1>13, <1>14, <2>1
  <2>2. CASE i # 0
    BY <1>1, <1>6, <1>10, <1>12, <2>2
  <2> QED BY <2>1, <2>2
<1> QED BY <1>9, <1>10, <1>11 DEF MmKnown, new, rec, x, R

\* One command moves on: what the others hold stays.
LEMMA CommandStep ==
  ASSUME ArchiveInv, NEW p \in Importer, NEW o, op' = [op EXCEPT ![p] = o], OpKnown(o),
         initial' = initial, WsKnown(ws'), MmKnown(mm'),
         journal' = Archive!NoJournal \/ Image(journal'.recovery)
  PROVE  ArchiveInv'
<1>1. DOMAIN op' = Importer /\ \A q \in Importer : op'[q] = IF q = p THEN o ELSE op[q]
  BY DEF ArchiveInv
<1>2. \A q \in Importer : OpKnown(op'[q])
  BY <1>1 DEF ArchiveInv
<1>3. Origin'
  BY DEF ArchiveInv, Origin, RowBefore, MemoryBefore
<1>4. WsKnown(ws)' /\ MmKnown(mm)'
  BY DEF WsKnown, MergedWs, MmKnown
<1>5. \A q \in Importer : OpKnown(op[q])'
  <2> SUFFICES ASSUME NEW q \in Importer PROVE OpKnown(op[q])'
    OBVIOUS
  <2>1. OpKnown(op'[q])
    BY <1>2
  <2>2. ASSUME Image(op'[q].recovery) PROVE Image(op[q].recovery)'
    <3>1. WsKnown(op[q].recovery.ws)'
      BY <2>2 DEF Image, WsKnown, MergedWs
    <3>2. MmKnown(op'[q].recovery.mm)
      BY <2>2 DEF Image
    <3>3. MmKnown(op[q].recovery.mm)'
      BY <3>2 DEF MmKnown
    <3> QED BY <3>1, <3>3 DEF Image
  <2>3. ASSUME Image(op'[q].rollback) PROVE Image(op[q].rollback)'
    <3>1. WsKnown(op[q].rollback.ws)'
      BY <2>3 DEF Image, WsKnown, MergedWs
    <3>2. MmKnown(op'[q].rollback.mm)
      BY <2>3 DEF Image
    <3>3. MmKnown(op[q].rollback.mm)'
      BY <3>2 DEF MmKnown
    <3> QED BY <3>1, <3>3 DEF Image
  <2> QED BY <2>1, <2>2, <2>3 DEF OpKnown
<1>6. (journal = Archive!NoJournal \/ Image(journal.recovery))'
  BY DEF Image, WsKnown, MergedWs, MmKnown
<1> QED BY <1>1, <1>3, <1>4, <1>5, <1>6 DEF ArchiveInv

\* import_archive, restore_backup and doctor --fix: every image that is kept or put
\* back is of the databases before the import or after it.
LEMMA CommandsKeepArchive ==
  ASSUME ArchiveInv, [Archive!Next]_(Archive!vars)
  PROVE  ArchiveInv'
<1>i. /\ Origin /\ WsKnown(ws) /\ MmKnown(mm) /\ DOMAIN op = Importer
      /\ journal = Archive!NoJournal \/ Image(journal.recovery)
  BY DEF ArchiveInv
<1>o. ASSUME NEW p \in Importer PROVE OpKnown(op[p]) /\ DOMAIN op[p] = OpFields
  BY DEF ArchiveInv, OpKnown
<1>n. Image(Archive!Databases) /\ Image(initial)
  <2>1. MmKnown(initial.mm)
    BY <1>i DEF MmKnown, Origin, RowBefore
  <2> QED BY <1>i, <2>1 DEF Image, Archive!Databases, WsKnown
\* A command that moves on and holds no image, or the one it held.
<1>f. ASSUME NEW p \in Importer, NEW pc, op' = [op EXCEPT ![p].pc = pc],
             \/ pc \in {"journalled", "committed", "merged", "restored"}
             \/ /\ pc \in {"half", "restoring", "replacing"}
                /\ op[p].pc \in {"locked", "safe", "restoring"},
             initial' = initial, WsKnown(ws'), MmKnown(mm'),
             journal' = Archive!NoJournal \/ Image(journal'.recovery)
      PROVE  ArchiveInv'
  <2> DEFINE o == [op[p] EXCEPT !.pc = pc]
  <2>1. op' = [op EXCEPT ![p] = o]
    BY <1>f
  <2>2. OpKnown(o)
    BY <1>o, <1>f DEF OpKnown, OpFields
  <2> HIDE DEF o
  <2> QED BY <1>f, <2>1, <2>2, CommandStep
<1>s. ASSUME ws' = ws, initial' = initial PROVE WsKnown(ws')
  BY <1>i, <1>s DEF WsKnown, MergedWs
<1>m. ASSUME mm' = mm, initial' = initial PROVE MmKnown(mm')
  BY <1>i, <1>m DEF MmKnown
<1>j. ASSUME journal' = journal, initial' = initial
      PROVE  journal' = Archive!NoJournal \/ Image(journal'.recovery)
  BY <1>i, <1>j DEF Image, WsKnown, MmKnown, MergedWs
<1>u. ASSUME UNCHANGED <<op, ws, mm, journal, initial>> PROVE ArchiveInv'
  <2>1. Origin'
    BY <1>i, <1>u DEF Origin, RowBefore, MemoryBefore
  <2>2. WsKnown(ws)' /\ MmKnown(mm)'
    BY <1>i, <1>u DEF WsKnown, MergedWs, MmKnown
  <2>3. \A q \in Importer : OpKnown(op[q])'
    BY <1>o, <1>u DEF OpKnown, Image, WsKnown, MergedWs, MmKnown
  <2>4. (journal = Archive!NoJournal \/ Image(journal.recovery))'
    BY <1>i, <1>u DEF Image, WsKnown, MergedWs, MmKnown
  <2>5. (DOMAIN op = Importer)'
    BY <1>i, <1>u
  <2> QED BY <2>1, <2>2, <2>3, <2>4, <2>5 DEF ArchiveInv
<1>d. ASSUME NEW p \in Importer, op' = [op EXCEPT ![p] = Archive!Idle],
             initial' = initial, WsKnown(ws'), MmKnown(mm'), journal' = journal
      PROVE  ArchiveInv'
  <2>1. OpKnown(Archive!Idle)
    BY DEF OpKnown, OpFields, Archive!Idle
  <2> QED BY <1>d, <1>i, <2>1, CommandStep
<1> SUFFICES ASSUME NEW p \in Importer,
                    \/ Archive!ImportBackup(p) \/ Archive!ImportJournal(p)
                    \/ Archive!ImportLock(p) \/ Archive!AlreadyImported(p)
                    \/ Archive!MergeCommitWorkspace(p) \/ Archive!CommitMemory(p)
                    \/ Archive!MergeFails(p) \/ Archive!MergeDone(p)
                    \/ Archive!NextExtra(p) \/ Archive!ImportEnds(p)
                    \/ Archive!DoctorFix(p) \/ Archive!BackupRestore(p)
                    \/ Archive!RestoreJournal(p) \/ Archive!RestoreWorkspace(p)
                    \/ Archive!RestoreMemory(p) \/ Archive!RestoreDone(p)
                    \/ Archive!Crash(p)
             PROVE  ArchiveInv'
  <2>1. ASSUME UNCHANGED Archive!vars PROVE ArchiveInv'
    BY <1>u, <2>1 DEF Archive!vars
  <2> QED BY <2>1 DEF Archive!Next
<1>1. ASSUME Archive!ImportBackup(p) PROVE ArchiveInv'
  <2> DEFINE o == [Archive!Idle EXCEPT !.pc = "backed", !.recovery = Archive!Databases]
  <2>1. op' = [op EXCEPT ![p] = o] /\ UNCHANGED <<ws, mm, initial, journal>>
    BY <1>1 DEF Archive!ImportBackup
  <2>2. OpKnown(o)
    BY <1>n DEF OpKnown, OpFields, Archive!Idle
  <2> HIDE DEF o
  <2>3. WsKnown(ws') /\ MmKnown(mm')
    BY <1>i, <2>1 DEF WsKnown, MmKnown, MergedWs
  <2> QED BY <1>i, <2>1, <2>2, <2>3, CommandStep
<1>2. ASSUME Archive!ImportJournal(p) PROVE ArchiveInv'
  <2>1. /\ op[p].pc = "backed" /\ op' = [op EXCEPT ![p].pc = "journalled"]
        /\ UNCHANGED <<ws, mm, initial>> /\ journal' = [recovery |-> op[p].recovery]
    BY <1>2 DEF Archive!ImportJournal, Archive!Go
  <2>2. Image(journal'.recovery)
    BY <1>o, <2>1 DEF OpKnown
  <2>8. WsKnown(ws') /\ MmKnown(mm')
    BY <1>s, <1>m, <2>1
  <2>9. journal' = Archive!NoJournal \/ Image(journal'.recovery)
    BY <2>2
  <2> QED BY <1>f, <2>1, <2>8, <2>9
<1>3. ASSUME Archive!ImportLock(p) PROVE ArchiveInv'
  <2> DEFINE o == [op[p] EXCEPT !.pc = "locked", !.rollback = Archive!Databases]
  <2>1. op' = [op EXCEPT ![p] = o] /\ UNCHANGED <<ws, mm, initial, journal>>
    BY <1>3, <1>i DEF Archive!ImportLock
  <2>2. OpKnown(o)
    BY <1>n, <1>o DEF OpKnown, OpFields
  <2> HIDE DEF o
  <2>3. WsKnown(ws') /\ MmKnown(mm')
    BY <1>i, <2>1 DEF WsKnown, MmKnown, MergedWs
  <2> QED BY <1>i, <2>1, <2>2, <2>3, CommandStep
<1>4. ASSUME Archive!AlreadyImported(p) PROVE ArchiveInv'
  <2>1. /\ op' = [op EXCEPT ![p].pc = "merged"] /\ UNCHANGED <<ws, mm, initial>>
        /\ journal' = Archive!NoJournal
    BY <1>4 DEF Archive!AlreadyImported, Archive!Go
  <2>8. WsKnown(ws') /\ MmKnown(mm')
    BY <1>s, <1>m, <2>1
  <2>9. journal' = Archive!NoJournal \/ Image(journal'.recovery)
    BY <2>1
  <2> QED BY <1>f, <2>1, <2>8, <2>9
<1>5. ASSUME Archive!MergeCommitWorkspace(p) PROVE ArchiveInv'
  <2>1. /\ op[p].pc = "locked" /\ ~ws.imported /\ ~Archive!Clashes(ws.rows)
        /\ op' = [op EXCEPT ![p].pc = "half"] /\ UNCHANGED <<mm, initial, journal>>
        /\ ws' = [rows |-> Archive!MergeWorkspace(ws.rows), imported |-> TRUE]
    BY <1>5 DEF Archive!MergeCommitWorkspace, Archive!Go
  <2>2. ws = initial.ws
    BY <1>i, <2>1 DEF WsKnown, MergedWs
  <2>3. WsKnown(ws') /\ MmKnown(mm')
    BY <1>i, <2>1, <2>2 DEF WsKnown, MmKnown, MergedWs
  <2>8. WsKnown(ws') /\ MmKnown(mm')
    BY <2>3
  <2>9. journal' = Archive!NoJournal \/ Image(journal'.recovery)
    BY <1>j, <2>1
  <2> QED BY <1>f, <2>1, <2>8, <2>9
<1>6. ASSUME Archive!CommitMemory(p) PROVE ArchiveInv'
  <2>1. /\ op' = [op EXCEPT ![p].pc = "committed"] /\ UNCHANGED <<ws, initial, journal>>
        /\ mm' = [rows |-> Archive!MergeMemory(mm.rows), imported |-> TRUE]
    BY <1>6 DEF Archive!CommitMemory, Archive!Go
  <2>2. MmKnown([rows |-> Archive!MergeMemory(mm.rows), imported |-> TRUE])
    BY <1>i, MemoryMerged
  <2>3. WsKnown(ws') /\ MmKnown(mm')
    BY <1>i, <2>1, <2>2 DEF WsKnown, MmKnown, MergedWs
  <2>8. WsKnown(ws') /\ MmKnown(mm')
    BY <2>3
  <2>9. journal' = Archive!NoJournal \/ Image(journal'.recovery)
    BY <1>j, <2>1
  <2> QED BY <1>f, <2>1, <2>8, <2>9
<1>7. ASSUME Archive!MergeFails(p) PROVE ArchiveInv'
  <2>1. /\ op[p].pc \in {"locked", "half"} /\ UNCHANGED <<initial, journal>>
        /\ op' = [op EXCEPT ![p] = Archive!Idle]
        /\ ws' = op[p].rollback.ws /\ mm' = op[p].rollback.mm
    BY <1>7 DEF Archive!MergeFails
  <2>2. WsKnown(ws') /\ MmKnown(mm')
    BY <1>o, <2>1 DEF OpKnown, Image
  <2> QED BY <1>d, <2>1, <2>2
<1>8. ASSUME Archive!MergeDone(p) PROVE ArchiveInv'
  <2>1. /\ op' = [op EXCEPT ![p].pc = "merged"] /\ UNCHANGED <<ws, mm, initial>>
        /\ journal' = Archive!NoJournal
    BY <1>8 DEF Archive!MergeDone, Archive!Go
  <2>8. WsKnown(ws') /\ MmKnown(mm')
    BY <1>s, <1>m, <2>1
  <2>9. journal' = Archive!NoJournal \/ Image(journal'.recovery)
    BY <2>1
  <2> QED BY <1>f, <2>1, <2>8, <2>9
<1>9. ASSUME Archive!NextExtra(p) PROVE ArchiveInv'
  BY <1>9, <1>u DEF Archive!NextExtra
<1>10. ASSUME Archive!ImportEnds(p) \/ Archive!Crash(p) PROVE ArchiveInv'
  <2>1. /\ op' = [op EXCEPT ![p] = Archive!Idle] /\ UNCHANGED <<ws, mm, initial, journal>>
    BY <1>10 DEF Archive!ImportEnds, Archive!Crash
  <2> QED BY <1>d, <1>i, <2>1 DEF WsKnown, MmKnown, MergedWs
<1>11. ASSUME NEW image, Image(image), Archive!RestoreBegin(p, image) PROVE ArchiveInv'
  <2> DEFINE o == [Archive!Idle EXCEPT !.pc = "safe", !.recovery = Archive!Databases,
                                       !.rollback = image]
  <2>1. op' = [op EXCEPT ![p] = o] /\ UNCHANGED <<ws, mm, initial, journal>>
    BY <1>11 DEF Archive!RestoreBegin
  <2>2. OpKnown(o)
    BY <1>n, <1>11 DEF OpKnown, OpFields, Archive!Idle
  <2> HIDE DEF o
  <2>3. WsKnown(ws') /\ MmKnown(mm')
    BY <1>i, <2>1 DEF WsKnown, MmKnown, MergedWs
  <2> QED BY <1>i, <2>1, <2>2, <2>3, CommandStep
<1>12. ASSUME Archive!DoctorFix(p) \/ Archive!BackupRestore(p) PROVE ArchiveInv'
  BY <1>12, <1>11, <1>i, <1>n DEF Archive!DoctorFix, Archive!BackupRestore
<1>13. ASSUME Archive!RestoreJournal(p) PROVE ArchiveInv'
  <2>1. /\ op[p].pc = "safe" /\ op' = [op EXCEPT ![p].pc = "restoring"]
        /\ UNCHANGED <<ws, mm, initial>> /\ journal' = [recovery |-> op[p].recovery]
    BY <1>13 DEF Archive!RestoreJournal, Archive!Go
  <2>2. Image(journal'.recovery)
    BY <1>o, <2>1 DEF OpKnown
  <2>8. WsKnown(ws') /\ MmKnown(mm')
    BY <1>s, <1>m, <2>1
  <2>9. journal' = Archive!NoJournal \/ Image(journal'.recovery)
    BY <2>2
  <2> QED BY <1>f, <2>1, <2>8, <2>9
<1>14. ASSUME Archive!RestoreWorkspace(p) PROVE ArchiveInv'
  <2>1. /\ op[p].pc = "restoring" /\ op' = [op EXCEPT ![p].pc = "replacing"]
        /\ UNCHANGED <<mm, initial, journal>> /\ ws' = op[p].rollback.ws
    BY <1>14 DEF Archive!RestoreWorkspace, Archive!Go
  <2>2. WsKnown(ws') /\ MmKnown(mm')
    BY <1>o, <1>m, <2>1 DEF OpKnown, Image
  <2>8. WsKnown(ws') /\ MmKnown(mm')
    BY <2>2
  <2>9. journal' = Archive!NoJournal \/ Image(journal'.recovery)
    BY <1>j, <2>1
  <2> QED BY <1>f, <2>1, <2>8, <2>9
<1>15. ASSUME Archive!RestoreMemory(p) PROVE ArchiveInv'
  <2>1. /\ op[p].pc = "replacing" /\ op' = [op EXCEPT ![p].pc = "restored"]
        /\ UNCHANGED <<ws, initial, journal>> /\ mm' = op[p].rollback.mm
    BY <1>15 DEF Archive!RestoreMemory, Archive!Go
  <2>2. WsKnown(ws') /\ MmKnown(mm')
    BY <1>o, <1>s, <2>1 DEF OpKnown, Image
  <2>8. WsKnown(ws') /\ MmKnown(mm')
    BY <2>2
  <2>9. journal' = Archive!NoJournal \/ Image(journal'.recovery)
    BY <1>j, <2>1
  <2> QED BY <1>f, <2>1, <2>8, <2>9
<1>16. ASSUME Archive!RestoreDone(p) PROVE ArchiveInv'
  <2>1. /\ op' = [op EXCEPT ![p] = Archive!Idle] /\ UNCHANGED <<ws, mm, initial>>
        /\ journal' = Archive!NoJournal
    BY <1>16 DEF Archive!RestoreDone
  <2>2. OpKnown(Archive!Idle)
    BY DEF OpKnown, OpFields, Archive!Idle
  <2>3. WsKnown(ws') /\ MmKnown(mm')
    BY <1>i, <2>1 DEF WsKnown, MmKnown, MergedWs
  <2> QED BY <2>1, <2>2, <2>3, CommandStep
<1> QED BY <1>1, <1>2, <1>3, <1>4, <1>5, <1>6, <1>7, <1>8, <1>9, <1>10, <1>12, <1>13,
           <1>14, <1>15, <1>16

\* Before the first command no image is kept anywhere.
LEMMA ArchiveBegins == Archive!Init => ArchiveInv
<1> SUFFICES ASSUME Archive!Init PROVE ArchiveInv
  OBVIOUS
<1>1. PICK w \in [Archive!WsTables -> {"none", "a", "b"}], m \in {"none", "a", "b"},
           s \in {"approved", "completed"}, d \in {"active", "suspended"},
           r \in {Archive!There, Archive!Here} :
       /\ (w["plans"] = "none") = (w["revisions"] = "none")
       /\ w["steps"] # "none" => w["mail"] # "none"
       /\ w["mail"] # "b"
       /\ w["actions"] # "b" => s = "approved"
       /\ w["mail"] = "none" => d = "active"
       /\ m # "a" => r = Archive!Here
       /\ ws = [rows |-> Archive!Tables([t \in Archive!WsTables |->
                           IF w[t] = "none" THEN Archive!NoRow
                           ELSE Archive!Row(w[t], IF t = "actions" THEN s
                                                  ELSE IF t = "mail" THEN d ELSE "none")],
                                        Archive!WsTables),
                imported |-> FALSE]
       /\ mm = [rows |-> Archive!Tables([t \in Archive!MmTables |->
                           IF m = "none" THEN Archive!NoRow
                           ELSE [Archive!Row(m, "none") EXCEPT !.ref = r]],
                                        Archive!MmTables),
                imported |-> FALSE]
  BY Zenon DEF Archive!Init
<1>r. Archive!There = 0 /\ Archive!Here = 1
  BY DEF Archive!There, Archive!Here
<1>2. /\ initial = [ws |-> ws, mm |-> mm, files |-> {}] /\ journal = Archive!NoJournal
      /\ op = [p \in Importer |-> Archive!Idle]
  BY DEF Archive!Init
<1>i. Archive!Id = {0, 1, 2}
  BY DEF Archive!Id, Archive!MaxId
<1>3. ASSUME NEW t \in Archive!WsTables
      PROVE  /\ DOMAIN ws.rows[t] = {0, 1, 2}
             /\ ws.rows[t][1] = Archive!NoRow /\ ws.rows[t][2] = Archive!NoRow
             /\ \/ w[t] = "none" /\ ws.rows[t][0] = Archive!NoRow
                \/ /\ w[t] # "none"
                   /\ \E x : ws.rows[t][0] = Archive!Row(w[t], x)
  BY <1>1, <1>i DEF Archive!Tables
<1>4. /\ DOMAIN mm.rows["memories"] = {0, 1, 2}
      /\ mm.rows["memories"][1] = Archive!NoRow /\ mm.rows["memories"][2] = Archive!NoRow
      /\ mm.rows["memories"][0] = IF m = "none" THEN Archive!NoRow
                                  ELSE [Archive!Row(m, "none") EXCEPT !.ref = r]
  BY <1>1, <1>i DEF Archive!Tables, Archive!MmTables
<1>5. ASSUME NEW b \in {"a", "b"}, NEW x
      PROVE  Archive!Row(b, x) # Archive!NoRow /\ Archive!Row(b, x).body = b
  <2>1. Archive!Row(b, x).body = b /\ Archive!NoRow.body = "none"
    BY DEF Archive!Row, Archive!NoRow
  <2> QED BY <2>1
<1>7. MemoryBefore(mm.rows["memories"][0])
  <2> DEFINE x == [Archive!Row(m, "none") EXCEPT !.ref = r]
  <2>1. x = [body |-> m, ref |-> r, status |-> "none"]
    BY DEF Archive!Row
  <2>2. Archive!Archived("memories") = [body |-> "a", ref |-> 0, status |-> "none"]
    BY DEF Archive!Archived, Archive!Row
  <2>3. mm.rows["memories"][0] = IF m = "none" THEN Archive!NoRow ELSE x
    BY <1>4
  <2> HIDE DEF x
  <2> QED BY <1>1, <1>r, <2>1, <2>2, <2>3 DEF MemoryBefore, Bound
<1>6. Origin
  <2>1. /\ DOMAIN ws = {"rows", "imported"} /\ DOMAIN mm = {"rows", "imported"}
        /\ ws.imported = FALSE /\ mm.imported = FALSE
        /\ DOMAIN ws.rows = ArchiveTables /\ DOMAIN mm.rows = {"memories"}
    BY <1>1 DEF Archive!Tables, ArchiveTables, Archive!MmTables
  <2>2. \A t \in ArchiveTables : RowBefore(ws.rows[t], t)
    <3> SUFFICES ASSUME NEW t \in ArchiveTables PROVE RowBefore(ws.rows[t], t)
      OBVIOUS
    <3>1. w[t] \in {"none", "a", "b"}
      BY DEF ArchiveTables
    <3> QED BY <1>3, <1>5, <3>1 DEF RowBefore, ArchiveTables
  <2>3. RowBefore(mm.rows["memories"], "memories")
    <3>1. m # "none" => [Archive!Row(m, "none") EXCEPT !.ref = r].body = m
      BY DEF Archive!Row
    <3> QED BY <1>4, <3>1 DEF RowBefore
  <2>4. (ws.rows["plans"][0] = Archive!NoRow) = (ws.rows["revisions"][0] = Archive!NoRow)
    <3>1. "plans" \in Archive!WsTables /\ "revisions" \in Archive!WsTables
      BY DEF Archive!WsTables
    <3>2. w["plans"] \in {"none", "a", "b"} /\ w["revisions"] \in {"none", "a", "b"}
      BY <3>1
    <3>3. (ws.rows["plans"][0] = Archive!NoRow) <=> w["plans"] = "none"
      BY <1>3, <1>5, <3>1, <3>2
    <3>4. (ws.rows["revisions"][0] = Archive!NoRow) <=> w["revisions"] = "none"
      BY <1>3, <1>5, <3>1, <3>2
    <3> QED BY <1>1, <3>3, <3>4
  <2> QED BY <1>2, <1>7, <2>1, <2>2, <2>3, <2>4 DEF Origin
<1>9. WsKnown(ws) /\ MmKnown(mm)
  BY <1>2, <1>6 DEF WsKnown, MmKnown, Origin, RowBefore
<1>8. OpKnown(Archive!Idle)
  BY DEF OpKnown, OpFields, Archive!Idle
<1> QED BY <1>2, <1>6, <1>8, <1>9 DEF ArchiveInv

\* Every image the import can leave has the rows that were there, and its own.
LEMMA KnownKeepsRows ==
  ArchiveInv => Archive!LocalRowsKept /\ Archive!ImportRefersToItself
<1> SUFFICES ASSUME ArchiveInv PROVE Archive!LocalRowsKept /\ Archive!ImportRefersToItself
  OBVIOUS
<1>0. Origin /\ WsKnown(ws) /\ MmKnown(mm)
  BY DEF ArchiveInv
<1>1. \A t \in Archive!WsTables :
        Archive!LocalRow(t, initial.ws.rows[t][0], ws.rows[t][0],
                         Archive!Rewritten(initial.ws.rows, t))
  <2>1. CASE ws = initial.ws
    BY <2>1 DEF Archive!LocalRow
  <2>2. CASE ws = MergedWs /\ ~Archive!Clashes(initial.ws.rows)
    <3>1. ws.rows = Archive!MergeWorkspace(initial.ws.rows)
      BY <2>2 DEF MergedWs
    <3> QED BY <1>0, <2>2, <3>1, WorkspaceMerged DEF ArchiveTables
  <2> QED BY <1>0, <2>1, <2>2 DEF WsKnown
<1>2. LET x == initial.mm.rows["memories"][0]
          y == mm.rows["memories"][0]
      IN  y = x \/ (y = Bound /\ (x = Archive!NoRow \/ x = Archive!Archived("memories")))
  BY <1>0 DEF MmKnown
<1>b. Bound.body = "a" /\ Bound.status = "none" /\ Bound.ref = 1
  BY DEF Bound
<1>a. /\ Archive!Archived("memories").body = "a"
      /\ Archive!Archived("memories").status = "none"
  BY DEF Archive!Archived, Archive!Row
<1>3. \A t \in Archive!MmTables :
        Archive!LocalRow(t, initial.mm.rows[t][0], mm.rows[t][0], Archive!Archived(t))
  BY <1>2, <1>a, <1>b DEF Archive!LocalRow, Archive!MmTables
<1>4. ws.imported => ws = MergedWs
  BY <1>0 DEF WsKnown, Origin
<1>5. ASSUME ws = MergedWs
      PROVE  LET plan == ws.rows["plans"][Archive!MapOf(initial.ws.rows, "plans")]
                 rev  == ws.rows["revisions"][plan.ref]
                 step == ws.rows["steps"][Archive!MapOf(initial.ws.rows, "steps")]
                 mail == ws.rows["mail"][step.ref]
             IN  /\ plan.body = "a" /\ rev.body = "a"
                 /\ rev.ref = Archive!MapOf(initial.ws.rows, "plans")
                 /\ step.body = "a" /\ mail.body = "a" /\ mail.status = "suspended"
  <2> DEFINE R == initial.ws.rows
             new == Archive!MergeWorkspace(R)
             pm == Archive!MapOf(R, "plans")
             sm == Archive!MapOf(R, "steps")
  <2>1. ws.rows = new
    BY <1>5 DEF MergedWs
  <2>2. /\ new["plans"][pm].body = "a"
        /\ new["revisions"][new["plans"][pm].ref].body = "a"
        /\ new["revisions"][new["plans"][pm].ref].ref = pm
        /\ new["steps"][sm].body = "a"
        /\ new["mail"][new["steps"][sm].ref].body = "a"
        /\ new["mail"][new["steps"][sm].ref].status = "suspended"
    BY <1>0, WorkspaceMerged, Zenon
  <2> HIDE DEF new, pm, sm
  <2>3. LET plan == new["plans"][pm]
            rev  == new["revisions"][plan.ref]
            step == new["steps"][sm]
            mail == new["mail"][step.ref]
        IN /\ plan.body = "a" /\ rev.body = "a" /\ rev.ref = pm
           /\ step.body = "a" /\ mail.body = "a" /\ mail.status = "suspended"
    BY <2>2
  <2> QED BY <2>1, <2>3 DEF pm, sm
<1>6. ASSUME mm.imported, NEW i \in Archive!Id, mm.rows["memories"][i].body = "a"
      PROVE  mm.rows["memories"][i].ref = Archive!Here
  <2>1. i \in {0, 1, 2} /\ Archive!NoRow.body = "none" /\ Archive!Here = 1
    BY DEF Archive!Id, Archive!MaxId, Archive!NoRow, Archive!Here
  <2>2. CASE mm.rows["memories"][i] = Bound
    BY <1>b, <2>1, <2>2
  <2>3. CASE i = 0 /\ mm.rows["memories"][0] = initial.mm.rows["memories"][0]
    <3>1. mm.rows["memories"][0] # Archive!Archived("memories")
      BY <1>0, <1>6 DEF MmKnown
    <3>2. MemoryBefore(initial.mm.rows["memories"][0])
      BY <1>0 DEF Origin
    <3>3. initial.mm.rows["memories"][0] = Bound
      BY <1>6, <2>1, <2>3, <3>1, <3>2 DEF MemoryBefore
    <3> QED BY <1>b, <2>1, <2>3, <3>3
  <2>4. i # 0 => mm.rows["memories"][i] \in {Archive!NoRow, Bound}
    BY <1>0, <2>1 DEF MmKnown
  <2> QED BY <1>2, <1>6, <2>1, <2>2, <2>3, <2>4
<1>7. Archive!LocalRowsKept
  BY <1>1, <1>3 DEF Archive!LocalRowsKept
<1>8. Archive!ImportRefersToItself
  <2>1. mm.imported => \A i \in Archive!Id :
          mm.rows["memories"][i].body = "a" => mm.rows["memories"][i].ref = Archive!Here
    BY <1>6
  <2>2. ws.imported =>
          LET plan == ws.rows["plans"][Archive!MapOf(initial.ws.rows, "plans")]
              rev  == ws.rows["revisions"][plan.ref]
              step == ws.rows["steps"][Archive!MapOf(initial.ws.rows, "steps")]
              mail == ws.rows["mail"][step.ref]
          IN  /\ plan.body = "a" /\ rev.body = "a"
              /\ rev.ref = Archive!MapOf(initial.ws.rows, "plans")
              /\ step.body = "a" /\ mail.body = "a" /\ mail.status = "suspended"
    BY <1>4, <1>5, Zenon
  <2> QED BY <2>1, <2>2, Zenon DEF Archive!ImportRefersToItself
<1> QED BY <1>7, <1>8

\* A journal that names an image is a journal.
LEMMA ImageIsAJournal ==
  ASSUME Origin, NEW d, Image(d)
  PROVE  [recovery |-> d] # Archive!NoJournal
<1>1. DOMAIN d.ws = {"rows", "imported"}
  BY DEF Image, WsKnown, MergedWs, Origin
<1>2. DOMAIN Archive!NoJournal.recovery.ws = {"body", "ref", "status"}
  BY DEF Archive!NoJournal, Archive!NoImages, Archive!NoRow
<1>3. {"rows", "imported"} # {"body", "ref", "status"}
  OBVIOUS
<1>4. [recovery |-> d].recovery = d
  OBVIOUS
<1> QED BY <1>1, <1>2, <1>3, <1>4

\* With one command at a time and one crash, what doctor --fix puts back is whole.
LEMMA CommandsStayWhole ==
  ASSUME NEW r, Importer = {r}, MaxCrashes \in {0, 1},
         ArchiveInv, WholeInv, [Archive!Next]_(Archive!vars)
  PROVE  WholeInv'
<1> DEFINE o == op[r]
<1>0. /\ crashes \in {0, 1} /\ WholeAt(o)
      /\ DOMAIN op = {r} /\ DOMAIN o = OpFields /\ OpKnown(o)
      /\ Origin /\ Image(Archive!Databases)
  <2>1. WsKnown(ws) /\ MmKnown(mm) /\ Origin /\ OpKnown(op[r]) /\ DOMAIN op = {r}
    BY DEF ArchiveInv
  <2>2. Image(Archive!Databases)
    BY <2>1 DEF Image, Archive!Databases
  <2> QED BY <2>1, <2>2 DEF WholeInv, OpKnown
<1>q. ASSUME crashes' \in {0, 1}, WholeAt(op[r])' PROVE WholeInv'
  BY <1>q DEF WholeInv
\* The command moves on and keeps its images.
<1>g. ASSUME NEW pc, op' = [op EXCEPT ![r].pc = pc]
      PROVE  /\ op'[r].pc = pc /\ op'[r].recovery = o.recovery
             /\ op'[r].rollback = o.rollback
  BY <1>0, <1>g DEF OpFields
<1>d. ASSUME op' = [op EXCEPT ![r] = Archive!Idle] PROVE op'[r].pc = "idle"
  BY <1>0, <1>d DEF Archive!Idle
<1> HIDE DEF o
<1>1. ASSUME UNCHANGED Archive!vars PROVE WholeInv'
  BY <1>1 DEF Archive!vars, WholeInv, WholeAt, Whole, Now
<1>2. ASSUME Archive!ImportBackup(r) PROVE WholeInv'
  <2>1. /\ o.pc = "idle" /\ journal = Archive!NoJournal
        /\ op' = [op EXCEPT ![r] = [Archive!Idle EXCEPT !.pc = "backed",
                                                        !.recovery = Archive!Databases]]
        /\ UNCHANGED <<ws, mm, journal, crashes>>
    BY <1>2 DEF Archive!ImportBackup, o
  <2>2. /\ op'[r].pc = "backed" /\ op'[r].recovery.ws = ws /\ op'[r].recovery.mm = mm
    BY <1>0, <2>1 DEF Archive!Idle, Archive!Databases
  <2> QED BY <1>0, <1>q, <2>1, <2>2 DEF WholeAt, Whole, Now
<1>3. ASSUME Archive!ImportJournal(r) PROVE WholeInv'
  <2>1. /\ o.pc = "backed" /\ op' = [op EXCEPT ![r].pc = "journalled"]
        /\ UNCHANGED <<ws, mm, crashes>> /\ journal' = [recovery |-> o.recovery]
    BY <1>3 DEF Archive!ImportJournal, Archive!Go, o
  <2>2. journal' # Archive!NoJournal /\ journal'.recovery = o.recovery
    BY <1>0, <2>1, ImageIsAJournal DEF OpKnown
  <2>3. op'[r].pc = "journalled"
    BY <1>g, <2>1
  <2> QED BY <1>0, <1>q, <2>1, <2>2, <2>3 DEF WholeAt, Whole, Now
<1>4. ASSUME Archive!ImportLock(r) PROVE WholeInv'
  <2>1. /\ o.pc = "journalled"
        /\ op' = [op EXCEPT ![r].pc = "locked", ![r].rollback = Archive!Databases]
        /\ UNCHANGED <<ws, mm, journal, crashes>>
    BY <1>4 DEF Archive!ImportLock, o
  <2>2. /\ op'[r].pc = "locked" /\ op'[r].rollback.ws = ws /\ op'[r].rollback.mm = mm
    BY <1>0, <2>1 DEF Archive!Databases, OpFields, o
  <2> QED BY <1>0, <1>q, <2>1, <2>2 DEF WholeAt, Whole, Now
<1>5. ASSUME Archive!AlreadyImported(r) \/ Archive!MergeDone(r) PROVE WholeInv'
  <2>1. /\ o.pc \in {"locked", "committed"} /\ op' = [op EXCEPT ![r].pc = "merged"]
        /\ UNCHANGED <<ws, mm, crashes>> /\ journal' = Archive!NoJournal
    BY <1>5 DEF Archive!AlreadyImported, Archive!MergeDone, Archive!Go, o
  <2>2. op'[r].pc = "merged"
    BY <1>g, <2>1
  <2> QED BY <1>0, <1>q, <2>1, <2>2 DEF WholeAt, Whole, Now
<1>6. ASSUME Archive!MergeCommitWorkspace(r) PROVE WholeInv'
  <2>1. /\ o.pc = "locked" /\ op' = [op EXCEPT ![r].pc = "half"]
        /\ ws'.imported = TRUE /\ UNCHANGED <<mm, journal, crashes>>
    BY <1>6 DEF Archive!MergeCommitWorkspace, Archive!Go, o
  <2>2. op'[r].pc = "half" /\ op'[r].rollback = o.rollback
    BY <1>g, <2>1
  <2> QED BY <1>0, <1>q, <2>1, <2>2 DEF WholeAt, Whole, Now
<1>7. ASSUME Archive!CommitMemory(r) PROVE WholeInv'
  <2>1. /\ o.pc = "half" /\ op' = [op EXCEPT ![r].pc = "committed"]
        /\ mm'.imported = TRUE /\ UNCHANGED <<ws, journal, crashes>>
    BY <1>7 DEF Archive!CommitMemory, Archive!Go, o
  <2>2. op'[r].pc = "committed"
    BY <1>g, <2>1
  <2> QED BY <1>0, <1>q, <2>1, <2>2 DEF WholeAt, Whole, Now
<1>8. ASSUME Archive!MergeFails(r) PROVE WholeInv'
  <2>1. /\ o.pc \in {"locked", "half"} /\ op' = [op EXCEPT ![r] = Archive!Idle]
        /\ ws' = o.rollback.ws /\ mm' = o.rollback.mm /\ UNCHANGED <<journal, crashes>>
    BY <1>8 DEF Archive!MergeFails, o
  <2> QED BY <1>0, <1>q, <1>d, <2>1 DEF WholeAt, Whole, Now
<1>9. ASSUME Archive!NextExtra(r) PROVE WholeInv'
  BY <1>9 DEF Archive!NextExtra, WholeInv, WholeAt, Whole, Now
<1>10. ASSUME Archive!ImportEnds(r) PROVE WholeInv'
  <2>1. /\ o.pc = "merged" /\ op' = [op EXCEPT ![r] = Archive!Idle]
        /\ UNCHANGED <<ws, mm, journal, crashes>>
    BY <1>10 DEF Archive!ImportEnds, o
  <2> QED BY <1>0, <1>q, <1>d, <2>1 DEF WholeAt, Whole, Now
<1>11. ASSUME NEW image, Whole(image), Archive!RestoreBegin(r, image) PROVE WholeInv'
  <2>1. /\ o.pc = "idle" /\ UNCHANGED <<ws, mm, journal, crashes>>
        /\ op' = [op EXCEPT ![r] = [Archive!Idle EXCEPT !.pc = "safe",
                                       !.recovery = Archive!Databases, !.rollback = image]]
    BY <1>11 DEF Archive!RestoreBegin, o
  <2>2. /\ op'[r].pc = "safe" /\ op'[r].rollback = image
        /\ op'[r].recovery.ws = ws /\ op'[r].recovery.mm = mm
    BY <1>0, <2>1 DEF Archive!Databases, Archive!Idle
  <2> QED BY <1>0, <1>q, <1>11, <2>1, <2>2 DEF WholeAt, Whole, Now
<1>12. ASSUME Archive!DoctorFix(r) \/ Archive!BackupRestore(r) PROVE WholeInv'
  <2>1. CASE Archive!DoctorFix(r)
    <3>1. journal # Archive!NoJournal /\ Archive!RestoreBegin(r, journal.recovery)
      BY <2>1 DEF Archive!DoctorFix
    <3>2. o.pc = "idle"
      BY <3>1 DEF Archive!RestoreBegin, o
    <3>3. Whole(journal.recovery)
      BY <1>0, <3>1, <3>2 DEF WholeAt
    <3> QED BY <1>11, <3>1, <3>3
  <2>2. CASE Archive!BackupRestore(r)
    BY <1>0, <1>11, <2>2 DEF Archive!BackupRestore, Origin, Whole
  <2> QED BY <1>12, <2>1, <2>2
<1>13. ASSUME Archive!RestoreJournal(r) PROVE WholeInv'
  <2>1. /\ o.pc = "safe" /\ op' = [op EXCEPT ![r].pc = "restoring"]
        /\ UNCHANGED <<ws, mm, crashes>> /\ journal' = [recovery |-> o.recovery]
    BY <1>13 DEF Archive!RestoreJournal, Archive!Go, o
  <2>2. journal' # Archive!NoJournal /\ journal'.recovery = o.recovery
    BY <1>0, <2>1, ImageIsAJournal DEF OpKnown
  <2>3. op'[r].pc = "restoring" /\ op'[r].rollback = o.rollback
    BY <1>g, <2>1
  <2> QED BY <1>0, <1>q, <2>1, <2>2, <2>3 DEF WholeAt, Whole, Now
<1>14. ASSUME Archive!RestoreWorkspace(r) PROVE WholeInv'
  <2>1. /\ o.pc = "restoring" /\ op' = [op EXCEPT ![r].pc = "replacing"]
        /\ ws' = o.rollback.ws /\ UNCHANGED <<mm, journal, crashes>>
    BY <1>14 DEF Archive!RestoreWorkspace, Archive!Go, o
  <2>2. op'[r].pc = "replacing" /\ op'[r].rollback = o.rollback
    BY <1>g, <2>1
  <2> QED BY <1>0, <1>q, <2>1, <2>2 DEF WholeAt, Whole, Now
<1>15. ASSUME Archive!RestoreMemory(r) PROVE WholeInv'
  <2>1. /\ o.pc = "replacing" /\ op' = [op EXCEPT ![r].pc = "restored"]
        /\ mm' = o.rollback.mm /\ UNCHANGED <<ws, journal, crashes>>
    BY <1>15 DEF Archive!RestoreMemory, Archive!Go, o
  <2>2. op'[r].pc = "restored"
    BY <1>g, <2>1
  <2> QED BY <1>0, <1>q, <2>1, <2>2 DEF WholeAt, Whole, Now
<1>16. ASSUME Archive!RestoreDone(r) PROVE WholeInv'
  <2>1. /\ o.pc = "restored" /\ op' = [op EXCEPT ![r] = Archive!Idle]
        /\ UNCHANGED <<ws, mm, crashes>> /\ journal' = Archive!NoJournal
    BY <1>16 DEF Archive!RestoreDone, o
  <2> QED BY <1>0, <1>q, <1>d, <2>1 DEF WholeAt, Whole, Now
<1>17. ASSUME Archive!Crash(r) PROVE WholeInv'
  <2>1. /\ o.pc # "idle" /\ op' = [op EXCEPT ![r] = Archive!Idle]
        /\ UNCHANGED <<ws, mm, journal>> /\ crashes < MaxCrashes /\ crashes' = crashes + 1
    BY <1>17 DEF Archive!Crash, o
  <2>2. crashes = 0 /\ crashes' = 1
    BY <1>0, <2>1
  <2>3. /\ op'[r].pc = "idle"
    BY <1>d, <2>1
  <2> QED BY <1>0, <1>q, <2>1, <2>2, <2>3 DEF WholeAt, Whole, Now
<1>18. [\/ Archive!ImportBackup(r) \/ Archive!ImportJournal(r) \/ Archive!ImportLock(r)
        \/ Archive!AlreadyImported(r) \/ Archive!MergeCommitWorkspace(r)
        \/ Archive!CommitMemory(r) \/ Archive!MergeFails(r) \/ Archive!MergeDone(r)
        \/ Archive!NextExtra(r) \/ Archive!ImportEnds(r) \/ Archive!DoctorFix(r)
        \/ Archive!BackupRestore(r) \/ Archive!RestoreJournal(r)
        \/ Archive!RestoreWorkspace(r) \/ Archive!RestoreMemory(r)
        \/ Archive!RestoreDone(r) \/ Archive!Crash(r)]_(Archive!vars)
  BY DEF Archive!Next
<1> QED BY <1>1, <1>2, <1>3, <1>4, <1>5, <1>6, <1>7, <1>8, <1>9, <1>10, <1>12, <1>13,
           <1>14, <1>15, <1>16, <1>17, <1>18

\* merge_archive and the restore of an image: with any number of commands and
\* crashes, the rows that were there are kept and the references hold.
LEMMA ArchiveKeepsRows ==
  Archive!Spec
    => [](ArchiveInv /\ Archive!LocalRowsKept /\ Archive!ImportRefersToItself)
<1>1. Archive!Init => ArchiveInv
  BY ArchiveBegins
<1>2. ArchiveInv /\ [Archive!Next]_(Archive!vars) => ArchiveInv'
  BY CommandsKeepArchive
<1>3. ArchiveInv => Archive!LocalRowsKept /\ Archive!ImportRefersToItself
  BY KnownKeepsRows
<1> QED BY <1>1, <1>2, <1>3, PTL DEF Archive!Spec

\* merge_archive, rewrite_deferred_references, rebind_imported_project_memories and
\* restore_backup: in Stores, whatever commands and crashes interleave, a row that
\* either database had keeps its content and status, only the step and the memory
\* the archive also has are redirected, and what the archive brought refers to its
\* own rows.
THEOREM ImportsKeepLocalRows ==
  Spec => [](focus = "archive" => Archive!LocalRowsKept /\ Archive!ImportRefersToItself)
<1>1. Init => Archive!Init \/ focus # "archive"
  BY DEF Init
<1>2. [Next]_vars => [Archive!Next]_(Archive!vars)
  BY DEF Next, vars, ArchiveVars, Archive!vars
<1>3. focus # "archive" /\ [Next]_vars => (focus # "archive")'
  BY DEF Next, vars
<1>4. (ArchiveInv /\ Archive!LocalRowsKept /\ Archive!ImportRefersToItself)
        \/ focus # "archive"
        => (focus = "archive" => Archive!LocalRowsKept /\ Archive!ImportRefersToItself)
  OBVIOUS
<1> QED BY <1>1, <1>2, <1>3, ArchiveKeepsRows, <1>4, PTL DEF Spec, Archive!Spec

\* import_archive with one command at a time and at most one crash: doctor --fix
\* finds a whole image in the journal, so both databases have the archive or
\* neither has.
LEMMA ArchiveSafe ==
  ASSUME NEW r, Importer = {r}, MaxCrashes \in {0, 1}
  PROVE  Archive!Spec => [](/\ Archive!ImportedTogether
                            /\ Archive!LocalRowsKept /\ Archive!ImportRefersToItself)
<1>1. Archive!Init => WholeInv
  <2> SUFFICES ASSUME Archive!Init PROVE WholeInv
    OBVIOUS
  <2>1. /\ ws.imported = FALSE /\ mm.imported = FALSE /\ crashes = 0
        /\ journal = Archive!NoJournal /\ op[r].pc = "idle"
    BY DEF Archive!Init, Archive!Idle
  <2> QED BY <2>1 DEF WholeInv, WholeAt, Whole, Now
<1>2. ArchiveInv /\ WholeInv /\ [Archive!Next]_(Archive!vars) => WholeInv'
  BY CommandsStayWhole
<1>3. WholeInv => Archive!ImportedTogether
  BY DEF WholeInv, WholeAt, Whole, Now, Archive!ImportedTogether
<1> QED BY <1>1, <1>2, <1>3, ArchiveKeepsRows, PTL DEF Archive!Spec

\* import_archive and doctor --fix: in Stores, with one command at a time and at
\* most one crash, an import reaches both databases or neither, keeps the rows they
\* had and leaves what it brought referring to itself.
THEOREM ImportsAreWhole ==
  ASSUME NEW r, Importer = {r}, MaxCrashes \in {0, 1}
  PROVE  Spec => []ImportSafe
<1>1. Init => Archive!Init \/ focus # "archive"
  BY DEF Init
<1>2. [Next]_vars => [Archive!Next]_(Archive!vars)
  BY DEF Next, vars, ArchiveVars, Archive!vars
<1>3. focus # "archive" /\ [Next]_vars => (focus # "archive")'
  BY DEF Next, vars
<1>4. (/\ Archive!ImportedTogether
       /\ Archive!LocalRowsKept /\ Archive!ImportRefersToItself) \/ focus # "archive"
        => ImportSafe
  BY DEF ImportSafe
<1> QED BY <1>1, <1>2, <1>3, ArchiveSafe, <1>4, PTL DEF Spec, Archive!Spec

=============================================================================
