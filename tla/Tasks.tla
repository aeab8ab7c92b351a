------------------------------- MODULE Tasks --------------------------------
(***************************************************************************)
(* The session task list: tasks that block each other.  A call looks up    *)
(* the task first and changes it in a transaction of its own, so two calls *)
(* (of the run, a side question, another process) interleave between them. *)
(***************************************************************************)
EXTENDS Naturals, FiniteSets

CONSTANTS Task, Ses, Call, None,
          Statuses     \* the statuses a call may set

VARIABLES
  owner,    \* [Task -> session of the row, or None]
  deps,     \* [Task -> blocked_by_task_id rows]
  status,   \* [Task -> status]
  call      \* [Call -> an update_task under way]

vars == <<owner, deps, status, call>>

Init ==
  /\ owner = [t \in Task |-> None] /\ deps = [t \in Task |-> {}]
  /\ status = [t \in Task |-> "pending"] /\ call = [c \in Call |-> None]

InSession(s, D) == \A d \in D : owner[d] = s

\* A new identifier, so nothing can depend on it yet.
Create(t, s, D) ==
  /\ owner[t] = None /\ InSession(s, D)
  /\ owner' = [owner EXCEPT ![t] = s] /\ deps' = [deps EXCEPT ![t] = D]
  /\ status' = [status EXCEPT ![t] = "pending"]
  /\ UNCHANGED call

\* update: the task is looked up outside the transaction.
Look(c, t, s, D, st) ==
  /\ call[c] = None /\ owner[t] = s
  /\ call' = [call EXCEPT ![c] = [task |-> t, ses |-> s, deps |-> D, status |-> st]]
  /\ UNCHANGED <<owner, deps, status>>

\* WITH RECURSIVE reachable: every task d waits for, directly or not.
ReachableDirect(d) == deps[d]

Reachable(d) ==
  {t \in Task : \A S \in SUBSET Task :
     (deps[d] \subseteq S /\ \A u \in S : deps[u] \subseteq S) => t \in S}

Valid(t, s, D) ==
  /\ t \notin D /\ InSession(s, D)
  /\ \A d \in D : t \notin Reachable(d)

Accepted(u) ==
  /\ owner[u.task] = u.ses
  /\ u.deps # None => Valid(u.task, u.ses, u.deps)

\* The status, and the dependencies when they are given, or nothing at all.
Update(c) ==
  /\ call[c] # None
  /\ LET t == call[c].task D == call[c].deps IN
     \/ /\ Accepted(call[c])
        /\ status' = [status EXCEPT ![t] = call[c].status]
        /\ deps' = IF D = None THEN deps ELSE [deps EXCEPT ![t] = D]
     \/ /\ ~Accepted(call[c])
        /\ UNCHANGED <<status, deps>>
  /\ call' = [call EXCEPT ![c] = None]
  /\ UNCHANGED owner

\* Deleting the session, or replacing its list, deletes the rows and with them
\* every dependency that names them.
Delete(s) ==
  LET gone == {t \in Task : owner[t] = s} IN
  /\ gone # {}
  /\ owner' = [t \in Task |-> IF t \in gone THEN None ELSE owner[t]]
  /\ deps' = [t \in Task |-> IF t \in gone THEN {} ELSE deps[t] \ gone]
  /\ UNCHANGED <<status, call>>

Next ==
  \/ \E t \in Task, s \in Ses, D \in SUBSET Task : Create(t, s, D)
  \/ \E c \in Call, t \in Task, s \in Ses, D \in (SUBSET Task) \cup {None},
        st \in Statuses : Look(c, t, s, D, st)
  \/ \E c \in Call : Update(c)
  \/ \E s \in Ses : Delete(s)

Spec == Init /\ [][Next]_vars

-----------------------------------------------------------------------------
(***************************************************************************)
(* No task waits for itself through others, and none for a task of another *)
(* session, however two updates that were both valid when they were looked *)
(* up interleave: every set of waiting tasks has one that waits for none   *)
(* of them, so some task can always be started.                            *)
(* (TaskRepository.create, update, _validate_dependencies)                 *)
(***************************************************************************)
SomeTaskFree ==
  /\ \A t \in Task : InSession(owner[t], deps[t])
  /\ \A S \in SUBSET Task :
       S # {} => \E t \in S : deps[t] \cap S = {}
=============================================================================
