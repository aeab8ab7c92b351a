------------------------------ MODULE Worktree ------------------------------
(***************************************************************************)
(* A session's Git worktrees and its background shell jobs: creating and   *)
(* leaving a worktree are actions that wait for an approval and run in     *)
(* several separate steps, while the user works in the tree, a side        *)
(* question starts jobs, git fails or the process dies.                    *)
(***************************************************************************)
EXTENDS Naturals, FiniteSets

CONSTANTS Wt,          \* worktrees the session may create
          Job,         \* background shell jobs
          Control,     \* the workspace itself
          MaxPerSession,
          MaxWork      \* pieces of work done in the trees

VARIABLES
  scope,    \* the root the session works in
  row,      \* [Wt -> status in session_worktrees, or "none"]
  active,   \* worktrees whose row has active=1
  tree,     \* [Wt -> "absent", or the uncommitted state of the directory]
  branch,   \* [Wt -> "absent", or whether its commits are merged]
  job,      \* [Job -> root the job runs in, or "none"]
  op,       \* the pending or running worktree action
  work,     \* pieces of work done
  raced,    \* something changed while the action was executing
  wasted    \* worktrees that lost work nobody agreed to discard

vars == <<scope, row, active, tree, branch, job, op, work, raced, wasted>>

NoOp == [pc |-> "none", kind |-> "none", wt |-> Control, discard |-> FALSE]

Init ==
  /\ scope = Control /\ active = {} /\ op = NoOp /\ work = 0
  /\ row = [w \in Wt |-> "none"]
  /\ tree = [w \in Wt |-> "absent"] /\ branch = [w \in Wt |-> "absent"]
  /\ job = [j \in Job |-> "none"]
  /\ raced = FALSE /\ wasted = {}

Executing == op.pc \notin {"none", "pending"}

-----------------------------------------------------------------------------
(* What goes on beside the action.                                         *)

Edit(w) ==
  /\ work < MaxWork /\ tree[w] # "absent" /\ tree' = [tree EXCEPT ![w] = "dirty"]
  /\ work' = work + 1 /\ raced' = (raced \/ Executing)
  /\ UNCHANGED <<scope, row, active, branch, job, op, wasted>>

Commit(w) ==
  /\ work < MaxWork /\ tree[w] # "absent" /\ branch[w] # "absent"
  /\ tree' = [tree EXCEPT ![w] = "clean"]
  /\ branch' = [branch EXCEPT ![w] = "unmerged"]
  /\ work' = work + 1 /\ raced' = (raced \/ Executing)
  /\ UNCHANGED <<scope, row, active, job, op, wasted>>

\* SessionProcessManager.start, for a run or a /btw side question.
StartJob(j) ==
  /\ job[j] = "none" /\ job' = [job EXCEPT ![j] = scope]
  /\ raced' = (raced \/ Executing)
  /\ UNCHANGED <<scope, row, active, tree, branch, op, work, wasted>>

\* The process exits, or process_stop sends SIGTERM and then SIGKILL.
EndJob(j) ==
  /\ job[j] \notin {"none", "ended"} /\ job' = [job EXCEPT ![j] = "ended"]
  /\ UNCHANGED <<scope, row, active, tree, branch, op, work, raced, wasted>>

-----------------------------------------------------------------------------
(* Proposing, and the decision, which may come much later.                 *)

HasActiveJob == \E j \in Job : job[j] \notin {"none", "ended"}

PreflightActions == TRUE
Preflight == ~HasActiveJob

Started(kind, w, discard) ==
  op' = [pc |-> "pending", kind |-> kind, wt |-> w, discard |-> discard]

ProposeCreate(w) ==
  /\ op = NoOp /\ Preflight
  /\ row[w] = "none" /\ tree[w] = "absent" /\ branch[w] = "absent"
  /\ Cardinality({v \in Wt : row[v] \notin {"none", "removed"}}) < MaxPerSession
  /\ Started("create", w, FALSE)
  /\ UNCHANGED <<scope, row, active, tree, branch, job, work, raced, wasted>>

Changed(w) == tree[w] = "dirty" \/ branch[w] = "unmerged"

\* git status and git log fail when the directory is gone.
ProposeExit(kind, discard) ==
  /\ op = NoOp /\ Preflight
  /\ \E w \in active :
       /\ tree[w] # "absent"
       /\ kind = "remove" => (discard \/ ~Changed(w))
       /\ Started(kind, w, discard)
  /\ UNCHANGED <<scope, row, active, tree, branch, job, work, raced, wasted>>

Reject ==
  /\ op.pc = "pending" /\ op' = NoOp
  /\ UNCHANGED <<scope, row, active, tree, branch, job, work, raced, wasted>>

At(pc) == op' = [op EXCEPT !.pc = pc]

\* The handler looks at the jobs again, not at the tree.
Approve ==
  /\ op.pc = "pending"
  /\ \/ ~Preflight /\ op' = NoOp
     \/ Preflight /\ At(IF op.kind = "create" THEN "add" ELSE "leave")
  /\ raced' = FALSE
  /\ UNCHANGED <<scope, row, active, tree, branch, job, work, wasted>>

-----------------------------------------------------------------------------
(* Executing.                                                              *)

GitAdd ==
  /\ op.pc = "add"
  /\ tree' = [tree EXCEPT ![op.wt] = "clean"]
  /\ branch' = [branch EXCEPT ![op.wt] = "merged"]
  /\ At("deactivate")
  /\ UNCHANGED <<scope, row, active, job, work, raced, wasted>>

Deactivate ==
  /\ op.pc = "deactivate" /\ active' = {} /\ At("insert")
  /\ UNCHANGED <<scope, row, tree, branch, job, work, raced, wasted>>

InsertRow ==
  /\ op.pc = "insert"
  /\ row' = [row EXCEPT ![op.wt] = "active"] /\ active' = {op.wt}
  /\ At("switch")
  /\ UNCHANGED <<scope, tree, branch, job, work, raced, wasted>>

Switch ==
  /\ op.pc = "switch" /\ scope' = op.wt /\ op' = NoOp
  /\ UNCHANGED <<row, active, tree, branch, job, work, raced, wasted>>

\* An exit first switches to the workspace itself; the queries of the preflight
\* and the listeners of the switch come before that.
LeaveTree ==
  /\ op.pc = "leave" /\ scope' = Control
  /\ At(IF op.kind = "remove" THEN "remove" ELSE "close")
  /\ UNCHANGED <<row, active, tree, branch, job, work, raced, wasted>>

Agreed == op.discard \/ raced

\* Without --force git refuses a tree with uncommitted files.
GitRemove ==
  /\ op.pc = "remove" /\ (tree[op.wt] = "dirty" => op.discard)
  /\ tree' = [tree EXCEPT ![op.wt] = "absent"] /\ At("branch")
  /\ UNCHANGED <<scope, row, active, branch, job, work, raced, wasted>>

\* git branch -D never refuses commits.
GitDeleteBranch ==
  /\ op.pc = "branch"
  /\ wasted' = IF branch[op.wt] = "unmerged" /\ ~Agreed
               THEN wasted \cup {op.wt} ELSE wasted
  /\ branch' = [branch EXCEPT ![op.wt] = "absent"] /\ At("close")
  /\ UNCHANGED <<scope, row, active, tree, job, work, raced>>

CloseRow ==
  /\ op.pc = "close"
  /\ row' = [row EXCEPT ![op.wt] = IF op.kind = "remove" THEN "removed" ELSE "kept"]
  /\ active' = active \ {op.wt} /\ op' = NoOp
  /\ UNCHANGED <<scope, tree, branch, job, work, raced, wasted>>

\* git or the database refuses a step: the action fails where it stands.
Fail ==
  /\ Executing /\ op' = NoOp
  /\ UNCHANGED <<scope, row, active, tree, branch, job, work, raced, wasted>>

\* A new process: its manager knows no job, an active row is entered again when
\* its directory is there, and marked invalid when it is not.
Restart ==
  /\ op' = IF op.pc = "pending" THEN op ELSE NoOp
  /\ scope' = IF \E w \in active : tree[w] # "absent"
              THEN CHOOSE w \in active : TRUE ELSE Control
  /\ active' = {w \in active : tree[w] # "absent"}
  /\ row' = [w \in Wt |-> IF w \in active \ active' THEN "invalid" ELSE row[w]]
  /\ job' = [j \in Job |-> IF job[j] = "none" THEN "none" ELSE "ended"]
  /\ UNCHANGED <<tree, branch, work, raced, wasted>>

-----------------------------------------------------------------------------
Next ==
  \/ \E w \in Wt : Edit(w)
  \/ \E w \in Wt : Commit(w)
  \/ \E j \in Job : StartJob(j)
  \/ \E j \in Job : EndJob(j)
  \/ \E w \in Wt : ProposeCreate(w)
  \/ \E k \in {"keep", "remove"}, d \in BOOLEAN : ProposeExit(k, d)
  \/ Reject
  \/ Approve
  \/ GitAdd
  \/ Deactivate
  \/ InsertRow
  \/ Switch
  \/ LeaveTree
  \/ GitRemove
  \/ GitDeleteBranch
  \/ CloseRow
  \/ Fail
  \/ Restart

Spec == Init /\ [][Next]_vars

-----------------------------------------------------------------------------
(***************************************************************************)
(* Whatever fails or restarts, the session never works in, and no running  *)
(* background job stands in, a directory that was removed, unless the job  *)
(* was started while the removal ran.  (worktrees.py: the session leaves   *)
(* the tree before git removes it, and preflights its jobs)                *)
(***************************************************************************)
StandsOnGround ==
  /\ scope # Control => tree[scope] # "absent"
  /\ \A j \in Job : job[j] \in Wt => (tree[job[j]] # "absent" \/ raced)

(***************************************************************************)
(* "With changes, discard_changes=true is required": removing a worktree   *)
(* discards uncommitted files or unmerged commits only when the approved   *)
(* request said so.  (docs/sessions/v2.3.0.md)                             *)
(***************************************************************************)
NothingWasted == wasted = {}
=============================================================================
