------------------------------- MODULE Shell --------------------------------
(***************************************************************************)
(* Commands: the sandbox and the temporary directory a shell command runs  *)
(* in, a template command of a plugin or a child Agent that runs without   *)
(* either, the process in the foreground (timeout, cancellation) or in the *)
(* background (poll, stop, close).                                         *)
(***************************************************************************)
EXTENDS Naturals, FiniteSets

CONSTANT Cmd

VARIABLES
  cmd,      \* [Cmd -> what was decided and how far execute has come]
  proc,     \* [Cmd -> the process group: none, alive or dead]
  temp,     \* commands whose temporary directory exists
  jobs,     \* commands the process manager holds as background jobs
  closed,   \* the process manager was closed
  adrift    \* history: commands whose stop was cut off and will not be repeated

vars == <<cmd, proc, temp, jobs, closed, adrift>>

NewCmd == [pc |-> "new", shell |-> FALSE, background |-> FALSE]

Init ==
  /\ cmd = [k \in Cmd |-> NewCmd] /\ proc = [k \in Cmd |-> "none"]
  /\ temp = {} /\ jobs = {} /\ closed = FALSE /\ adrift = {}

Go(k, pc) == cmd' = [cmd EXCEPT ![k].pc = pc]

-----------------------------------------------------------------------------
(* Deciding.  assess_shell refuses a command, the permission mode or a     *)
(* rule lets it through, or somebody is asked.  A template is no shell     *)
(* command, and never in the background.                                   *)

Propose(k, shell, background, pc) ==
  /\ cmd[k].pc = "new" /\ ~closed /\ (background => shell)
  /\ cmd' = [cmd EXCEPT ![k] = [pc |-> pc, shell |-> shell, background |-> background]]
  /\ UNCHANGED <<proc, temp, jobs, closed>>

Decide(k, approved) ==
  /\ cmd[k].pc = "pending" /\ Go(k, IF approved THEN "approved" ELSE "refused")
  /\ UNCHANGED <<proc, temp, jobs, closed>>

-----------------------------------------------------------------------------
(* execute.                                                                *)

\* No backend, no sandbox, no shell command: it does not fall back to the host.
NoSandbox(k) ==
  /\ cmd[k].pc = "approved" /\ cmd[k].shell /\ Go(k, "failed")
  /\ UNCHANGED <<proc, temp, jobs, closed>>

\* A template's argv is taken as it is, with no sandbox and no directory.
Build(k) ==
  /\ cmd[k].pc = "approved" /\ ~closed /\ Go(k, "built")
  /\ temp' = IF cmd[k].shell THEN temp \cup {k} ELSE temp
  /\ UNCHANGED <<proc, jobs, closed>>

Spawn(k) ==
  /\ cmd[k].pc = "built"
  /\ proc' = [proc EXCEPT ![k] = "alive"]
  /\ IF cmd[k].background
     THEN jobs' = jobs \cup {k} /\ Go(k, "done")
     ELSE Go(k, "wait") /\ UNCHANGED jobs
  /\ UNCHANGED <<temp, closed>>

Leave(k, pc) == Go(k, pc) /\ temp' = temp \ {k}

SpawnFails(k) ==
  /\ cmd[k].pc = "built" /\ Leave(k, "failed")
  /\ UNCHANGED <<proc, jobs, closed>>

\* The process ends by itself or of SIGTERM; a stubborn one ignores SIGTERM.
Exit(k) ==
  /\ proc[k] = "alive" /\ proc' = [proc EXCEPT ![k] = "dead"]
  /\ UNCHANGED <<cmd, temp, jobs, closed>>

\* stop_process: SIGTERM, two seconds, SIGKILL.
Kill(k) ==
  /\ proc[k] = "alive"
  /\ cmd[k].pc \in {"timeout", "cancel"} \/ (k \in jobs /\ cmd[k].pc = "stop")
  /\ proc' = [proc EXCEPT ![k] = "dead"]
  /\ UNCHANGED <<cmd, temp, jobs, closed>>

Collect(k) ==
  /\ cmd[k].pc = "wait" /\ proc[k] = "dead" /\ Leave(k, "done")
  /\ UNCHANGED <<proc, jobs, closed>>

Timeout(k) ==
  /\ cmd[k].pc = "wait" /\ Go(k, "timeout")
  /\ UNCHANGED <<proc, temp, jobs, closed>>

\* The clean-up is a task of its own, awaited through any further cancellation.
CancelAtOnce(k) ==
  /\ cmd[k].pc = "wait" /\ Leave(k, "cancelled")
  /\ UNCHANGED <<proc, jobs, closed>>

Cancel(k) ==
  /\ cmd[k].pc = "wait" /\ Go(k, "cancel")
  /\ UNCHANGED <<proc, temp, jobs, closed>>

\* The stop after a timeout is awaited directly: a cancellation ends it before
\* SIGKILL, `finally` runs, and nobody knows of the process any more.
CancelInGrace(k) ==
  /\ cmd[k].pc = "timeout" /\ Leave(k, "cancelled")
  /\ adrift' = adrift \cup {k}
  /\ UNCHANGED <<proc, jobs, closed>>

Stopped(k) ==
  /\ cmd[k].pc \in {"timeout", "cancel"} /\ proc[k] = "dead"
  /\ Leave(k, IF cmd[k].pc = "cancel" THEN "cancelled" ELSE "done")
  /\ UNCHANGED <<proc, jobs, closed>>

-----------------------------------------------------------------------------
(* Background jobs.                                                        *)

\* process_stop by the model, or close for every job that still runs.
Stop(k) ==
  /\ k \in jobs /\ proc[k] = "alive" /\ Go(k, "stop")
  /\ UNCHANGED <<proc, temp, jobs, closed>>

\* The call of process_stop is cancelled in between: the job can be stopped again.
StopCancelled(k) ==
  /\ k \in jobs /\ cmd[k].pc = "stop" /\ Go(k, "done")
  /\ UNCHANGED <<proc, temp, jobs, closed>>

\* _cleanup waits for the process.
Cleanup(k) ==
  /\ k \in jobs /\ proc[k] = "dead" /\ k \in temp /\ temp' = temp \ {k}
  /\ UNCHANGED <<cmd, proc, jobs, closed>>

\* The runs of the session have ended before the manager is closed.
Close ==
  /\ ~closed
  /\ \A k \in Cmd : cmd[k].pc \in {"new", "pending", "refused", "failed", "done",
                                   "cancelled", "stop"}
  /\ \A k \in jobs : proc[k] = "dead" /\ k \notin temp
  /\ closed' = TRUE
  /\ UNCHANGED <<cmd, proc, temp, jobs>>

-----------------------------------------------------------------------------
Next ==
  \/ /\ \/ \E k \in Cmd, s, b \in BOOLEAN, pc \in {"refused", "approved", "pending"} :
             Propose(k, s, b, pc)
        \/ \E k \in Cmd, a \in BOOLEAN : Decide(k, a)
        \/ \E k \in Cmd :
             \/ NoSandbox(k) \/ Build(k) \/ Spawn(k) \/ SpawnFails(k) \/ Exit(k)
             \/ Kill(k) \/ Collect(k) \/ Timeout(k) \/ Cancel(k) \/ Stopped(k)
             \/ Stop(k) \/ StopCancelled(k) \/ Cleanup(k)
        \/ Close
     /\ UNCHANGED adrift
  \/ \E k \in Cmd : CancelInGrace(k)

Spec == Init /\ [][Next]_vars

-----------------------------------------------------------------------------
(***************************************************************************)
(* Every running process has somebody who will stop it: the action that    *)
(* waits for it, or the manager it is a job of, and after the manager was  *)
(* closed none runs; a shell command keeps its temporary directory as long *)
(* as it runs.  The one exception is a command whose run was cancelled in  *)
(* the two seconds between SIGTERM and SIGKILL after its time-out.         *)
(* (CommandActionHandler.execute, SessionProcessManager, stop_process)     *)
(***************************************************************************)
CommandsContained ==
  \A k \in Cmd \ adrift :
    proc[k] = "alive" =>
      /\ ~closed /\ (cmd[k].shell => k \in temp)
      /\ k \in jobs \/ cmd[k].pc \in {"wait", "timeout", "cancel"}
=============================================================================
