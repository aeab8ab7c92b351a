---------------------------- MODULE Application -----------------------------
(***************************************************************************)
(* Opening and closing applications in one process: the one a user works   *)
(* with, the next one after a change of session, and child applications    *)
(* that share the workspace with it (shared_read).  Every step of opening  *)
(* may raise or be cancelled, every step of closing too.                   *)
(***************************************************************************)
EXTENDS Naturals, FiniteSets, Sequences

CONSTANTS Main,    \* applications opened one after another
          Child    \* children's applications

App == Main \cup Child

VARIABLES
  pc,      \* [App -> where open or close is]
  stack,   \* [App -> the callbacks of the AsyncExitStack]
  held,    \* [App -> resources it has opened and not closed]
  todo,    \* [App -> components that close has still to close]
  refs,    \* references of the process's workspace lease
  drains,  \* applications whose memory jobs are being worked on
  faults   \* [App -> "raised" or "cancelled", when a step of it was]

vars == <<pc, stack, held, todo, refs, drains, faults>>

Init ==
  /\ pc = [a \in App |-> "none"] /\ stack = [a \in App |-> <<>>]
  /\ held = [a \in App |-> {}] /\ todo = [a \in App |-> <<>>]
  /\ refs = 0 /\ drains = {} /\ faults = [a \in App |-> {}]

Go(a, next) == pc' = [pc EXCEPT ![a] = next]
Fault(a, what) == faults' = [faults EXCEPT ![a] = @ \cup {what}]

\* A child uses its parent's model client and has no bridge to an editor.
Opened(a) ==
  IF a \in Main
  THEN <<"client", "workspace", "memory", "bridge", "plugins", "mcp", "lsp", "processes">>
  ELSE <<"workspace", "memory", "plugins", "mcp", "lsp", "processes">>
Components(a) ==
  IF a \in Main THEN <<"processes", "mcp", "lsp", "plugins", "bridge", "client">>
  ELSE <<"processes", "mcp", "lsp", "plugins">>
Databases == {"workspace", "memory"}

-----------------------------------------------------------------------------
(* open.                                                                   *)

Over(a) == pc[a] \in {"none", "over"}

Open(a) ==
  /\ pc[a] = "none"
  /\ IF a \in Main THEN \A m \in Main : Over(m) ELSE \E m \in Main : pc[m] = "open"
  /\ Go(a, "opening")
  /\ UNCHANGED <<stack, held, todo, refs, drains, faults>>

\* acquire_workspace_lease: only a child shares the lease of its process.
LeaseFree(a) == refs = 0 \/ a \in Child

PushedLate(s, r) == IF r = "workspace" THEN s ELSE Append(s, r)
Pushed(s, r) == Append(s, r)

\* The first n of the resources are open.
HasFirst(a, n) == \A i \in 1 .. n : Opened(a)[i] \in held[a]

Acquire(a) == \E n \in DOMAIN Opened(a) :
  LET r == Opened(a)[n] IN
  /\ pc[a] = "opening" /\ HasFirst(a, n - 1) /\ r \notin held[a]
  /\ r = "workspace" => LeaseFree(a)
  /\ held' = [held EXCEPT ![a] = @ \cup {r}]
  /\ stack' = [stack EXCEPT ![a] = Pushed(@, r)]
  /\ refs' = IF r = "workspace" THEN refs + 1 ELSE refs
  /\ UNCHANGED <<pc, todo, drains, faults>>

\* resources.pop_all(): from now on close is responsible.
Ready(a) ==
  /\ pc[a] = "opening" /\ HasFirst(a, Len(Opened(a)))
  /\ Go(a, "open") /\ stack' = [stack EXCEPT ![a] = <<>>]
  /\ UNCHANGED <<held, todo, refs, drains, faults>>

\* except Exception, at any await of open; a busy workspace is one.
OpenRaises(a) ==
  /\ pc[a] = "opening" /\ Go(a, "unwinding")
  /\ UNCHANGED <<stack, held, todo, refs, drains, faults>>

\* CancelledError is no Exception: the stack is dropped as it is.
OpenCancelled(a) ==
  /\ pc[a] = "opening" /\ Go(a, "over") /\ Fault(a, "cancelled")
  /\ stack' = [stack EXCEPT ![a] = <<>>]
  /\ UNCHANGED <<held, todo, refs, drains>>

Released(a, r) ==
  /\ held' = [held EXCEPT ![a] = @ \ {r}]
  /\ refs' = IF r = "workspace" THEN refs - 1 ELSE refs

\* aclose runs every callback, the last first, whatever one of them raises.
Unwind(a) ==
  /\ pc[a] = "unwinding" /\ stack[a] # <<>>
  /\ Released(a, stack[a][Len(stack[a])])
  /\ stack' = [stack EXCEPT ![a] = SubSeq(@, 1, Len(@) - 1)]
  /\ UNCHANGED <<pc, todo, drains, faults>>

Unwound(a) ==
  /\ pc[a] = "unwinding" /\ stack[a] = <<>> /\ Go(a, "over")
  /\ UNCHANGED <<stack, held, todo, refs, drains, faults>>

-----------------------------------------------------------------------------
(* Memory jobs of finished runs, and close.                                *)

Wake(a) ==
  /\ pc[a] = "open" /\ a \notin drains /\ drains' = drains \cup {a}
  /\ UNCHANGED <<pc, stack, held, todo, refs, faults>>

Drained(a) ==
  /\ a \in drains /\ drains' = drains \ {a}
  /\ UNCHANGED <<pc, stack, held, todo, refs, faults>>

Close(a) ==
  /\ pc[a] = "open" /\ Go(a, "closing")
  /\ todo' = [todo EXCEPT ![a] = Components(a)]
  /\ UNCHANGED <<stack, held, refs, drains, faults>>

CloseNext(a) ==
  /\ pc[a] = "closing" /\ todo[a] # <<>>
  /\ Released(a, Head(todo[a])) /\ todo' = [todo EXCEPT ![a] = Tail(@)]
  /\ UNCHANGED <<pc, stack, drains, faults>>

ComponentsClosed(a) ==
  /\ pc[a] = "closing" /\ todo[a] = <<>> /\ Go(a, "jobs")
  /\ UNCHANGED <<stack, held, todo, refs, drains, faults>>

\* One component raises or is cancelled: the rest is skipped, the databases
\* are closed in the finally clauses.
CloseRaisesAtOnce(a) ==
  /\ pc[a] = "closing" /\ todo[a] # <<>> /\ Go(a, "over")
  /\ Fault(a, "raised")
  /\ todo' = [todo EXCEPT ![a] = <<>>]
  /\ UNCHANGED <<stack, held, refs, drains>>

CloseRaises(a) ==
  /\ pc[a] = "closing" /\ todo[a] # <<>> /\ Go(a, "jobs")
  /\ Fault(a, "raised")
  /\ todo' = [todo EXCEPT ![a] = <<>>]
  /\ UNCHANGED <<stack, held, refs, drains>>

\* MemoryJobWorker.close: the tasks end or are cancelled.
CloseJobs(a) ==
  /\ pc[a] = "jobs" /\ drains' = drains \ {a} /\ Go(a, "workspace")
  /\ UNCHANGED <<stack, held, todo, refs, faults>>

\* A cancellation while it waits for them skips the workspace database.
CloseJobsCancelled(a) ==
  /\ pc[a] = "jobs" /\ a \in drains /\ Go(a, "memory") /\ Fault(a, "cancelled")
  /\ UNCHANGED <<stack, held, todo, refs, drains>>

\* The lease is released even when closing the connections raises.
CloseWorkspace(a) ==
  /\ pc[a] = "workspace" /\ Released(a, "workspace") /\ Go(a, "memory")
  /\ UNCHANGED <<stack, todo, drains, faults>>

CloseMemory(a) ==
  /\ pc[a] = "memory" /\ Released(a, "memory") /\ Go(a, "over")
  /\ UNCHANGED <<stack, todo, drains, faults>>

Next == \E a \in App :
  \/ Open(a) \/ Acquire(a) \/ Ready(a) \/ OpenRaises(a) \/ OpenCancelled(a)
  \/ Unwind(a) \/ Unwound(a) \/ Wake(a) \/ Drained(a)
  \/ Close(a) \/ CloseNext(a) \/ ComponentsClosed(a) \/ CloseRaises(a)
  \/ CloseJobs(a) \/ CloseJobsCancelled(a) \/ CloseWorkspace(a) \/ CloseMemory(a)

Spec == Init /\ [][Next]_vars

-----------------------------------------------------------------------------
(***************************************************************************)
(* An application that is over, and was not cancelled, has no database and *)
(* no job left, even when a component could not be closed, and nothing at  *)
(* all when none raised; jobs never outlive the memory database; and the   *)
(* lease has one reference for every application that has the workspace    *)
(* open, so that the last one to close frees it.                           *)
(* (WorkspaceApplication.open, close; build_integrations)                  *)
(***************************************************************************)
NothingLeftOpen ==
  /\ refs = Cardinality({a \in App : "workspace" \in held[a]})
  /\ \A a \in App : "cancelled" \notin faults[a] =>
       /\ a \in drains => "memory" \in held[a]
       /\ pc[a] = "over" => /\ held[a] \cap Databases = {}
                            /\ faults[a] = {} => held[a] = {}

(***************************************************************************)
(* "Serve newline-delimited JSON-RPC until EOF, then cancel and close      *)
(* everything": once every application is over the workspace is free.  A   *)
(* cancelled open, of a child whose task is stopped for example, refutes   *)
(* it.                                                                     *)
(* (app_server.serve_stdio, ChildAgentRunner._execute)                     *)
(***************************************************************************)
WorkspaceFreeAgain == (\A a \in App : Over(a)) => refs = 0
=============================================================================
