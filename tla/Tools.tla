------------------------------- MODULE Tools --------------------------------
(***************************************************************************)
(* What tools start outside the program: published artifacts and file      *)
(* actions, plugin processes and their registry, MCP and language servers, *)
(* worktrees, shell commands and the application that owns them.  As in    *)
(* Stores, the components share no state; focus names the one a behaviour  *)
(* is of.                                                                  *)
(***************************************************************************)
EXTENDS Naturals, FiniteSets

CONSTANTS
  Focus,                                   \* the components to look at
  Path, Child, Act, Txt, Absent, Allowed, MaxEdits,              \* Publish
  Call, MaxProc, Grant, Asked,                                   \* PluginPool
  McpCall, Tool, Hints, Configs, MaxConn, MaxChanges,            \* Mcp
  Req, Change, MaxStarts, MaxTextEdits,                          \* Lsp
  Ws, Ver, Digest, Resident, None, MaxOps,                                 \* PluginGrants
  Wt, Job, Control, MaxPerSession, MaxWork,                      \* Worktree
  Cmd,                                                           \* Shell
  Main                                                           \* Application

\* The workspace itself is no worktree, and neither are the marks of a job that
\* stands nowhere.
ASSUME ToolsAssumption == Wt \cap {Control, "none", "ended"} = {}

VARIABLES
  focus,  \* the component that runs
  parent, by, child, pub, act, aside, lost, stands, edits,
  table, pool, proc, call, used,
  conf, hint, mcpTable, conn, mcpCall, mcpRan, changes,
  srv, starting, req, chg, text, starts,
  disk, reg, grant, regOp, regAct, sess, ops,
  scope, row, active, tree, branch, job, op, work, raced, wasted,
  cmd, cmdProc, temp, jobs, closed, adrift,
  pc, stack, held, todo, refs, drains, faults

Publish == INSTANCE Publish
Pool == INSTANCE PluginPool
Mcp == INSTANCE Mcp WITH
  table <- mcpTable, call <- mcpCall, ran <- mcpRan, Call <- McpCall
Lsp == INSTANCE Lsp WITH
  MaxEdits <- MaxTextEdits
Registry == INSTANCE PluginGrants WITH
  op <- regOp, act <- regAct
Worktree == INSTANCE Worktree
Shell == INSTANCE Shell WITH
  proc <- cmdProc
Application == INSTANCE Application

PublishVars == <<parent, by, child, pub, act, aside, lost, stands, edits>>
PoolVars == <<table, pool, proc, call, used>>
McpVars == <<conf, hint, mcpTable, conn, mcpCall, mcpRan, changes>>
LspVars == <<srv, starting, req, chg, text, starts>>
RegistryVars == <<disk, reg, grant, regOp, regAct, sess, ops>>
WorktreeVars == <<scope, row, active, tree, branch, job, op, work, raced,
                  wasted>>
ShellVars == <<cmd, cmdProc, temp, jobs, closed, adrift>>
ApplicationVars == <<pc, stack, held, todo, refs, drains, faults>>

\* The variables of a component that does not run stay 0.
PublishOff ==
  /\ parent = 0 /\ by = 0 /\ child = 0 /\ pub = 0 /\ act = 0 /\ aside = 0
  /\ lost = 0 /\ stands = 0 /\ edits = 0
PoolOff ==
  table = 0 /\ pool = 0 /\ proc = 0 /\ call = 0 /\ used = 0
McpOff ==
  /\ conf = 0 /\ hint = 0 /\ mcpTable = 0 /\ conn = 0 /\ mcpCall = 0
  /\ mcpRan = 0 /\ changes = 0
LspOff ==
  srv = 0 /\ starting = 0 /\ req = 0 /\ chg = 0 /\ text = 0 /\ starts = 0
RegistryOff ==
  /\ disk = 0 /\ reg = 0 /\ grant = 0 /\ regOp = 0 /\ regAct = 0 /\ sess = 0
  /\ ops = 0
WorktreeOff ==
  /\ scope = 0 /\ row = 0 /\ active = 0 /\ tree = 0 /\ branch = 0 /\ job = 0
  /\ op = 0 /\ work = 0 /\ raced = 0 /\ wasted = 0
ShellOff ==
  /\ cmd = 0 /\ cmdProc = 0 /\ temp = 0 /\ jobs = 0 /\ closed = 0
  /\ adrift = 0
ApplicationOff ==
  /\ pc = 0 /\ stack = 0 /\ held = 0 /\ todo = 0 /\ refs = 0 /\ drains = 0
  /\ faults = 0

Init ==
  /\ focus \in Focus
  /\ IF focus = "publish" THEN Publish!Init ELSE PublishOff
  /\ IF focus = "plugins" THEN Pool!Init ELSE PoolOff
  /\ IF focus = "mcp" THEN Mcp!Init ELSE McpOff
  /\ IF focus = "lsp" THEN Lsp!Init ELSE LspOff
  /\ IF focus = "registry" THEN Registry!Init ELSE RegistryOff
  /\ IF focus = "worktree" THEN Worktree!Init ELSE WorktreeOff
  /\ IF focus = "shell" THEN Shell!Init ELSE ShellOff
  /\ IF focus = "application" THEN Application!Init ELSE ApplicationOff

Next ==
  \/ /\ focus = "publish" /\ Publish!Next
     /\ UNCHANGED <<focus, PoolVars, McpVars, LspVars, RegistryVars,
                    WorktreeVars, ShellVars, ApplicationVars>>
  \/ /\ focus = "plugins" /\ Pool!Next
     /\ UNCHANGED <<focus, PublishVars, McpVars, LspVars, RegistryVars,
                    WorktreeVars, ShellVars, ApplicationVars>>
  \/ /\ focus = "mcp" /\ Mcp!Next
     /\ UNCHANGED <<focus, PublishVars, PoolVars, LspVars, RegistryVars,
                    WorktreeVars, ShellVars, ApplicationVars>>
  \/ /\ focus = "lsp" /\ Lsp!Next
     /\ UNCHANGED <<focus, PublishVars, PoolVars, McpVars, RegistryVars,
                    WorktreeVars, ShellVars, ApplicationVars>>
  \/ /\ focus = "registry" /\ Registry!Next
     /\ UNCHANGED <<focus, PublishVars, PoolVars, McpVars, LspVars,
                    WorktreeVars, ShellVars, ApplicationVars>>
  \/ /\ focus = "worktree" /\ Worktree!Next
     /\ UNCHANGED <<focus, PublishVars, PoolVars, McpVars, LspVars,
                    RegistryVars, ShellVars, ApplicationVars>>
  \/ /\ focus = "shell" /\ Shell!Next
     /\ UNCHANGED <<focus, PublishVars, PoolVars, McpVars, LspVars,
                    RegistryVars, WorktreeVars, ApplicationVars>>
  \/ /\ focus = "application" /\ Application!Next
     /\ UNCHANGED <<focus, PublishVars, PoolVars, McpVars, LspVars,
                    RegistryVars, WorktreeVars, ShellVars>>

vars == <<focus, PublishVars, PoolVars, McpVars, LspVars, RegistryVars,
          WorktreeVars, ShellVars, ApplicationVars>>

Spec == Init /\ [][Next]_vars

-----------------------------------------------------------------------------
(***************************************************************************)
(* Properties.  Each is stated, with the code it is about, in the module   *)
(* of the component.                                                       *)
(***************************************************************************)

\* Publications, their rollbacks and file actions never overwrite a managed write
\* since they looked at the file, and a publication that fails puts back what it
\* replaced or names it and keeps the original beside it.
PublishHolds == focus = "publish" => Publish!PublishHolds

\* A caller gets the reply to its own request, from a plugin process and from a
\* language server, through timeouts, restarts and late answers.
OwnReply ==
  /\ focus = "plugins" => Pool!OwnReply
  /\ focus = "lsp" => Lsp!OwnAnswer

\* A tool that may have run is not called again after a lost connection.
NoReplay == focus = "mcp" => Mcp!NoReplay

\* What runs as a plugin is the package that was approved and is enabled, unless
\* it changed on disk behind the last comparison.
RunsWhatWasEnabled == focus = "registry" => Registry!RunsWhatWasEnabled

\* Sessions and their background commands stand in a directory that exists.
StandsOnGround == focus = "worktree" => Worktree!StandsOnGround

\* No command outlives its call unseen, but for one whose stop was cut off, and
\* an application that is over has nothing open, whatever step of opening or
\* closing it raised.
NothingLeftOpen ==
  /\ focus = "shell" => Shell!CommandsContained
  /\ focus = "application" => Application!NothingLeftOpen
=============================================================================
