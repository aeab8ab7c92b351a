-------------------------------- MODULE Mcp --------------------------------
(***************************************************************************)
(* The managed MCP connections, for one stdio server: connecting on demand *)
(* from any caller, tool calls under the connection's lock with one retry  *)
(* on a fresh connection for read-only tools, list-changed refreshes,      *)
(* explicit refresh, workspace switch, and the configuration behind it.    *)
(***************************************************************************)
EXTENDS Naturals, FiniteSets

CONSTANTS Call, Tool,   \* "resource" stands for reading an advertised resource
          Hints,       \* annotations a server may advertise: sets of read-only tools
          Configs,     \* allowed_tools a configuration may give
          MaxConn,     \* bound: connections opened
          MaxChanges   \* bound: changes of the server or its configuration

VARIABLES
    conf,      \* allowed tools of the configuration, {} when disabled
    hint,      \* tools the server declares read-only
    table,     \* _sessions: a connection number, 0 when none
    conn,      \* connections with the metadata of their last listing
    call,      \* tool calls
    ran,       \* ghost: how often the server executed each call
    changes

vars == <<conf, hint, table, conn, call, ran, changes>>

Conns == 1 .. MaxConn
NoConn == [st |-> "none", tools |-> {}, ro |-> {}, lock |-> {}]
Fresh == {n \in Conns : conn[n].st = "none" /\ \A m \in 1 .. n - 1 : conn[m].st # "none"}
NewCall == [pc |-> "idle", tool |-> "", on |-> 0, ro |-> FALSE, retry |-> FALSE,
            new |-> 0]

Init ==
    /\ conf \in Configs /\ hint \in Hints
    /\ table = 0
    /\ conn = [n \in Conns |-> NoConn]
    /\ call = [c \in Call |-> NewCall]
    /\ ran = [c \in Call |-> 0]
    /\ changes = 0

(* The locks of connections a call holds are left on every way out. *)
Release(k, c) == [n \in Conns |-> [k[n] EXCEPT !.lock = @ \ {c}]]
Closed(k, n) == IF n = 0 THEN k ELSE [k EXCEPT ![n].st = "closed"]

End(c, how) ==
    /\ call' = [call EXCEPT ![c].pc = how]
    /\ conn' = Release(conn, c)

(* _sessions.get, or _connect: it yields before it stores a connection, so *)
(* two callers may both connect.                                           *)
Use(c, n) ==
    call' = [call EXCEPT ![c].on = n, ![c].pc = IF call[c].retry THEN "want" ELSE "check"]

Connect(c, t) ==
    \/ /\ call[c].pc = "idle"
       /\ IF table # 0
          THEN call' = [call EXCEPT ![c] = [@ EXCEPT !.tool = t, !.on = table, !.pc = "check"]]
          ELSE call' = [call EXCEPT ![c] = [@ EXCEPT !.tool = t, !.pc = "connect"]]
       /\ UNCHANGED conn
    \/ /\ call[c].pc = "connect" /\ call[c].tool = t
       /\ IF table # 0 THEN Use(c, table) /\ UNCHANGED conn
          ELSE \E n \in Fresh :
                 /\ conn' = [conn EXCEPT ![n].st = "opening"]
                 /\ call' = [call EXCEPT ![c].pc = "opening", ![c].new = n]

ConnectCall(c, t) == Connect(c, t) /\ UNCHANGED <<conf, hint, table, ran, changes>>

(* initialize, list_tools and list_resources answered: the new connection  *)
(* replaces whatever is in the table.                                      *)
Listed(n) == [conn[n] EXCEPT !.st = "open", !.tools = conf, !.ro = hint]

Connected(c) ==
    /\ call[c].pc = "opening" /\ conf # {}
    /\ conn' = [conn EXCEPT ![call[c].new] = Listed(call[c].new)]
    /\ table' = call[c].new
    /\ Use(c, call[c].new)
    /\ UNCHANGED <<conf, hint, ran, changes>>

(* The registry, the process or the handshake fails; the stack is closed. *)
ConnectFails(c) ==
    /\ call[c].pc = "opening"
    /\ call' = [call EXCEPT ![c].pc = "failed"]
    /\ conn' = Release(Closed(conn, call[c].new), c)
    /\ UNCHANGED <<conf, hint, table, ran, changes>>

(* The tool is allowed on this connection; its annotation decides whether  *)
(* a failure may be retried.                                               *)
Check(c) ==
    /\ call[c].pc = "check" /\ call[c].tool # "resource"
    /\ IF call[c].tool \in conn[call[c].on].tools
       THEN /\ call' = [call EXCEPT ![c].pc = "want",
                          ![c].ro = call[c].tool \in conn[call[c].on].ro]
            /\ UNCHANGED conn
       ELSE End(c, "refused")
    /\ UNCHANGED <<conf, hint, table, ran, changes>>

(* read_resource: it only reads, so that every failure may be retried. *)
CheckResource(c) ==
    /\ call[c].pc = "check" /\ call[c].tool = "resource"
    /\ call' = [call EXCEPT ![c].pc = "want", ![c].ro = TRUE]
    /\ UNCHANGED <<conf, hint, table, conn, ran, changes>>

Lock(c) ==
    /\ call[c].pc = "want" /\ conn[call[c].on].lock = {}
    /\ conn' = [conn EXCEPT ![call[c].on].lock = {c}]
    /\ call' = [call EXCEPT ![c].pc = "send"]
    /\ UNCHANGED <<conf, hint, table, ran, changes>>

(* The request reaches the server, which executes it. *)
Execute(c) ==
    /\ call[c].pc = "send" /\ conn[call[c].on].st = "open"
    /\ ran' = [ran EXCEPT ![c] = @ + 1]
    /\ call' = [call EXCEPT ![c].pc = "sent"]
    /\ UNCHANGED <<conf, hint, table, conn, changes>>

Answered(c) ==
    /\ call[c].pc = "sent" /\ conn[call[c].on].st = "open"
    /\ End(c, "done")
    /\ UNCHANGED <<conf, hint, table, ran, changes>>

(* As a bug: any first failure is retried. *)
MayRetryAny(c) == ~call[c].retry

MayRetry(c) == call[c].ro /\ ~call[c].retry

(* A timeout, a lost or closed connection, before or after the server ran  *)
(* the call.  _reconnect pops the table's connection.                      *)
Fails(c) ==
    /\ call[c].pc \in {"send", "sent"}
    /\ IF MayRetry(c)
       THEN /\ conn' = Closed(conn, table)
            /\ table' = 0
            /\ call' = [call EXCEPT ![c].pc = "connect", ![c].retry = TRUE]
       ELSE End(c, "failed") /\ UNCHANGED table
    /\ UNCHANGED <<conf, hint, ran, changes>>

Cancel(c) ==
    /\ call[c].pc \in {"want", "send", "sent"}
    /\ End(c, "cancelled")
    /\ UNCHANGED <<conf, hint, table, ran, changes>>

(* list-changed: the metadata is read again under the lock. *)
RefreshMetadata ==
    /\ table # 0 /\ conn[table].lock = {} /\ conn[table].ro # hint
    /\ conn' = [conn EXCEPT ![table].ro = hint]
    /\ UNCHANGED <<conf, hint, table, call, ran, changes>>

(* refresh, switch_policy, close, and initialize on a changed entry: the   *)
(* connection is closed under its users.                                   *)
Disconnect ==
    /\ table # 0
    /\ conn' = Closed(conn, table)
    /\ table' = 0
    /\ UNCHANGED <<conf, hint, call, ran, changes>>

(* The user edits mcp.json (project or local layer). *)
Configure(s) ==
    /\ changes < MaxChanges /\ s # conf
    /\ conf' = s
    /\ changes' = changes + 1
    /\ UNCHANGED <<hint, table, conn, call, ran>>

(* The server advertises other annotations. *)
Advertise(h) ==
    /\ changes < MaxChanges /\ h # hint
    /\ hint' = h
    /\ changes' = changes + 1
    /\ UNCHANGED <<conf, table, conn, call, ran>>

Next ==
    \/ \E c \in Call :
         \/ \E t \in Tool : ConnectCall(c, t)
         \/ Connected(c) \/ ConnectFails(c) \/ Check(c) \/ CheckResource(c) \/ Lock(c) \/ Execute(c)
         \/ Answered(c) \/ Fails(c) \/ Cancel(c)
    \/ RefreshMetadata \/ Disconnect
    \/ \E s \in Configs : Configure(s)
    \/ \E h \in Hints : Advertise(h)

Spec == Init /\ [][Next]_vars

-----------------------------------------------------------------------------
(* "MCP stdio reconnects once only for calls that declare readOnlyHint;    *)
(* a write is not replayed" (docs/releases/v2.7.5.md:15): a call admitted  *)
(* as a write runs at most once, a read at most twice, whatever connection *)
(* was lost under it and by whom.                                          *)
NoReplay == \A c \in Call : ran[c] <= (IF call[c].ro THEN 2 ELSE 1)

(* A request is only sent on a connection that lists its tool as allowed.  *)
(* A retry does not look again (manager.py:171-176).                       *)
OnlyAllowed ==
    \A c \in Call : call[c].pc = "send" /\ call[c].tool # "resource" => call[c].tool \in conn[call[c].on].tools

(* A connection is in the table or in the hands of a call.  Two callers    *)
(* that connect at once leave one behind (manager.py:184, 240).            *)
NoStrayConnection ==
    \A n \in Conns : conn[n].st = "open" =>
        n = table \/ \E c \in Call : call[c].on = n /\ call[c].pc \in {"check", "want", "send", "sent"}
=============================================================================
