----------------------------- MODULE PluginPool -----------------------------
(***************************************************************************)
(* The plugin client's pool of session processes, for one plugin digest.   *)
(* A call takes the session from the table, waits for that session's lock, *)
(* looks whether its process is still good, and exchanges one request and  *)
(* its reply on the process's pipes.  Whoever finds the session bad, fails *)
(* or is cancelled pops the table's session, which need not be the one it  *)
(* holds the lock of, terminates it and starts another.                    *)
(***************************************************************************)
EXTENDS Naturals, Sequences, FiniteSets

CONSTANTS Call,
          MaxProc,     \* bound: plugin processes started
          Grant,       \* capabilities of the workspace grant
          Asked        \* capabilities plugins ask for

VARIABLES
    table,     \* the pooled session: a process number, 0 when none
    pool,      \* who holds _session_lock
    proc,      \* processes by number
    call,      \* plugin calls
    used       \* capabilities the host exercised for plugins

vars == <<table, pool, proc, call, used>>

Procs == 1 .. MaxProc
NoProc == [st |-> "none", lock |-> {}, in |-> <<>>, out |-> <<>>, reader |-> {}]
Fresh == {n \in Procs : proc[n].st = "none" /\ \A m \in 1 .. n - 1 : proc[m].st # "none"}
NewCall == [pc |-> "idle", sess |-> 0, lk |-> 0, victim |-> 0, got |-> {}]

Init ==
    /\ table = 0 /\ pool = {}
    /\ proc = [n \in Procs |-> NoProc]
    /\ call = [c \in Call |-> NewCall]
    /\ used = {}

(* Leaving `async with session.lock`. *)
Unlock(p, c) == [n \in Procs |-> [p[n] EXCEPT !.lock = @ \ {c}, !.reader = @ \ {c}]]
Killed(p, n) == IF n = 0 THEN p ELSE [p EXCEPT ![n].st = "dead", ![n].in = <<>>]

Start(c) ==
    /\ call[c].pc = "idle"
    /\ call' = [call EXCEPT ![c].pc = "get"]
    /\ UNCHANGED <<table, pool, proc, used>>

(* With the session in hand a new call waits for its lock; one that holds  *)
(* a lock already goes on under that lock.                                 *)
Has(c, n) ==
    call' = [call EXCEPT ![c].sess = n,
                         ![c].pc = IF call[c].lk = 0 THEN "want" ELSE "send"]

GetSession(c) ==
    /\ call[c].pc = "get" /\ pool = {}
    /\ IF table # 0 THEN Has(c, table) /\ UNCHANGED <<pool, proc>>
       ELSE \E n \in Fresh :
              /\ pool' = {c}
              /\ proc' = [proc EXCEPT ![n].st = "starting"]
              /\ call' = [call EXCEPT ![c].pc = "spawn", ![c].victim = n]
    /\ UNCHANGED <<table, used>>

Spawned(c) ==
    /\ call[c].pc = "spawn"
    /\ proc' = [proc EXCEPT ![call[c].victim].st = "live"]
    /\ table' = call[c].victim
    /\ pool' = {}
    /\ Has(c, call[c].victim)
    /\ UNCHANGED used

End(c, how) ==
    call' = [call EXCEPT ![c] = [@ EXCEPT !.pc = how, !.lk = 0, !.victim = 0]]

(* An error terminates the process; a cancellation is no Exception, so the *)
(* process keeps running and nobody knows it.                              *)
SpawnFails(c) ==
    /\ call[c].pc = "spawn"
    /\ \/ proc' = Unlock(Killed(proc, call[c].victim), c) /\ End(c, "failed")
       \/ proc' = Unlock([proc EXCEPT ![call[c].victim].st = "stray"], c)
          /\ End(c, "cancelled")
    /\ pool' = {}
    /\ UNCHANGED <<table, used>>

(* Pop the table's session; it is terminated by the next step. *)
Pop(c, next) ==
    /\ table' = 0
    /\ call' = [call EXCEPT ![c].pc = next, ![c].victim = table]

(* The lock is acquired: the process is dead, or idle for too long, or     *)
(* good.                                                                   *)
LockSession(c) ==
    /\ call[c].pc = "want" /\ proc[call[c].sess].lock = {}
    /\ proc' = [proc EXCEPT ![call[c].sess].lock = {c}]
    /\ LET here == [call EXCEPT ![c].lk = call[c].sess] IN
       \/ /\ proc[call[c].sess].st = "live"
          /\ call' = [here EXCEPT ![c].pc = "send"]
          /\ UNCHANGED table
       \/ /\ call' = [here EXCEPT ![c].pc = "drop", ![c].victim = table]
          /\ table' = 0
    /\ UNCHANGED <<pool, used>>

Dropped(c) ==
    /\ call[c].pc = "drop"
    /\ proc' = Killed(proc, call[c].victim)
    /\ call' = [call EXCEPT ![c].pc = "get", ![c].victim = 0]
    /\ UNCHANGED <<table, pool, used>>

Send(c) ==
    /\ call[c].pc = "send"
    /\ IF proc[call[c].sess].st = "live"
       THEN /\ proc' = [proc EXCEPT ![call[c].sess].in = Append(@, c)]
            /\ call' = [call EXCEPT ![c].pc = "sent"]
            /\ UNCHANGED table
       ELSE Pop(c, "failing") /\ UNCHANGED proc
    /\ UNCHANGED <<pool, used>>

(* readline with an empty buffer: a second waiting reader is an error. *)
Read(c) ==
    /\ call[c].pc = "sent"
    /\ IF proc[call[c].sess].reader # {} /\ proc[call[c].sess].out = <<>>
       THEN Pop(c, "failing") /\ UNCHANGED proc
       ELSE /\ proc' = [proc EXCEPT ![call[c].sess].reader = @ \cup {c}]
            /\ call' = [call EXCEPT ![c].pc = "read"]
            /\ UNCHANGED table
    /\ UNCHANGED <<pool, used>>

(* As a bug: whatever reply comes is the answer. *)
IsReplyAny(c, m) == TRUE

(* response["id"] = request_id *)
IsReply(c, m) == m = c

(* A reply, after which the lock is left. *)
Take(c) ==
    LET s == call[c].sess IN
    /\ call[c].pc = "read" /\ proc[s].out # <<>> /\ Head(proc[s].out) \in Call
    /\ LET taken == [proc EXCEPT ![s].out = Tail(@)] IN
       IF IsReply(c, Head(proc[s].out))
       THEN /\ proc' = Unlock(taken, c)
            /\ call' = [call EXCEPT ![c] =
                 [@ EXCEPT !.pc = "done", !.lk = 0, !.got = {Head(proc[s].out)}]]
            /\ UNCHANGED table
       ELSE proc' = taken /\ Pop(c, "failing")
    /\ UNCHANGED <<pool, used>>

(* A capability request is served by the broker within its grant. *)
Serve(c) ==
    LET s == call[c].sess IN
    /\ call[c].pc = "read" /\ proc[s].out # <<>> /\ Head(proc[s].out) \in Asked
    /\ used' = used \cup ({Head(proc[s].out)} \cap Grant)
    /\ proc' = [proc EXCEPT ![s].out = Tail(@)]
    /\ UNCHANGED <<table, pool, call>>

(* Closed stdout, a timeout or a cancellation while a reply is awaited.    *)
Broken(c) ==
    /\ call[c].pc \in {"sent", "read"}
    /\ Pop(c, "failing") \/ Pop(c, "cancelling")
    /\ UNCHANGED <<pool, proc, used>>

Failed(c) ==
    /\ call[c].pc \in {"failing", "cancelling"}
    /\ proc' = Unlock(Killed(proc, call[c].victim), c)
    /\ End(c, IF call[c].pc = "failing" THEN "failed" ELSE "cancelled")
    /\ UNCHANGED <<table, pool, used>>

(* A caller waiting for either lock is cancelled. *)
CancelWaiting(c) ==
    /\ call[c].pc \in {"get", "want"}
    /\ proc' = Unlock(proc, c)
    /\ End(c, "cancelled")
    /\ UNCHANGED <<table, pool, used>>

(* An invocation-lifecycle plugin: a process of its own, gone afterwards   *)
(* whatever happens (_exchange).                                           *)
Exchange(c) ==
    /\ call[c].pc = "idle"
    /\ \E n \in Fresh :
         /\ proc' = [proc EXCEPT ![n].st = "live", ![n].in = <<c>>]
         /\ call' = [call EXCEPT ![c].pc = "exchange", ![c].sess = n]
    /\ UNCHANGED <<table, pool, used>>

Exchanged(c) ==
    LET s == call[c].sess IN
    /\ call[c].pc = "exchange"
    /\ \/ /\ proc[s].out # <<>>
          /\ call' = [call EXCEPT ![c] = [@ EXCEPT !.pc = "done",
                        !.got = {Head(proc[s].out)} \cap Call]]
       \/ \E how \in {"failed", "cancelled"} : End(c, how)
    /\ proc' = Killed(proc, s)
    /\ UNCHANGED <<table, pool, used>>

-----------------------------------------------------------------------------
(* The plugin: it asks for a capability, answers a request, or dies. *)
PluginAsks(n, cap) ==
    /\ proc[n].st = "live" /\ proc[n].in # <<>> /\ proc[n].out = <<>>
    /\ cap \notin used
    /\ \A c \in Call : call[c].pc # "exchange" \/ call[c].sess # n
    /\ proc' = [proc EXCEPT ![n].out = Append(@, cap)]
    /\ UNCHANGED <<table, pool, call, used>>

PluginReplies(n) ==
    /\ proc[n].st = "live" /\ proc[n].in # <<>>
    /\ proc' = [proc EXCEPT ![n].out = Append(@, Head(proc[n].in)),
                            ![n].in = Tail(@)]
    /\ UNCHANGED <<table, pool, call, used>>

PluginDies(n) ==
    /\ proc[n].st = "live"
    /\ proc' = Killed(proc, n)
    /\ UNCHANGED <<table, pool, call, used>>

(* PluginProcessClient.close, once no call is left. *)
Close ==
    /\ table # 0 /\ \A c \in Call : call[c].pc \in {"done", "failed", "cancelled"}
    /\ proc' = Killed(proc, table)
    /\ table' = 0
    /\ UNCHANGED <<pool, call, used>>

Next ==
    \/ \E c \in Call :
         \/ Start(c) \/ GetSession(c) \/ Spawned(c) \/ SpawnFails(c)
         \/ LockSession(c) \/ Dropped(c) \/ Send(c) \/ Read(c) \/ Take(c)
         \/ Serve(c) \/ Broken(c) \/ Failed(c) \/ CancelWaiting(c)
         \/ Exchange(c) \/ Exchanged(c)
    \/ \E n \in Procs :
         \/ PluginReplies(n) \/ PluginDies(n)
         \/ \E cap \in Asked : PluginAsks(n, cap)
    \/ Close

Spec == Init /\ [][Next]_vars

-----------------------------------------------------------------------------
(* A call that succeeds returns the reply to its own request, although a   *)
(* caller that re-opens the session keeps the old session's lock and so    *)
(* shares the new process with the next caller (client.py:120-166).        *)
OwnReply == \A c \in Call : call[c].pc = "done" => call[c].got = {c}

(* One call at a time uses a process: what the session's lock is for       *)
(* (client.py:118).  It does not hold.                                     *)
OneCallPerProcess ==
    \A c, d \in Call :
        c # d /\ call[c].pc \in {"sent", "read"} /\ call[d].pc \in {"sent", "read"}
            => call[c].sess # call[d].sess

(* Once every call has ended and the pool is closed no plugin process is   *)
(* left.  A cancellation during initialization refutes it.                 *)
NoStrayProcess ==
    (table = 0 /\ \A c \in Call : call[c].pc \in {"done", "failed", "cancelled"})
        => \A n \in Procs : proc[n].st \in {"none", "dead"}
=============================================================================
