-------------------------------- MODULE Lsp --------------------------------
(***************************************************************************)
(* One language server and its client: start on demand under the manager's *)
(* lock, one reader task that settles pending requests by id, documents    *)
(* opened once and updated after file actions, idle reaping, workspace     *)
(* switch.  Requests are coroutines that interleave at every await.        *)
(***************************************************************************)
EXTENDS Naturals, Sequences, FiniteSets

CONSTANTS Req,         \* requests of the symbol, definition, ... tools
          Change,      \* did_change notifications after an applied action
          MaxStarts,   \* bound: server processes
          MaxEdits     \* bound: changes of the document

VARIABLES
    srv,       \* the server in _running: its process and what it was told
    starting,  \* who holds the manager's lock
    req,       \* requests
    chg,       \* notifications
    text,      \* version of the document on disk
    starts

vars == <<srv, starting, req, chg, text, starts>>

NoServer == [st |-> "none", next |-> 1, pending |-> {}, asked |-> <<>>,
             opened |-> FALSE, sees |-> 0]

Init ==
    /\ srv = NoServer /\ starting = {}
    /\ req = [r \in Req |-> [pc |-> "idle", id |-> 0, gen |-> 0, read |-> 0, got |-> {}]]
    /\ chg = [c \in Change |-> [pc |-> "idle", gen |-> 0, read |-> 0]]
    /\ text = 0 /\ starts = 0

Set(r, pc) == req' = [req EXCEPT ![r].pc = pc]

(* _server: reap an idle one, use the running one, or start one under the  *)
(* lock.                                                                   *)
Ensure(r) ==
    /\ req[r].pc = "idle" /\ starting = {}
    /\ IF srv.st = "up"
       THEN /\ req' = [req EXCEPT ![r].pc = "open", ![r].gen = starts]
            /\ UNCHANGED <<srv, starting, starts>>
       ELSE /\ starts < MaxStarts
            /\ srv' = [NoServer EXCEPT !.st = "starting", !.pending = {0}]
            /\ starting' = {r} /\ starts' = starts + 1
            /\ Set(r, "start")
    /\ UNCHANGED <<chg, text>>

(* initialize is answered, or times out and the process is stopped. *)
Started(r) ==
    /\ req[r].pc = "start" /\ starting = {r}
    /\ starting' = {}
    /\ \/ /\ srv' = [srv EXCEPT !.st = "up", !.pending = {}]
          /\ req' = [req EXCEPT ![r].pc = "open", ![r].gen = starts]
       \/ srv' = NoServer /\ Set(r, "failed")
    /\ UNCHANGED <<chg, text, starts>>

Mine(r) == req[r].gen = starts /\ srv.st = "up"

(* _open: the file is read in a thread and sent later. *)
ReadText(r) ==
    /\ req[r].pc = "open"
    /\ req' = IF Mine(r) /\ srv.opened THEN [req EXCEPT ![r].pc = "ask"]
              ELSE [req EXCEPT ![r].pc = "opening", ![r].read = text]
    /\ UNCHANGED <<srv, starting, chg, text, starts>>

DidOpen(r) ==
    /\ req[r].pc = "opening"
    /\ IF Mine(r)
       THEN /\ srv' = [srv EXCEPT !.opened = TRUE, !.sees = req[r].read]
            /\ Set(r, "ask")
       ELSE UNCHANGED srv /\ Set(r, "failed")
    /\ UNCHANGED <<starting, chg, text, starts>>

(* As a bug: the id is taken from the number of pending requests. *)
NewIdCount == 1 + Cardinality(srv.pending)

(* identifier = server.next_id; no await before it is incremented. *)
NewId == srv.next

Ask(r) ==
    /\ req[r].pc = "ask"
    /\ IF Mine(r)
       THEN /\ srv' = [srv EXCEPT !.next = @ + 1, !.pending = @ \cup {NewId},
                                  !.asked = Append(@, [id |-> NewId, by |-> r])]
            /\ req' = [req EXCEPT ![r].pc = "wait", ![r].id = NewId]
       ELSE UNCHANGED srv /\ Set(r, "failed")
    /\ UNCHANGED <<starting, chg, text, starts>>

(* The server answers any request it was sent, in its own order; the       *)
(* reader settles the future that waits under that id.                     *)
Answer(i) ==
    LET m == srv.asked[i] IN
    /\ srv.st = "up"
    /\ srv' = [srv EXCEPT !.asked = SubSeq(@, 1, i - 1) \o SubSeq(@, i + 1, Len(@)),
                          !.pending = @ \ {m.id}]
    /\ req' = [q \in Req |->
                 IF req[q].pc = "wait" /\ req[q].id = m.id /\ req[q].gen = starts
                 THEN [req[q] EXCEPT !.pc = "done", !.got = {m.by}] ELSE req[q]]
    /\ UNCHANGED <<starting, chg, text, starts>>

(* Timeout or cancellation: $/cancelRequest is sent, and the answer that   *)
(* still comes finds nobody.                                               *)
GiveUp(r) ==
    /\ req[r].pc = "wait"
    /\ Set(r, "failed")
    /\ srv' = IF Mine(r) THEN [srv EXCEPT !.pending = @ \ {req[r].id}] ELSE srv
    /\ UNCHANGED <<starting, chg, text, starts>>

(* The process ends, is reaped when idle, or stopped by a workspace        *)
(* switch: the reader fails what is pending.                               *)
Stops ==
    /\ srv.st = "up"
    /\ srv' = NoServer
    /\ req' = [q \in Req |-> IF req[q].pc = "wait" /\ req[q].gen = starts
                             THEN [req[q] EXCEPT !.pc = "failed"] ELSE req[q]]
    /\ UNCHANGED <<starting, chg, text, starts>>

(* A file action wrote the document (under the workspace lock). *)
Edit(c) ==
    /\ chg[c].pc = "idle" /\ text < MaxEdits
    /\ text' = text + 1
    /\ chg' = [chg EXCEPT ![c].pc = "notify"]
    /\ UNCHANGED <<srv, starting, req, starts>>

(* did_change looks which servers have the document open, reads it in a    *)
(* thread, then sends the text.                                            *)
Notify(c) ==
    /\ chg[c].pc = "notify"
    /\ chg' = IF srv.st = "up" /\ srv.opened
              THEN [chg EXCEPT ![c] = [pc |-> "send", gen |-> starts, read |-> text]]
              ELSE [chg EXCEPT ![c].pc = "done"]
    /\ UNCHANGED <<srv, starting, req, text, starts>>

DidChange(c) ==
    /\ chg[c].pc = "send"
    /\ chg' = [chg EXCEPT ![c].pc = "done"]
    /\ srv' = IF srv.st = "up" /\ chg[c].gen = starts
              THEN [srv EXCEPT !.sees = chg[c].read] ELSE srv
    /\ UNCHANGED <<starting, req, text, starts>>

Next ==
    \/ \E r \in Req : Ensure(r) \/ Started(r) \/ ReadText(r) \/ DidOpen(r) \/ Ask(r) \/ GiveUp(r)
    \/ \E i \in DOMAIN srv.asked : Answer(i)
    \/ \E c \in Change : Edit(c) \/ Notify(c) \/ DidChange(c)
    \/ Stops

Spec == Init /\ [][Next]_vars

-----------------------------------------------------------------------------
(* Every answered request got the answer to its own question, although     *)
(* requests overlap, give up, and answers come late and in any order       *)
(* (manager.py: next_id, pending).                                         *)
OwnAnswer == \A r \in Req : req[r].pc = "done" => req[r].got = {r}

(* "After a successful file action didChange is sent to the server"        *)
(* (docs/sessions/v2.3.0.md:1382): when no notification and no open is     *)
(* under way, a server that has the document open sees its last version.   *)
(* The read of _open and of did_change is old by the time it is sent.      *)
SeesLastVersion ==
    (/\ srv.st = "up" /\ srv.opened
     /\ \A c \in Change : chg[c].pc \in {"idle", "done"}
     /\ \A r \in Req : req[r].pc # "opening") => srv.sees = text
=============================================================================
