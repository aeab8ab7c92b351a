------------------------------- MODULE Rewind -------------------------------
(***************************************************************************)
(* A session's history and what takes it back: agent runs and /btw side    *)
(* questions that change files, /undo, /branch, /compact and /rewind,      *)
(* which derives a child session cut at an earlier run and puts back the   *)
(* files the later runs changed.                                           *)
(*                                                                         *)
(* The content of a file is the number of the write that left it, 0 for a  *)
(* file that does not exist: two writes never leave the same content.      *)
(***************************************************************************)
EXTENDS Naturals, SequencesExt, FiniteSets

CONSTANTS Path, MaxRuns, MaxWrites, MaxRewinds

VARIABLES
  files,    \* [Path -> content]
  log,      \* every write in order; run 0 is the user's editor
  runs,     \* the session's runs in the order of started_at
  msgs,     \* the run of each message of the session
  summary,  \* last message the active compaction covers, 0: none
  child,    \* the session derived last
  rw,       \* the /rewind under way
  rewinds,  \* /rewind commands so far
  astray    \* history: the files a /rewind left as no record says

vars == <<files, log, runs, msgs, summary, child, rw, rewinds, astray>>

NoChild == [upto |-> 0, summary |-> 0]
NoFiles == [p \in Path |-> 0]

\* originals: the dictionary of the contents to put back.
\* History: raced, the files that changed since /rewind looked at them; found,
\* what it found in all of them.
NoRewind == [phase |-> "idle", target |-> 0, list |-> <<>>, todo |-> <<>>,
             blocked |-> FALSE, originals |-> {}, raced |-> {}, found |-> NoFiles]

Init ==
  /\ files = NoFiles
  /\ log = <<>> /\ runs = <<>> /\ msgs = <<>> /\ summary = 0
  /\ child = NoChild /\ rw = NoRewind /\ rewinds = 0 /\ astray = {}

-----------------------------------------------------------------------------
(* Runs.  One agent run runs at a time, but one that waits for an approval *)
(* or an answer lets the next start.  A side question runs beside them,    *)
(* has its own hidden run and leaves no message.                           *)

Idle == rw.phase = "idle"

NewRun(kind) == [kind |-> kind, status |-> "running"]

Running(kind) == {r \in DOMAIN runs : runs[r] = NewRun(kind)}

\* A side question's journal keeps metadata only.
LeavesMessage(kind) == kind = "agent"

Start(kind) ==
  /\ Len(runs) < MaxRuns
  /\ runs' = Append(runs, NewRun(kind))
  /\ msgs' = IF LeavesMessage(kind) THEN Append(msgs, Len(runs')) ELSE msgs
  /\ UNCHANGED <<files, log, summary, child, rw, rewinds, astray>>

StartRun == Idle /\ Running("agent") = {} /\ Start("agent")

SideQuestion == Start("side")

SetStatus(r, status) == runs' = [runs EXCEPT ![r].status = status]

Pause(r) ==
  /\ r \in Running("agent") /\ SetStatus(r, "waiting")
  /\ UNCHANGED <<files, log, msgs, summary, child, rw, rewinds, astray>>

Resume(r) ==
  /\ Idle /\ Running("agent") = {} /\ runs[r].status = "waiting"
  /\ SetStatus(r, "running")
  /\ UNCHANGED <<files, log, msgs, summary, child, rw, rewinds, astray>>

\* Only a completed run has an assistant message.
Finish(r, status) ==
  /\ runs[r].status = "running" /\ SetStatus(r, status)
  /\ msgs' = IF LeavesMessage(runs[r].kind) /\ status = "completed"
             THEN Append(msgs, r) ELSE msgs
  /\ UNCHANGED <<files, log, summary, child, rw, rewinds, astray>>

\* A completed action of run r, or the user saving a file (r = 0).
\* A command has no path and cannot be taken back.
Write(r, p) ==
  /\ Len(log) < MaxWrites
  /\ r # 0 => runs[r].status = "running"
  /\ LET n == Len(log) + 1
     IN  /\ log' = Append(log, [run |-> r, path |-> p, before |-> files[p],
                                after |-> n, reversed |-> FALSE])
         /\ files' = [files EXCEPT ![p] = n]
  /\ rw' = IF Idle THEN rw ELSE [rw EXCEPT !.raced = @ \cup {p}]
  /\ UNCHANGED <<runs, msgs, summary, child, rewinds, astray>>

Command(r) ==
  /\ Len(log) < MaxWrites /\ runs[r].status = "running"
  /\ log' = Append(log, [run |-> r, path |-> "command", before |-> 0,
                         after |-> 0, reversed |-> FALSE])
  /\ UNCHANGED <<files, runs, msgs, summary, child, rw, rewinds, astray>>

Compact ==
  /\ Idle /\ Running("agent") = {}
  /\ \E n \in (summary + 1)..Len(msgs) : summary' = n
  /\ UNCHANGED <<files, log, runs, msgs, child, rw, rewinds, astray>>

\* /undo: the session's last applied file action, if the file is as it left it.
Undo ==
  LET applied == {k \in DOMAIN log : log[k].run # 0 /\ log[k].path # "command"
                                     /\ ~log[k].reversed}
      k == Max(applied)
  IN  /\ Idle /\ Running("agent") = {} /\ applied # {}
      /\ files[log[k].path] = log[k].after
      /\ files' = [files EXCEPT ![log[k].path] = log[k].before]
      /\ log' = [log EXCEPT ![k].reversed = TRUE]
      /\ UNCHANGED <<runs, msgs, summary, child, rw, rewinds, astray>>

-----------------------------------------------------------------------------
(* Derived sessions: the messages up to the target's last one, and the     *)
(* parent's compaction when both of its ends were copied.                  *)

LastMessage(r) == Max({m \in DOMAIN msgs : msgs[m] = r})

DeriveAlways(upto) == [upto |-> upto, summary |-> summary]

Derive(upto) ==
  [upto |-> upto, summary |-> IF summary <= upto THEN summary ELSE 0]

\* Bound: before the first write, as it copies messages only.
Branch ==
  /\ Idle /\ Running("agent") = {} /\ log = <<>> /\ child' = Derive(Len(msgs))
  /\ UNCHANGED <<files, log, runs, msgs, summary, rw, rewinds, astray>>

-----------------------------------------------------------------------------
(* /rewind.                                                                *)

\* The applied actions of the runs that started after the target.
Later(t) == {k \in DOMAIN log : log[k].run > t /\ ~log[k].reversed}

Descending(S) ==
  [i \in 1..Cardinality(S) |->
     CHOOSE k \in S : Cardinality({j \in S : j > k}) = i - 1]

\* What the path of action k will hold once the actions after it are undone.
Simulated(S, k) ==
  LET after == {j \in S : j > k /\ log[j].path = log[k].path}
  IN  IF after = {} THEN files[log[k].path] ELSE log[Min(after)].before

Conflict(S, k) == Simulated(S, k) # log[k].after

BlockersNewest(S) ==
  \E k \in S : \/ log[k].path = "command"
               \/ k = Max(S) /\ Conflict(S, k)

Blockers(S) ==
  \E k \in S : \/ log[k].path = "command"
               \/ Conflict(S, k)

CanTarget(r) ==
  /\ runs[r].kind = "agent" /\ runs[r].status = "completed"

Rewind(t) ==
  /\ Idle /\ Running("agent") = {} /\ rewinds < MaxRewinds /\ CanTarget(t)
  /\ rewinds' = rewinds + 1
  /\ LET S == Later(t)
         list == Descending(S)
     IN  rw' = [NoRewind EXCEPT !.phase = "confirm", !.target = t, !.list = list,
                                !.todo = list, !.blocked = Blockers(S), !.found = files]
  /\ UNCHANGED <<files, log, runs, msgs, summary, child, astray>>

Decline ==
  /\ rw.phase = "confirm" /\ rw' = NoRewind
  /\ UNCHANGED <<files, log, runs, msgs, summary, child, rewinds, astray>>

\* Blocked: only the conversation is rewound.  Otherwise the files follow.
Confirm ==
  /\ rw.phase = "confirm"
  /\ child' = Derive(LastMessage(rw.target))
  /\ rw' = IF rw.blocked THEN NoRewind ELSE [rw EXCEPT !.phase = "restore"]
  /\ UNCHANGED <<files, log, runs, msgs, summary, rewinds, astray>>

\* The files that were touched and not put back.
Touched == {o.path : o \in rw.originals}

\* originals.setdefault: what the first restore of the file found in it.
RememberLatest(p) ==
  {o \in rw.originals : o.path # p} \cup {[path |-> p, content |-> files[p]]}

Remember(p) ==
  IF p \in Touched THEN rw.originals
  ELSE rw.originals \cup {[path |-> p, content |-> files[p]]}

\* A file that changed since the check is overwritten.
RestoreFile ==
  /\ rw.phase = "restore" /\ rw.todo # <<>>
  /\ LET a == log[Head(rw.todo)]
     IN  /\ files' = [files EXCEPT ![a.path] = a.before]
         /\ rw' = [rw EXCEPT !.todo = Tail(rw.todo), !.originals = Remember(a.path)]
         /\ astray' = astray \cup ({a.path} \cap rw.raced)
  /\ UNCHANGED <<log, runs, msgs, summary, child, rewinds>>

\* One transaction marks every action and records the session_rewind action.
MarkReversed ==
  /\ rw.phase = "restore" /\ rw.todo = <<>>
  /\ log' = [k \in DOMAIN log |->
               [log[k] EXCEPT !.reversed = @ \/ k \in Range(rw.list)]]
  /\ rw' = [rw EXCEPT !.phase = "marked"]
  /\ UNCHANGED <<files, runs, msgs, summary, child, rewinds, astray>>

FinishAudit ==
  /\ rw.phase = "marked" /\ rw' = NoRewind
  /\ UNCHANGED <<files, log, runs, msgs, summary, child, rewinds, astray>>

\* except BaseException: a file cannot be read or written, the transaction fails,
\* or /rewind is cancelled, in the restore or, as finish_hidden is awaited inside
\* the try, after the marks are committed.
RestoreFails ==
  /\ \/ rw.phase = "restore" /\ rw' = [rw EXCEPT !.phase = "undoing"]
     \/ rw.phase = "marked" /\ rw' = [rw EXCEPT !.phase = "late"]
  /\ UNCHANGED <<files, log, runs, msgs, summary, child, rewinds, astray>>

Compensating == rw.phase \in {"undoing", "late"}

\* The files as they were, the marks as they are.
PutBack(o) ==
  /\ Compensating /\ o \in rw.originals
  /\ files' = [files EXCEPT ![o.path] = o.content]
  /\ rw' = [rw EXCEPT !.originals = @ \ {o}]
  /\ astray' = IF rw.phase = "late" \/ o.path \in rw.raced THEN astray \cup {o.path}
               ELSE astray
  /\ UNCHANGED <<log, runs, msgs, summary, child, rewinds>>

\* The audit run failed, and no child session.
Compensated ==
  /\ Compensating /\ rw.originals = {}
  /\ child' = NoChild /\ rw' = NoRewind
  /\ UNCHANGED <<files, log, runs, msgs, summary, rewinds, astray>>

\* What a restore that nobody ends leaves behind.
Abandon ==
  /\ rw' = NoRewind
  /\ astray' = IF rw.phase \in {"restore", "undoing"} THEN astray \cup Touched ELSE astray
  /\ UNCHANGED <<files, log, msgs, summary, child, rewinds>>

\* The handler itself raises: the rest is not put back, the child session stays.
CompensationFails == Compensating /\ Abandon /\ UNCHANGED runs

\* Recovery ends the runs that were under way and knows nothing of a /rewind.
Crash ==
  /\ rw.phase \in {"restore", "marked", "undoing", "late"} /\ Abandon
  /\ runs' = [r \in DOMAIN runs |->
                IF runs[r].status = "running" THEN [runs[r] EXCEPT !.status = "failed"]
                ELSE runs[r]]

-----------------------------------------------------------------------------
Next ==
  \/ StartRun
  \/ SideQuestion
  \/ \E r \in DOMAIN runs : Pause(r)
  \/ \E r \in DOMAIN runs : Resume(r)
  \/ \E r \in DOMAIN runs, s \in {"completed", "failed"} : Finish(r, s)
  \/ \E r \in DOMAIN runs \cup {0}, p \in Path : Write(r, p)
  \/ \E r \in DOMAIN runs : Command(r)
  \/ Compact
  \/ Undo
  \/ Branch
  \/ \E t \in DOMAIN runs : Rewind(t)
  \/ Decline
  \/ Confirm
  \/ RestoreFile
  \/ MarkReversed
  \/ FinishAudit
  \/ RestoreFails
  \/ \E o \in rw.originals : PutBack(o)
  \/ Compensated
  \/ CompensationFails
  \/ Crash

Spec == Init /\ [][Next]_vars

-----------------------------------------------------------------------------
(***************************************************************************)
(* What the records say of the files is so, whatever was undone, rewound   *)
(* or failed half way: a file holds what the last write of it left that no *)
(* /undo and no /rewind took back, the user's own writes among them.  A    *)
(* /rewind that fails puts back what it found, also when it fails after    *)
(* its marks are committed: then the records of the files it put back are  *)
(* wrong (astray), as they are of a file that was written between its      *)
(* check and its restore, and of the files a crash or a second failure     *)
(* left half way.  And a rewound session's summary tells nothing of the    *)
(* messages it was cut off from.  (cli/command_handlers/rewind.py,         *)
(* reverse_last_file_action, SessionRepository.derive)                     *)
(***************************************************************************)
LastKept(p) ==
  LET kept == {k \in DOMAIN log : log[k].path = p /\ ~log[k].reversed}
  IN  IF kept = {} THEN 0 ELSE log[Max(kept)].after

RewindIsExact ==
  /\ rw.phase \notin {"restore", "undoing"} =>
       \A p \in Path \ astray : files[p] = LastKept(p)
  /\ Compensating /\ rw.originals = {} =>
       \A p \in Path \ rw.raced : files[p] = rw.found[p]
  /\ child.summary <= child.upto
=============================================================================
