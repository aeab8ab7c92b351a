----------------------------- MODULE Artifacts ------------------------------
(***************************************************************************)
(* Tool results too large or too suspicious for the conversation: a file   *)
(* per content, shared by every session of the workspace; a row per        *)
(* session and content; and the search index over the rows.  Puts run      *)
(* beside each other and beside the deletion of a session, in this process *)
(* or in another one.                                                      *)
(***************************************************************************)
EXTENDS Naturals, FiniteSets

CONSTANTS Ses, Content, Put

VARIABLES
  alive,   \* sessions that have a row
  disk,    \* contents with a file under state/artifacts
  row,     \* [Ses -> [Content -> none, or how index_content lets it be indexed]]
  index,   \* [Ses -> [Content -> what episodic_documents shows of it]]
  put,     \* [Put -> a call of ToolArtifactStore.put]
  del,     \* [Ses -> SessionRepository.delete under way]
  torn,    \* contents unlinked between a put's look at the file and its row,
           \* or whose row came between the deletion's look and its unlink
  late     \* puts that read their record before another put quarantined it

vars == <<alive, disk, row, index, put, del, torn, late>>

NoRows == [c \in Content |-> "none"]
Idle == [pc |-> "idle"]

Init ==
  /\ alive = Ses /\ disk = {} /\ torn = {} /\ late = {}
  /\ row = [s \in Ses |-> NoRows] /\ index = row
  /\ put = [p \in Put |-> Idle]
  /\ del = [s \in Ses |-> [pc |-> "none", todo |-> {}, file |-> {}, fresh |-> FALSE]]

-----------------------------------------------------------------------------
(* put: the file, then the row, then the index.  "meta" is a quarantined   *)
(* content: index_content=0, only its metadata may be searched.            *)

\* _atomic_write: nothing to do when the file is there.
WriteFile(p, s, c, flag) ==
  /\ put[p] = Idle /\ s \in alive
  /\ disk' = disk \cup {c} /\ torn' = torn \ {c}
  /\ put' = [put EXCEPT ![p] = [pc |-> "insert", s |-> s, c |-> c,
                                flag |-> flag, record |-> flag]]
  /\ UNCHANGED <<alive, row, index, del, late>>

Step(p, pc, record) ==
  put' = [put EXCEPT ![p].pc = pc, ![p].record = record]

\* A row is inserted while a deletion has found none and has yet to unlink.
Inserted(c) ==
  del' = [t \in Ses |-> IF del[t].pc = "unlink" /\ c \in del[t].file
                        THEN [del[t] EXCEPT !.fresh = TRUE] ELSE del[t]]

\* A put that finds a row takes its record for its own.
OwnRecord(s, c, flag) == flag
FoundRecord(s, c, flag) == row[s][c]

\* The trigger indexes a new row; a second row of the session for the same
\* content is refused and the first one's record is used.
Insert(p) ==
  LET s == put[p].s c == put[p].c flag == put[p].flag IN
  /\ put[p].pc = "insert"
  /\ \/ /\ s \notin alive
        /\ Step(p, "failed", flag) /\ UNCHANGED <<row, index, del>>
     \/ /\ s \in alive /\ row[s][c] = "none"
        /\ row' = [row EXCEPT ![s][c] = flag]
        /\ index' = [index EXCEPT ![s][c] = flag]
        /\ Step(p, "index", flag) /\ Inserted(c)
     \/ /\ s \in alive /\ row[s][c] # "none"
        /\ Step(p, IF flag = "meta" /\ row[s][c] = "text" THEN "quarantine" ELSE "index",
                FoundRecord(s, c, flag))
        /\ UNCHANGED <<row, index, del>>
  /\ UNCHANGED <<alive, disk, torn, late>>

QuarantineSkipped(p) ==
  /\ put[p].pc = "quarantine" /\ Step(p, "index", "text")
  /\ UNCHANGED <<alive, disk, row, index, del, torn, late>>

\* Puts about to index the text, from a record they have read already.
Holding(s, c) == {q \in Put : /\ put[q].pc = "index" /\ put[q].s = s
                              /\ put[q].c = c /\ put[q].record = "text"}

Quarantine(p) ==
  LET s == put[p].s c == put[p].c IN
  /\ put[p].pc = "quarantine"
  /\ IF row[s][c] = "none"                           \* the session was deleted
     THEN Step(p, "failed", "meta") /\ UNCHANGED <<row, late>>
     ELSE /\ Step(p, "index", "meta") /\ row' = [row EXCEPT ![s][c] = "meta"]
          /\ late' = late \cup Holding(s, c)
  /\ UNCHANGED <<alive, disk, index, del, torn>>

Finished(s, c) == {q \in Put : put[q].pc = "done" /\ put[q].s = s /\ put[q].c = c}

\* EpisodicRepository.index replaces the documents of the artifact, and with
\* them whatever a late put had left there.
Index(p) ==
  LET s == put[p].s c == put[p].c IN
  /\ put[p].pc = "index"
  /\ IF row[s][c] = "none"
     THEN Step(p, "failed", put[p].record) /\ UNCHANGED <<index, late>>
     ELSE /\ index' = [index EXCEPT ![s][c] = put[p].record]
          /\ Step(p, "done", put[p].record)
          /\ late' = IF p \in late THEN late ELSE late \ Finished(s, c)
  /\ UNCHANGED <<alive, disk, row, del, torn>>

-----------------------------------------------------------------------------
(* delete: the paths are read first, the rows go with the session, and a   *)
(* file is unlinked when no row of any session names it any more.          *)

Shift(s, pc, todo, file) ==
  del' = [del EXCEPT ![s] = [pc |-> pc, todo |-> todo, file |-> file,
                                fresh |-> FALSE]]

\* Refused while the session has active work; the paths are read outside the
\* transaction that deletes the rows.
ReadRows(s) ==
  /\ del[s].pc = "none" /\ s \in alive
  /\ Shift(s, "delete", {c \in Content : row[s][c] # "none"}, {})
  /\ UNCHANGED <<alive, disk, row, index, put, torn, late>>

DeleteRows(s) ==
  /\ del[s].pc = "delete"
  /\ alive' = alive \ {s}
  /\ row' = [row EXCEPT ![s] = NoRows] /\ index' = [index EXCEPT ![s] = NoRows]
  /\ Shift(s, "files", del[s].todo, {})
  /\ UNCHANGED <<disk, put, torn, late>>

RemainingNone(c) == FALSE
Remaining(c) == \E s \in Ses : row[s][c] # "none"

CheckFile(s, c) ==
  /\ del[s].pc = "files" /\ c \in del[s].todo
  /\ Shift(s, IF Remaining(c) THEN "files" ELSE "unlink", del[s].todo \ {c}, {c})
  /\ UNCHANGED <<alive, disk, row, index, put, torn, late>>

\* A put has looked at the file and has no row yet, or a row came since s looked.
Relied(s, c) == \/ \E p \in Put : put[p].pc = "insert" /\ put[p].c = c
                \/ del[s].fresh

Unlink(s) ==
  /\ del[s].pc = "unlink"
  /\ disk' = disk \ del[s].file
  /\ torn' = torn \cup {c \in del[s].file : Relied(s, c)}
  /\ Shift(s, "files", del[s].todo, {})
  /\ UNCHANGED <<alive, row, index, put, late>>

-----------------------------------------------------------------------------
Next ==
  \/ \E p \in Put, s \in Ses, c \in Content, f \in {"text", "meta"} : WriteFile(p, s, c, f)
  \/ \E p \in Put : Insert(p)
  \/ \E p \in Put : Quarantine(p)
  \/ \E p \in Put : Index(p)
  \/ \E s \in Ses : ReadRows(s)
  \/ \E s \in Ses : DeleteRows(s)
  \/ \E s \in Ses, c \in Content : CheckFile(s, c)
  \/ \E s \in Ses : Unlink(s)

Spec == Init /\ [][Next]_vars

-----------------------------------------------------------------------------
Quarantined(s, c) ==
  \E p \in Put : /\ put[p].pc = "done"
                 /\ put[p].s = s /\ put[p].c = c /\ put[p].flag = "meta"

Opens(s, c) == row[s][c] # "none" => c \in disk
Hidden(s, c) == (Quarantined(s, c) /\ row[s][c] # "none") => index[s][c] = "meta"

(***************************************************************************)
(* Every artifact a session still names can be read, although its file is  *)
(* shared and other sessions are deleted meanwhile; and a content once     *)
(* quarantined in a session is not searchable as text there, whichever     *)
(* tool stores it again.  The store guards neither against two overlaps:   *)
(* an unlink after a put has looked at the file and before its row, or     *)
(* after the deletion's look at the rows and a row put since; and an       *)
(* indexing from a record read before another put quarantined it.  Only    *)
(* contents and puts caught in one of them are excepted: a row that was    *)
(* there when the deletion looked keeps its file, and a put that read the  *)
(* record after the quarantine hides the text.                             *)
(* (storage/artifacts.py:60-103, SessionRepository.delete)                 *)
(***************************************************************************)
ArtifactsKept ==
  \A s \in Ses, c \in Content :
    /\ Opens(s, c) \/ c \in torn
    /\ Hidden(s, c) \/ Finished(s, c) \cap late # {}

(***************************************************************************)
(* The same without the exceptions: "the persistent index_content flag     *)
(* makes sure that quarantined content only exposes its metadata"          *)
(* (docs/development/v2/v2.7.md).                                          *)
(***************************************************************************)
QuarantineHolds == \A s \in Ses, c \in Content : Hidden(s, c)
=============================================================================
