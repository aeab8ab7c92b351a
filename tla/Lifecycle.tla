------------------------------ MODULE Lifecycle ------------------------------
(***************************************************************************)
(* Importing a portable archive into the workspace and memory databases:   *)
(* the merge of rows, the two commits, the journal, the recovery backup,   *)
(* and what `doctor --fix` does after a crash.  Every table is cut down to *)
(* one archived row and at most one local row of the same id: a plan, its  *)
(* current revision, an action, a setting, a checkpoint of delivered mail, *)
(* that mail and a memory of a project stand for the kinds of reference,   *)
(* key and normalisation the merge tells apart.                            *)
(***************************************************************************)
EXTENDS Integers

CONSTANTS Proc,       \* commands of the user, one process each
          MaxCrashes  \* bound on crashes

VARIABLES ws, mm,   \* the databases: a row or NoRow for each table and id, and imported
          initial,  \* history: both databases before the first command
          journal,  \* lifecycle-journal.json: the recovery backup, or NoJournal
          lock,     \* the holder of the lifecycle locks
          op,       \* what each process is doing, with its recovery and rollback images
          extras,   \* steps after the merge that have been done
          crashes

vars == <<ws, mm, initial, journal, lock, op, extras, crashes>>

WsTables == {"plans", "revisions", "actions", "settings", "steps", "mail"}
MmTables == {"memories"}

\* What a row refers to: a plan its revision and a revision its plan, a step the
\* mail it has delivered (mailbox_ids_json), a memory its project.
MaxId == 2                    \* remapped_id gives up after 1000 candidates
Id == 0..MaxId                \* 0 the archive's id, the others remapped_id derives
There == 0                    \* the project_instance_id in the archive
Here == 1                     \* this workspace's
NoRow == [body |-> "none", ref |-> 0, status |-> "none"]
Row(body, status) == [body |-> body, ref |-> 0, status |-> status]

\* Mail is merged with delivery_suspended set.
Archived(t) == Row("a", IF t = "actions" THEN "approved"
                        ELSE IF t = "mail" THEN "suspended" ELSE "none")

Tables(first, ts) == [t \in ts |-> [i \in Id |-> IF i = 0 THEN first[t] ELSE NoRow]]
NoImages == [ws |-> NoRow, mm |-> NoRow, files |-> {}]
Idle == [pc |-> "idle", recovery |-> NoImages, rollback |-> NoImages]
NoJournal == [recovery |-> NoImages]

\* A local plan has its revision, a local step its mail.
Init ==
  /\ \E w \in [WsTables -> {"none", "a", "b"}], m \in {"none", "a", "b"},
        s \in {"approved", "completed"}, d \in {"active", "suspended"}, r \in {There, Here} :
       /\ (w["plans"] = "none") = (w["revisions"] = "none")
       /\ w["steps"] # "none" => w["mail"] # "none"
       /\ w["mail"] # "b"
       /\ w["actions"] # "b" => s = "approved"
       /\ w["mail"] = "none" => d = "active"
       /\ m # "a" => r = Here
       /\ ws = [rows |-> Tables([t \in WsTables |->
                           IF w[t] = "none" THEN NoRow
                           ELSE Row(w[t], IF t = "actions" THEN s
                                          ELSE IF t = "mail" THEN d ELSE "none")], WsTables),
                imported |-> FALSE]
       /\ mm = [rows |-> Tables([t \in MmTables |->
                           IF m = "none" THEN NoRow ELSE [Row(m, "none") EXCEPT !.ref = r]],
                               MmTables),
                imported |-> FALSE]
  /\ initial = [ws |-> ws, mm |-> mm, files |-> {}]
  /\ journal = NoJournal
  /\ lock = {}
  /\ op = [p \in Proc |-> Idle]
  /\ extras = {}
  /\ crashes = 0
----------------------------------------------------------------------------
(* The merge of one archive, without the transaction around it. *)

\* Mutant of Disposition: a row of the same id is taken to be the record.
DispositionById(rows, t, rec) ==
  IF rows[t][0] = NoRow THEN "imported" ELSE "skipped"

\* fingerprint comparison and the choice of merge_tables for one record.
Disposition(rows, t, rec) ==
  IF rows[t][0] = NoRow THEN "imported"
  ELSE IF rows[t][0] = rec THEN "skipped"
  ELSE IF t = "settings" THEN "blocked" ELSE "remapped"

\* remapped_id: the first derived id that is free.
Target(rows, t, disposition) ==
  IF disposition # "remapped" THEN 0
  ELSE IF rows[t][1] = NoRow THEN 1 ELSE MaxId

InsertRecord(rows, t, rec) ==
  LET d == Disposition(rows, t, rec)
  IN IF d \in {"imported", "remapped"} THEN [rows EXCEPT ![t][Target(rows, t, d)] = rec] ELSE rows

\* rewrite_references: a revision follows its plan, which was merged before it.
Rewritten(rows, t) ==
  IF t = "revisions"
  THEN [Archived(t) EXCEPT !.ref = Target(rows, "plans", Disposition(rows, "plans", Archived("plans")))]
  ELSE Archived(t)

\* Where the row of table t went, rows being the tables before the merge.
MapOf(rows, t) == Target(rows, t, Disposition(rows, t, Rewritten(rows, t)))

\* Mutant of RewriteDeferred: the mail of a step is not followed.
RewritePlansOnly(rows, merged) ==
  [merged EXCEPT !["plans"][MapOf(rows, "plans")].ref = MapOf(rows, "revisions")]

\* rewrite_deferred_references: current_revision_id and mailbox_ids_json once all
\* mappings are known, also in a row that was skipped, which is a local row.
RewriteDeferred(rows, merged) ==
  [merged EXCEPT !["plans"][MapOf(rows, "plans")].ref = MapOf(rows, "revisions"),
                 !["steps"][MapOf(rows, "steps")].ref = MapOf(rows, "mail")]

\* Mutant of Clashes: plan_revisions without its unique keys.
ClashesNever(rows) == FALSE

\* UNIQUE(plan_id, ordinal): a second revision of a plan that was skipped; and
\* UNIQUE(run_id, ordinal): the same for a step, whose run is in both.
Clashes(rows) ==
  \/ /\ Disposition(rows, "plans", Archived("plans")) = "skipped"
     /\ Disposition(rows, "revisions", Rewritten(rows, "revisions")) = "remapped"
  \/ Disposition(rows, "steps", Archived("steps")) = "remapped"

\* normalize_imported_workflow: open actions become pending, the imported ones only.
Normalize(rows, merged) ==
  LET d == Disposition(rows, "actions", Archived("actions"))
  IN IF d \in {"imported", "remapped"}
     THEN [merged EXCEPT !["actions"][Target(rows, "actions", d)].status =
             IF @ = "approved" THEN "pending" ELSE @]
     ELSE merged

MergeWorkspace(rows) ==
  LET merged == [t \in WsTables |-> InsertRecord(rows, t, Rewritten(rows, t))[t]]
  IN Normalize(rows, RewriteDeferred(rows, merged))

\* rebind_imported_project_memories: also a memory that was skipped.
Rebind(rows, merged) == [merged EXCEPT !["memories"][MapOf(rows, "memories")].ref = Here]

MergeMemory(rows) ==
  Rebind(rows, [t \in MmTables |-> InsertRecord(rows, t, Archived(t))[t]])

\* The memory database does not say whether it has the archive: it may be merged
\* into it again, under the next id.
Exhausted(rows) ==
  /\ Disposition(rows, "memories", Archived("memories")) = "remapped"
  /\ rows["memories"][MaxId] # NoRow
----------------------------------------------------------------------------
(* The commands. *)

Go(p, pc) == op' = [op EXCEPT ![p].pc = pc]

Unlock(p) == lock' = lock \ {p}

Databases == [ws |-> ws, mm |-> mm, files |-> extras]

\* app.py: import is refused while a journal exists; the archive is verified and
\* its rows are bounded before anything changes; then the backup is taken under
\* the locks and the journal is written outside them.
ImportBackup(p) ==
  /\ op[p].pc = "idle"
  /\ journal = NoJournal
  /\ lock = {}
  /\ op' = [op EXCEPT ![p] = [Idle EXCEPT !.pc = "backed", !.recovery = Databases]]
  /\ UNCHANGED <<ws, mm, initial, journal, lock, extras, crashes>>

ImportJournal(p) ==
  /\ op[p].pc = "backed"
  /\ journal' = [recovery |-> op[p].recovery]
  /\ Go(p, "journalled")
  /\ UNCHANGED <<ws, mm, initial, lock, extras, crashes>>

\* The rollback images, taken under the locks.
ImportLock(p) ==
  /\ op[p].pc = "journalled"
  /\ lock = {}
  /\ lock' = {p}
  /\ op' = [op EXCEPT ![p].pc = "locked", ![p].rollback = Databases]
  /\ UNCHANGED <<ws, mm, initial, journal, extras, crashes>>

\* An archive that the workspace database says is imported is not merged again.
AlreadyImported(p) ==
  /\ op[p].pc = "locked"
  /\ ws.imported
  /\ journal' = NoJournal
  /\ Unlock(p)
  /\ Go(p, "merged")
  /\ UNCHANGED <<ws, mm, initial, extras, crashes>>

\* Both transactions are open and everything is merged in them; the workspace
\* database commits first.
MergeCommitWorkspace(p) ==
  /\ op[p].pc = "locked"
  /\ ~ws.imported
  /\ ~Clashes(ws.rows) /\ ~Exhausted(mm.rows)
  /\ ws' = [rows |-> MergeWorkspace(ws.rows), imported |-> TRUE]
  /\ Go(p, "half")
  /\ UNCHANGED <<mm, initial, journal, lock, extras, crashes>>

CommitMemory(p) ==
  /\ op[p].pc = "half"
  /\ mm' = [rows |-> MergeMemory(mm.rows), imported |-> TRUE]
  /\ Go(p, "committed")
  /\ UNCHANGED <<ws, initial, journal, lock, extras, crashes>>

\* Mutant of MergeFails: only the open transactions are rolled back.
MergeRollsBack(p) ==
  /\ op[p].pc \in {"locked", "half"}
  /\ op[p].pc = "locked" => ~ws.imported
  /\ Unlock(p)
  /\ op' = [op EXCEPT ![p] = Idle]
  /\ journal' = NoJournal
  /\ UNCHANGED <<ws, mm, initial, extras, crashes>>

\* An exception before the second commit has returned: both files are replaced by
\* their images, and the journal stays.
MergeFails(p) ==
  /\ op[p].pc \in {"locked", "half"}
  /\ op[p].pc = "locked" => ~ws.imported
  /\ ws' = op[p].rollback.ws
  /\ mm' = op[p].rollback.mm
  /\ Unlock(p)
  /\ op' = [op EXCEPT ![p] = Idle]
  /\ UNCHANGED <<initial, journal, extras, crashes>>

MergeDone(p) ==
  /\ op[p].pc = "committed"
  /\ journal' = NoJournal
  /\ Unlock(p)
  /\ Go(p, "merged")
  /\ UNCHANGED <<ws, mm, initial, extras, crashes>>

\* _rebuild_plan_mirrors, artifacts, _rebuild_episodic, _merge_mcp and
\* _persist_import_report: in this order, after the locks, each may fail.
Steps == <<"mirrors", "artifacts", "episodic", "mcp", "report">>
NextExtra(p) ==
  /\ op[p].pc = "merged"
  /\ \E i \in 1..5 :
       /\ \A j \in 1..(i - 1) : Steps[j] \in extras
       /\ Steps[i] \notin extras
       /\ extras' = extras \union {Steps[i]}
  /\ UNCHANGED <<ws, mm, initial, journal, lock, op, crashes>>

ImportEnds(p) ==
  /\ op[p].pc = "merged"
  /\ op' = [op EXCEPT ![p] = Idle]
  /\ UNCHANGED <<ws, mm, initial, journal, lock, extras, crashes>>
----------------------------------------------------------------------------
\* doctor --fix restores the journal's recovery backup; `backup restore` one the
\* user made before (any process, journal or not).  restore first saves the
\* databases as they are, and its journal, which replaces the other, names that.
RestoreBegin(p, image) ==
  /\ op[p].pc = "idle"
  /\ lock = {}
  /\ op' = [op EXCEPT ![p] = [Idle EXCEPT !.pc = "safe", !.recovery = Databases,
                                          !.rollback = image]]
  /\ UNCHANGED <<ws, mm, initial, journal, lock, extras, crashes>>

DoctorFix(p) == journal # NoJournal /\ RestoreBegin(p, journal.recovery)

BackupRestore(p) == RestoreBegin(p, initial)

RestoreJournal(p) ==
  /\ op[p].pc = "safe"
  /\ journal' = [recovery |-> op[p].recovery]
  /\ Go(p, "restoring")
  /\ UNCHANGED <<ws, mm, initial, lock, extras, crashes>>

\* atomic_replace of the workspace database, then of the memory database, then of
\* the configuration, events, skills and artifacts; plan mirrors are in no backup.
RestoreWorkspace(p) ==
  /\ op[p].pc = "restoring"
  /\ lock = {}
  /\ lock' = {p}
  /\ ws' = op[p].rollback.ws
  /\ Go(p, "replacing")
  /\ UNCHANGED <<mm, initial, journal, extras, crashes>>

RestoreMemory(p) ==
  /\ op[p].pc = "replacing"
  /\ mm' = op[p].rollback.mm
  /\ extras' = (extras \intersect {"mirrors"}) \union (op[p].rollback.files \ {"mirrors"})
  /\ Unlock(p)
  /\ Go(p, "restored")
  /\ UNCHANGED <<ws, initial, journal, crashes>>

RestoreDone(p) ==
  /\ op[p].pc = "restored"
  /\ journal' = NoJournal
  /\ op' = [op EXCEPT ![p] = Idle]
  /\ UNCHANGED <<ws, mm, initial, lock, extras, crashes>>

\* The process dies: open transactions and file locks go, the journal stays.
Crash(p) ==
  /\ op[p].pc # "idle"
  /\ crashes < MaxCrashes
  /\ crashes' = crashes + 1
  /\ Unlock(p)
  /\ op' = [op EXCEPT ![p] = Idle]
  /\ UNCHANGED <<ws, mm, initial, journal, extras>>

Next ==
  \E p \in Proc :
    \/ ImportBackup(p) \/ ImportJournal(p) \/ ImportLock(p) \/ AlreadyImported(p)
    \/ MergeCommitWorkspace(p) \/ CommitMemory(p) \/ MergeFails(p) \/ MergeDone(p)
    \/ NextExtra(p) \/ ImportEnds(p)
    \/ DoctorFix(p) \/ BackupRestore(p) \/ RestoreJournal(p) \/ RestoreWorkspace(p)
    \/ RestoreMemory(p) \/ RestoreDone(p)
    \/ Crash(p)

Spec == Init /\ [][Next]_vars
----------------------------------------------------------------------------
\* The application starts when there is no journal (app.py); then, unless a
\* command is at work, an archive is in both databases or in neither.
ImportedTogether ==
  (journal = NoJournal /\ \A p \in Proc : op[p].pc \in {"idle", "merged"})
    => (ws.imported <=> mm.imported)

\* An import never takes away or replaces what was in the databases: a row keeps
\* its content, its status and what it refers to.  Only a step that delivered mail
\* and a memory, when identical to the archive's record and so counted as skipped,
\* come to refer to the archive's copy of the mail and to this project.
\* (import_merge.merge_tables, rewrite_deferred_references,
\* rebind_imported_project_memories)
LocalRow(t, before, after, rec) ==
  before # NoRow =>
    /\ after.body = before.body /\ after.status = before.status
    /\ after = before \/ (t \in {"steps", "memories"} /\ before = rec)

LocalRowsKept ==
  /\ \A t \in WsTables :
       LocalRow(t, initial.ws.rows[t][0], ws.rows[t][0], Rewritten(initial.ws.rows, t))
  /\ \A t \in MmTables :
       LocalRow(t, initial.mm.rows[t][0], mm.rows[t][0], Archived(t))

\* What the archive brings refers to its own rows, wherever they went: a plan has
\* the archive's revision, a step the archive's mail, which stays suspended until
\* the user resumes it, and a memory belongs to this workspace's project.
\* (import_merge.rewrite_references, rewrite_deferred_references, :59, :456)
ImportRefersToItself ==
  /\ ws.imported =>
       LET plan == ws.rows["plans"][MapOf(initial.ws.rows, "plans")]
           rev  == ws.rows["revisions"][plan.ref]
           step == ws.rows["steps"][MapOf(initial.ws.rows, "steps")]
           mail == ws.rows["mail"][step.ref]
       IN /\ plan.body = "a" /\ rev.body = "a" /\ rev.ref = MapOf(initial.ws.rows, "plans")
          /\ step.body = "a" /\ mail.body = "a" /\ mail.status = "suspended"
  /\ mm.imported =>
       \A i \in Id : mm.rows["memories"][i].body = "a" => mm.rows["memories"][i].ref = Here
=============================================================================
