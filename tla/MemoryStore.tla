----------------------------- MODULE MemoryStore -----------------------------
(***************************************************************************)
(* The memory store: identities with immutable revisions, the search       *)
(* index, the accesses of runs, and the operations of several tasks and    *)
(* processes on one database: create, edit, forget, undo, purge, recall    *)
(* and consolidation.  A text is a member of a small set; ranking,         *)
(* embeddings and validation of texts are left out.                        *)
(***************************************************************************)
EXTENDS Integers

CONSTANTS Mem,     \* identities a memory can be created with
          NoMem,
          MaxRev   \* bound on the revisions of one memory

VARIABLES mem,   \* memories: status, current_revision (0 is NULL), origin, source_valid
          hist,  \* memory_revisions: text of each revision that has a row
          fts,   \* memory_fts: the revision indexed, 0 without a row
          seen,  \* memory_accesses: revisions the observed run was given
          given, \* history: memories whose text entered the observed run
          cmd,   \* a command between its read and its transaction
          tidy   \* the rows consolidation has read

vars == <<mem, hist, fts, seen, given, cmd, tidy>>

NoRow == [status |-> "none", rev |-> 0, origin |-> "manual", valid |-> TRUE]
Idle == [pc |-> "idle", mem |-> NoMem, rev |-> 0, text |-> "a", status |-> "active"]

Init ==
  /\ mem = [m \in Mem |-> NoRow]
  /\ hist = [m \in Mem |-> <<>>]
  /\ fts = [m \in Mem |-> 0]
  /\ seen = [m \in Mem |-> {}]
  /\ given = {}
  /\ cmd = Idle
  /\ tidy = {}
----------------------------------------------------------------------------
TextOf(m) == hist[m][mem[m].rev]

\* search_ranked, get_many: active memories joined with their revision's row.
Visible == {m \in Mem : mem[m].status = "active" /\ mem[m].rev \in DOMAIN hist[m]}

\* lifecycle.create: identity, first revision, index row and source at once.
Insert(m, text, origin) ==
  /\ mem' = [mem EXCEPT ![m] = [NoRow EXCEPT !.status = "active", !.rev = 1,
                                             !.origin = origin]]
  /\ hist' = [hist EXCEPT ![m] = [r \in {1} |-> text]]
  /\ fts' = [fts EXCEPT ![m] = 1]

\* _append_revision: the revision after the one read before.
AppendRevision(m, rev, text, status) ==
  /\ hist' = [hist EXCEPT ![m] = [r \in DOMAIN @ \union {rev + 1} |->
                                    IF r = rev + 1 THEN text ELSE @[r]]]
  /\ mem' = [mem EXCEPT ![m].status = status, ![m].rev = rev + 1]
  /\ fts' = [fts EXCEPT ![m] = IF status = "active" THEN rev + 1 ELSE 0]

\* Mutant of Erase: purge leaves the index row.
EraseKeepsIndex(m) ==
  /\ mem' = [mem EXCEPT ![m].status = "purged", ![m].rev = 0]
  /\ hist' = [hist EXCEPT ![m] = <<>>]
  /\ seen' = [seen EXCEPT ![m] = {}]
  /\ UNCHANGED fts

\* lifecycle.purge: index row, sources and every revision go, and with the
\* revisions, by ON DELETE CASCADE, the accesses that reference them.
Erase(m) ==
  /\ mem' = [mem EXCEPT ![m].status = "purged", ![m].rev = 0]
  /\ hist' = [hist EXCEPT ![m] = <<>>]
  /\ fts' = [fts EXCEPT ![m] = 0]
  /\ seen' = [seen EXCEPT ![m] = {}]
----------------------------------------------------------------------------
\* MemoryService.add, import_json, the promotion of a child's proposals and
\* the adoption of a candidate.
Create ==
  /\ \E m \in Mem, t \in {"a", "b"}, o \in {"manual", "automatic"} :
       mem[m].status = "none" /\ Insert(m, t, o)
  /\ UNCHANGED <<seen, given, cmd, tidy>>

Start(kind, m, text, status) ==
  /\ cmd.pc = "idle"
  /\ cmd' = [pc |-> kind, mem |-> m, rev |-> mem[m].rev, text |-> text, status |-> status]
  /\ UNCHANGED <<mem, hist, fts, seen, given, tidy>>

\* A row to change: it is joined with its revision, which a purge removed.
Readable(m) == mem[m].rev \in DOMAIN hist[m] /\ mem[m].rev < MaxRev

\* lifecycle.edit, forget and undo read the memory and check its status ...
Edit(m) == /\ Readable(m) /\ mem[m].status # "purged"
           /\ Start("edit", m, "b", "active")

Forget(m) == /\ Readable(m) /\ mem[m].status = "active"
             /\ Start("forget", m, TextOf(m), "forgotten")

Undo(m) ==
  LET earlier == {r \in DOMAIN hist[m] : r < mem[m].rev} IN
  /\ Readable(m) /\ mem[m].status # "purged" /\ earlier # {}
  /\ Start("undo", m, hist[m][CHOOSE r \in earlier : \A s \in earlier : s <= r], "active")

\* ... and commit later.  The primary key refuses a revision that another
\* writer has taken; a purge in between refuses nothing.
Commit ==
  /\ cmd.pc # "idle"
  /\ IF cmd.rev + 1 \in DOMAIN hist[cmd.mem]
     THEN UNCHANGED <<mem, hist, fts>>
     ELSE AppendRevision(cmd.mem, cmd.rev, cmd.text, cmd.status)
  /\ cmd' = Idle
  /\ UNCHANGED <<seen, given, tidy>>

\* purge, purge_session, purge_expired and purge_stale_projects of any process.
Purge(m) ==
  /\ mem[m].status \in {"active", "forgotten"}
  /\ Erase(m)
  /\ UNCHANGED <<given, cmd, tidy>>

\* RecallService.recall: a visible memory, with a valid source if it was
\* adopted automatically, enters the run; the access names the revision.
Recall(m) ==
  /\ m \in Visible
  /\ mem[m].origin = "automatic" => mem[m].valid
  /\ seen' = [seen EXCEPT ![m] = @ \union {mem[m].rev}]
  /\ given' = given \union {m}
  /\ UNCHANGED <<mem, hist, fts, cmd, tidy>>

\* _validate_sources: the run an automatic memory came from is not complete.
Invalidate(m) ==
  /\ m \in Visible /\ mem[m].origin = "automatic" /\ mem[m].valid
  /\ mem' = [mem EXCEPT ![m].valid = FALSE]
  /\ UNCHANGED <<hist, fts, seen, given, cmd, tidy>>

\* sources.add: a duplicate candidate is one more source.
AddSource(m) ==
  /\ mem[m].status # "none" /\ ~mem[m].valid
  /\ mem' = [mem EXCEPT ![m].valid = TRUE]
  /\ UNCHANGED <<hist, fts, seen, given, cmd, tidy>>

\* MemorySourceRepository.excluded_runs: whether the observed run is among
\* the runs the context builder leaves out.
Excluded == \E m \in Mem : \E r \in seen[m] :
  \/ mem[m].status # "active" \/ r # mem[m].rev
  \/ mem[m].origin = "automatic" /\ ~mem[m].valid
----------------------------------------------------------------------------
\* consolidate reads the active memories, with their revision and text ...
ConsolidateRead ==
  /\ tidy = {} /\ Visible # {}
  /\ tidy' = {[mem |-> m, rev |-> mem[m].rev, text |-> TextOf(m),
               origin |-> mem[m].origin, valid |-> mem[m].valid] : m \in Visible}
  /\ UNCHANGED <<mem, hist, fts, seen, given, cmd>>

\* ... groups them by text, keeps of each group one that is not automatic if
\* there is one, and forgets the other automatic ones of the group and every
\* automatic one without a valid source.
Survivors(group) ==
  LET kept == {x \in group : x.origin # "automatic"} IN
  IF kept = {} THEN group ELSE kept

Forgotten(survivor) ==
  {x \in tidy : x.origin = "automatic" /\ (x # survivor[x.text] \/ ~x.valid)}

\* The transaction updates rows by identity.  A revision taken meanwhile rolls
\* it back; of a memory purged meanwhile no revision is copied.
Consolidate ==
  /\ tidy # {}
  /\ \A x \in tidy : x.rev < MaxRev
  /\ \E survivor \in [{x.text : x \in tidy} -> tidy] :
     /\ \A t \in DOMAIN survivor :
          survivor[t] \in Survivors({x \in tidy : x.text = t})
     /\ LET gone == Forgotten(survivor)
            ids == {x.mem : x \in gone}
            row(m) == CHOOSE x \in gone : x.mem = m IN
        IF \E x \in gone : {x.rev, x.rev + 1} \subseteq DOMAIN hist[x.mem]
        THEN UNCHANGED <<mem, hist, fts>>
        ELSE /\ mem' = [m \in Mem |-> IF m \notin ids THEN mem[m] ELSE
                         [mem[m] EXCEPT !.status = "forgotten", !.rev = row(m).rev + 1]]
             /\ hist' = [m \in Mem |->
                  IF m \notin ids \/ row(m).rev \notin DOMAIN hist[m] THEN hist[m]
                  ELSE [r \in DOMAIN hist[m] \union {row(m).rev + 1} |->
                          IF r = row(m).rev + 1 THEN row(m).text ELSE hist[m][r]]]
             /\ fts' = [m \in Mem |-> IF m \in ids THEN 0 ELSE fts[m]]
  /\ tidy' = {}
  /\ UNCHANGED <<seen, given, cmd>>

\* The process of the command or of the consolidation ends before its commit.
Crash ==
  /\ cmd # Idle \/ tidy # {}
  /\ cmd' = Idle /\ tidy' = {}
  /\ UNCHANGED <<mem, hist, fts, seen, given>>
----------------------------------------------------------------------------
Next ==
  \/ Create \/ Commit \/ ConsolidateRead \/ Consolidate \/ Crash
  \/ \E m \in Mem : \/ Edit(m) \/ Forget(m) \/ Undo(m) \/ Purge(m)
                    \/ Recall(m) \/ Invalidate(m) \/ AddSource(m)

Spec == Init /\ [][Next]_vars
----------------------------------------------------------------------------
\* The search index holds exactly the current revision of every active memory,
\* through stale edits, purges and consolidations that overlap: memory_fts is
\* written by four transactions, each for rows another may have changed.
MemoryIndexAgrees == \A m \in Mem :
  fts[m] = IF mem[m].status = "active" THEN mem[m].rev ELSE 0

\* A memory edited, forgotten or purged leaves the context together with the
\* runs that were given it: the builder excludes such a run.
StaleRunExcluded == (\E m \in given : mem[m].status # "active") => Excluded
=============================================================================
