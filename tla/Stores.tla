------------------------------- MODULE Stores -------------------------------
(***************************************************************************)
(* The parts of the program that keep rows, files and indexes: user memory *)
(* and its jobs, the databases and their upgrades, archives, artifacts and *)
(* tasks.  They share no state with one another, so they are looked at side *)
(* by side: focus is chosen once and names the component a behaviour is of. *)
(***************************************************************************)
EXTENDS Naturals

CONSTANTS
  Focus,                                   \* the components to look at
  Mem, NoMem, MaxRev,                                            \* MemoryStore
  Cand, Drain, None, MaxAttempts,                                \* MemoryJobs
  Proc, Child, Nobody, Leased, Oldest, Current, MaxWrites,       \* Database
  Importer, MaxCrashes,                                          \* Lifecycle
  Ses, Content, Put,                                             \* Artifacts
  Task, Call, Statuses                                           \* Tasks

\* None is no session and no memory, and Nobody no process.
ASSUME StoresAssumption ==
  None \notin Ses /\ None \notin Mem /\ Nobody \notin Proc

VARIABLES
  focus,  \* the component that runs
  mem, hist, fts, seen, given, cmd, tidy,
  kept, maker, cand, job, drain, review, crossed,
  db, backups, lock, refs, ready, inst, done,
  ws, mm, initial, journal, journalLock, op, extras, crashes,
  alive, disk, row, index, put, del, torn, late,
  owner, deps, status, call

Memory == INSTANCE MemoryStore
Jobs == INSTANCE MemoryJobs
Database == INSTANCE Database
Archive == INSTANCE Lifecycle WITH
  lock <- journalLock, Proc <- Importer
Artifacts == INSTANCE Artifacts
Tasks == INSTANCE Tasks

MemoryVars == <<mem, hist, fts, seen, given, cmd, tidy>>
JobsVars == <<kept, maker, cand, job, drain, review, crossed>>
DatabaseVars == <<db, backups, lock, refs, ready, inst, done>>
ArchiveVars == <<ws, mm, initial, journal, journalLock, op, extras, crashes>>
ArtifactsVars == <<alive, disk, row, index, put, del, torn, late>>
TasksVars == <<owner, deps, status, call>>

\* The variables of a component that does not run stay 0.
MemoryOff ==
  /\ mem = 0 /\ hist = 0 /\ fts = 0 /\ seen = 0 /\ given = 0 /\ cmd = 0
  /\ tidy = 0
JobsOff ==
  /\ kept = 0 /\ maker = 0 /\ cand = 0 /\ job = 0 /\ drain = 0 /\ review = 0
  /\ crossed = 0
DatabaseOff ==
  /\ db = 0 /\ backups = 0 /\ lock = 0 /\ refs = 0 /\ ready = 0 /\ inst = 0
  /\ done = 0
ArchiveOff ==
  /\ ws = 0 /\ mm = 0 /\ initial = 0 /\ journal = 0 /\ journalLock = 0
  /\ op = 0 /\ extras = 0 /\ crashes = 0
ArtifactsOff ==
  /\ alive = 0 /\ disk = 0 /\ row = 0 /\ index = 0 /\ put = 0 /\ del = 0
  /\ torn = 0 /\ late = 0
TasksOff ==
  owner = 0 /\ deps = 0 /\ status = 0 /\ call = 0

Init ==
  /\ focus \in Focus
  /\ IF focus = "memory" THEN Memory!Init ELSE MemoryOff
  /\ IF focus = "jobs" THEN Jobs!Init ELSE JobsOff
  /\ IF focus = "database" THEN Database!Init ELSE DatabaseOff
  /\ IF focus = "archive" THEN Archive!Init ELSE ArchiveOff
  /\ IF focus = "artifacts" THEN Artifacts!Init ELSE ArtifactsOff
  /\ IF focus = "tasks" THEN Tasks!Init ELSE TasksOff

Next ==
  \/ /\ focus = "memory" /\ Memory!Next
     /\ UNCHANGED <<focus, JobsVars, DatabaseVars, ArchiveVars, ArtifactsVars,
                    TasksVars>>
  \/ /\ focus = "jobs" /\ Jobs!Next
     /\ UNCHANGED <<focus, MemoryVars, DatabaseVars, ArchiveVars,
                    ArtifactsVars, TasksVars>>
  \/ /\ focus = "database" /\ Database!Next
     /\ UNCHANGED <<focus, MemoryVars, JobsVars, ArchiveVars, ArtifactsVars,
                    TasksVars>>
  \/ /\ focus = "archive" /\ Archive!Next
     /\ UNCHANGED <<focus, MemoryVars, JobsVars, DatabaseVars, ArtifactsVars,
                    TasksVars>>
  \/ /\ focus = "artifacts" /\ Artifacts!Next
     /\ UNCHANGED <<focus, MemoryVars, JobsVars, DatabaseVars, ArchiveVars,
                    TasksVars>>
  \/ /\ focus = "tasks" /\ Tasks!Next
     /\ UNCHANGED <<focus, MemoryVars, JobsVars, DatabaseVars, ArchiveVars,
                    ArtifactsVars>>

vars == <<focus, MemoryVars, JobsVars, DatabaseVars, ArchiveVars,
          ArtifactsVars, TasksVars>>

Spec == Init /\ [][Next]_vars

-----------------------------------------------------------------------------
(***************************************************************************)
(* Properties.  Each is stated, with the code it is about, in the module   *)
(* of the component.                                                       *)
(***************************************************************************)

\* The full-text index holds exactly the current text of every active memory,
\* whatever edits, undos, purges and consolidations interleave.
MemoryIndexAgrees == focus = "memory" => Memory!MemoryIndexAgrees

\* What a job extracts is adopted at most once, whatever drain tasks, retries,
\* recoveries and reviews there are at the same time.
MemoryAdoptedOnce == focus = "jobs" => Jobs!MemoryAdoptedOnce

\* Only the first process to open a workspace upgrades and recovers it, and no
\* row written by anybody is lost to a failed upgrade's restored backup.
UpgradeSafe == focus = "database" => Database!UpgradeSafe

\* An import reaches both databases or neither, keeps the rows they had but for
\* two references it redirects, and what it brings refers to its own rows.
ImportSafe == focus = "archive" =>
  /\ Archive!ImportedTogether
  /\ Archive!LocalRowsKept
  /\ Archive!ImportRefersToItself

\* Artifacts that rows rely on keep their files, and the index holds nothing
\* that was quarantined when it was indexed.
ArtifactsKept == focus = "artifacts" => Artifacts!ArtifactsKept

\* Dependencies never block every unfinished task of a session.
SomeTaskFree == focus = "tasks" => Tasks!SomeTaskFree
=============================================================================
