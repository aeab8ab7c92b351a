------------------------------ MODULE Database ------------------------------
(***************************************************************************)
(* Opening a database: the owner lease of a workspace, the upgrade of an   *)
(* older schema behind a backup, the restore when a step fails, and the    *)
(* recovery the first opener runs.  An upgrade script is a transaction;    *)
(* its SQL is abstracted to the version it leaves behind.  Rows written    *)
(* with the current schema are marks, so that an image restored too late   *)
(* shows.  Leased is TRUE for the workspace database; the memory database  *)
(* is opened by every process without a lease.                             *)
(***************************************************************************)
EXTENDS Integers, FiniteSets

CONSTANTS Proc,      \* processes
          Child,     \* instances a process opens for its child sessions
          Nobody,
          Leased,    \* whether the database has an owner lease
          Oldest, Current,  \* schema versions before and after every upgrade
          MaxWrites  \* bound on the rows written

VARIABLES db,      \* the file: version and rows
          backups, \* images kept under backups/
          lock,    \* the process that holds <database>.owner.lock
          refs,    \* references of each process's lease
          ready,   \* lease.ready
          inst,    \* the database instances: [owner, child or not]
          done     \* history: rows whose commit returned

vars == <<db, backups, lock, refs, ready, inst, done>>

\* The instance a process opens itself, and those of its children.
Inst == Proc \X ({Nobody} \union Child)
Closed == [pc |-> "closed", source |-> 0, image |-> [version |-> 0, rows |-> {}],
           recovery |-> FALSE]

Init ==
  /\ \E v \in Oldest .. Current : db = [version |-> v, rows |-> {}]
  /\ backups = {}
  /\ lock = Nobody
  /\ refs = [p \in Proc |-> 0]
  /\ ready = [p \in Proc |-> FALSE]
  /\ inst = [i \in Inst |-> Closed]
  /\ done = {}

Goto(i, pc) == inst' = [inst EXCEPT ![i].pc = pc]
----------------------------------------------------------------------------
(* ownership.py                                                            *)

\* Mutant of Acquire: a child's open counts as the first one.
AcquireRecovers(i) ==
  /\ inst[i].pc = "closed" /\ lock \in {Nobody, i[1]}
  /\ i[2] # Nobody => inst[<<i[1], Nobody>>].pc = "ready"
  /\ lock' = i[1]
  /\ refs' = [refs EXCEPT ![i[1]] = @ + 1]
  /\ inst' = [inst EXCEPT ![i] = [Closed EXCEPT !.pc = "open", !.recovery = TRUE]]
  /\ UNCHANGED <<db, backups, ready, done>>

\* Mutant of Acquire: the lock of another process is not respected.
AcquireAnyway(i) ==
  /\ inst[i].pc = "closed" /\ i[2] = Nobody
  /\ lock' = i[1]
  /\ refs' = [refs EXCEPT ![i[1]] = @ + 1]
  /\ inst' = [inst EXCEPT ![i] = [Closed EXCEPT !.pc = "open"]]
  /\ UNCHANGED <<db, backups, ready, done>>

\* acquire_workspace_lease: a process without a lease takes the lock file and
\* will recover; one with a lease shares it with its children once it is
\* ready.  A child session opens the database of a parent that is running.
Acquire(i) ==
  LET p == i[1]
      child == i[2] # Nobody IN
  /\ inst[i].pc = "closed"
  /\ child => inst[<<p, Nobody>>].pc = "ready"
  /\ IF Leased
     THEN /\ IF refs[p] > 0 THEN child /\ ready[p] ELSE lock = Nobody
          /\ lock' = p
          /\ refs' = [refs EXCEPT ![p] = @ + 1]
     ELSE UNCHANGED <<lock, refs>>
  /\ inst' = [inst EXCEPT ![i] =
                [Closed EXCEPT !.pc = "open", !.recovery = Leased /\ refs[p] = 0]]
  /\ UNCHANGED <<db, backups, ready, done>>

\* release_workspace_lease: the last reference closes the lock file.
Release(i) ==
  LET p == i[1] IN
  /\ refs' = [refs EXCEPT ![p] = IF Leased THEN @ - 1 ELSE @]
  /\ lock' = IF Leased /\ refs[p] = 1 THEN Nobody ELSE lock
  /\ ready' = [ready EXCEPT ![p] = @ /\ refs[p] > 1]
----------------------------------------------------------------------------
(* AsyncDatabase._initialize_or_validate and upgrades.py                   *)

\* The version read decides: nothing to do, or an upgrade from it.
Inspect(i) ==
  /\ inst[i].pc = "open"
  /\ IF db.version = Current
     THEN Goto(i, "valid")
     ELSE inst' = [inst EXCEPT ![i].pc = "checkpointed", ![i].source = db.version]
  /\ UNCHANGED <<db, backups, lock, refs, ready, done>>

\* _backup copies the file to a name of its own.
Backup(i) ==
  /\ inst[i].pc = "checkpointed"
  /\ backups' = backups \union {db}
  /\ inst' = [inst EXCEPT ![i].pc = "migrating", ![i].image = db]
  /\ UNCHANGED <<db, lock, refs, ready, done>>

\* One script, from the version read at the start and not from the file's: on
\* a file that another process has moved on, it fails.
Migrate(i) ==
  /\ inst[i].pc = "migrating" /\ inst[i].source < Current
  /\ IF db.version = inst[i].source
     THEN /\ db' = [db EXCEPT !.version = @ + 1]
          /\ inst' = [inst EXCEPT ![i].source = @ + 1]
     ELSE Goto(i, "failed") /\ UNCHANGED db
  /\ UNCHANGED <<backups, lock, refs, ready, done>>

\* A script, the validation of the old rows, or a cancellation stops it.
MigrationFails(i) ==
  /\ inst[i].pc = "migrating"
  /\ Goto(i, "failed")
  /\ UNCHANGED <<db, backups, lock, refs, ready, done>>

\* _validate_integrity passed after the last script.
Migrated(i) ==
  /\ inst[i].pc = "migrating" /\ inst[i].source = Current
  /\ Goto(i, "valid")
  /\ UNCHANGED <<db, backups, lock, refs, ready, done>>

\* _restore_backup puts the image back; open releases the lease and raises.
Restore(i) ==
  /\ inst[i].pc = "failed"
  /\ db' = inst[i].image
  /\ inst' = [inst EXCEPT ![i] = Closed]
  /\ Release(i)
  /\ UNCHANGED <<backups, done>>
----------------------------------------------------------------------------
\* WorkspaceDatabase.open marks the lease ready; _compose recovers when this
\* open took the lock.
Opened(i) ==
  /\ inst[i].pc = "valid"
  /\ ready' = [ready EXCEPT ![i[1]] = TRUE]
  /\ Goto(i, IF inst[i].recovery THEN "recover" ELSE "ready")
  /\ UNCHANGED <<db, backups, lock, refs, done>>

\* collaboration.interrupt_active and journal.interrupt_active: every active
\* row of the database is interrupted.
Recover(i) ==
  /\ inst[i].pc = "recover"
  /\ Goto(i, "ready")
  /\ UNCHANGED <<db, backups, lock, refs, ready, done>>

\* AsyncDatabase.transaction: the commit is shielded from cancellation.
Write(i) ==
  /\ inst[i].pc = "ready" /\ Cardinality(done) < MaxWrites
  /\ LET row == Cardinality(done) + 1 IN
     /\ db' = [db EXCEPT !.rows = @ \union {row}]
     /\ done' = done \union {row}
  /\ UNCHANGED <<backups, lock, refs, ready, inst>>

Close(i) ==
  /\ inst[i].pc = "ready"
  /\ inst' = [inst EXCEPT ![i] = Closed]
  /\ Release(i)
  /\ UNCHANGED <<db, backups, done>>

\* The process dies: the kernel drops the lock, an open transaction is gone.
Crash(p) ==
  /\ \E i \in Inst : i[1] = p /\ inst[i].pc # "closed"
  /\ inst' = [i \in Inst |-> IF i[1] = p THEN Closed ELSE inst[i]]
  /\ refs' = [refs EXCEPT ![p] = 0]
  /\ ready' = [ready EXCEPT ![p] = FALSE]
  /\ lock' = IF lock = p THEN Nobody ELSE lock
  /\ UNCHANGED <<db, backups, done>>
----------------------------------------------------------------------------
Next ==
  \/ \E i \in Inst : \/ Acquire(i) \/ Inspect(i) \/ Backup(i) \/ Migrate(i)
                     \/ MigrationFails(i) \/ Migrated(i) \/ Restore(i)
                     \/ Opened(i) \/ Recover(i) \/ Write(i) \/ Close(i)
  \/ \E p \in Proc : Crash(p)

Spec == Init /\ [][Next]_vars
----------------------------------------------------------------------------
\* Recovery interrupts every active run of the file, so it must meet no live
\* one: while an instance recovers, none is ready, in any process.
RecoversAlone == \A i, j \in Inst :
  inst[i].pc = "recover" => inst[j].pc # "ready"

\* Whatever fails or crashes during an upgrade, no row is lost whose commit
\* returned: an image is never put back over a file others have written to.
UpgradeKeepsRows == done \subseteq db.rows

\* Both: the first opener is alone, and its upgrade loses nothing.
UpgradeSafe == RecoversAlone /\ UpgradeKeepsRows
=============================================================================
