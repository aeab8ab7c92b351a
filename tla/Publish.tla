------------------------------ MODULE Publish ------------------------------
(***************************************************************************)
(* Writes to the parent workspace: a child Agent works in a private        *)
(* snapshot, its verified artifacts are published back, and file actions   *)
(* edit, create and undo.  Publishing and file actions hold the workspace  *)
(* lock of WorkspaceMutationCoordinator; the user's editor does not, and   *)
(* neither does the copy that makes a snapshot.                            *)
(*                                                                         *)
(* A file's content stands for its digest: every comparison in the code    *)
(* is of SHA-256 digests or of whole texts.                                *)
(***************************************************************************)
EXTENDS Naturals, FiniteSets

CONSTANTS Path, Child, Act,
          Txt,         \* contents
          Absent,      \* the file does not exist
          Allowed,     \* paths of the contracts' allowlist
          MaxEdits     \* bound: edits outside the lock and crashes

VARIABLES
    parent,   \* the parent workspace
    by,       \* who wrote each file last: "managed" or "user"
    child,    \* snapshots with their manifest and their verified artifacts
    pub,      \* the publication in progress: publish_artifacts does not await
    act,      \* file actions
    aside,    \* backups that stay beside their targets after a publication
    lost,     \* ghost: managed writes that overwrote another managed write
    stands,   \* ghost: originals in whose place a failed publication left a file
    edits

Rest == <<aside, lost, stands, edits>>
vars == <<parent, by, child, pub, act, Rest>>

Files == [Path -> Txt \cup {Absent}]
NoFiles == [p \in Path |-> Absent]
Idle == [pc |-> "idle", who |-> {}, want |-> NoFiles, arts |-> {},
         done |-> {}, undo |-> {}, at |-> {}, kept |-> {}, backup |-> NoFiles]
NewChild == [pc |-> "none", files |-> NoFiles, base |-> NoFiles,
             orig |-> NoFiles, todo |-> {}, at |-> {}, arts |-> NoFiles]

Init ==
    /\ parent \in Files
    /\ by = [p \in Path |-> "user"]
    /\ child = [c \in Child |-> NewChild]
    /\ pub = Idle
    /\ act = [a \in Act |-> [pc |-> "none"]]
    /\ aside = {} /\ lost = {} /\ stands = {}
    /\ edits = 0

(* Inside `with write_coordinator.lock(workspace)`. *)
Locked ==
    \/ pub.pc \in {"prepared", "checked", "replacing", "undoing"}
    \/ \E a \in Act : act[a].pc \in {"writing", "undoing"}

(* A managed write of p that expects to find e there. *)
Overwrites(who, p, e) ==
    IF by[p] = "managed" /\ parent[p] # e THEN {who} ELSE {}

Write(p, t) ==
    /\ parent' = [parent EXCEPT ![p] = t]
    /\ by' = [by EXCEPT ![p] = "managed"]

-----------------------------------------------------------------------------
(* Snapshots.                                                              *)

CreateSnapshot(c) ==
    /\ child[c].pc = "none"
    /\ child' = [child EXCEPT ![c].pc = "copying", ![c].todo = Path]
    /\ UNCHANGED <<parent, by, pub, act, Rest>>

(* copy2 of one file; its digest is read by the next step. *)
CopyFile(c, p) ==
    /\ child[c].pc = "copying" /\ child[c].at = {} /\ p \in child[c].todo
    /\ child' = [child EXCEPT
         ![c].todo = @ \ {p}, ![c].files[p] = parent[p], ![c].orig[p] = parent[p],
         ![c].at = IF parent[p] = Absent THEN {} ELSE {p}]
    /\ UNCHANGED <<parent, by, pub, act, Rest>>

(* manifest[relative] = sha256(entry): the parent's file is read again.    *)
(* When it is gone by now, or the totals exceed the limits, create removes *)
(* the copy and fails.                                                     *)
HashFile(c, p) ==
    /\ child[c].pc = "copying" /\ child[c].at = {p}
    /\ child' = [child EXCEPT ![c] =
         IF parent[p] = Absent THEN [NewChild EXCEPT !.pc = "gone"]
         ELSE [@ EXCEPT !.base[p] = parent[p], !.at = {}]]
    /\ UNCHANGED <<parent, by, pub, act, Rest>>

SnapshotReady(c) ==
    /\ child[c].pc = "copying" /\ child[c].at = {} /\ child[c].todo = {}
    /\ child' = [child EXCEPT ![c].pc = "working"]
    /\ UNCHANGED <<parent, by, pub, act, Rest>>

(* A tool of the child writes in its snapshot; it may still do so once the *)
(* output is verified, when a persistent worker goes on.                   *)
Work(c, p, t) ==
    /\ child[c].pc \in {"working", "verified"} /\ p \in Allowed
    /\ child[c].files[p] # t
    /\ child' = [child EXCEPT ![c].files[p] = t]
    /\ UNCHANGED <<parent, by, pub, act, Rest>>

(* AgentOutputVerifier: artifacts are existing files under the allowlist,  *)
(* recorded with the digest they have now.                                 *)
Verifiable(c, ps) == ps \subseteq {p \in Allowed : child[c].files[p] # Absent}

Verify(c, ps) ==
    /\ child[c].pc = "working" /\ Verifiable(c, ps)
    /\ child' = [child EXCEPT ![c].pc = "verified",
         ![c].arts = [p \in Path |-> IF p \in ps THEN child[c].files[p] ELSE Absent]]
    /\ UNCHANGED <<parent, by, pub, act, Rest>>

(* The schema, a required check, a memory proposal or the usage is wrong. *)
VerifyFails(c) ==
    /\ child[c].pc = "working"
    /\ child' = [child EXCEPT ![c].pc = "rejected"]
    /\ UNCHANGED <<parent, by, pub, act, Rest>>

-----------------------------------------------------------------------------
(* publish_artifacts.                                                      *)

Arts(c) == {p \in Path : child[c].arts[p] # Absent}

Reject(c) == child' = [child EXCEPT ![c].pc = "rejected"]

(* Staging copies, outside the lock; a changed file is refused. *)
Stage(c) ==
    /\ pub.pc = "idle" /\ child[c].pc = "verified"
    /\ IF \A p \in Arts(c) : child[c].files[p] = child[c].arts[p]
       THEN /\ pub' = [Idle EXCEPT !.pc = "staged", !.who = {c},
                          !.want = child[c].arts, !.arts = Arts(c)]
            /\ UNCHANGED child
       ELSE Reject(c) /\ UNCHANGED pub
    /\ UNCHANGED <<parent, by, act, Rest>>

(* Take the lock, make directories and temporary files beside the targets. *)
Prepare(c) ==
    /\ pub.pc = "staged" /\ pub.who = {c} /\ ~Locked
    /\ pub' = [pub EXCEPT !.pc = "prepared"]
    /\ UNCHANGED <<parent, by, child, act, Rest>>

(* As a bug: only files the snapshot knew are compared. *)
MatchesKnown(c) ==
    \A p \in pub.arts : child[c].base[p] = Absent \/ parent[p] = child[c].base[p]

(* Each target is still what the manifest recorded, or still absent. *)
Matches(c) == \A p \in pub.arts : parent[p] = child[c].base[p]

(* The backups go with the temporary files. *)
Fail(c) == pub' = Idle /\ Reject(c) /\ UNCHANGED <<parent, by, act, Rest>>

Revalidate(c) ==
    /\ pub.pc = "prepared" /\ pub.who = {c}
    /\ IF Matches(c)
       THEN /\ pub' = [pub EXCEPT !.pc = "checked"]
            /\ UNCHANGED <<parent, by, child, act, Rest>>
       ELSE Fail(c)

(* Files the manifest knows are copied aside, and the copy's digest compared. *)
BackUp(c) ==
    /\ pub.pc = "checked" /\ pub.who = {c}
    /\ IF \A p \in pub.arts : child[c].base[p] # Absent => parent[p] = child[c].base[p]
       THEN /\ pub' = [pub EXCEPT !.pc = "replacing", !.backup =
                 [p \in Path |-> IF p \in pub.arts THEN child[c].base[p] ELSE Absent]]
            /\ UNCHANGED <<parent, by, child, act, Rest>>
       ELSE Fail(c)

(* What the child was given of these paths. *)
Originals(c, ps) == {[path |-> p, text |-> child[c].base[p]] :
                         p \in {q \in ps : child[c].base[q] # Absent}}

Replace(c, p) ==
    /\ pub.pc = "replacing" /\ pub.who = {c} /\ p \in pub.arts \ pub.done
    /\ Write(p, pub.want[p])
    /\ pub' = [pub EXCEPT !.done = @ \cup {p}]
    /\ lost' = lost \cup Overwrites("publish", p, child[c].base[p])
    /\ stands' = stands \cup Originals(c, {p})
    /\ UNCHANGED <<child, act, aside, edits>>

(* A replace raises: _rollback_artifacts goes through what was replaced.   *)
RollBack(c) ==
    /\ pub.pc = "replacing" /\ pub.who = {c} /\ pub.done # pub.arts
    /\ pub' = [pub EXCEPT !.pc = "undoing", !.undo = pub.done]
    /\ UNCHANGED <<parent, by, child, act, Rest>>

(* Is the target still what was published?  Otherwise it is left alone.    *)
CheckBack(c, p) ==
    /\ pub.pc = "undoing" /\ pub.who = {c} /\ pub.at = {} /\ p \in pub.undo
    /\ pub' = IF parent[p] = pub.want[p] THEN [pub EXCEPT !.at = {p}]
              ELSE [pub EXCEPT !.undo = @ \ {p}, !.kept = @ \cup {p}]
    /\ UNCHANGED <<parent, by, child, act, Rest>>

(* The backup takes the target's place; without one the target is removed. *)
PutBack(c, p) ==
    /\ pub.pc = "undoing" /\ pub.who = {c} /\ pub.at = {p}
    /\ Write(p, pub.backup[p])
    /\ pub' = [pub EXCEPT !.undo = @ \ {p}, !.at = {}, !.backup[p] = Absent]
    /\ lost' = lost \cup Overwrites("rollback", p, pub.want[p])
    /\ stands' = stands \ Originals(c, {p})
    /\ UNCHANGED <<child, act, aside, edits>>

(* As a bug: the OSError is caught and nothing is noted. *)
CannotPutBackUnseen(c, p) ==
    /\ pub.pc = "undoing" /\ pub.who = {c} /\ p \in pub.undo /\ pub.at \subseteq {p}
    /\ pub' = [pub EXCEPT !.undo = @ \ {p}, !.at = {}]
    /\ UNCHANGED <<parent, by, child, act, Rest>>

(* An OSError at any of it: the artifact stays, and the failure is noted.  *)
CannotPutBack(c, p) ==
    /\ pub.pc = "undoing" /\ pub.who = {c} /\ p \in pub.undo /\ pub.at \subseteq {p}
    /\ pub' = [pub EXCEPT !.undo = @ \ {p}, !.at = {}, !.kept = @ \cup {p}]
    /\ UNCHANGED <<parent, by, child, act, Rest>>

Backups(ps) == {[path |-> p, text |-> pub.backup[p]] :
                    p \in {q \in ps : pub.backup[q] # Absent}}

(* As a bug: `finally` removes every backup. *)
RetainedNone == {}

(* retained_backups: those of the targets that could not be put back. *)
Retained == Backups(pub.kept)

(* "artifact publish failed and rollback needs recovery", or the failure   *)
(* itself when everything was put back; `finally` removes the rest of the  *)
(* backups.                                                                *)
Raise(c) ==
    /\ pub.pc = "undoing" /\ pub.who = {c} /\ pub.undo = {}
    /\ aside' = aside \cup Retained
    /\ pub' = Idle /\ Reject(c)
    /\ UNCHANGED <<parent, by, act, lost, stands, edits>>

(* The lock is released, the backups go, and the manifest follows the      *)
(* parent; it is saved in agent_workspaces by a statement of its own.      *)
Finish(c) ==
    /\ pub.pc = "replacing" /\ pub.who = {c} /\ pub.done = pub.arts
    /\ pub' = [pub EXCEPT !.pc = "saving", !.backup = NoFiles]
    /\ stands' = stands \ Originals(c, pub.arts)
    /\ UNCHANGED <<parent, by, child, act, aside, lost, edits>>

SaveBaseline(c) ==
    /\ pub.pc = "saving" /\ pub.who = {c}
    /\ child' = [child EXCEPT ![c].pc = "working", ![c].arts = NoFiles,
         ![c].base = [p \in Path |-> IF p \in pub.arts THEN pub.want[p] ELSE @[p]],
         ![c].orig = [p \in Path |-> IF p \in pub.arts THEN pub.want[p] ELSE @[p]]]
    /\ pub' = Idle
    /\ UNCHANGED <<parent, by, act, Rest>>

(* The process dies: files and backups stay as they are, the lock goes     *)
(* with it, and the saved manifest is the one restore_baseline reads.      *)
Crash ==
    /\ pub.pc # "idle" /\ \A a \in Act : act[a].pc \notin {"writing", "undoing"}
    /\ edits < MaxEdits /\ edits' = edits + 1
    /\ pub' = Idle
    /\ aside' = aside \cup Backups(Path)
    /\ UNCHANGED <<parent, by, child, act, lost, stands>>

Cleanup(c) ==
    /\ child[c].pc \in {"working", "rejected"} /\ pub.who # {c}
    /\ child' = [child EXCEPT ![c] = [NewChild EXCEPT !.pc = "gone"]]
    /\ UNCHANGED <<parent, by, pub, act, Rest>>

-----------------------------------------------------------------------------
(* File actions.                                                           *)

(* A create finds no file, an edit reads the one it will change. *)
ProposeFile(a, p, t) ==
    /\ act[a].pc = "none" /\ parent[p] # t
    /\ act' = [act EXCEPT ![a] = [pc |-> "pending", path |-> p,
                                  before |-> parent[p], after |-> t]]
    /\ UNCHANGED <<parent, by, child, pub, Rest>>

Refuse(a) ==
    /\ act' = [act EXCEPT ![a].pc = "refused"]
    /\ UNCHANGED <<parent, by, child, pub, Rest>>

(* As a bug: the proposal's hash is not compared again. *)
UnchangedAlways(a) == TRUE

Unchanged(a) == parent[act[a].path] = act[a].before

(* Approved: _apply takes the lock and compares the file with what the     *)
(* proposal saw.                                                           *)
BeginApply(a) ==
    /\ act[a].pc = "pending" /\ ~Locked
    /\ IF Unchanged(a)
       THEN /\ act' = [act EXCEPT ![a].pc = "writing"]
            /\ UNCHANGED <<parent, by, child, pub, Rest>>
       ELSE Refuse(a)

Apply(a) ==
    /\ act[a].pc = "writing"
    /\ Write(act[a].path, act[a].after)
    /\ lost' = lost \cup Overwrites("action", act[a].path, act[a].before)
    /\ act' = [act EXCEPT ![a].pc = "applied"]
    /\ UNCHANGED <<child, pub, aside, stands, edits>>

BeginReverse(a) ==
    /\ act[a].pc = "applied" /\ ~Locked
    /\ parent[act[a].path] = act[a].after
    /\ act' = [act EXCEPT ![a].pc = "undoing"]
    /\ UNCHANGED <<parent, by, child, pub, Rest>>

Reverse(a) ==
    /\ act[a].pc = "undoing"
    /\ Write(act[a].path, act[a].before)
    /\ lost' = lost \cup Overwrites("undo", act[a].path, act[a].after)
    /\ act' = [act EXCEPT ![a].pc = "undone"]
    /\ UNCHANGED <<child, pub, aside, stands, edits>>

(* The user's editor takes no lock. *)
UserEdit(p, t) ==
    /\ edits < MaxEdits /\ parent[p] # t
    /\ parent' = [parent EXCEPT ![p] = t]
    /\ by' = [by EXCEPT ![p] = "user"]
    /\ edits' = edits + 1
    /\ UNCHANGED <<child, pub, act, aside, lost, stands>>

-----------------------------------------------------------------------------
ChildNext == \E c \in Child :
    \/ CreateSnapshot(c) \/ SnapshotReady(c) \/ VerifyFails(c) \/ Cleanup(c)
    \/ \E p \in Path : CopyFile(c, p) \/ HashFile(c, p)
    \/ \E p \in Path, t \in Txt : Work(c, p, t)
    \/ \E ps \in SUBSET Path : Verify(c, ps)

PublishNext == \E c \in Child :
    \/ Stage(c) \/ Prepare(c) \/ Revalidate(c) \/ BackUp(c) \/ RollBack(c)
    \/ Raise(c) \/ Finish(c) \/ SaveBaseline(c)
    \/ \E p \in Path :
        Replace(c, p) \/ CheckBack(c, p) \/ PutBack(c, p) \/ CannotPutBack(c, p)

ActionNext == \E a \in Act :
    \/ BeginApply(a) \/ Apply(a) \/ BeginReverse(a) \/ Reverse(a)
    \/ \E p \in Path, t \in Txt : ProposeFile(a, p, t)

Next ==
    \/ ChildNext \/ PublishNext \/ ActionNext \/ Crash
    \/ \E p \in Path, t \in Txt \cup {Absent} : UserEdit(p, t)

Spec == Init /\ [][Next]_vars

-----------------------------------------------------------------------------
(* No publication, rollback, file action or undo overwrites a file that    *)
(* another managed write changed since the digest or the text it was       *)
(* compared with was read (workspace.py, files.py: both compare under the  *)
(* lock and write before releasing it).  A write between the snapshot's    *)
(* copy of a file and that digest is not seen: PublishKeepsEdits.          *)
ManagedWritesKept == lost = {}

(* While a publication is undone, each file it has dealt with is what it   *)
(* was before, unless the user has edited it since, or is one of those the *)
(* error will name (_rollback_artifacts).                                  *)
PutBackOrReported ==
    pub.pc = "undoing" =>
        \A c \in pub.who, p \in pub.done \ (pub.undo \cup pub.kept) :
            by[p] = "managed" => parent[p] = child[c].base[p]

(* A file that stands in the place of another because a publication did    *)
(* not come to its end, be it a failed rollback, an edit the rollback left *)
(* alone or a crash, has the original in a backup beside it                *)
(* (retained_backups).                                                     *)
OriginalsAside == stands \subseteq aside \cup Backups(Path)

(* Managed writes respect one another, and a publication that fails is     *)
(* undone, or leaves what is needed to undo it.                            *)
PublishHolds == ManagedWritesKept /\ PutBackOrReported /\ OriginalsAside

(* "Copy verified artifacts back without overwriting concurrent parent     *)
(* edits" (workspace.py:194): a file that is about to be replaced is the   *)
(* one the child was given, unless the user has just edited it.            *)
PublishKeepsEdits ==
    pub.pc = "replacing" =>
        \A c \in pub.who, p \in pub.arts \ pub.done :
            by[p] = "managed" => parent[p] = child[c].orig[p]
=============================================================================
