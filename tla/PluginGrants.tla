---------------------------- MODULE PluginGrants ----------------------------
(***************************************************************************)
(* Installed plugins and workspace grants, for one plugin name: packages   *)
(* by version in the user's directory, the user's registry, one grant file *)
(* per workspace.  Several workspaces run their own process; every         *)
(* registry change reads the file, and writes all of it later.  A call     *)
(* reads both files and the package, and starts a process later still.     *)
(***************************************************************************)
EXTENDS Naturals, FiniteSets

CONSTANTS Ws,          \* workspaces
          Ver,         \* versions
          Digest,      \* package contents
          Resident,    \* contents whose manifest asks for a process per session
          None,
          MaxOps       \* bound: commands and edits

VARIABLES
    disk,      \* contents installed per version
    reg,       \* registry record: version and workspaces that enabled it
    grant,     \* per workspace: version and digest, None when disabled
    op,        \* per workspace: the command in progress and the registry it read
    act,       \* per workspace: a plugin call
    sess,      \* per workspace and digest: the process kept for the session
    ops

vars == <<disk, reg, grant, op, act, sess, ops>>

NoReg == [ver |-> None, ws |-> {}]
NoGrant == [ver |-> None, digest |-> None]
NoOp == [pc |-> "idle", kind |-> "none", ver |-> None, doc |-> NoReg]
NoProc == [is |-> None, swapped |-> FALSE]
NoCall == [pc |-> "idle", approved |-> None, ver |-> None, grant |-> NoGrant,
           enabled |-> {}, seen |-> None, is |-> None, swapped |-> FALSE]

Init ==
    /\ disk = [v \in Ver |-> None]
    /\ reg = NoReg
    /\ grant = [w \in Ws |-> NoGrant]
    /\ op = [w \in Ws |-> NoOp]
    /\ act = [w \in Ws |-> NoCall]
    /\ sess = [w \in Ws |-> [d \in Resident |-> NoProc]]
    /\ ops = 0

(* The manifest of the recorded version, with the digest of its files. *)
Installed == IF reg.ver = None THEN None ELSE disk[reg.ver]

(* As a bug: a grant is for a version. *)
AuthorizesVersion(g, v, d) == g.ver = v

(* PluginRegistry.entries: the grant names this version and these very     *)
(* contents.  Capabilities and lifecycle authorization are part of it.     *)
Authorizes(g, v, d) == g.ver = v /\ g.digest = d

-----------------------------------------------------------------------------
(* Commands.                                                               *)

Begin(w, kind, v) ==
    /\ op[w].pc = "idle" /\ ops < MaxOps /\ ops' = ops + 1
    /\ op' = [op EXCEPT ![w] = [NoOp EXCEPT !.pc = "read", !.kind = kind, !.ver = v]]

(* Ghost: calls that are past their last look at the package they start,   *)
(* and what was enabled while a call was on its way.                       *)
Swapped(vs) ==
    act' = [w \in Ws |-> IF act[w].pc = "checked" /\ act[w].ver \in vs
                         THEN [act[w] EXCEPT !.swapped = TRUE] ELSE act[w]]
Enabling(w, d) == act' = [act EXCEPT ![w].enabled = @ \cup {d}]

(* install: copy to a temporary directory, compare, rename; a version that *)
(* exists with other contents is refused.                                  *)
Install(w, v, d) ==
    /\ Begin(w, "install", v) /\ disk[v] \in {None, d}
    /\ disk' = [disk EXCEPT ![v] = d]
    /\ IF disk[v] = None THEN Swapped({v}) ELSE UNCHANGED act
    /\ UNCHANGED <<reg, grant, sess>>

(* enable: the grant file first, then the workspace is listed. *)
Enable(w) ==
    /\ Begin(w, "enable", reg.ver) /\ Installed # None
    /\ grant' = [grant EXCEPT ![w] = [ver |-> reg.ver, digest |-> Installed]]
    /\ Enabling(w, Installed)
    /\ UNCHANGED <<disk, reg, sess>>

Disable(w) ==
    /\ Begin(w, "disable", reg.ver) /\ Installed # None
    /\ grant' = [grant EXCEPT ![w] = NoGrant]
    /\ UNCHANGED <<disk, reg, act, sess>>

(* uninstall: refused while a workspace is listed; then the record goes,   *)
(* then the directory.                                                     *)
Uninstall(w) ==
    /\ Begin(w, "uninstall", reg.ver) /\ Installed # None /\ reg.ws = {}
    /\ UNCHANGED <<disk, reg, grant, act, sess>>

(* A command for another plugin writes the same registry file. *)
OtherPlugin(w) ==
    /\ Begin(w, "other", reg.ver)
    /\ UNCHANGED <<disk, reg, grant, act, sess>>

(* write_install, enable, disable and remove_install read the registry     *)
(* file they will write; install loads the package once more before.       *)
Document(w) ==
    CASE op[w].kind = "install"   -> [reg EXCEPT !.ver = op[w].ver]
      [] op[w].kind = "enable"    -> [reg EXCEPT !.ws = @ \cup {w}]
      [] op[w].kind = "disable"   -> [reg EXCEPT !.ws = @ \ {w}]
      [] op[w].kind = "uninstall" -> NoReg
      [] OTHER                    -> reg

Pointless(w) ==
    \/ op[w].kind = "install" /\ disk[op[w].ver] = None
    \/ op[w].kind \in {"enable", "disable"} /\ reg.ver = None

ReadRegistry(w) ==
    /\ op[w].pc = "read"
    /\ op' = IF Pointless(w) THEN [op EXCEPT ![w] = NoOp]
             ELSE [op EXCEPT ![w].pc = "write", ![w].doc = Document(w)]
    /\ UNCHANGED <<disk, reg, grant, act, sess, ops>>

(* os.replace of the registry file. *)
WriteRegistry(w) ==
    /\ op[w].pc = "write"
    /\ reg' = op[w].doc
    /\ op' = IF op[w].kind = "uninstall" THEN [op EXCEPT ![w].pc = "rmtree"]
             ELSE [op EXCEPT ![w] = NoOp]
    /\ UNCHANGED <<disk, grant, act, sess, ops>>

RemoveFiles(w) ==
    /\ op[w].pc = "rmtree"
    /\ disk' = [v \in Ver |-> None] /\ Swapped(Ver)
    /\ op' = [op EXCEPT ![w] = NoOp]
    /\ UNCHANGED <<reg, grant, sess, ops>>

(* The process of a command dies between its writes. *)
CrashOp(w) ==
    /\ op[w].pc # "idle"
    /\ op' = [op EXCEPT ![w] = NoOp]
    /\ UNCHANGED <<disk, reg, grant, act, sess, ops>>

(* The package directory is edited by hand. *)
Tamper(v, d) ==
    /\ ops < MaxOps /\ disk[v] # None /\ disk[v] # d
    /\ disk' = [disk EXCEPT ![v] = d] /\ Swapped({v})
    /\ ops' = ops + 1
    /\ UNCHANGED <<reg, grant, op, sess>>

-----------------------------------------------------------------------------
(* A plugin call: proposed with the digest of the moment, approved by the  *)
(* user or a rule, executed later.                                         *)

ProposeCall(w) ==
    /\ act[w].pc = "idle" /\ Installed # None
    /\ Authorizes(grant[w], reg.ver, Installed)
    /\ act' = [act EXCEPT ![w] = [NoCall EXCEPT !.pc = "pending", !.approved = Installed]]
    /\ UNCHANGED <<disk, reg, grant, op, sess, ops>>

Refuse(w) == act' = [act EXCEPT ![w] = NoCall]

(* PluginRegistry.entries in a thread: the registry is read, *)
LookUp(w) ==
    /\ act[w].pc = "pending"
    /\ IF reg.ver = None THEN Refuse(w)
       ELSE act' = [act EXCEPT ![w].pc = "looked", ![w].ver = reg.ver,
                               ![w].enabled = {grant[w].digest}]
    /\ UNCHANGED <<disk, reg, grant, op, sess, ops>>

(* then the grants, *)
ReadGrant(w) ==
    /\ act[w].pc = "looked"
    /\ act' = [act EXCEPT ![w].pc = "granted", ![w].grant = grant[w]]
    /\ UNCHANGED <<disk, reg, grant, op, sess, ops>>

(* then the package. *)
HashPackage(w) ==
    /\ act[w].pc = "granted"
    /\ LET d == disk[act[w].ver] IN
       IF d # None /\ Authorizes(act[w].grant, act[w].ver, d)
       THEN act' = [act EXCEPT ![w].pc = "hashed", ![w].seen = d]
       ELSE Refuse(w)
    /\ UNCHANGED <<disk, reg, grant, op, sess, ops>>

(* As a bug: the package is not hashed again. *)
SameAlways(w) == TRUE

(* get: "plugin package changed on disk". *)
Same(w) == disk[act[w].ver] = act[w].seen

(* As a bug: what is enabled now runs, whatever was approved. *)
ApprovedAny(w) == TRUE

(* "plugin package or workspace grant changed after approval". *)
Approved(w) == act[w].approved = act[w].seen

HashAgain(w) ==
    /\ act[w].pc = "hashed"
    /\ IF Same(w) /\ Approved(w) THEN act' = [act EXCEPT ![w].pc = "checked"]
       ELSE Refuse(w)
    /\ UNCHANGED <<disk, reg, grant, op, sess, ops>>

(* Locks, a sandbox command and create_subprocess_exec lie between: the    *)
(* process runs what is there by now.                                      *)
Spawned(w) == [is |-> disk[act[w].ver], swapped |-> act[w].swapped]

Run(w, proc) ==
    act' = [act EXCEPT ![w].pc = "running", ![w].is = proc.is, ![w].swapped = proc.swapped]

(* A process for this call alone, or for the session. *)
Spawn(w) ==
    /\ act[w].pc = "checked"
    /\ act[w].seen \in Resident => sess[w][act[w].seen] = NoProc
    /\ IF disk[act[w].ver] = None THEN Refuse(w) /\ UNCHANGED sess
       ELSE /\ Run(w, Spawned(w))
            /\ IF act[w].seen \in Resident
               THEN sess' = [sess EXCEPT ![w][act[w].seen] = Spawned(w)]
               ELSE UNCHANGED sess
    /\ UNCHANGED <<disk, reg, grant, op, ops>>

(* The process the session keeps for this digest. *)
Reuse(w) ==
    /\ act[w].pc = "checked" /\ act[w].seen \in Resident
    /\ sess[w][act[w].seen] # NoProc
    /\ Run(w, sess[w][act[w].seen])
    /\ UNCHANGED <<disk, reg, grant, op, sess, ops>>

EndCall(w) ==
    /\ act[w].pc = "running"
    /\ Refuse(w)
    /\ UNCHANGED <<disk, reg, grant, op, sess, ops>>

(* An error, a timeout, too long an idle time or the end of the session. *)
DropSession(w, d) ==
    /\ sess[w][d] # NoProc
    /\ sess' = [sess EXCEPT ![w][d] = NoProc]
    /\ UNCHANGED <<disk, reg, grant, op, act, ops>>

Next ==
    \/ \E w \in Ws :
         \/ Enable(w) \/ Disable(w) \/ Uninstall(w) \/ OtherPlugin(w)
         \/ ReadRegistry(w) \/ WriteRegistry(w) \/ RemoveFiles(w) \/ CrashOp(w)
         \/ ProposeCall(w) \/ LookUp(w) \/ ReadGrant(w) \/ HashPackage(w)
         \/ HashAgain(w) \/ Spawn(w) \/ Reuse(w) \/ EndCall(w)
         \/ \E v \in Ver, d \in Digest : Install(w, v, d)
         \/ \E d \in Resident : DropSession(w, d)
    \/ \E v \in Ver, d \in Digest : Tamper(v, d)

Spec == Init /\ [][Next]_vars

-----------------------------------------------------------------------------
(* A call runs contents that were enabled in its workspace while it was    *)
(* being executed, not only when it was proposed, and the very contents    *)
(* that were approved: through upgrades, hand edits, removal and           *)
(* reinstallation, registry writes lost to another process, crashes        *)
(* between two writes, and processes that outlive their call (registry.py  *)
(* entries and get, executors.py, client.py _get_session).  The exception  *)
(* is a process that was started after its package changed once more       *)
(* behind the last comparison: nothing in the code looks again.            *)
RunsWhatWasEnabled ==
    \A w \in Ws : act[w].pc = "running" =>
        /\ act[w].seen \in act[w].enabled
        /\ act[w].seen = act[w].approved
        /\ act[w].is = act[w].seen \/ act[w].swapped

(* "plugin is still enabled in: ..." (service.py:151): a plugin is not     *)
(* removed under a workspace that has it enabled.  Lost registry updates   *)
(* and a crash between enable's two writes refute it.                      *)
NotRemovedWhileEnabled ==
    \A w \in Ws : op[w].pc = "rmtree" =>
        \A x \in Ws : grant[x].ver = None \/ op[x].pc \in {"read", "write"}
=============================================================================
