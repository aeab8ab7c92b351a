---------------------------- MODULE Permissions ----------------------------
(***************************************************************************)
(* The permission rules (tooling/permission_policy): rule files of the     *)
(* project and of the local workspace, rules of the session, trust in the  *)
(* project file's digest, and the decision on a call.  A rule covers a set *)
(* of calls (what the specs' matchers compute); a file that cannot be read *)
(* yields one rule that asks about everything.                             *)
(*                                                                         *)
(* Files are read, changed and replaced without a lock, each by a client   *)
(* (a process) in two steps.  One-time grants are modelled in Workflow.    *)
(***************************************************************************)
EXTENDS Integers, FiniteSets, Sequences

CONSTANTS
    Client,   \* processes that change rule files
    Call,     \* tool calls, as the matchers tell them apart
    Risky,    \* calls whose policy is destructive, external or open-world
    HardAsk,  \* calls a safety check always asks about
    HardDeny, \* calls a safety check always denies
    Rules,    \* [behavior, covers, glob]: glob is "none", "path" or "tool"
    Preset,   \* the rules of the workspace edit preset
    Legacy,   \* whether files without a version may exist at the start
    None

VARIABLES
    files,   \* source -> the parsed file
    session, \* rules of the session
    trusted, \* the project file whose digest is trusted, or None
    mode,    \* the permission mode
    edit,    \* client -> the file update it is making
    kept     \* history: restrictions added and not removed since

vars == <<files, session, trusted, mode, edit, kept>>

Sources == {"project", "local"}
Modes == {"full_access", "approve_for_me", "ask_for_approval"}
NoEdit == [pc |-> "idle"]

(* rules is the [[rules]] array, old the [[rule]] array older files have.  *)
Empty == [version |-> 2, rules |-> {}, old |-> {}, broken |-> FALSE]

Init ==
    /\ files \in [Sources -> IF Legacy
          THEN {Empty} \cup {[Empty EXCEPT !.version = 1, !.rules = S] : S \in SUBSET Rules}
                       \cup {[Empty EXCEPT !.version = 1, !.old = S] : S \in SUBSET Rules}
          ELSE {Empty}]
    /\ session = {} /\ trusted = None
    /\ mode \in Modes
    /\ edit = [c \in Client |-> NoEdit]
    /\ kept = {}

AskAll == [behavior |-> "ask", covers |-> Call, glob |-> "none"]

(* One raw rule as _file_rules yields it: exact tool names only in the     *)
(* current format, and an old allow with a glob is downgraded to ask.      *)
Parsed(rule, version) ==
    IF version = 2 /\ rule.glob = "tool" THEN AskAll
    ELSE IF version = 1 /\ rule.behavior = "allow" /\ rule.glob # "none"
    THEN [rule EXCEPT !.behavior = "ask"]
    ELSE rule

(* The rules array hides the older one.                                    *)
Array(f) == IF f.version = 1 /\ f.rules = {} THEN f.old ELSE f.rules

FileRules(f) ==
    IF f.broken THEN {AskAll} ELSE {Parsed(r, f.version) : r \in Array(f)}

Matching(source, c) ==
    {r \in IF source = "session" THEN session ELSE FileRules(files[source]) : c \in r.covers}

Behaviors(c) ==
    UNION {{r.behavior : r \in Matching(s, c)} : s \in Sources \cup {"session"}}

(* The most specific allow decides; only the project's must be trusted.    *)
Trusts == trusted = files["project"]
AllowSources(c) ==
    {s \in Sources \cup {"session"} : \E r \in Matching(s, c) : r.behavior = "allow"}

Default(c) ==
    IF mode = "full_access" \/ (mode = "approve_for_me" /\ c \notin Risky) THEN "allow" ELSE "ask"

(* PermissionEngine.decide: safety checks, then deny, ask, allow, the mode.*)
Decisions(c) ==
    IF c \in HardDeny THEN {"deny"}
    ELSE IF c \in HardAsk THEN {"ask"}
    ELSE IF "deny" \in Behaviors(c) THEN {"deny"}
    ELSE IF "ask" \in Behaviors(c) THEN {"ask"}
    ELSE IF AllowSources(c) # {}
    THEN {IF s = "project" /\ ~Trusts THEN "ask" ELSE "allow" : s \in AllowSources(c)}
    ELSE {Default(c)}

(* A rule of a session is stored in one statement.                         *)
AddSession(rule) ==
    /\ rule.glob # "tool"
    /\ session' = session \cup {rule}
    /\ kept' = IF rule.behavior = "allow" THEN kept ELSE kept \cup {<<"session", rule>>}
    /\ UNCHANGED <<files, trusted, mode, edit>>

RemoveSession(rule) ==
    /\ rule \in session
    /\ session' = session \ {rule}
    /\ kept' = kept \ {<<"session", rule>>}
    /\ UNCHANGED <<files, trusted, mode, edit>>

(* _persist_file_update reads the document first; nothing locks the file.  *)
ReadFile(c, source, op, rule) ==
    /\ edit[c] = NoEdit /\ ~files[source].broken
    /\ op = "add" => rule.glob # "tool"
    /\ op = "remove" => rule \in files[source].rules
    /\ edit' = [edit EXCEPT ![c] = [pc |-> op, source |-> source, rule |-> rule,
                                    file |-> files[source]]]
    /\ UNCHANGED <<files, session, trusted, mode, kept>>

(* The changed document replaces the file and is marked as version 2.      *)
WriteFile(c) ==
    LET e == edit[c]
    IN  /\ e.pc \in {"add", "remove"}
        /\ files' = [files EXCEPT ![e.source] =
             [e.file EXCEPT !.version = 2,
                            !.rules = IF e.pc = "add" THEN @ \cup {e.rule} ELSE @ \ {e.rule}]]
        /\ kept' = IF e.pc = "remove" THEN kept \ {<<e.source, e.rule>>}
                   ELSE IF e.rule.behavior = "allow" THEN kept
                   ELSE kept \cup {<<e.source, e.rule>>}
        /\ edit' = [edit EXCEPT ![c] = NoEdit]
        /\ UNCHANGED <<session, trusted, mode>>

(* A preset that writes its own rules over the file.                       *)
ApplyPresetAlone(c, enabled) ==
    /\ edit[c] = NoEdit
    /\ files' = [files EXCEPT !["local"] =
                   [@ EXCEPT !.version = 2, !.rules = IF enabled THEN Preset ELSE {}]]
    /\ UNCHANGED <<session, trusted, mode, edit, kept>>

(* write_workspace_edit_preset: other rules stay, a file without a version *)
(* counts as current.                                                      *)
ApplyPreset(c, enabled) ==
    LET old == files["local"]
        preset == IF enabled THEN Preset ELSE {}
    IN  /\ edit[c] = NoEdit /\ ~old.broken
        /\ files' = [files EXCEPT !["local"] =
             [old EXCEPT !.version = 2, !.rules = (old.rules \ Preset) \cup preset]]
        /\ UNCHANGED <<session, trusted, mode, edit, kept>>

(* /permissions trust-project stores the digest of the file as it is now.  *)
TrustProject ==
    /\ trusted' = files["project"]
    /\ UNCHANGED <<files, session, mode, edit, kept>>

SetMode(m) ==
    /\ mode' = m /\ m # mode
    /\ UNCHANGED <<files, session, trusted, edit, kept>>

(* Somebody edits a rule file by hand: it may stop parsing, or is mended.  *)
HandEdit(source) ==
    /\ files' = [files EXCEPT ![source].broken = ~@]
    /\ UNCHANGED <<session, trusted, mode, edit, kept>>

Next ==
    \/ \E r \in Rules : AddSession(r) \/ RemoveSession(r)
    \/ \E c \in Client, s \in Sources, op \in {"add", "remove"}, r \in Rules :
         ReadFile(c, s, op, r)
    \/ \E c \in Client : WriteFile(c)
    \/ \E c \in Client, enabled \in BOOLEAN : ApplyPreset(c, enabled)
    \/ TrustProject \/ \E m \in Modes : SetMode(m)
    \/ \E s \in Sources : HandEdit(s)

Spec == Init /\ [][Next]_vars

(* A restriction that was stored and never removed keeps restricting its   *)
(* calls: no later allow, preset, trust, mode or damaged file lets one     *)
(* through.                                                                *)
RestrictionsStand ==
    \A k \in kept, c \in Call : c \in k[2].covers => "allow" \notin Decisions(c)

(* "An ambiguous rule is downgraded to ask": a call that an old file's     *)
(* downgraded rule asks about is not allowed by that same rule later.      *)
AmbiguousStaysAsk ==
    [][\A s \in Sources, r \in Rules :
         /\ r \in files[s].rules /\ r \in files'[s].rules
         /\ r.behavior = "allow" /\ r.glob = "path" /\ files[s].version = 1
         => Parsed(r, files'[s].version).behavior # "allow"]_vars
=============================================================================
