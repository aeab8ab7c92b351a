--------------------------- MODULE SessionProofs ----------------------------
(***************************************************************************)
(* Theorems of Session about what a session may do: the permission rules   *)
(* that bind its calls, the plans it implements, the tokens its answers    *)
(* cost, and the rounds of tool calls, laid out as in ToolsProofs.         *)
(***************************************************************************)
EXTENDS Session, Sequences, FiniteSets, SequenceTheorems, FiniteSetTheorems,
        WellFoundedInduction, TLAPS

-----------------------------------------------------------------------------
(***************************************************************************)
(* The permission rules.                                                   *)
(***************************************************************************)

FileFields == {"version", "rules", "old", "broken"}
Editing == {"add", "remove"}

RuleTypes ==
  /\ DOMAIN files = Permissions!Sources /\ DOMAIN edit = Client
  /\ \A s \in Permissions!Sources : DOMAIN files[s] = FileFields
  /\ \A c \in Client : edit[c].pc \in Editing =>
       /\ edit[c].source \in Permissions!Sources /\ edit[c].rule \in Rules
       /\ DOMAIN edit[c].file = FileFields
       /\ edit[c].pc = "add" => edit[c].rule.glob # "tool"

\* Where a restriction that was added and not removed is stored.
Stored(k) ==
  \/ k[1] = "session" /\ k[2] \in session
  \/ k[1] \in Permissions!Sources /\ files[k[1]].version = 2 /\ k[2] \in files[k[1]].rules

Restricts(r) == r \in Rules /\ r.behavior # "allow" /\ r.glob # "tool"

\* A document read before a change holds what was stored when it was read.
PermissionsInv ==
  /\ RuleTypes
  /\ \A k \in kept : k = <<k[1], k[2]>> /\ Restricts(k[2]) /\ Stored(k)
  /\ \A c \in Client, k \in kept :
       edit[c].pc \in Editing /\ k[1] = edit[c].source => k[2] \in edit[c].file.rules

\* PermissionEngine.decide: what is stored takes part in the decision.
LEMMA StoredDecides ==
  ASSUME \A r \in Rules : r.behavior \in {"allow", "ask", "deny"},
         NEW k, Restricts(k[2]), Stored(k), NEW c \in Call, c \in k[2].covers
  PROVE  "allow" \notin Permissions!Decisions(c)
<1>1. \E b \in {"ask", "deny"} : b \in Permissions!Behaviors(c)
  <2>1. CASE k[1] = "session" /\ k[2] \in session
    <3>1. k[2] \in Permissions!Matching("session", c)
      BY <2>1 DEF Permissions!Matching
    <3>2. k[2].behavior \in Permissions!Behaviors(c)
      BY <3>1 DEF Permissions!Behaviors
    <3> QED BY <3>2 DEF Restricts
  <2>2. CASE /\ k[1] \in Permissions!Sources /\ files[k[1]].version = 2
             /\ k[2] \in files[k[1]].rules
    <3> DEFINE f == files[k[1]]
    <3>0. k[1] # "session"
      BY <2>2 DEF Permissions!Sources
    <3>1. CASE f.broken
      <4>1. Permissions!AskAll \in Permissions!FileRules(f)
        BY <3>1 DEF Permissions!FileRules
      <4>2. Permissions!AskAll.behavior = "ask" /\ c \in Permissions!AskAll.covers
        BY DEF Permissions!AskAll
      <4>3. Permissions!AskAll \in Permissions!Matching(k[1], c)
        BY <3>0, <4>1, <4>2 DEF Permissions!Matching
      <4>4. "ask" \in Permissions!Behaviors(c)
        BY <2>2, <4>2, <4>3 DEF Permissions!Behaviors
      <4> QED BY <4>4
    <3>2. CASE ~f.broken
      <4>1. k[2] \in Permissions!Array(f) /\ Permissions!Parsed(k[2], f.version) = k[2]
        BY <2>2 DEF Permissions!Array, Permissions!Parsed, Restricts
      <4>2. k[2] \in Permissions!FileRules(f)
        BY <3>2, <4>1 DEF Permissions!FileRules
      <4>3. k[2] \in Permissions!Matching(k[1], c)
        BY <3>0, <4>2 DEF Permissions!Matching
      <4>4. k[2].behavior \in Permissions!Behaviors(c)
        BY <2>2, <4>3 DEF Permissions!Behaviors
      <4> QED BY <4>4 DEF Restricts
    <3> QED BY <3>1, <3>2
  <2> QED BY <2>1, <2>2 DEF Stored
<1> QED BY <1>1 DEF Permissions!Decisions

\* The permission store and engine: for any calls, rules and safety checks, a
\* restriction that was added and not removed lets no call through that it
\* covers.  One client changes the rule files: nothing locks them between the
\* read and the write of another one.
LEMMA PermissionsSafe ==
  ASSUME \A c, d \in Client : c = d
  PROVE  Permissions!Spec => []Permissions!RestrictionsStand
<1>0. /\ \A r \in Rules : r.behavior \in {"allow", "ask", "deny"}
      /\ \A r \in Preset : r.behavior = "allow"
  BY SessionAssumption
<1> USE <1>0
<1>1. Permissions!Init => PermissionsInv
  <2> SUFFICES ASSUME Permissions!Init PROVE PermissionsInv
    OBVIOUS
  <2>1. ASSUME NEW S PROVE /\ DOMAIN Permissions!Empty = FileFields
                           /\ DOMAIN [Permissions!Empty EXCEPT !.version = 1, !.rules = S] = FileFields
                           /\ DOMAIN [Permissions!Empty EXCEPT !.version = 1, !.old = S] = FileFields
    BY DEF Permissions!Empty, FileFields
  <2>2. DOMAIN files = Permissions!Sources /\ \A s \in Permissions!Sources : DOMAIN files[s] = FileFields
    <3> DEFINE start == IF Legacy
          THEN {Permissions!Empty}
               \cup {[Permissions!Empty EXCEPT !.version = 1, !.rules = S] : S \in SUBSET Rules}
               \cup {[Permissions!Empty EXCEPT !.version = 1, !.old = S] : S \in SUBSET Rules}
          ELSE {Permissions!Empty}
    <3>1. \A f \in start : DOMAIN f = FileFields
      BY <2>1
    <3>2. files \in [Permissions!Sources -> start]
      BY DEF Permissions!Init
    <3> HIDE DEF start
    <3> QED BY <3>1, <3>2
  <2>3. DOMAIN edit = Client /\ \A c \in Client : edit[c].pc = "idle"
    BY DEF Permissions!Init, Permissions!NoEdit
  <2>4. kept = {}
    BY DEF Permissions!Init
  <2> QED BY <2>2, <2>3, <2>4 DEF PermissionsInv, RuleTypes, Editing
<1>2. PermissionsInv /\ [Permissions!Next]_Permissions!vars => PermissionsInv'
  <2> SUFFICES ASSUME PermissionsInv, [Permissions!Next]_Permissions!vars PROVE PermissionsInv'
    OBVIOUS
  <2>1. ASSUME NEW r \in Rules, Permissions!AddSession(r) PROVE PermissionsInv'
    <3>1. /\ r.glob # "tool" /\ session' = session \cup {r} /\ UNCHANGED <<files, edit>>
          /\ kept' = IF r.behavior = "allow" THEN kept ELSE kept \cup {<<"session", r>>}
      BY <2>1 DEF Permissions!AddSession
    <3>2. RuleTypes'
      BY <3>1 DEF PermissionsInv, RuleTypes
    <3>3. ASSUME NEW k \in kept' PROVE k = <<k[1], k[2]>> /\ Restricts(k[2]) /\ Stored(k)'
      <4>1. CASE k \in kept
        BY <3>1, <4>1 DEF PermissionsInv, Stored
      <4>2. CASE k = <<"session", r>> /\ r.behavior # "allow"
        BY <3>1, <4>2 DEF Restricts, Stored
      <4> QED BY <3>1, <3>3, <4>1, <4>2
    <3>4. ASSUME NEW c \in Client, NEW k \in kept', edit[c].pc \in Editing, k[1] = edit[c].source
          PROVE  k[2] \in edit[c].file.rules
      <4>1. k[1] # "session"
        BY <3>4 DEF PermissionsInv, RuleTypes, Permissions!Sources
      <4>2. k \in kept
        BY <3>1, <4>1
      <4> QED BY <3>4, <4>2 DEF PermissionsInv
    <3> QED BY <3>1, <3>2, <3>3, <3>4 DEF PermissionsInv
  <2>2. ASSUME NEW r \in Rules, Permissions!RemoveSession(r) PROVE PermissionsInv'
    <3>1. session' = session \ {r} /\ UNCHANGED <<files, edit>> /\ kept' = kept \ {<<"session", r>>}
      BY <2>2 DEF Permissions!RemoveSession
    <3>2. RuleTypes'
      BY <3>1 DEF PermissionsInv, RuleTypes
    <3>3. ASSUME NEW k \in kept' PROVE k = <<k[1], k[2]>> /\ Restricts(k[2]) /\ Stored(k)'
      <4>1. k \in kept /\ k = <<k[1], k[2]>> /\ Restricts(k[2]) /\ Stored(k)
        BY <3>1 DEF PermissionsInv
      <4>2. k[1] = "session" => k[2] # r
        BY <3>1, <4>1
      <4> QED BY <3>1, <4>1, <4>2 DEF Stored, Permissions!Sources
    <3> QED BY <3>1, <3>2, <3>3 DEF PermissionsInv
  <2>3. ASSUME NEW c \in Client, NEW s \in Permissions!Sources, NEW op \in Editing, NEW r \in Rules,
               Permissions!ReadFile(c, s, op, r)
        PROVE  PermissionsInv'
    <3> DEFINE x == [pc |-> op, source |-> s, rule |-> r, file |-> files[s]]
    <3>1. /\ edit' = [edit EXCEPT ![c] = x] /\ UNCHANGED <<files, session, kept>>
          /\ op = "add" => r.glob # "tool"
      BY <2>3 DEF Permissions!ReadFile
    <3>2. x.pc = op /\ x.source = s /\ x.rule = r /\ x.file = files[s]
      OBVIOUS
    <3> HIDE DEF x
    <3>3. DOMAIN edit' = Client /\ \A d \in Client : edit'[d] = x
      BY <3>1 DEF PermissionsInv, RuleTypes
    <3>4. RuleTypes'
      BY <3>1, <3>2, <3>3 DEF PermissionsInv, RuleTypes
    <3>5. ASSUME NEW k \in kept PROVE k = <<k[1], k[2]>> /\ Restricts(k[2]) /\ Stored(k)'
      BY <3>1 DEF PermissionsInv, Stored
    <3>6. ASSUME NEW k \in kept, k[1] = s PROVE k[2] \in files[s].rules
      BY <3>6 DEF PermissionsInv, Stored, Permissions!Sources
    <3> QED BY <3>1, <3>2, <3>3, <3>4, <3>5, <3>6 DEF PermissionsInv
  <2>4. ASSUME NEW c \in Client, Permissions!WriteFile(c) PROVE PermissionsInv'
    <3> DEFINE e == edit[c]
               rules == IF e.pc = "add" THEN e.file.rules \cup {e.rule} ELSE e.file.rules \ {e.rule}
               f == [e.file EXCEPT !.version = 2, !.rules = rules]
    <3>0. /\ e.pc \in Editing /\ e.source \in Permissions!Sources /\ e.rule \in Rules
          /\ DOMAIN e.file = FileFields /\ (e.pc = "add" => e.rule.glob # "tool")
      BY <2>4 DEF Permissions!WriteFile, PermissionsInv, RuleTypes, Editing
    <3>1. /\ files' = [files EXCEPT ![e.source] = f] /\ session' = session
          /\ kept' = IF e.pc = "remove" THEN kept \ {<<e.source, e.rule>>}
                     ELSE IF e.rule.behavior = "allow" THEN kept
                     ELSE kept \cup {<<e.source, e.rule>>}
          /\ edit' = [edit EXCEPT ![c] = Permissions!NoEdit]
      BY <2>4 DEF Permissions!WriteFile
    <3>2. DOMAIN f = FileFields /\ f.version = 2 /\ f.rules = rules
      BY <3>0 DEF FileFields
    <3> HIDE DEF f
    <3>3. /\ DOMAIN files' = Permissions!Sources /\ files'[e.source] = f
          /\ \A s \in Permissions!Sources : s # e.source => files'[s] = files[s]
      BY <3>0, <3>1 DEF PermissionsInv, RuleTypes
    <3>4. DOMAIN edit' = Client /\ \A d \in Client : edit'[d].pc = "idle"
      BY <3>1 DEF PermissionsInv, RuleTypes, Permissions!NoEdit
    <3>5. RuleTypes'
      BY <3>2, <3>3, <3>4 DEF PermissionsInv, RuleTypes, Editing
    <3>6. ASSUME NEW k \in kept' PROVE k = <<k[1], k[2]>> /\ Restricts(k[2]) /\ Stored(k)'
      <4>1. CASE k \in kept
        <5>1. k = <<k[1], k[2]>> /\ Restricts(k[2]) /\ Stored(k)
          BY <4>1 DEF PermissionsInv
        <5>2. CASE k[1] = e.source
          <6>1. k[2] \in e.file.rules
            BY <3>0, <4>1, <5>2 DEF PermissionsInv
          <6>2. e.pc = "remove" => k[2] # e.rule
            BY <3>1, <3>6, <5>1, <5>2
          <6>3. k[2] \in rules
            BY <3>0, <6>1, <6>2 DEF Editing
          <6> HIDE DEF rules
          <6>4. Stored(k)'
            BY <3>0, <3>2, <3>3, <5>2, <6>3 DEF Stored
          <6> QED BY <5>1, <6>4
        <5>3. CASE k[1] # e.source
          <6>1. Stored(k)'
            BY <3>1, <3>3, <5>1, <5>3 DEF Stored
          <6> QED BY <5>1, <6>1
        <5> QED BY <5>2, <5>3
      <4>2. CASE k \notin kept
        <5>1. k = <<e.source, e.rule>> /\ e.pc = "add" /\ e.rule.behavior # "allow"
          BY <3>0, <3>1, <3>6, <4>2 DEF Editing
        <5>2. e.rule \in rules
          BY <5>1
        <5> HIDE DEF rules
        <5>3. k[1] = e.source /\ k[2] = e.rule
          BY <5>1
        <5>4. Stored(k)'
          BY <3>0, <3>2, <3>3, <5>2, <5>3 DEF Stored
        <5> QED BY <3>0, <5>1, <5>3, <5>4 DEF Restricts
      <4> QED BY <4>1, <4>2
    <3> QED BY <3>4, <3>5, <3>6 DEF PermissionsInv, Editing
  <2>5. ASSUME NEW c \in Client, NEW enabled \in BOOLEAN, Permissions!ApplyPreset(c, enabled)
        PROVE  PermissionsInv'
    <3> DEFINE rules == (files["local"].rules \ Preset) \cup IF enabled THEN Preset ELSE {}
               f == [files["local"] EXCEPT !.version = 2, !.rules = rules]
    <3>0. "local" \in Permissions!Sources /\ DOMAIN files["local"] = FileFields
      BY DEF PermissionsInv, RuleTypes, Permissions!Sources
    <3>1. /\ edit[c].pc = "idle" /\ files' = [files EXCEPT !["local"] = f]
          /\ UNCHANGED <<session, edit, kept>>
      <4>1. edit[c].pc = "idle" /\ UNCHANGED <<session, edit, kept>>
        BY <2>5 DEF Permissions!ApplyPreset, Permissions!NoEdit
      <4>2. files' = [files EXCEPT !["local"] = [files["local"] EXCEPT !.version = 2,
                        !.rules = (files["local"].rules \ Preset) \cup IF enabled THEN Preset ELSE {}]]
        BY <2>5 DEF Permissions!ApplyPreset
      <4> QED BY <4>1, <4>2
    <3>2. DOMAIN f = FileFields /\ f.version = 2 /\ f.rules = rules
      BY <3>0 DEF FileFields
    <3> HIDE DEF f
    <3>3. /\ DOMAIN files' = Permissions!Sources /\ files'["local"] = f
          /\ \A s \in Permissions!Sources : s # "local" => files'[s] = files[s]
      BY <3>0, <3>1 DEF PermissionsInv, RuleTypes
    <3>4. \A d \in Client : edit'[d].pc = "idle"
      BY <3>1
    <3>5. RuleTypes'
      BY <3>1, <3>2, <3>3 DEF PermissionsInv, RuleTypes
    <3>6. ASSUME NEW k \in kept PROVE k = <<k[1], k[2]>> /\ Restricts(k[2]) /\ Stored(k)'
      <4>1. k = <<k[1], k[2]>> /\ Restricts(k[2]) /\ Stored(k)
        BY DEF PermissionsInv
      <4>2. CASE k[1] = "local"
        <5>1. k[2] \in files["local"].rules /\ k[2] \notin Preset
          BY <4>1, <4>2 DEF Stored, Restricts
        <5>2. k[2] \in rules
          BY <5>1
        <5> HIDE DEF rules
        <5> QED BY <3>0, <3>2, <3>3, <4>1, <4>2, <5>2 DEF Stored
      <4>3. CASE k[1] # "local"
        BY <3>1, <3>3, <4>1, <4>3 DEF Stored
      <4> QED BY <4>2, <4>3
    <3> QED BY <3>1, <3>4, <3>5, <3>6 DEF PermissionsInv, Editing
  <2>6. ASSUME UNCHANGED <<files, session, edit, kept>> PROVE PermissionsInv'
    BY <2>6 DEF PermissionsInv, RuleTypes, Stored
  <2>7. ASSUME Permissions!TrustProject \/ \E m \in Permissions!Modes : Permissions!SetMode(m)
        PROVE  PermissionsInv'
    BY <2>6, <2>7 DEF Permissions!TrustProject, Permissions!SetMode
  <2>8. ASSUME NEW s \in Permissions!Sources, Permissions!HandEdit(s) PROVE PermissionsInv'
    <3> DEFINE f == [files[s] EXCEPT !.broken = ~files[s].broken]
    <3>1. files' = [files EXCEPT ![s] = f] /\ UNCHANGED <<session, edit, kept>>
      BY <2>8 DEF Permissions!HandEdit
    <3>2. DOMAIN f = FileFields /\ f.version = files[s].version /\ f.rules = files[s].rules
      BY DEF PermissionsInv, RuleTypes, FileFields
    <3> HIDE DEF f
    <3>3. /\ DOMAIN files' = Permissions!Sources /\ files'[s] = f
          /\ \A t \in Permissions!Sources : t # s => files'[t] = files[t]
      BY <3>1 DEF PermissionsInv, RuleTypes
    <3>4. RuleTypes'
      BY <3>1, <3>2, <3>3 DEF PermissionsInv, RuleTypes
    <3>5. \A k \in kept : Stored(k) => Stored(k)'
      BY <3>1, <3>2, <3>3 DEF Stored
    <3> QED BY <3>1, <3>4, <3>5 DEF PermissionsInv
  <2>9. CASE UNCHANGED Permissions!vars
    BY <2>6, <2>9 DEF Permissions!vars
  <2> QED BY <2>1, <2>2, <2>3, <2>4, <2>5, <2>7, <2>8, <2>9 DEF Permissions!Next, Editing
<1>3. PermissionsInv => Permissions!RestrictionsStand
  BY StoredDecides DEF PermissionsInv, Permissions!RestrictionsStand
<1> QED BY <1>1, <1>2, <1>3, PTL DEF Permissions!Spec

\* The permission store and engine: in Session, with one client that changes
\* the rule files, a restriction that was added and not removed lets no call
\* through that it covers.
THEOREM RestrictionsAlwaysStand ==
  ASSUME \A c, d \in Client : c = d
  PROVE  Spec => []RestrictionsStand
<1>1. Init => Permissions!Init \/ focus # "permissions"
  BY DEF Init
<1>2. [Next]_vars => [Permissions!Next]_(Permissions!vars)
  BY DEF Next, vars, PermissionsVars, Permissions!vars
<1>3. focus # "permissions" /\ [Next]_vars => (focus # "permissions")'
  BY DEF Next, vars
<1>4. Permissions!RestrictionsStand \/ focus # "permissions" => RestrictionsStand
  BY DEF RestrictionsStand
<1> QED BY <1>1, <1>2, <1>3, PermissionsSafe, <1>4, PTL DEF Spec, Permissions!Spec

-----------------------------------------------------------------------------
(***************************************************************************)
(* Plan mode.                                                              *)
(***************************************************************************)

RequestFields == {"kind", "plan", "text", "status", "run"}
IsSequence(s) == \E S : s \in Seq(S)

LEMMA Appended ==
  ASSUME NEW s, IsSequence(s), NEW x
  PROVE  /\ IsSequence(Append(s, x)) /\ Len(s) \in Nat /\ DOMAIN s = 1 .. Len(s)
         /\ DOMAIN Append(s, x) = 1 .. (Len(s) + 1)
         /\ Append(s, x)[Len(s) + 1] = x
         /\ \A i \in DOMAIN s : Append(s, x)[i] = s[i]
<1>1. PICK S : s \in Seq(S)
  BY DEF IsSequence
<1>2. s \in Seq(S \cup {x})
  BY <1>1, SeqDef
<1>3. Append(s, x) \in Seq(S \cup {x})
  BY <1>2, AppendProperties
<1> QED BY <1>2, <1>3, AppendProperties, LenProperties DEF IsSequence

LEMMA Replaced ==
  ASSUME NEW s, IsSequence(s), NEW i \in DOMAIN s, NEW x
  PROVE  /\ IsSequence([s EXCEPT ![i] = x]) /\ DOMAIN [s EXCEPT ![i] = x] = DOMAIN s
         /\ [s EXCEPT ![i] = x][i] = x
         /\ \A j \in DOMAIN s : j # i => [s EXCEPT ![i] = x][j] = s[j]
<1>1. PICK S : s \in Seq(S)
  BY DEF IsSequence
<1>2. s \in Seq(S \cup {x})
  BY <1>1, SeqDef
<1>3. [s EXCEPT ![i] = x] \in Seq(S \cup {x})
  BY <1>2, ExceptSeq
<1> QED BY <1>3 DEF IsSequence

PlanTypes ==
  /\ DOMAIN plans = PlanId /\ DOMAIN impl = PlanId /\ DOMAIN approved = PlanId
  /\ \A p \in PlanId : /\ DOMAIN plans[p] = {"status", "cur", "texts"}
                       /\ DOMAIN impl[p] = {"status", "text", "run"}
  /\ IsSequence(requests) /\ \A r \in DOMAIN requests : DOMAIN requests[r] = RequestFields
  /\ IsSequence(runs) /\ \A n \in DOMAIN runs : DOMAIN runs[n] = {"status", "plan"}
  /\ DOMAIN user = {"pc", "plan", "text", "req"}

\* A submission that was approved, or may still be.
Stands(x) == x.kind = "submit" /\ x.status \in {"pending", "approved"}

Draft(p) == plans[p].status \in {"none", "draft"}

\* A plan has one standing submission at most, and none while it is a draft;
\* if that is approved, its text was on the screen.
OneSubmission ==
  \A r \in DOMAIN requests : Stands(requests[r]) /\ requests[r].plan \in PlanId =>
    /\ ~Draft(requests[r].plan)
    /\ \A q \in DOMAIN requests :
         Stands(requests[q]) /\ requests[q].plan = requests[r].plan => q = r
    /\ requests[r].status = "approved" => approved[requests[r].plan] = requests[r].text

\* What is implemented was submitted and approved.
Approves(r, p) ==
  /\ requests[r].kind = "submit" /\ requests[r].status = "approved" /\ requests[r].plan = p

WasApproved == \A p \in PlanId : impl[p].status # "none" =>
  impl[p].text = approved[p] /\ \E r \in DOMAIN requests : Approves(r, p)

RunsImplement == \A n \in DOMAIN runs :
  runs[n].plan \in PlanId => impl[runs[n].plan].status # "none"

\* The command shows the text of the submission it asks about.
ShowsIt ==
  /\ user.pc = "review" =>
       /\ user.req \in DOMAIN requests /\ requests[user.req].kind = "submit"
       /\ requests[user.req].text = user.text
  /\ user.pc = "queue" => user.req \in DOMAIN requests

PlansInv == PlanTypes /\ OneSubmission /\ WasApproved /\ RunsImplement /\ ShowsIt

UserKept == user' = user \/ (DOMAIN user' = DOMAIN user /\ user'.pc \notin {"review", "queue"})
RunsKept ==
  /\ IsSequence(runs') /\ \A n \in DOMAIN runs' : DOMAIN runs'[n] = {"status", "plan"}
  /\ \A n \in DOMAIN runs' : runs'[n].plan \in PlanId => impl'[runs'[n].plan].status # "none"
PlansKept ==
  /\ DOMAIN plans' = PlanId /\ \A p \in PlanId : DOMAIN plans'[p] = {"status", "cur", "texts"}
  /\ \A p \in PlanId : Draft(p)' => Draft(p)

ImplKept ==
  /\ DOMAIN impl' = PlanId
  /\ \A p \in PlanId : /\ DOMAIN impl'[p] = {"status", "text", "run"} /\ impl'[p].text = impl[p].text
                       /\ impl'[p].status # "none" => impl[p].status # "none"

\* A step that decides nothing: no plan becomes a draft that was submitted.
LEMMA DecidesNothing ==
  ASSUME PlansInv, UNCHANGED <<requests, approved>>, ImplKept, PlansKept, RunsKept, UserKept
  PROVE  PlansInv'
<1>1. PlanTypes'
  BY DEF PlansInv, PlanTypes, PlansKept, RunsKept, UserKept, ImplKept
<1>2. OneSubmission'
  <2>1. ASSUME NEW r \in DOMAIN requests, Stands(requests[r]), requests[r].plan \in PlanId
        PROVE  /\ ~Draft(requests[r].plan)'
               /\ \A q \in DOMAIN requests :
                    Stands(requests[q]) /\ requests[q].plan = requests[r].plan => q = r
               /\ requests[r].status = "approved" => approved[requests[r].plan] = requests[r].text
    <3>1. ~Draft(requests[r].plan)
      BY <2>1 DEF PlansInv, OneSubmission
    <3>2. ~Draft(requests[r].plan)'
      BY <2>1, <3>1 DEF PlansKept, Draft
    <3> QED BY <2>1, <3>2 DEF PlansInv, OneSubmission
  <2> QED BY <2>1 DEF OneSubmission, Stands, Draft
<1>3. WasApproved'
  BY DEF PlansInv, WasApproved, Approves, ImplKept
<1>4. RunsImplement'
  BY DEF RunsKept, RunsImplement
<1>5. ShowsIt'
  BY DEF PlansInv, ShowsIt, UserKept
<1> QED BY <1>1, <1>2, <1>3, <1>4, <1>5 DEF PlansInv

\* A submission of a draft, or a request of another kind, is added.
LEMMA Requested ==
  ASSUME PlansInv, NEW x, requests' = Append(requests, x), DOMAIN x = RequestFields,
         UNCHANGED <<impl, approved>>, PlansKept, RunsKept,
         Stands(x) /\ x.plan \in PlanId => Draft(x.plan) /\ ~Draft(x.plan)' /\ x.status # "approved",
         \/ UserKept
         \/ /\ DOMAIN user' = DOMAIN user /\ user'.pc = "review" /\ user'.req = Len(requests) + 1
            /\ x.kind = "submit" /\ user'.text = x.text
  PROVE  PlansInv'
<1>1. /\ IsSequence(requests') /\ Len(requests) \in Nat /\ DOMAIN requests = 1 .. Len(requests)
      /\ DOMAIN requests' = 1 .. (Len(requests) + 1)
      /\ requests'[Len(requests) + 1] = x
      /\ \A i \in DOMAIN requests : requests'[i] = requests[i]
  BY Appended DEF PlansInv, PlanTypes
<1> DEFINE new == Len(requests) + 1
<1>2. DOMAIN requests' = DOMAIN requests \cup {new} /\ new \notin DOMAIN requests
  BY <1>1
<1> HIDE DEF new
<1>3. requests'[new] = x
  BY <1>1 DEF new
<1>4. PlanTypes'
  BY <1>1, <1>2, <1>3 DEF PlansInv, PlanTypes, PlansKept, RunsKept, UserKept
<1>5. OneSubmission'
  <2>1. ASSUME NEW r \in DOMAIN requests', Stands(requests'[r]), requests'[r].plan \in PlanId
        PROVE  plans'[requests'[r].plan].status \notin {"none", "draft"}
    <3>1. CASE r = new
      BY <2>1, <3>1, <1>3 DEF Draft
    <3>2. CASE r # new
      <4>1. r \in DOMAIN requests /\ requests'[r] = requests[r]
        BY <1>1, <1>2, <3>2
      <4>2. ~Draft(requests[r].plan)
        BY <2>1, <4>1 DEF PlansInv, OneSubmission
      <4> QED BY <2>1, <4>1, <4>2 DEF PlansKept, Draft
    <3> QED BY <3>1, <3>2
  <2>2. ASSUME NEW r \in DOMAIN requests', NEW q \in DOMAIN requests',
               Stands(requests'[r]), requests'[r].plan \in PlanId,
               Stands(requests'[q]), requests'[q].plan = requests'[r].plan
        PROVE  q = r
    <3>1. CASE q # new /\ r # new
      <4>1. /\ r \in DOMAIN requests /\ q \in DOMAIN requests
            /\ requests'[r] = requests[r] /\ requests'[q] = requests[q]
        BY <1>1, <1>2, <3>1
      <4> QED BY <2>2, <4>1 DEF PlansInv, OneSubmission
    <3>2. ASSUME NEW i \in DOMAIN requests, requests'[i] = requests[i], Stands(requests[i]),
                 requests[i].plan \in PlanId, Stands(x), x.plan = requests[i].plan
          PROVE  FALSE
      BY <3>2 DEF PlansInv, OneSubmission
    <3>3. CASE q = new /\ r # new
      <4>1. r \in DOMAIN requests /\ requests'[r] = requests[r] /\ requests'[q] = x
        BY <1>1, <1>2, <1>3, <3>3
      <4> QED BY <2>2, <3>2, <4>1
    <3>4. CASE r = new /\ q # new
      <4>1. q \in DOMAIN requests /\ requests'[q] = requests[q] /\ requests'[r] = x
        BY <1>1, <1>2, <1>3, <3>4
      <4> QED BY <2>2, <3>2, <4>1
    <3> QED BY <3>1, <3>3, <3>4
  <2>3. ASSUME NEW r \in DOMAIN requests', Stands(requests'[r]), requests'[r].plan \in PlanId,
               requests'[r].status = "approved"
        PROVE  approved[requests'[r].plan] = requests'[r].text
    <3>1. r # new
      BY <2>3, <1>3
    <3>2. r \in DOMAIN requests /\ requests'[r] = requests[r]
      BY <1>1, <1>2, <3>1
    <3> QED BY <2>3, <3>2 DEF PlansInv, OneSubmission
  <2> QED BY <2>1, <2>2, <2>3 DEF OneSubmission, Stands, Draft
<1>6. WasApproved'
  <2>1. ASSUME NEW p \in PlanId, impl[p].status # "none"
        PROVE  impl[p].text = approved[p] /\ \E r \in DOMAIN requests' : Approves(r, p)'
    <3>1. PICK r \in DOMAIN requests : Approves(r, p)
      BY <2>1 DEF PlansInv, WasApproved
    <3>2. r \in DOMAIN requests' /\ Approves(r, p)'
      BY <1>1, <1>2, <3>1 DEF Approves
    <3> QED BY <2>1, <3>2 DEF PlansInv, WasApproved
  <2> QED BY <2>1 DEF WasApproved, Approves
<1>7. RunsImplement'
  BY DEF RunsKept, RunsImplement
<1>8. ShowsIt'
  <2>1. CASE UserKept
    BY <1>1, <1>2, <2>1 DEF PlansInv, ShowsIt, UserKept
  <2>2. CASE ~UserKept
    <3>1. user'.pc = "review" /\ user'.req = new /\ x.kind = "submit" /\ user'.text = x.text
      BY <2>2 DEF new
    <3> QED BY <1>2, <1>3, <3>1 DEF ShowsIt
  <2> QED BY <2>1, <2>2
<1> QED BY <1>4, <1>5, <1>6, <1>7, <1>8 DEF PlansInv

\* PlanRepository.decide: the request leaves the pending ones, its plan
\* follows, and an approval takes what was shown.
LEMMA Decided ==
  ASSUME PlansInv, NEW r \in DOMAIN requests, requests[r].kind = "submit",
         requests[r].status = "pending", NEW st \in {"approved", "feedback", "rejected"},
         requests' = [requests EXCEPT ![r].status = st], UNCHANGED impl,
         DOMAIN plans' = PlanId, \A p \in PlanId : DOMAIN plans'[p] = {"status", "cur", "texts"},
         \A p \in PlanId : plans'[p].status = IF p # requests[r].plan THEN plans[p].status
                                              ELSE IF st = "feedback" THEN "draft" ELSE st,
         approved' = IF st = "approved" THEN [approved EXCEPT ![requests[r].plan] = requests[r].text]
                     ELSE approved,
         RunsKept,
         \/ UserKept
         \/ DOMAIN user' = DOMAIN user /\ user'.pc = "queue" /\ user'.req = r
  PROVE  PlansInv'
<1> DEFINE x == [requests[r] EXCEPT !.status = st]
<1>0. IsSequence(requests) /\ DOMAIN requests[r] = RequestFields
  BY DEF PlansInv, PlanTypes
<1>1. /\ DOMAIN x = RequestFields /\ x.status = st /\ x.kind = "submit"
      /\ x.plan = requests[r].plan /\ x.text = requests[r].text
  BY <1>0 DEF RequestFields
<1>2. requests' = [requests EXCEPT ![r] = x]
  OBVIOUS
<1> HIDE DEF x
<1>3. /\ IsSequence(requests') /\ DOMAIN requests' = DOMAIN requests /\ requests'[r] = x
      /\ \A i \in DOMAIN requests : i # r => requests'[i] = requests[i]
  <2> DEFINE t == [requests EXCEPT ![r] = x]
  <2>1. /\ IsSequence(t) /\ DOMAIN t = DOMAIN requests /\ t[r] = x
        /\ \A i \in DOMAIN requests : i # r => t[i] = requests[i]
    BY <1>0, Replaced
  <2> HIDE DEF t
  <2>2. requests' = t
    BY <1>2 DEF t
  <2> QED BY <2>1, <2>2
<1>4. \A i \in DOMAIN requests : /\ requests'[i].plan = requests[i].plan
                                 /\ requests'[i].text = requests[i].text
                                 /\ requests'[i].kind = requests[i].kind
                                 /\ Stands(requests'[i]) => Stands(requests[i])
  BY <1>1, <1>3 DEF Stands
<1>5. \A i \in DOMAIN requests : i # r /\ Stands(requests[i]) /\ requests[i].plan \in PlanId
        => requests[i].plan # requests[r].plan
  BY DEF PlansInv, OneSubmission, Stands
<1>6. \A p \in PlanId : p # requests[r].plan => approved'[p] = approved[p]
  BY DEF PlansInv, PlanTypes
<1>7. DOMAIN approved' = PlanId
  BY DEF PlansInv, PlanTypes
<1>8. PlanTypes'
  BY <1>1, <1>3, <1>7 DEF PlansInv, PlanTypes, RunsKept, UserKept
<1>9. OneSubmission'
  <2>1. ASSUME NEW i \in DOMAIN requests, Stands(requests'[i]), requests[i].plan \in PlanId
        PROVE  /\ plans'[requests[i].plan].status \notin {"none", "draft"}
               /\ requests'[i].status = "approved" => approved'[requests[i].plan] = requests[i].text
    <3>1. CASE i = r
      <4>1. st = "approved"
        BY <1>1, <1>3, <2>1, <3>1 DEF Stands
      <4> QED BY <2>1, <3>1, <4>1 DEF PlansInv, PlanTypes
    <3>2. CASE i # r
      <4>1. Stands(requests[i]) /\ requests[i].plan # requests[r].plan /\ requests'[i] = requests[i]
        BY <1>3, <1>4, <1>5, <2>1, <3>2
      <4>2. /\ ~Draft(requests[i].plan)
            /\ requests[i].status = "approved" => approved[requests[i].plan] = requests[i].text
        BY <2>1, <4>1 DEF PlansInv, OneSubmission
      <4> QED BY <1>6, <2>1, <4>1, <4>2 DEF Draft
    <3> QED BY <3>1, <3>2
  <2>2. ASSUME NEW i \in DOMAIN requests, NEW q \in DOMAIN requests, Stands(requests'[i]),
               requests[i].plan \in PlanId, Stands(requests'[q]), requests[q].plan = requests[i].plan
        PROVE  q = i
    BY <1>4, <2>2 DEF PlansInv, OneSubmission
  <2> QED BY <1>3, <1>4, <2>1, <2>2 DEF OneSubmission, Stands, Draft
<1>10. WasApproved'
  <2>1. ASSUME NEW p \in PlanId, impl[p].status # "none"
        PROVE  impl[p].text = approved'[p] /\ \E q \in DOMAIN requests : Approves(q, p)'
    <3>1. PICK q \in DOMAIN requests : Approves(q, p)
      BY <2>1 DEF PlansInv, WasApproved
    <3>2. q # r /\ requests'[q] = requests[q]
      BY <1>3, <3>1 DEF Approves
    <3>3. p # requests[r].plan
      BY <1>5, <3>1, <3>2 DEF Approves, Stands
    <3>4. Approves(q, p)'
      BY <3>1, <3>2 DEF Approves
    <3> QED BY <1>6, <2>1, <3>3, <3>4 DEF PlansInv, WasApproved
  <2> QED BY <1>3, <2>1 DEF WasApproved, Approves
<1>11. RunsImplement'
  BY DEF RunsKept, RunsImplement
<1>12. ShowsIt'
  BY <1>3, <1>4 DEF PlansInv, ShowsIt, UserKept
<1> QED BY <1>8, <1>9, <1>10, <1>11, <1>12 DEF PlansInv

\* ensure_implementation queues the text of an approved submission.
LEMMA Ensured ==
  ASSUME PlansInv, NEW r \in DOMAIN requests, Plans!Ensure(r), UNCHANGED <<requests, approved>>,
         IsSequence(runs'), \A n \in DOMAIN runs' : DOMAIN runs'[n] = {"status", "plan"},
         \A n \in DOMAIN runs' : n \in DOMAIN runs /\ runs'[n].plan = runs[n].plan, UserKept
  PROVE  PlansInv'
<1> DEFINE p == requests[r].plan
           x == [status |-> "queued", text |-> requests[r].text, run |-> 0]
<1>1. /\ Approves(r, p) /\ impl' = [impl EXCEPT ![p] = x]
      /\ plans' = [plans EXCEPT ![p].status = "implementing"]
  BY DEF Plans!Ensure, Plans!SetStatus, Approves
<1>2. x.status = "queued" /\ x.text = requests[r].text /\ DOMAIN x = {"status", "text", "run"}
  OBVIOUS
<1> HIDE DEF x
<1>3. /\ DOMAIN impl' = PlanId /\ (p \in PlanId => impl'[p] = x)
      /\ \A q \in PlanId : q # p => impl'[q] = impl[q]
  BY <1>1 DEF PlansInv, PlanTypes
<1>4. /\ DOMAIN plans' = PlanId
      /\ \A q \in PlanId : /\ DOMAIN plans'[q] = {"status", "cur", "texts"}
                           /\ plans'[q].status = IF q = p THEN "implementing" ELSE plans[q].status
  BY <1>1 DEF PlansInv, PlanTypes
<1>5. PlanTypes'
  BY <1>2, <1>3, <1>4 DEF PlansInv, PlanTypes, UserKept
<1>6. OneSubmission'
  <2>1. ASSUME NEW i \in DOMAIN requests, Stands(requests[i]), requests[i].plan \in PlanId
        PROVE  plans'[requests[i].plan].status \notin {"none", "draft"}
    BY <1>4, <2>1 DEF PlansInv, OneSubmission, Draft
  <2> QED BY <2>1 DEF PlansInv, OneSubmission, Stands, Draft
<1>7. WasApproved'
  <2>1. ASSUME NEW q \in PlanId, impl'[q].status # "none"
        PROVE  impl'[q].text = approved[q] /\ \E i \in DOMAIN requests : Approves(i, q)
    <3>1. CASE q = p
      <4>1. impl'[q].text = requests[r].text
        BY <1>2, <1>3, <3>1
      <4>2. approved[p] = requests[r].text
        BY <1>1, <3>1 DEF PlansInv, OneSubmission, Approves, Stands
      <4> QED BY <1>1, <3>1, <4>1, <4>2
    <3>2. CASE q # p
      BY <1>3, <2>1, <3>2 DEF PlansInv, WasApproved
    <3> QED BY <3>1, <3>2
  <2> QED BY <2>1 DEF WasApproved, Approves
<1>8. RunsImplement'
  BY <1>2, <1>3 DEF PlansInv, RunsImplement
<1>9. ShowsIt'
  BY DEF PlansInv, ShowsIt, UserKept
<1> QED BY <1>5, <1>6, <1>7, <1>8, <1>9 DEF PlansInv

\* Runs: a new one, or another status.
LEMMA RunAdded ==
  ASSUME PlansInv, NEW p, p \in PlanId => impl'[p].status # "none",
         runs' = Append(runs, [status |-> "running", plan |-> p]),
         \A q \in PlanId : impl[q].status # "none" => impl'[q].status # "none"
  PROVE  RunsKept
<1> DEFINE x == [status |-> "running", plan |-> p]
           t == Append(runs, x)
<1>1. x.plan = p /\ DOMAIN x = {"status", "plan"}
  OBVIOUS
<1>2. /\ IsSequence(t) /\ Len(runs) \in Nat /\ DOMAIN runs = 1 .. Len(runs)
      /\ DOMAIN t = 1 .. (Len(runs) + 1) /\ t[Len(runs) + 1] = x
      /\ \A i \in DOMAIN runs : t[i] = runs[i]
  BY Appended DEF PlansInv, PlanTypes
<1> HIDE DEF x, t
<1>3. runs' = t
  BY DEF t, x
<1>4. ASSUME NEW n \in DOMAIN t
      PROVE  DOMAIN t[n] = {"status", "plan"} /\ (t[n].plan \in PlanId => impl'[t[n].plan].status # "none")
  <2>1. CASE n = Len(runs) + 1
    BY <1>1, <1>2, <2>1
  <2>2. CASE n # Len(runs) + 1
    <3>1. n \in DOMAIN runs
      BY <1>2, <2>2
    <3>2. t[n] = runs[n]
      BY <1>2, <3>1
    <3> QED BY <3>1, <3>2 DEF PlansInv, PlanTypes, RunsImplement
  <2> QED BY <2>1, <2>2
<1> QED BY <1>2, <1>3, <1>4 DEF RunsKept

LEMMA RunRestated ==
  ASSUME PlansInv, NEW n, NEW status, runs' = [runs EXCEPT ![n].status = status]
  PROVE  /\ IsSequence(runs') /\ \A m \in DOMAIN runs' : DOMAIN runs'[m] = {"status", "plan"}
         /\ \A m \in DOMAIN runs' : m \in DOMAIN runs /\ runs'[m].plan = runs[m].plan
<1>0. IsSequence(runs) /\ \A m \in DOMAIN runs : DOMAIN runs[m] = {"status", "plan"}
  BY DEF PlansInv, PlanTypes
<1>1. CASE n \in DOMAIN runs
  <2> DEFINE x == [runs[n] EXCEPT !.status = status]
             t == [runs EXCEPT ![n] = x]
  <2>1. DOMAIN x = {"status", "plan"} /\ x.plan = runs[n].plan
    BY <1>0, <1>1
  <2>2. runs' = t
    OBVIOUS
  <2> HIDE DEF x
  <2>3. /\ IsSequence(t) /\ DOMAIN t = DOMAIN runs /\ t[n] = x
        /\ \A i \in DOMAIN runs : i # n => t[i] = runs[i]
    BY <1>0, <1>1, Replaced
  <2> HIDE DEF t
  <2> QED BY <1>0, <2>1, <2>2, <2>3
<1>2. CASE n \notin DOMAIN runs
  <2>1. PICK S : runs \in Seq(S)
    BY <1>0 DEF IsSequence
  <2>2. runs = [i \in DOMAIN runs |-> runs[i]]
    BY <2>1, SeqDef
  <2>3. runs' = runs
    BY <1>2, <2>2
  <2> QED BY <1>0, <2>3
<1> QED BY <1>1, <1>2

LEMMA RunsStay ==
  ASSUME PlansInv, UNCHANGED impl, IsSequence(runs'),
         \A m \in DOMAIN runs' : DOMAIN runs'[m] = {"status", "plan"},
         \A m \in DOMAIN runs' : m \in DOMAIN runs /\ runs'[m].plan = runs[m].plan
  PROVE  RunsKept
BY DEF PlansInv, RunsImplement, RunsKept

\* What the helpers do to a plan.
LEMMA StatusSet ==
  ASSUME PlansInv, NEW p, NEW status, plans' = [plans EXCEPT ![p].status = status]
  PROVE  /\ DOMAIN plans' = PlanId
         /\ \A q \in PlanId : /\ DOMAIN plans'[q] = {"status", "cur", "texts"}
                              /\ plans'[q].status = IF q = p THEN status ELSE plans[q].status
BY DEF PlansInv, PlanTypes

LEMMA PlanMoves ==
  ASSUME PlansInv, NEW p, NEW status, status \notin {"none", "draft"}, Plans!SetStatus(p, status)
  PROVE  PlansKept /\ (p \in PlanId => ~Draft(p)')
<1>1. plans' = [plans EXCEPT ![p].status = status]
  BY DEF Plans!SetStatus
<1> QED BY ZenonT(30), <1>1, StatusSet DEF PlansKept, Draft

LEMMA PlanInserted ==
  ASSUME PlansInv, NEW p \in Plans!Unused, NEW text, Plans!Insert(p, text)
  PROVE  PlansKept
<1>1. PICK x : x = [status |-> "draft", cur |-> text, texts |-> {text}]
  OBVIOUS
<1>2. plans' = [plans EXCEPT ![p] = x] /\ DOMAIN x = {"status", "cur", "texts"}
  BY <1>1 DEF Plans!Insert
<1>3. p \in PlanId /\ Draft(p)
  BY DEF Plans!Unused, Draft
<1> QED BY <1>2, <1>3 DEF PlansInv, PlanTypes, PlansKept, Draft

LEMMA PlanRevised ==
  ASSUME PlansInv, NEW p, NEW expected, NEW text, Plans!AppendRevision(p, expected, text)
  PROVE  PlansKept
<1>1. plans' = [plans EXCEPT ![p].cur = text, ![p].texts = @ \cup {text}]
  BY DEF Plans!AppendRevision
<1>2. /\ DOMAIN plans' = PlanId
      /\ \A q \in PlanId : /\ DOMAIN plans'[q] = {"status", "cur", "texts"}
                           /\ plans'[q].status = plans[q].status
  BY <1>1 DEF PlansInv, PlanTypes
<1> QED BY <1>2 DEF PlansKept, Draft

\* PlanRepository.submit adds the submission of a draft.
LEMMA Submitted ==
  ASSUME PlansInv, NEW p, NEW text, NEW n, Plans!Submit(p, text, n), UNCHANGED <<impl, approved>>,
         RunsKept,
         \/ UserKept
         \/ /\ DOMAIN user' = DOMAIN user /\ user'.pc = "review" /\ user'.req = Len(requests) + 1
            /\ user'.text = text
  PROVE  PlansInv'
<1>1. PICK x : x = [kind |-> "submit", plan |-> p, text |-> text, status |-> "pending", run |-> n]
  OBVIOUS
<1>2. /\ DOMAIN x = RequestFields /\ x.plan = p /\ x.text = text /\ x.kind = "submit"
      /\ x.status = "pending"
  BY <1>1 DEF RequestFields
<1>3. /\ requests' = Append(requests, x) /\ plans[p].status = "draft"
      /\ Plans!SetStatus(p, "awaiting_approval")
  BY <1>1 DEF Plans!Submit
<1>4. PlansKept /\ (p \in PlanId => ~Draft(p)' /\ Draft(p))
  BY <1>3, PlanMoves DEF Draft
<1> QED BY <1>2, <1>3, <1>4, Requested

\* A decision by PlanRepository.decide about the text that is shown.
LEMMA SubmitDecided ==
  ASSUME PlansInv, NEW r, NEW choice \in Plans!Decisions, NEW shown,
         Plans!DecideSubmit(r, choice, shown), shown = requests[r].text, UNCHANGED impl,
         \/ UserKept
         \/ DOMAIN user' = DOMAIN user /\ user'.pc = "queue" /\ user'.req = r
  PROVE  PlansInv'
<1> DEFINE st == IF choice = "implement" THEN "approved"
                 ELSE IF choice = "feedback" THEN "feedback" ELSE "rejected"
           p == requests[r].plan
<1>1. /\ r \in DOMAIN requests /\ requests[r].status = "pending" /\ requests[r].kind = "submit"
      /\ st \in {"approved", "feedback", "rejected"}
  BY DEF Plans!DecideSubmit, Plans!Pending
<1>2. requests' = [requests EXCEPT ![r].status = st]
  BY DEF Plans!DecideSubmit, Plans!Decisions
<1>3. plans' = [plans EXCEPT ![p].status = IF st = "feedback" THEN "draft" ELSE st]
  BY DEF Plans!DecideSubmit, Plans!Decisions, Plans!SetStatus
<1>4. approved' = IF st = "approved" THEN [approved EXCEPT ![p] = requests[r].text] ELSE approved
  BY DEF Plans!DecideSubmit, Plans!Decisions
<1>5. \/ runs' = runs
      \/ \E n : runs' = [runs EXCEPT ![n].status = "running"]
  BY DEF Plans!DecideSubmit
<1>6. RunsKept
  <2>1. CASE runs' = runs
    BY <2>1, RunsStay DEF PlansInv, PlanTypes
  <2>2. CASE \E n : runs' = [runs EXCEPT ![n].status = "running"]
    <3>1. PICK n : runs' = [runs EXCEPT ![n].status = "running"]
      BY <2>2
    <3>2. /\ IsSequence(runs') /\ \A m \in DOMAIN runs' : DOMAIN runs'[m] = {"status", "plan"}
          /\ \A m \in DOMAIN runs' : m \in DOMAIN runs /\ runs'[m].plan = runs[m].plan
      BY <3>1, RunRestated
    <3> QED BY <3>2, RunsStay
  <2> QED BY <1>5, <2>1, <2>2
<1>7. /\ DOMAIN plans' = PlanId /\ \A q \in PlanId : DOMAIN plans'[q] = {"status", "cur", "texts"}
      /\ \A q \in PlanId : plans'[q].status = IF q # p THEN plans[q].status
                                              ELSE IF st = "feedback" THEN "draft" ELSE st
  BY <1>3, StatusSet
<1> HIDE DEF st
<1> QED BY <1>1, <1>2, <1>4, <1>6, <1>7, Decided

\* The answer to a request to enter plan mode.
LEMMA EnterAnswered ==
  ASSUME PlansInv, NEW r \in DOMAIN requests, NEW x, requests[r].kind = "enter", x.kind = "enter",
         requests' = [requests EXCEPT ![r] = x], DOMAIN x = RequestFields,
         UNCHANGED <<impl, approved, user>>, user.pc = "idle", PlansKept, RunsKept
  PROVE  PlansInv'
<1> DEFINE t == [requests EXCEPT ![r] = x]
<1>1. /\ IsSequence(t) /\ DOMAIN t = DOMAIN requests /\ t[r] = x
      /\ \A i \in DOMAIN requests : i # r => t[i] = requests[i]
  BY Replaced DEF PlansInv, PlanTypes
<1>2. requests' = t
  OBVIOUS
<1> HIDE DEF t
<1>3. PlanTypes'
  BY <1>1, <1>2 DEF PlansInv, PlanTypes, PlansKept, RunsKept
<1>4. \A i \in DOMAIN requests : Stands(t[i]) => i # r /\ t[i] = requests[i]
  BY <1>1 DEF Stands
<1>5. OneSubmission'
  <2>1. ASSUME NEW i \in DOMAIN t, Stands(t[i]), t[i].plan \in PlanId
        PROVE  /\ plans'[t[i].plan].status \notin {"none", "draft"}
               /\ \A q \in DOMAIN t : Stands(t[q]) /\ t[q].plan = t[i].plan => q = i
               /\ t[i].status = "approved" => approved[t[i].plan] = t[i].text
    <3>1. t[i] = requests[i] /\ i \in DOMAIN requests
      BY <1>1, <1>4, <2>1
    <3>2. ~Draft(requests[i].plan)
      BY <2>1, <3>1 DEF PlansInv, OneSubmission
    <3>3. plans'[t[i].plan].status \notin {"none", "draft"}
      BY <2>1, <3>1, <3>2 DEF PlansKept, Draft
    <3>4. \A q \in DOMAIN t : Stands(t[q]) /\ t[q].plan = t[i].plan => q = i
      BY <1>1, <1>4, <2>1, <3>1 DEF PlansInv, OneSubmission
    <3> QED BY <2>1, <3>1, <3>3, <3>4 DEF PlansInv, OneSubmission
  <2> QED BY <1>2, <2>1 DEF OneSubmission, Stands, Draft
<1>6. WasApproved'
  <2>1. ASSUME NEW p \in PlanId, impl[p].status # "none"
        PROVE  impl[p].text = approved[p] /\ \E q \in DOMAIN requests' : Approves(q, p)'
    <3>1. PICK q \in DOMAIN requests : Approves(q, p)
      BY <2>1 DEF PlansInv, WasApproved
    <3>2. q # r /\ t[q] = requests[q]
      BY <1>1, <3>1 DEF Approves
    <3>3. q \in DOMAIN requests' /\ Approves(q, p)'
      BY <1>1, <1>2, <3>1, <3>2 DEF Approves
    <3> QED BY <2>1, <3>3 DEF PlansInv, WasApproved
  <2> QED BY <2>1 DEF WasApproved, Approves
<1>7. RunsImplement'
  BY DEF RunsKept, RunsImplement
<1>8. ShowsIt'
  BY DEF ShowsIt
<1> QED BY <1>3, <1>5, <1>6, <1>7, <1>8 DEF PlansInv

\* A set of positions has a last one.
LEMMA LastPosition ==
  ASSUME NEW n \in Nat, NEW S \in SUBSET (1 .. n), S # {}
  PROVE  \E x \in S : \A y \in S : y <= x
<1> DEFINE T == {n - x : x \in S}
           R == OpToRel(<, Nat)
<1>0. \A x \in S : x \in Nat /\ x <= n
  OBVIOUS
<1>1. T \subseteq Nat /\ T # {}
  <2>1. \A x \in S : n - x \in Nat
    BY <1>0
  <2> QED BY <2>1
<1>2. PICK m \in T : \A y \in T : ~(<<y, m>> \in R)
  BY <1>1, WFMin, NatLessThanWellFounded
<1>3. ASSUME NEW y \in T PROVE m <= y
  <2>1. y \in Nat /\ m \in Nat
    BY <1>1
  <2>2. y < m => <<y, m>> \in R
    BY <2>1 DEF OpToRel
  <2> HIDE DEF R, T
  <2>3. ~(y < m)
    BY <1>2, <1>3, <2>2
  <2> QED BY <2>1, <2>3
<1>4. PICK x \in S : m = n - x
  OBVIOUS
<1>5. ASSUME NEW y \in S PROVE y <= x
  <2>1. n - y \in T
    OBVIOUS
  <2>2. n - x <= n - y
    BY <1>3, <1>4, <2>1
  <2> HIDE DEF T
  <2>3. x \in 1 .. n /\ y \in 1 .. n
    OBVIOUS
  <2> QED BY <2>2, <2>3
<1> QED BY <1>5

\* The last of the session's requests that qualify is one of them.
LEMMA MaxIsMember ==
  ASSUME NEW n \in Nat, NEW S \in SUBSET (1 .. n), S # {}
  PROVE  Plans!Max(S) \in S
<1>1. \E x \in S : \A y \in S : x >= y
  BY LastPosition
<1> QED BY <1>1 DEF Plans!Max

\* The steps of the commands and of whoever answers.
LEMMA CommandsKeepPlans ==
  ASSUME PlansInv
  PROVE  /\ \A b \in BOOLEAN : Plans!Enter(b) => PlansInv'
         /\ \A c \in {"open", "submit", "exit"} : Plans!ReadPlan(c) => PlansInv'
         /\ \A t \in Text : Plans!Edit(t) => PlansInv'
         /\ Plans!Exit => PlansInv'
         /\ Plans!SlashSubmit => PlansInv'
         /\ Plans!SlashSubmitFails => PlansInv'
         /\ Plans!SlashQueue => PlansInv'
         /\ \A c \in Plans!Decisions : Plans!SlashDecide(c) => PlansInv'
         /\ \A r \in DOMAIN requests, c \in Plans!Decisions : Plans!Answer(r, c) => PlansInv'
         /\ \A r \in DOMAIN requests, b \in BOOLEAN : Plans!AnswerEnter(r, b) => PlansInv'
<1>0. /\ DOMAIN user = {"pc", "plan", "text", "req"} /\ DOMAIN Plans!IdleUser = DOMAIN user
      /\ Plans!IdleUser.pc = "idle"
  BY DEF PlansInv, PlanTypes, Plans!IdleUser
<1>i. (UNCHANGED impl => ImplKept) /\ (UNCHANGED plans => PlansKept)
  BY DEF PlansInv, PlanTypes, ImplKept, PlansKept, Draft
<1>n. UNCHANGED <<impl, runs>> => RunsKept
  BY DEF PlansInv, PlanTypes, RunsImplement, RunsKept
<1>u. (UNCHANGED user => UserKept) /\ (user' = Plans!IdleUser => UserKept)
  BY <1>0 DEF UserKept
<1>1. ASSUME NEW b \in BOOLEAN, Plans!Enter(b) PROVE PlansInv'
  <2>1. \E p \in Plans!Unused : \E text : Plans!Insert(p, text)
    BY <1>1 DEF Plans!Enter
  <2>2. PlansKept
    BY <2>1, PlanInserted
  <2>3. UNCHANGED <<requests, impl, runs, user, approved>>
    BY <1>1 DEF Plans!Enter
  <2> QED BY <2>2, <2>3, <1>i, <1>n, <1>u, DecidesNothing
<1>2. ASSUME NEW c \in {"open", "submit", "exit"}, Plans!ReadPlan(c) PROVE PlansInv'
  <2>1. /\ UNCHANGED <<plans, requests, impl, runs, approved>>
        /\ user' = [pc |-> c, plan |-> Plans!Active, text |-> plans[Plans!Active].cur, req |-> 0]
    BY <1>2 DEF Plans!ReadPlan
  <2>2. UserKept
    BY <2>1, <1>0 DEF UserKept
  <2> QED BY <2>1, <2>2, <1>i, <1>n, DecidesNothing
<1>3. ASSUME NEW t \in Text, Plans!Edit(t) PROVE PlansInv'
  <2>1. UNCHANGED <<requests, impl, runs, approved>> /\ user' = Plans!IdleUser
    BY <1>3 DEF Plans!Edit
  <2>2. Plans!AppendRevision(Plans!Active, user.text, t) \/ UNCHANGED plans
    BY <1>3 DEF Plans!Edit
  <2>3. PlansKept
    BY <2>2, <1>i, PlanRevised
  <2> QED BY <2>1, <2>3, <1>i, <1>n, <1>u, DecidesNothing
<1>4. ASSUME Plans!Exit PROVE PlansInv'
  <2>1. UNCHANGED <<requests, impl, runs, approved>> /\ user' = Plans!IdleUser
    BY <1>4 DEF Plans!Exit
  <2>2. Plans!SetStatus(user.plan, "cancelled") \/ UNCHANGED plans
    BY <1>4 DEF Plans!Exit
  <2>3. PlansKept
    BY <2>2, <1>i, PlanMoves
  <2> QED BY <2>1, <2>3, <1>i, <1>n, <1>u, DecidesNothing
<1>5. ASSUME Plans!SlashSubmit PROVE PlansInv'
  <2>1. /\ Plans!Submit(user.plan, user.text, 0) /\ UNCHANGED <<impl, runs, approved>>
        /\ user' = [user EXCEPT !.pc = "review", !.req = Len(requests) + 1]
    BY <1>5 DEF Plans!SlashSubmit
  <2>2. /\ DOMAIN user' = DOMAIN user /\ user'.pc = "review" /\ user'.req = Len(requests) + 1
        /\ user'.text = user.text
    BY <2>1, <1>0
  <2> QED BY <2>1, <2>2, <1>n, Submitted
<1>6. ASSUME Plans!SlashSubmitFails PROVE PlansInv'
  <2>1. UNCHANGED <<plans, requests, impl, runs, approved>> /\ user' = Plans!IdleUser
    BY <1>6 DEF Plans!SlashSubmitFails
  <2> QED BY <2>1, <1>i, <1>n, <1>u, DecidesNothing
<1>7. ASSUME Plans!SlashQueue PROVE PlansInv'
  <2>1. UNCHANGED <<requests, runs, approved>> /\ user' = Plans!IdleUser
    BY <1>7 DEF Plans!SlashQueue
  <2>2. CASE Plans!Ensure(user.req)
    <3>1. user.req \in DOMAIN requests
      BY <1>7 DEF PlansInv, ShowsIt, Plans!SlashQueue
    <3>2. /\ IsSequence(runs') /\ \A n \in DOMAIN runs' : DOMAIN runs'[n] = {"status", "plan"}
          /\ \A n \in DOMAIN runs' : n \in DOMAIN runs /\ runs'[n].plan = runs[n].plan
      BY <2>1 DEF PlansInv, PlanTypes
    <3> QED BY <2>1, <2>2, <3>1, <3>2, <1>u, Ensured
  <2>3. CASE UNCHANGED <<plans, impl>>
    BY <2>1, <2>3, <1>i, <1>n, <1>u, DecidesNothing
  <2> QED BY <1>7, <2>2, <2>3 DEF Plans!SlashQueue
<1>8. ASSUME NEW c \in Plans!Decisions, Plans!SlashDecide(c) PROVE PlansInv'
  <2>1. UNCHANGED impl /\ requests[user.req].text = user.text
    BY <1>8 DEF PlansInv, ShowsIt, Plans!SlashDecide
  <2>2. CASE user.req \in Plans!Pending
    <3>1. /\ Plans!DecideSubmit(user.req, c, user.text)
          /\ user' = IF c = "implement" THEN [user EXCEPT !.pc = "queue"] ELSE Plans!IdleUser
      BY <1>8, <2>2 DEF Plans!SlashDecide
    <3>2. UserKept \/ (DOMAIN user' = DOMAIN user /\ user'.pc = "queue" /\ user'.req = user.req)
      BY <3>1, <1>0, <1>u
    <3> QED BY <2>1, <3>1, <3>2, SubmitDecided
  <2>3. CASE user.req \notin Plans!Pending
    <3>1. UNCHANGED <<plans, requests, impl, runs, approved>> /\ user' = Plans!IdleUser
      BY <1>8, <2>3 DEF Plans!SlashDecide
    <3> QED BY <3>1, <1>i, <1>n, <1>u, DecidesNothing
  <2> QED BY <2>2, <2>3
<1>9. ASSUME NEW r \in DOMAIN requests, NEW c \in Plans!Decisions, Plans!Answer(r, c) PROVE PlansInv'
  BY <1>9, <1>u, SubmitDecided DEF Plans!Answer
<1>10. ASSUME NEW r \in DOMAIN requests, NEW b \in BOOLEAN, Plans!AnswerEnter(r, b)
       PROVE  PlansInv'
  <2>1. /\ UNCHANGED <<impl, approved, user>> /\ user.pc = "idle" /\ requests[r].kind = "enter"
        /\ DOMAIN requests[r] = RequestFields
    BY <1>10 DEF PlansInv, PlanTypes, Plans!AnswerEnter
  <2>2. PICK st : runs' = [runs EXCEPT ![requests[r].run].status = st]
    BY <1>10 DEF Plans!AnswerEnter
  <2>3. RunsKept
    BY <2>1, <2>2, RunRestated, RunsStay
  <2>4. CASE b
    <3>1. PICK p \in Plans!Unused :
            /\ Plans!Insert(p, First)
            /\ requests' = [requests EXCEPT ![r].status = "approved", ![r].plan = p]
      BY <1>10, <2>4 DEF Plans!AnswerEnter
    <3>2. PICK x : x = [requests[r] EXCEPT !.status = "approved", !.plan = p]
      OBVIOUS
    <3>3. x.kind = "enter" /\ DOMAIN x = RequestFields
      BY <2>1, <3>2 DEF RequestFields
    <3>4. requests' = [requests EXCEPT ![r] = x]
      BY <3>1, <3>2
    <3>5. PlansKept
      BY <3>1, PlanInserted
    <3> QED BY <2>1, <2>3, <3>3, <3>4, <3>5, EnterAnswered
  <2>5. CASE ~b
    <3>1. requests' = [requests EXCEPT ![r].status = "rejected"] /\ UNCHANGED plans
      BY <1>10, <2>5 DEF Plans!AnswerEnter
    <3>2. PICK x : x = [requests[r] EXCEPT !.status = "rejected"]
      OBVIOUS
    <3>3. x.kind = "enter" /\ DOMAIN x = RequestFields
      BY <2>1, <3>2 DEF RequestFields
    <3>4. requests' = [requests EXCEPT ![r] = x]
      BY <3>1, <3>2
    <3> QED BY <2>1, <2>3, <3>1, <3>3, <3>4, <1>i, EnterAnswered
  <2> QED BY <2>4, <2>5
<1> QED BY <1>1, <1>2, <1>3, <1>4, <1>5, <1>6, <1>7, <1>8, <1>9, <1>10

\* The steps of the runs and of their model, the restart and the reconciliation.
LEMMA RunsKeepPlans ==
  ASSUME None \notin PlanId, PlansInv
  PROVE  /\ Plans!StartRun => PlansInv'
         /\ \A p \in PlanId : Plans!StartImplementation(p) => PlansInv'
         /\ Plans!ModelReads => PlansInv'
         /\ \A n \in DOMAIN runs : Plans!EnterTool(n) => PlansInv'
         /\ \A t \in Text : Plans!UpdateTool(t) => PlansInv'
         /\ \A n \in DOMAIN runs : Plans!SubmitTool(n) => PlansInv'
         /\ \A n \in DOMAIN runs, s \in {"completed", "failed", "cancelled"} :
              Plans!EndRun(n, s) => PlansInv'
         /\ Plans!Crash => PlansInv'
         /\ \A r \in DOMAIN requests : Plans!Reconcile(r) => PlansInv'
         /\ UNCHANGED Plans!vars => PlansInv'
<1>0. /\ DOMAIN user = {"pc", "plan", "text", "req"} /\ DOMAIN Plans!IdleUser = DOMAIN user
      /\ Plans!IdleUser.pc = "idle"
  BY DEF PlansInv, PlanTypes, Plans!IdleUser
<1>i. (UNCHANGED impl => ImplKept) /\ (UNCHANGED plans => PlansKept)
  BY DEF PlansInv, PlanTypes, ImplKept, PlansKept, Draft
<1>n. UNCHANGED <<impl, runs>> => RunsKept
  BY DEF PlansInv, PlanTypes, RunsImplement, RunsKept
<1>u. (UNCHANGED user => UserKept) /\ (user' = Plans!IdleUser => UserKept)
  BY <1>0 DEF UserKept
<1>s. UNCHANGED runs =>
        /\ IsSequence(runs') /\ \A n \in DOMAIN runs' : DOMAIN runs'[n] = {"status", "plan"}
        /\ \A n \in DOMAIN runs' : n \in DOMAIN runs /\ runs'[n].plan = runs[n].plan
  BY DEF PlansInv, PlanTypes
<1>1. ASSUME Plans!StartRun PROVE PlansInv'
  <2>1. /\ UNCHANGED <<plans, requests, impl, user, approved>>
        /\ runs' = Append(runs, [status |-> "running", plan |-> None])
    BY <1>1 DEF Plans!StartRun
  <2>2. RunsKept
    BY <2>1, RunAdded
  <2> QED BY <2>1, <2>2, <1>i, <1>u, DecidesNothing
<1>2. ASSUME NEW p \in PlanId, Plans!StartImplementation(p) PROVE PlansInv'
  <2>1. /\ UNCHANGED <<requests, user, approved>> /\ impl[p].status = "queued"
        /\ runs' = Append(runs, [status |-> "running", plan |-> p])
        /\ impl' = [impl EXCEPT ![p].status = "running", ![p].run = Len(runs) + 1]
        /\ Plans!SetStatus(p, "implementing")
    BY <1>2 DEF Plans!StartImplementation
  <2>2. ImplKept /\ \A q \in PlanId : impl[q].status # "none" => impl'[q].status # "none"
    BY <2>1 DEF PlansInv, PlanTypes, ImplKept
  <2>3. impl'[p].status # "none"
    BY <2>1, <2>2
  <2>4. RunsKept
    BY <2>1, <2>2, <2>3, RunAdded
  <2>5. PlansKept
    BY <2>1, PlanMoves
  <2> QED BY <2>1, <2>2, <2>4, <2>5, <1>u, DecidesNothing
<1>3. ASSUME Plans!ModelReads PROVE PlansInv'
  BY <1>3, <1>i, <1>n, <1>u, DecidesNothing DEF Plans!ModelReads
<1>4. ASSUME NEW n \in DOMAIN runs, Plans!EnterTool(n) PROVE PlansInv'
  <2>1. PICK x : x = [kind |-> "enter", plan |-> None, text |-> None, status |-> "pending", run |-> n]
    OBVIOUS
  <2>2. DOMAIN x = RequestFields /\ ~Stands(x)
    BY <2>1 DEF RequestFields, Stands
  <2>3. /\ requests' = Append(requests, x) /\ UNCHANGED <<plans, impl, user, approved>>
        /\ runs' = [runs EXCEPT ![n].status = "waiting"]
    BY <1>4, <2>1 DEF Plans!EnterTool
  <2>4. RunsKept
    BY <2>3, RunRestated, RunsStay
  <2> QED BY <2>2, <2>3, <2>4, <1>i, <1>u, Requested
<1>5. ASSUME NEW t \in Text, Plans!UpdateTool(t) PROVE PlansInv'
  <2>1. UNCHANGED <<requests, impl, runs, user, approved>> /\ PlansKept
    BY <1>5, PlanRevised DEF Plans!UpdateTool
  <2> QED BY <2>1, <1>i, <1>n, <1>u, DecidesNothing
<1>6. ASSUME NEW n \in DOMAIN runs, Plans!SubmitTool(n) PROVE PlansInv'
  <2>1. /\ Plans!Submit(Plans!Active, model.text, n) /\ UNCHANGED <<impl, user, approved>>
        /\ runs' = [runs EXCEPT ![n].status = "waiting"]
    BY <1>6 DEF Plans!SubmitTool
  <2>2. RunsKept
    BY <2>1, RunRestated, RunsStay
  <2> QED BY <2>1, <2>2, <1>u, Submitted
<1>7. ASSUME NEW n \in DOMAIN runs, NEW s \in {"completed", "failed", "cancelled"},
             Plans!EndRun(n, s)
      PROVE  PlansInv'
  <2>1. UNCHANGED <<requests, user, approved>> /\ runs' = [runs EXCEPT ![n].status = s]
    BY <1>7 DEF Plans!EndRun
  <2>2. /\ IsSequence(runs') /\ \A m \in DOMAIN runs' : DOMAIN runs'[m] = {"status", "plan"}
        /\ \A m \in DOMAIN runs' : m \in DOMAIN runs /\ runs'[m].plan = runs[m].plan
    BY <2>1, RunRestated
  <2>3. CASE runs[n].plan # None
    <3> DEFINE p == runs[n].plan
    <3>1. /\ impl' = [impl EXCEPT ![p].status = s]
          /\ Plans!SetStatus(p, IF s = "completed" THEN "implemented" ELSE "implementation_failed")
      BY <1>7, <2>3 DEF Plans!EndRun
    <3>2. p \in PlanId => impl[p].status # "none"
      BY DEF PlansInv, RunsImplement
    <3>3. ImplKept /\ \A q \in PlanId : impl[q].status # "none" => impl'[q].status # "none"
      BY <3>1, <3>2 DEF PlansInv, PlanTypes, ImplKept
    <3>4. PlansKept
      BY <3>1, PlanMoves
    <3>5. RunsKept
      BY <2>2, <3>3 DEF PlansInv, RunsImplement, RunsKept
    <3> QED BY <2>1, <3>3, <3>4, <3>5, <1>u, DecidesNothing
  <2>4. CASE runs[n].plan = None
    <3> DEFINE mine == {r \in DOMAIN requests : requests[r].run = n /\ requests[r].kind = "submit"
                                                /\ requests[r].status = "approved"}
    <3>1. (mine # {} /\ Plans!Ensure(Plans!Max(mine))) \/ UNCHANGED <<plans, impl>>
      BY <1>7, <2>4 DEF Plans!EndRun
    <3>2. CASE mine # {} /\ Plans!Ensure(Plans!Max(mine))
      <4>1. Len(requests) \in Nat /\ DOMAIN requests = 1 .. Len(requests)
        BY Appended DEF PlansInv, PlanTypes
      <4>2. mine \in SUBSET (1 .. Len(requests))
        BY <4>1
      <4>3. Plans!Max(mine) \in mine
        BY <3>2, <4>1, <4>2, MaxIsMember
      <4>4. Plans!Max(mine) \in DOMAIN requests
        BY <4>3
      <4> HIDE DEF mine
      <4> QED BY <2>1, <2>2, <3>2, <4>4, <1>u, Ensured
    <3>3. CASE UNCHANGED <<plans, impl>>
      <4>1. RunsKept
        BY <2>2, <3>3, RunsStay
      <4> QED BY <2>1, <3>3, <4>1, <1>i, <1>u, DecidesNothing
    <3> QED BY <3>1, <3>2, <3>3
  <2> QED BY <2>3, <2>4
<1>8. ASSUME Plans!Crash PROVE PlansInv'
  <2>1. UNCHANGED <<plans, requests, impl, approved>> /\ user' = Plans!IdleUser
    BY <1>8 DEF Plans!Crash
  <2>2. runs' = [n \in DOMAIN runs |-> IF runs[n].status = "running"
                   THEN [runs[n] EXCEPT !.status = "interrupted"] ELSE runs[n]]
    BY <1>8 DEF Plans!Crash
  <2>3. /\ \A m \in DOMAIN runs' : DOMAIN runs'[m] = {"status", "plan"}
        /\ \A m \in DOMAIN runs' : m \in DOMAIN runs /\ runs'[m].plan = runs[m].plan
    BY <2>2 DEF PlansInv, PlanTypes
  <2>4. IsSequence(runs')
    <3>1. Len(runs) \in Nat /\ DOMAIN runs = 1 .. Len(runs)
      BY Appended DEF PlansInv, PlanTypes
    <3> DEFINE S == {runs'[m] : m \in DOMAIN runs}
    <3>2. runs' \in [1 .. Len(runs) -> S]
      BY <2>2, <3>1
    <3> HIDE DEF S
    <3>3. runs' \in Seq(S)
      BY <3>1, <3>2, SeqDef
    <3> QED BY <3>3 DEF IsSequence
  <2>5. RunsKept
    BY <2>1, <2>3, <2>4, RunsStay
  <2> QED BY <2>1, <2>5, <1>i, <1>u, DecidesNothing
<1>9. ASSUME NEW r \in DOMAIN requests, Plans!Reconcile(r) PROVE PlansInv'
  <2>1. UNCHANGED <<requests, runs, user, approved>> /\ Plans!Ensure(r)
    BY <1>9 DEF Plans!Reconcile
  <2> QED BY <2>1, <1>s, <1>u, Ensured
<1>10. ASSUME UNCHANGED Plans!vars PROVE PlansInv'
  BY <1>10, <1>i, <1>n, <1>u, DecidesNothing DEF Plans!vars
<1> QED BY <1>1, <1>2, <1>3, <1>4, <1>5, <1>6, <1>7, <1>8, <1>9, <1>10

(* Whatever edits, submissions, answers, runs, crashes and reconciliations  *)
(* happen in between, the text queued for implementation is the text that  *)
(* was on the screen when the plan was approved (PlanRepository.decide and *)
(* ensure_implementation).                                                 *)
LEMMA PlansSafe == Plans!Spec => []Plans!ImplementsApproved
<1>0. None \notin PlanId
  BY SessionAssumption
<1> USE <1>0
<1>1. Plans!Init => PlansInv
  <2> SUFFICES ASSUME Plans!Init PROVE PlansInv
    OBVIOUS
  <2>1. /\ requests = <<>> /\ runs = <<>> /\ IsSequence(requests) /\ IsSequence(runs)
        /\ DOMAIN requests = {} /\ DOMAIN runs = {}
    <3>1. <<>> \in Seq({}) /\ Len(<<>>) = 0 /\ DOMAIN <<>> = {}
      BY EmptySeq, LenProperties
    <3> QED BY <3>1 DEF Plans!Init, IsSequence
  <2>2. PlanTypes
    BY <2>1 DEF Plans!Init, PlanTypes, Plans!Absent, Plans!NoImpl, Plans!IdleUser
  <2>3. OneSubmission /\ RunsImplement
    BY <2>1 DEF OneSubmission, RunsImplement
  <2>4. WasApproved /\ ShowsIt
    BY DEF Plans!Init, WasApproved, ShowsIt, Plans!NoImpl, Plans!IdleUser
  <2> QED BY <2>2, <2>3, <2>4 DEF PlansInv
<1>2. PlansInv /\ [Plans!Next]_(Plans!vars) => PlansInv'
  <2> SUFFICES ASSUME PlansInv, [Plans!Next]_(Plans!vars) PROVE PlansInv'
    OBVIOUS
  <2> QED BY CommandsKeepPlans, RunsKeepPlans DEF Plans!Next
<1>3. PlansInv => Plans!ImplementsApproved
  BY DEF PlansInv, WasApproved, Plans!ImplementsApproved
<1> QED BY <1>1, <1>2, <1>3, PTL DEF Plans!Spec

\* PlanRepository.decide and ensure_implementation: in Session, only the text
\* that was on screen when its plan was approved is implemented.
THEOREM OnlyApprovedIsImplemented == Spec => []ImplementsApproved
<1>1. Init => Plans!Init \/ focus # "plans"
  BY DEF Init
<1>2. [Next]_vars => [Plans!Next]_(Plans!vars)
  BY DEF Next, vars, PlansVars, Plans!vars
<1>3. focus # "plans" /\ [Next]_vars => (focus # "plans")'
  BY DEF Next, vars
<1>4. Plans!ImplementsApproved \/ focus # "plans" => ImplementsApproved
  BY DEF ImplementsApproved
<1> QED BY <1>1, <1>2, <1>3, PlansSafe, <1>4, PTL DEF Spec, Plans!Spec

-----------------------------------------------------------------------------
(***************************************************************************)
(* The model router and its budget gate.                                   *)
(***************************************************************************)

Outcomes == {"select", "gate", "provider"}

\* A call in progress: its attempt, the output it may ask for and what the
\* provider reported so far.
CallType(c) ==
  \/ c = Routing!Idle
  \/ \E left : c \in [pc : Outcomes, stream : BOOLEAN, left : {left}, attempt : Nat,
                      cap : Nat, emitted : BOOLEAN, usage : Nat, known : BOOLEAN]

Authorised == allowed /\ ~hard

\* An attempt at the provider has reported no more than its gate let pass and its
\* estimate missed, and one that may still be retried has delivered nothing.
RoutingInv ==
  /\ used \in Nat /\ base \in Nat /\ hard \in BOOLEAN /\ allowed \in BOOLEAN
  /\ CallType(call) /\ heard \in {0, 1} /\ excess \in Nat
  /\ Routing!SpentWithinLimit
  /\ call.pc \in {"select", "gate"} => heard = 0
  /\ call.pc = "provider" =>
       /\ heard = IF call.emitted THEN 1 ELSE 0
       /\ call.usage <= RequestSize + call.cap + excess
       /\ used + base + RequestSize + call.cap <= Limit \/ Authorised

\* The smaller and the larger of two numbers is one of them.
LEMMA MinOfTwo ==
  ASSUME NEW a \in Int, NEW b \in Int
  PROVE  Routing!Min({a, b}) \in {a, b}
<1>1. \E x \in {a, b} : \A y \in {a, b} : x <= y
  BY SMT
<1> QED BY <1>1 DEF Routing!Min

LEMMA MaxOfTwo ==
  ASSUME NEW a \in Int, NEW b \in Int
  PROVE  Routing!Max({a, b}) \in {a, b}
<1>1. \E x \in {a, b} : \A y \in {a, b} : x >= y
  BY SMT
<1> QED BY <1>1 DEF Routing!Max

\* ModelRouter._budget_gate: an attempt may ask for a natural number of tokens.
LEMMA OutputCapType ==
  ASSUME used \in Nat, base \in Nat, NEW cap \in Nat
  PROVE  Routing!OutputCap(cap) \in Nat
<1> DEFINE remaining == Limit - (used + base) - RequestSize
<1>1. remaining \in Int
  BY SessionAssumption
<1>2. Routing!Min({cap, remaining}) \in Int
  BY <1>1, MinOfTwo
<1> DEFINE least == Routing!Min({cap, remaining})
<1>3. Routing!Max({1, least}) \in {1, least}
  <2>1. least \in Int
    BY <1>2
  <2> HIDE DEF least
  <2> QED BY <2>1, MaxOfTwo
<1>4. Routing!Max({1, least}) >= 1
  <2>1. least \in Int
    BY <1>2
  <2> HIDE DEF least
  <2>2. \E x \in {1, least} : \A y \in {1, least} : x >= y
    BY <2>1, SMT
  <2> QED BY <2>2 DEF Routing!Max
<1>5. Routing!OutputCap(cap) =
        IF remaining >= Routing!Min({Useful, cap})
        THEN Routing!Max({1, least}) ELSE cap
  BY DEF Routing!OutputCap, Routing!Usage
<1>6. least \in Int
  BY <1>2
<1> HIDE DEF remaining, least
<1> QED BY <1>3, <1>4, <1>5, <1>6

\* ModelRouter.complete and stream: no step of the router lets an attempt pass
\* the limit unless somebody allowed it, or answers a request twice.
LEMMA RouterKeepsBudget ==
  ASSUME RoutingInv, [Routing!Next]_(Routing!vars)
  PROVE  RoutingInv'
<1> USE DEF Authorised, Routing!SpentWithinLimit, Routing!Usage
<1>a. /\ RequestSize \in Nat /\ MaxOutput \in Nat /\ Limit \in Nat /\ Retries \in Nat
      /\ MaxExcess \in Nat
  BY SessionAssumption
<1>t. /\ used \in Nat /\ base \in Nat /\ hard \in BOOLEAN /\ allowed \in BOOLEAN
      /\ CallType(call) /\ heard \in {0, 1} /\ excess \in Nat
      /\ used + base <= Limit + excess \/ Authorised
  BY DEF RoutingInv
<1>i. Routing!Idle = [pc |-> "idle"]
  BY DEF Routing!Idle
<1>c. ASSUME call.pc \in Outcomes
      PROVE  \E left : call \in [pc : Outcomes, stream : BOOLEAN, left : {left},
               attempt : Nat, cap : Nat, emitted : BOOLEAN, usage : Nat, known : BOOLEAN]
  BY <1>c, <1>t, <1>i DEF CallType, Outcomes
\* Once the call has ended, only the spent tokens matter.
<1>e. ASSUME call' = Routing!Idle, used' \in Nat, heard' \in {0, 1},
             base' = base, hard' = hard, allowed' \in BOOLEAN, excess' = excess,
             used' + base' <= Limit + excess \/ Authorised'
      PROVE  RoutingInv'
  BY <1>e, <1>t, <1>i DEF RoutingInv, CallType
\* The next profile starts with nothing delivered.
<1>n. ASSUME call.pc \in Outcomes, call' = Routing!NextProfile(call),
             used' \in Nat, heard' = 0, base' = base, hard' = hard, allowed' = allowed,
             excess' = excess, used' + base' <= Limit + excess \/ Authorised'
      PROVE  RoutingInv'
  <2>1. CASE call' = Routing!Idle
    BY <1>n, <1>t, <1>e, <2>1
  <2>2. CASE call' # Routing!Idle
    <3>1. PICK left : call \in [pc : Outcomes, stream : BOOLEAN, left : {left},
               attempt : Nat, cap : Nat, emitted : BOOLEAN, usage : Nat, known : BOOLEAN]
      BY <1>n, <1>c
    <3>2. call' = [call EXCEPT !.pc = "select", !.left = Tail(left), !.attempt = 1,
                               !.cap = MaxOutput, !.emitted = FALSE, !.usage = 0,
                               !.known = FALSE]
      BY <1>n, <2>2, <3>1 DEF Routing!NextProfile
    <3>3. call' \in [pc : Outcomes, stream : BOOLEAN, left : {Tail(left)},
               attempt : Nat, cap : Nat, emitted : BOOLEAN, usage : Nat, known : BOOLEAN]
      BY <3>1, <3>2, <1>a DEF Outcomes
    <3>4. call'.pc = "select"
      BY <3>1, <3>2
    <3> QED BY <1>n, <1>t, <3>3, <3>4 DEF RoutingInv, CallType
  <2> QED BY <2>1, <2>2
\* An attempt at the provider starts with nothing delivered.
<1>s. ASSUME call.pc = "gate", UNCHANGED <<used, base, hard, heard, excess>>,
             allowed' \in BOOLEAN,
             Routing!StartCall(Routing!OutputCap(call.cap)),
             \/ Routing!Fits(Routing!OutputCap(call.cap)) /\ allowed' = allowed
             \/ Authorised'
      PROVE  RoutingInv'
  <2>1. PICK left : call \in [pc : Outcomes, stream : BOOLEAN, left : {left},
               attempt : Nat, cap : Nat, emitted : BOOLEAN, usage : Nat, known : BOOLEAN]
    BY <1>s, <1>c DEF Outcomes
  <2>2. Routing!OutputCap(call.cap) \in Nat
    BY <2>1, <1>t, OutputCapType
  <2> DEFINE cap == Routing!OutputCap(call.cap)
  <2> HIDE DEF cap
  <2>3. call' = [call EXCEPT !.pc = "provider", !.cap = cap, !.emitted = FALSE,
                             !.usage = 0, !.known = FALSE]
    BY <1>s DEF Routing!StartCall, cap
  <2>4. call' \in [pc : Outcomes, stream : BOOLEAN, left : {left}, attempt : Nat,
                   cap : Nat, emitted : BOOLEAN, usage : Nat, known : BOOLEAN]
        /\ call'.pc = "provider" /\ call'.cap = cap /\ ~call'.emitted /\ call'.usage = 0
    BY <2>1, <2>2, <2>3 DEF Outcomes, cap
  <2>5. used' + base' + RequestSize + cap <= Limit \/ Authorised'
    BY <1>s, <1>t DEF Routing!Fits, cap
  <2>6. heard' = 0
    BY <1>s DEF RoutingInv
  <2>7. used' + base' <= Limit + excess' \/ Authorised'
    BY <1>s, <1>t
  <2> QED BY <1>a, <1>s, <1>t, <2>2, <2>4, <2>5, <2>6, <2>7 DEF RoutingInv, CallType, cap
\* What an attempt has reported fits what its gate let pass.
<1>f. ASSUME call.pc = "provider", used' = used + call.usage
      PROVE  used' \in Nat /\ (used' + base <= Limit + excess \/ Authorised)
  <2>1. call.usage \in Nat /\ call.cap \in Nat
    BY <1>f, <1>c DEF Outcomes
  <2> QED BY <1>a, <1>f, <1>t, <2>1 DEF RoutingInv
<1>1. ASSUME NEW stream \in BOOLEAN, Routing!Plan(stream) PROVE RoutingInv'
  <2>1. call' \in [pc : Outcomes, stream : BOOLEAN, left : {Routing!Candidates},
                   attempt : Nat, cap : Nat, emitted : BOOLEAN, usage : Nat, known : BOOLEAN]
        /\ call'.pc = "select"
    BY <1>1, <1>a DEF Routing!Plan, Outcomes
  <2> QED BY <2>1, <1>1, <1>t DEF Routing!Plan, RoutingInv, CallType
<1>2. ASSUME Routing!Select PROVE RoutingInv'
  <2>1. call.pc = "select" /\ UNCHANGED <<hard, used, base, allowed, heard, excess>>
    BY <1>2 DEF Routing!Select
  <2>2. heard = 0
    BY <2>1 DEF RoutingInv
  <2>3. CASE Routing!Selectable
    <3>1. PICK left : call \in [pc : Outcomes, stream : BOOLEAN, left : {left},
               attempt : Nat, cap : Nat, emitted : BOOLEAN, usage : Nat, known : BOOLEAN]
      BY <2>1, <1>c DEF Outcomes
    <3>2. call' = [call EXCEPT !.pc = "gate"]
      BY <1>2, <2>3 DEF Routing!Select
    <3>3. call' \in [pc : Outcomes, stream : BOOLEAN, left : {left}, attempt : Nat,
                     cap : Nat, emitted : BOOLEAN, usage : Nat, known : BOOLEAN]
          /\ call'.pc = "gate"
      BY <3>1, <3>2 DEF Outcomes
    <3> QED BY <3>3, <2>1, <2>2, <1>t DEF RoutingInv, CallType
  <2>4. CASE ~Routing!Selectable
    BY <1>2, <1>n, <1>t, <2>1, <2>2, <2>4 DEF Routing!Select, Outcomes
  <2> QED BY <2>3, <2>4
<1>3. ASSUME Routing!GatePasses PROVE RoutingInv'
  BY <1>3, <1>s, <1>t DEF Routing!GatePasses
<1>4. ASSUME Routing!GateAsks PROVE RoutingInv'
  BY <1>4, <1>s, <1>t DEF Routing!GateAsks
<1>5. ASSUME Routing!GateStops PROVE RoutingInv'
  BY <1>5, <1>e, <1>t DEF Routing!GateStops
<1>6. ASSUME Routing!Chunk PROVE RoutingInv'
  <2>1. /\ call.pc = "provider" /\ ~call.emitted /\ heard' = heard + 1
        /\ call' = [call EXCEPT !.emitted = TRUE] /\ UNCHANGED <<hard, used, base, allowed, excess>>
    BY <1>6 DEF Routing!Chunk
  <2>2. PICK left : call \in [pc : Outcomes, stream : BOOLEAN, left : {left},
               attempt : Nat, cap : Nat, emitted : BOOLEAN, usage : Nat, known : BOOLEAN]
    BY <2>1, <1>c DEF Outcomes
  <2>3. call' \in [pc : Outcomes, stream : BOOLEAN, left : {left}, attempt : Nat,
                   cap : Nat, emitted : BOOLEAN, usage : Nat, known : BOOLEAN]
        /\ call'.pc = "provider" /\ call'.emitted
        /\ call'.usage = call.usage /\ call'.cap = call.cap
    BY <2>1, <2>2
  <2>4. heard' = 1
    BY <2>1 DEF RoutingInv
  <2> QED BY <2>1, <2>3, <2>4, <1>t DEF RoutingInv, CallType
<1>7. ASSUME NEW n \in 1..(RequestSize + MaxExcess + MaxOutput), Routing!ReportUsage(n)
      PROVE  RoutingInv'
  <2>1. /\ call.pc = "provider"
        /\ excess' = IF n > RequestSize + call.cap + excess
                     THEN n - (RequestSize + call.cap) ELSE excess
        /\ call' = [call EXCEPT !.usage = n, !.known = TRUE]
        /\ UNCHANGED <<hard, used, base, allowed, heard>>
    BY <1>7 DEF Routing!ReportUsage
  <2>2. PICK left : call \in [pc : Outcomes, stream : BOOLEAN, left : {left},
               attempt : Nat, cap : Nat, emitted : BOOLEAN, usage : Nat, known : BOOLEAN]
    BY <2>1, <1>c DEF Outcomes
  <2>3. call' \in [pc : Outcomes, stream : BOOLEAN, left : {left}, attempt : Nat,
                   cap : Nat, emitted : BOOLEAN, usage : Nat, known : BOOLEAN]
        /\ call'.pc = "provider" /\ call'.emitted = call.emitted
        /\ call'.usage = n /\ call'.cap = call.cap
    <3>1. n \in Nat
      BY <1>7, <1>a
    <3> QED BY <2>1, <2>2, <3>1
  <2>4. /\ n <= RequestSize + call.cap + excess'
        /\ excess' \in Nat /\ excess <= excess'
    <3>1. n \in Nat /\ call.cap \in Nat /\ excess \in Nat
      BY <2>2, <1>a, <1>t, <1>7
    <3> QED BY <2>1, <3>1, <1>a
  <2>5. used + base <= Limit + excess' \/ Authorised
    <3>1. used + base <= Limit + excess => used + base <= Limit + excess'
      <4>1. /\ used \in Nat /\ base \in Nat /\ Limit \in Nat /\ excess \in Nat
            /\ excess' \in Nat /\ excess <= excess'
        BY <2>4, <1>a, <1>t
      <4>2. \A s, l, x, y \in Int : s <= l + x /\ x <= y => s <= l + y
        OBVIOUS
      <4> DEFINE spent == used + base
      <4>3. spent \in Int /\ Limit \in Int /\ excess \in Int /\ excess' \in Int
        BY <4>1
      <4> HIDE DEF spent
      <4>4. spent <= Limit + excess => spent <= Limit + excess'
        BY <4>1, <4>2, <4>3
      <4> QED BY <4>4 DEF spent
    <3>2. used + base <= Limit + excess \/ Authorised
      BY <1>t, Zenon
    <3> QED BY <3>1, <3>2, Zenon
  <2>6. /\ heard = (IF call.emitted THEN 1 ELSE 0)
        /\ used + base + RequestSize + call.cap <= Limit \/ Authorised
    BY <2>1 DEF RoutingInv
  <2>7. /\ used' = used /\ base' = base /\ hard' = hard /\ allowed' = allowed
        /\ heard' = heard /\ CallType(call')
    BY <2>1, <2>3 DEF CallType
  <2>8. Routing!SpentWithinLimit' /\ (Authorised' <=> Authorised)
    BY <2>5, <2>7
  <2> QED BY <2>3, <2>4, <2>6, <2>7, <2>8, <1>t DEF RoutingInv
<1>8. ASSUME Routing!Succeed PROVE RoutingInv'
  <2>1. /\ call.pc = "provider" /\ call' = Routing!Idle
        /\ UNCHANGED <<hard, base, allowed, excess>>
    BY <1>8 DEF Routing!Succeed
  <2>2. heard' \in {0, 1}
    BY <1>8, <2>1 DEF Routing!Succeed, RoutingInv
  <2>3. used' = used + call.usage \/ used' = used
    BY <1>8, <1>t DEF Routing!Succeed, Routing!FinishCall
  <2> QED BY <1>e, <1>f, <1>t, <2>1, <2>2, <2>3
<1>9. ASSUME NEW retryable \in BOOLEAN, Routing!Fail(retryable) PROVE RoutingInv'
  <2>1. /\ call.pc = "provider" /\ used' = used + call.usage
        /\ call' = Routing!AfterFailure(retryable)
        /\ UNCHANGED <<hard, base, allowed, heard, excess>>
    BY <1>9 DEF Routing!Fail, Routing!FinishCall
  <2>2. used' \in Nat /\ (used' + base <= Limit + excess \/ Authorised)
    BY <2>1, <1>f
  <2>3. CASE call' = Routing!Idle
    BY <1>e, <1>t, <2>1, <2>2, <2>3
  <2>4. CASE call' # Routing!Idle
    <3>1. ~call.emitted /\ heard' = 0
      BY <2>1, <2>4 DEF Routing!AfterFailure, RoutingInv
    <3>2. CASE call.attempt <= Retries
      <4>1. PICK left : call \in [pc : Outcomes, stream : BOOLEAN, left : {left},
               attempt : Nat, cap : Nat, emitted : BOOLEAN, usage : Nat, known : BOOLEAN]
        BY <2>1, <1>c DEF Outcomes
      <4>2. call' = [call EXCEPT !.pc = "gate", !.attempt = @ + 1]
        BY <2>1, <2>4, <3>2 DEF Routing!AfterFailure
      <4>3. call' \in [pc : Outcomes, stream : BOOLEAN, left : {left}, attempt : Nat,
                     cap : Nat, emitted : BOOLEAN, usage : Nat, known : BOOLEAN]
            /\ call'.pc = "gate"
        <5>1. call.attempt + 1 \in Nat
          BY <4>1
        <5>2. call' = [call EXCEPT !.pc = "gate", !.attempt = call.attempt + 1]
          BY <4>2
        <5> QED BY <4>1, <5>1, <5>2 DEF Outcomes
      <4> QED BY <4>3, <3>1, <2>1, <2>2, <1>t DEF RoutingInv, CallType
    <3>3. CASE ~(call.attempt <= Retries)
      <4>1. call' = Routing!NextProfile(call)
        BY <2>1, <2>4, <3>3 DEF Routing!AfterFailure
      <4> QED BY <4>1, <1>n, <3>1, <2>1, <2>2, <1>t DEF Outcomes
    <3> QED BY <3>2, <3>3
  <2> QED BY <2>3, <2>4
<1>10. ASSUME Routing!Cancel PROVE RoutingInv'
  <2>1. /\ call.pc = "provider" /\ used' = used + call.usage /\ call' = Routing!Idle
        /\ UNCHANGED <<hard, base, allowed, heard, excess>>
    BY <1>10 DEF Routing!Cancel, Routing!FinishCall
  <2> QED BY <2>1, <1>e, <1>f, <1>t
<1>11. ASSUME Routing!Abandon PROVE RoutingInv'
  BY <1>11, <1>e, <1>t DEF Routing!Abandon
<1>12. ASSUME Routing!Continue PROVE RoutingInv'
  <2>1. call.pc = "idle" /\ UNCHANGED <<hard, call, allowed, excess>>
        /\ base' = base + used /\ used' = 0 /\ heard' = 0
    BY <1>12 DEF Routing!Continue, Routing!Busy
  <2> QED BY <2>1, <1>t, <1>a DEF RoutingInv, CallType
<1>13. ASSUME UNCHANGED Routing!vars PROVE RoutingInv'
  BY <1>13 DEF Routing!vars, RoutingInv, CallType
<1> QED
  BY <1>1, <1>2, <1>3, <1>4, <1>5, <1>6, <1>7, <1>8, <1>9, <1>10, <1>11, <1>12, <1>13
  DEF Routing!Next

\* The model router: whatever the providers report, fail at or leave out, one
\* attempt of a call is heard and the chain passes its limit by one wrong
\* estimate at most.
LEMMA RoutingSafe == Routing!Spec => [](Routing!OneAnswer /\ Routing!SpentWithinLimit)
<1>1. Routing!Init => RoutingInv
  <2> SUFFICES ASSUME Routing!Init PROVE RoutingInv
    OBVIOUS
  <2>1. /\ used = 0 /\ base = 0 /\ hard \in BOOLEAN /\ ~allowed /\ heard = 0 /\ excess = 0
        /\ call = Routing!Idle /\ call.pc = "idle"
    BY DEF Routing!Init, Routing!Idle
  <2>2. CallType(call)
    BY <2>1 DEF CallType
  <2>3. used + base <= Limit + excess
    BY <2>1, SessionAssumption
  <2>4. allowed \in BOOLEAN
    BY DEF Routing!Init
  <2> QED BY <2>1, <2>2, <2>3, <2>4 DEF RoutingInv, Routing!SpentWithinLimit, Routing!Usage
<1>2. RoutingInv /\ [Routing!Next]_(Routing!vars) => RoutingInv'
  BY RouterKeepsBudget
<1>3. RoutingInv => Routing!OneAnswer /\ Routing!SpentWithinLimit
  BY DEF RoutingInv, Routing!OneAnswer
<1> QED BY <1>1, <1>2, <1>3, PTL DEF Routing!Spec

\* ModelRouter.complete and stream with _budget_gate: in Session, a request is
\* answered by one attempt and a chain of runs passes its limit by one wrong
\* estimate at most.
THEOREM OneAnswerWithinBudget == Spec => []RoutingHolds
<1>1. Init => Routing!Init \/ focus # "routing"
  BY DEF Init
<1>2. [Next]_vars => [Routing!Next]_(Routing!vars)
  BY DEF Next, vars, RoutingVars, Routing!vars
<1>3. focus # "routing" /\ [Next]_vars => (focus # "routing")'
  BY DEF Next, vars
<1>4. (Routing!OneAnswer /\ Routing!SpentWithinLimit) \/ focus # "routing" => RoutingHolds
  BY DEF RoutingHolds
<1> QED BY <1>1, <1>2, <1>3, RoutingSafe, <1>4, PTL DEF Spec, Routing!Spec

-----------------------------------------------------------------------------
(***************************************************************************)
(* The rounds of tool calls.                                               *)
(***************************************************************************)

Rows == {"none", "open", "paused", "completed", "failed", "cancelled"}
Phases == {"idle", "validating", "authorizing", "running", "post", "returned", "prepared",
           "answered", "paused", "raised", "cancelled"}
Codes == {"none", "arguments", "denied", "unsupported", "timeout", "error", "ok",
          "tool_failed", "unknown", "postprocessing", "quarantine", "exhausted",
          "barrier", "cancelled"}
Execs == {"not_started", "committed", "unknown"}
RoundCall ==
  [kind : Round!Kinds, row : Rows, phase : Phases, did : BOOLEAN, code : Codes,
   exec : Execs, interrupted : BOOLEAN]

\* A call has an effect only in its handler, and from then on it is not reported
\* as not started, but for a file tool that raised, nor with an error the model
\* may correct.
Known(c) ==
  /\ c.did => /\ c.kind \in {"act", "edit"}
              /\ c.phase \notin {"idle", "validating", "authorizing"}
  /\ c.did /\ c.phase = "post" => c.exec # "not_started"
  /\ c.did /\ c.phase \in {"returned", "prepared", "answered"} =>
       c.exec # "not_started" \/ (c.kind = "edit" /\ c.code = "error")
  /\ c.did /\ c.phase \in {"post", "returned"} => c.code \notin Round!Repairable
  /\ c.row = "none" => c.phase = "idle"

\* A failure that is offered for correction has an attempt left.
Correctable(c) ==
  c.phase \in {"prepared", "answered"} /\ c.code \in Round!Repairable => attempt < MaxRepair

\* The calls that are answered are the first ones, in order, and the batch
\* begins among them or just after.
Underway ==
  /\ directive = {} /\ at \in DOMAIN calls
  /\ \A i \in DOMAIN calls : Correctable(calls[i])
  /\ msgs = [k \in 1..Len(msgs) |-> k] /\ Len(msgs) \in Nat /\ at <= Len(msgs) + 1
  /\ \A i \in DOMAIN calls : calls[i].phase = "answered" <=> i <= Len(msgs)

RoundInv ==
  /\ attempt \in Nat /\ round \in Nat
  /\ calls \in Seq(RoundCall) /\ \A i \in DOMAIN calls : Known(calls[i])
  /\ \A i \in directive : i \in DOMAIN calls /\ ~calls[i].did /\ attempt < MaxRepair
  /\ loop = "batch" => Underway
  /\ Round!AnsweredInOrder

\* A call with a new phase, code and execution state is a call.
Outcome(c, p, q, e) == [c EXCEPT !.phase = p, !.code = q, !.exec = e]

LEMMA OutcomeSet ==
  ASSUME NEW c \in RoundCall, NEW p \in Phases, NEW q \in Codes, NEW e \in Execs
  PROVE  /\ Outcome(c, p, q, e) \in RoundCall /\ Outcome(c, p, q, e).kind = c.kind
         /\ Outcome(c, p, q, e).row = c.row /\ Outcome(c, p, q, e).did = c.did
         /\ Outcome(c, p, q, e).phase = p /\ Outcome(c, p, q, e).exec = e
         /\ Outcome(c, p, q, e).code = q
BY DEF RoundCall, Outcome

\* One task of a batch takes a step that neither commits its call nor touches
\* the others.
LEMMA TaskStep ==
  ASSUME RoundInv, NEW i \in DOMAIN calls, NEW new, Round!Task(i, new),
         new \in RoundCall, Known(new), Correctable(new),
         new.phase # "answered", calls[i].phase # "answered"
  PROVE  RoundInv'
<1>1. /\ loop = "batch" /\ calls' = [calls EXCEPT ![i] = new]
      /\ UNCHANGED <<at, msgs, loop, attempt, directive, round>>
  BY DEF Round!Task
<1>2. /\ attempt \in Nat /\ round \in Nat /\ calls \in Seq(RoundCall)
      /\ \A j \in DOMAIN calls : Known(calls[j])
      /\ Underway
  BY <1>1 DEF RoundInv
<1>3. /\ calls' \in Seq(RoundCall) /\ DOMAIN calls' = DOMAIN calls
      /\ calls'[i] = new /\ \A j \in DOMAIN calls \ {i} : calls'[j] = calls[j]
  BY <1>1, <1>2, ExceptSeq
<1>4. \A j \in DOMAIN calls' : Known(calls'[j]) /\ Correctable(calls'[j])
  <2> SUFFICES ASSUME NEW j \in DOMAIN calls PROVE Known(calls'[j]) /\ Correctable(calls'[j])
    BY <1>3
  <2>1. CASE j = i
    BY <1>3, <2>1
  <2>2. CASE j # i
    BY <1>2, <1>3, <2>2 DEF Underway
  <2> QED BY <2>1, <2>2
<1>5. \A j \in DOMAIN calls : calls'[j].phase = "answered" <=> calls[j].phase = "answered"
  BY <1>3
<1>6. Underway'
  BY <1>1, <1>2, <1>3, <1>4, <1>5 DEF Underway, Correctable
<1>7. loop' = "batch" /\ directive' = {}
  BY <1>1, <1>2 DEF Underway
<1> QED BY <1>1, <1>2, <1>3, <1>4, <1>6, <1>7 DEF RoundInv, Round!AnsweredInOrder, Known

\* InvocationPreparer.prepare and executor._run: the steps of a task.
LEMMA TasksKeepRound ==
  ASSUME RoundInv, NEW i \in DOMAIN calls,
         \/ Round!Begin(i) \/ Round!Validate(i) \/ Round!Authorize(i) \/ Round!Effect(i)
         \/ Round!Return(i) \/ Round!Throw(i) \/ Round!PostProcess(i) \/ Round!Deliver(i)
  PROVE  RoundInv'
<1> DEFINE c == calls[i]
<1>t. /\ c \in RoundCall /\ Known(c) /\ attempt \in Nat /\ MaxRepair \in Nat
  <2>1. calls \in Seq(RoundCall)
    BY DEF RoundInv
  <2> QED BY <2>1, ElementOfSeq, LenProperties, SessionAssumption DEF RoundInv
<1> HIDE DEF c
<1>n. ASSUME NEW new, Round!Task(i, new), new \in RoundCall, Known(new), Correctable(new),
             new.phase # "answered", c.phase # "answered"
      PROVE  RoundInv'
  BY <1>n, TaskStep DEF c
<1> USE DEF RoundCall, Rows, Phases, Codes, Execs, Known, Correctable, Round!Returned,
        Round!Kinds, Round!FinishRow
<1>1. ASSUME Round!Begin(i) PROVE RoundInv'
  <2> DEFINE s == [c EXCEPT !.row = "open"]
  <2>1. c.phase = "idle" /\ ~c.did
    BY <1>1, <1>t DEF Round!Begin, Round!StartRow, c
  <2>2. \/ \E code \in {"arguments", "unsupported"} :
             Round!Task(i, Round!Returned(s, code, "not_started"))
        \/ Round!Task(i, [s EXCEPT !.phase = "validating"])
        \/ Round!Task(i, [Round!FinishRow(s, "failed") EXCEPT !.phase = "raised"])
    BY <1>1 DEF Round!Begin, Round!StartRow, c
  <2>3. s \in RoundCall /\ s.row = "open" /\ s.did = FALSE /\ s.phase = "idle"
    BY <2>1, <1>t
  <2> HIDE DEF s
  <2>4. CASE \E code \in {"arguments", "unsupported"} :
               Round!Task(i, Round!Returned(s, code, "not_started"))
    <3>1. PICK code \in {"arguments", "unsupported"} :
               Round!Task(i, Round!Returned(s, code, "not_started"))
      BY <2>4
    <3> DEFINE new == [s EXCEPT !.phase = "returned", !.code = code, !.exec = "not_started"]
    <3>2. /\ new \in RoundCall /\ new.row = "open" /\ new.did = FALSE
          /\ new.phase = "returned"
      BY <2>3
    <3>3. Round!Task(i, new)
      BY <3>1
    <3> HIDE DEF new
    <3> QED BY <3>2, <3>3, <1>n, <2>1
  <2>5. CASE Round!Task(i, [s EXCEPT !.phase = "validating"])
    <3> DEFINE new == [s EXCEPT !.phase = "validating"]
    <3>2. /\ new \in RoundCall /\ new.row = "open" /\ new.did = FALSE
          /\ new.phase = "validating"
      BY <2>3
    <3>3. Round!Task(i, new)
      BY <2>5
    <3> HIDE DEF new
    <3> QED BY <3>2, <3>3, <1>n, <2>1
  <2>6. CASE Round!Task(i, [Round!FinishRow(s, "failed") EXCEPT !.phase = "raised"])
    <3> DEFINE new == [[s EXCEPT !.row = "failed"] EXCEPT !.phase = "raised"]
    <3>2. /\ new \in RoundCall /\ new.row = "failed" /\ new.did = FALSE
          /\ new.phase = "raised"
      BY <2>3
    <3>3. Round!Task(i, new)
      BY <2>6
    <3> HIDE DEF new
    <3> QED BY <3>2, <3>3, <1>n, <2>1
  <2> QED BY <2>2, <2>4, <2>5, <2>6
<1>2. ASSUME Round!Validate(i) PROVE RoundInv'
  <2>1. c.phase = "validating" /\ ~c.did
    BY <1>2, <1>t DEF Round!Validate, c
  <2>2. \/ Round!Task(i, [c EXCEPT !.phase = "authorizing"])
        \/ \E code \in {"arguments", "denied", "error"} :
             Round!Task(i, Round!Returned(c, code, "not_started"))
    BY <1>2 DEF Round!Validate, c
  <2>3. CASE Round!Task(i, [c EXCEPT !.phase = "authorizing"])
    <3> DEFINE new == [c EXCEPT !.phase = "authorizing"]
    <3>2. /\ new \in RoundCall /\ new.kind = c.kind
          /\ new.row = c.row /\ new.did = c.did
          /\ new.phase = "authorizing"
      BY <1>t
    <3>3. Round!Task(i, new)
      BY <2>3
    <3> HIDE DEF new
    <3> QED BY <3>2, <3>3, <1>n, <1>t, <2>1
  <2>4. CASE \E code \in {"arguments", "denied", "error"} :
             Round!Task(i, Round!Returned(c, code, "not_started"))
    <3>1. PICK code \in {"arguments", "denied", "error"} :
               Round!Task(i, Round!Returned(c, code, "not_started"))
      BY <2>4
    <3> DEFINE new == Outcome(c, "returned", code, "not_started")
    <3>2. /\ new \in RoundCall /\ new.kind = c.kind
          /\ new.row = c.row /\ new.did = c.did
          /\ new.phase = "returned"
      <4>1. "returned" \in Phases /\ code \in Codes /\ "not_started" \in Execs
        OBVIOUS
      <4>2. c \in RoundCall
        BY <1>t
      <4> HIDE DEF RoundCall, Rows, Phases, Codes, Execs, Known, Correctable
      <4> QED BY <4>1, <4>2, OutcomeSet
    <3>3. Round!Task(i, new)
      BY <3>1 DEF Outcome
    <3> HIDE DEF new
    <3> QED BY <3>2, <3>3, <1>n, <1>t, <2>1
  <2> QED BY <2>2, <2>3, <2>4
<1>3. ASSUME Round!Authorize(i) PROVE RoundInv'
  <2>1. c.phase = "authorizing" /\ ~c.did
    BY <1>3, <1>t DEF Round!Authorize, c
  <2>2. \/ Round!Task(i, [c EXCEPT !.phase = "running"])
        \/ Round!Task(i, Round!Returned(c, "denied", "not_started"))
        \/ Round!Task(i, [c EXCEPT !.phase = "paused", !.row = "paused"])
    BY <1>3 DEF Round!Authorize, c
  <2>3. CASE Round!Task(i, [c EXCEPT !.phase = "running"])
    <3> DEFINE new == [c EXCEPT !.phase = "running"]
    <3>2. /\ new \in RoundCall /\ new.kind = c.kind
          /\ new.row = c.row /\ new.did = c.did
          /\ new.phase = "running"
      BY <1>t
    <3>3. Round!Task(i, new)
      BY <2>3
    <3> HIDE DEF new
    <3> QED BY <3>2, <3>3, <1>n, <1>t, <2>1
  <2>4. CASE Round!Task(i, Round!Returned(c, "denied", "not_started"))
    <3> DEFINE new == Outcome(c, "returned", "denied", "not_started")
    <3>2. /\ new \in RoundCall /\ new.kind = c.kind
          /\ new.row = c.row /\ new.did = c.did
          /\ new.phase = "returned"
      <4>1. "returned" \in Phases /\ "denied" \in Codes /\ "not_started" \in Execs
        OBVIOUS
      <4>2. c \in RoundCall
        BY <1>t
      <4> HIDE DEF RoundCall, Rows, Phases, Codes, Execs, Known, Correctable
      <4> QED BY <4>1, <4>2, OutcomeSet
    <3>3. Round!Task(i, new)
      BY <2>4 DEF Outcome
    <3> HIDE DEF new
    <3> QED BY <3>2, <3>3, <1>n, <1>t, <2>1
  <2>5. CASE Round!Task(i, [c EXCEPT !.phase = "paused", !.row = "paused"])
    <3> DEFINE new == [c EXCEPT !.phase = "paused", !.row = "paused"]
    <3>2. /\ new \in RoundCall /\ new.kind = c.kind
          /\ new.row = "paused" /\ new.did = c.did
          /\ new.phase = "paused"
      BY <1>t
    <3>3. Round!Task(i, new)
      BY <2>5
    <3> HIDE DEF new
    <3> QED BY <3>2, <3>3, <1>n, <1>t, <2>1
  <2> QED BY <2>2, <2>3, <2>4, <2>5
<1>4. ASSUME Round!Effect(i) PROVE RoundInv'
  <2>1. /\ c.phase = "running" /\ c.kind \in {"act", "edit"}
        /\ Round!Task(i, [c EXCEPT !.did = TRUE])
    BY <1>4 DEF Round!Effect, Round!HasEffect, c
  <2> DEFINE new == [c EXCEPT !.did = TRUE]
  <2>2. /\ new \in RoundCall /\ new.kind = c.kind /\ new.row = c.row
        /\ new.phase = "running"
    BY <1>t, <2>1
  <2>3. Round!Task(i, new)
    BY <2>1
  <2> HIDE DEF new
  <2> QED BY <2>2, <2>3, <1>n, <1>t, <2>1
<1>5. ASSUME Round!Return(i) PROVE RoundInv'
  <2>1. /\ c.phase = "running"
        /\ \/ Round!Task(i, [c EXCEPT !.phase = "post", !.code = "ok", !.exec = "committed"])
           \/ Round!Task(i, [c EXCEPT !.phase = "post", !.code = "tool_failed",
                 !.exec = IF c.did \/ c.kind = "read" THEN "committed" ELSE "not_started"])
    BY <1>5 DEF Round!Return, c
  <2>2. CASE Round!Task(i, [c EXCEPT !.phase = "post", !.code = "ok", !.exec = "committed"])
    <3> DEFINE new == Outcome(c, "post", "ok", "committed")
    <3>2. /\ new \in RoundCall /\ new.kind = c.kind /\ new.row = c.row /\ new.did = c.did
          /\ new.phase = "post" /\ new.exec = "committed" /\ new.code = "ok"
      <4>1. "post" \in Phases /\ "ok" \in Codes /\ "committed" \in Execs
        OBVIOUS
      <4> HIDE DEF RoundCall, Rows, Phases, Codes, Execs, Known, Correctable
      <4> QED BY <1>t, OutcomeSet, <4>1
    <3>3. Round!Task(i, new)
      BY <2>2 DEF Outcome
    <3> HIDE DEF new
    <3>4. new.code \notin Round!Repairable
      BY <3>2 DEF Round!Repairable
    <3> QED BY <3>2, <3>3, <3>4, <1>n, <1>t, <2>1
  <2>3. CASE Round!Task(i, [c EXCEPT !.phase = "post", !.code = "tool_failed",
                 !.exec = IF c.did \/ c.kind = "read" THEN "committed" ELSE "not_started"])
    <3> DEFINE e == IF c.did \/ c.kind = "read" THEN "committed" ELSE "not_started"
               new == Outcome(c, "post", "tool_failed", e)
    <3>1. e \in Execs /\ (c.did => e = "committed")
      OBVIOUS
    <3>3. Round!Task(i, new)
      BY <2>3 DEF Outcome
    <3> HIDE DEF e
    <3>2. /\ new \in RoundCall /\ new.kind = c.kind /\ new.row = c.row /\ new.did = c.did
          /\ new.phase = "post" /\ new.exec = e /\ new.code = "tool_failed"
      <4>1. "post" \in Phases /\ "tool_failed" \in Codes /\ e \in Execs
        BY <3>1
      <4> HIDE DEF RoundCall, Rows, Phases, Codes, Execs, Known, Correctable
      <4> QED BY <1>t, <3>1, OutcomeSet, <4>1
    <3> HIDE DEF new
    <3>4. new.code \notin Round!Repairable
      BY <3>2 DEF Round!Repairable
    <3> QED BY <3>1, <3>2, <3>3, <3>4, <1>n, <1>t, <2>1
  <2> QED BY <2>1, <2>2, <2>3
<1>6. ASSUME Round!Throw(i) PROVE RoundInv'
  <2>1. PICK err \in {"arguments", "denied", "timeout", "error"} :
          /\ Round!MayThrow(c, err)
          /\ Round!Task(i, IF Round!Unsure(c, err)
                           THEN Round!Returned(c, "unknown", "unknown")
                           ELSE Round!Returned(c, err, "not_started"))
    BY <1>6 DEF Round!Throw, c
  <2>2. c.phase = "running"
    BY <1>6 DEF Round!Throw, c
  <2>3. CASE c.kind = "act"
    <3> DEFINE new == Outcome(c, "returned", "unknown", "unknown")
    <3>2. /\ new \in RoundCall /\ new.kind = c.kind /\ new.row = c.row /\ new.did = c.did
          /\ new.phase = "returned" /\ new.exec = "unknown" /\ new.code = "unknown"
      <4>1. "returned" \in Phases /\ "unknown" \in Codes /\ "unknown" \in Execs
        OBVIOUS
      <4> HIDE DEF RoundCall, Rows, Phases, Codes, Execs, Known, Correctable
      <4> QED BY <1>t, OutcomeSet, <4>1
    <3>3. Round!Task(i, new)
      BY <2>1, <2>3 DEF Round!Unsure, Outcome
    <3> HIDE DEF new
    <3>4. new.code \notin Round!Repairable
      BY <3>2 DEF Round!Repairable
    <3> QED BY <3>2, <3>3, <3>4, <1>n, <1>t, <2>2
  <2>4. CASE c.kind # "act"
    <3> DEFINE new == Outcome(c, "returned", err, "not_started")
    <3>2. /\ new \in RoundCall /\ new.kind = c.kind /\ new.row = c.row /\ new.did = c.did
          /\ new.phase = "returned" /\ new.code = err
      <4>1. "returned" \in Phases /\ err \in Codes /\ "not_started" \in Execs
        OBVIOUS
      <4> HIDE DEF RoundCall, Rows, Phases, Codes, Execs, Known, Correctable
      <4> QED BY <1>t, OutcomeSet, <4>1
    <3>3. Round!Task(i, new)
      BY <2>1, <2>4 DEF Round!Unsure, Outcome
    <3>4. c.did => c.kind = "edit" /\ err = "error"
      BY <1>t, <2>1, <2>4 DEF Round!MayThrow
    <3> HIDE DEF new
    <3>5. "error" \notin Round!Repairable
      BY DEF Round!Repairable
    <3> QED BY <3>2, <3>3, <3>4, <3>5, <1>n, <1>t, <2>2, <2>4
  <2> QED BY <2>3, <2>4
<1>7. ASSUME Round!PostProcess(i) PROVE RoundInv'
  <2>1. /\ c.phase = "post"
        /\ \/ Round!Task(i, [c EXCEPT !.phase = "returned"])
           \/ \E err \in {"arguments", "timeout", "error"} :
                Round!Task(i, Round!Judged(c, err))
    BY <1>7 DEF Round!PostProcess, c
  <2>2. CASE Round!Task(i, [c EXCEPT !.phase = "returned"])
    <3> DEFINE new == [c EXCEPT !.phase = "returned"]
    <3>2. /\ new \in RoundCall /\ new.kind = c.kind /\ new.row = c.row /\ new.did = c.did
          /\ new.phase = "returned" /\ new.exec = c.exec /\ new.code = c.code
      BY <1>t
    <3>3. Round!Task(i, new)
      BY <2>2
    <3> HIDE DEF new
    <3> QED BY <3>2, <3>3, <1>n, <1>t, <2>1
  <2>3. CASE \E err \in {"arguments", "timeout", "error"} :
               Round!Task(i, Round!Judged(c, err))
    <3>1. PICK err \in {"arguments", "timeout", "error"} :
               Round!Task(i, Round!Judged(c, err))
      BY <2>3
    <3> DEFINE q == IF err \in {"arguments", "timeout"} THEN "postprocessing" ELSE err
               new == Outcome(c, "returned", q, c.exec)
    <3>2. q \in {"postprocessing", "error"}
      OBVIOUS
    <3>3. Round!Task(i, new)
      BY <3>1 DEF Round!Judged, Outcome
    <3> HIDE DEF q
    <3>4. q \in Codes /\ q \notin Round!Repairable
      BY <3>2 DEF Round!Repairable
    <3>5. /\ new \in RoundCall /\ new.kind = c.kind /\ new.row = c.row /\ new.did = c.did
          /\ new.phase = "returned" /\ new.exec = c.exec /\ new.code = q
      <4>1. "returned" \in Phases /\ q \in Codes /\ c.exec \in Execs
        BY <1>t, <3>4
      <4> HIDE DEF RoundCall, Rows, Phases, Codes, Execs, Known, Correctable
      <4> QED BY <1>t, <3>4, OutcomeSet, <4>1
    <3> HIDE DEF new
    <3> QED BY <3>3, <3>4, <3>5, <1>n, <1>t, <2>1
  <2> QED BY <2>1, <2>2, <2>3
<1>8. ASSUME Round!Deliver(i) PROVE RoundInv'
  <2> DEFINE r == Round!Repaired(c)
  <2>1. /\ r.phase = "returned"
        /\ \/ Round!Task(i, [Round!FinishRow(r, IF r.code = "ok" THEN "completed"
                                               ELSE "failed") EXCEPT !.phase = "prepared"])
           \/ /\ r.exec = "committed" /\ r.code = "ok"
              /\ Round!Task(i, [Round!FinishRow(r, "failed") EXCEPT !.phase = "prepared",
                                                         !.code = "quarantine"])
    BY <1>8 DEF Round!Deliver, c
  <2>2. /\ r \in RoundCall /\ r.kind = c.kind /\ r.phase = c.phase /\ r.did = c.did
        /\ r.code \in Round!Repairable => attempt < MaxRepair
        /\ c.code \in Round!Repairable \/ r = c
    <3>1. CASE c.code \in Round!Repairable
      <4> DEFINE q == IF attempt >= MaxRepair THEN "exhausted" ELSE c.code
      <4>1. q \in Codes /\ (q \in Round!Repairable => attempt < MaxRepair)
        BY <1>t DEF Round!Repairable
      <4>2. r = Outcome(c, c.phase, q, "not_started")
        BY <1>t, <3>1 DEF Round!Repaired, Outcome
      <4> HIDE DEF q, r
      <4> QED
        <5>1. c.phase \in Phases /\ q \in Codes /\ "not_started" \in Execs
          BY <1>t, <4>1
        <5> HIDE DEF RoundCall, Rows, Phases, Codes, Execs, Known, Correctable
        <5> QED BY <1>t, <3>1, <4>1, <4>2, OutcomeSet, <5>1
    <3>2. CASE c.code \notin Round!Repairable
      BY <1>t, <3>2 DEF Round!Repaired
    <3> QED BY <3>1, <3>2
  <2> HIDE DEF r
  <2>3. /\ c.phase = "returned"
        /\ r.did => r.exec # "not_started" \/ (r.kind = "edit" /\ r.code = "error")
    BY <1>t, <2>1, <2>2
  <2>4. CASE Round!Task(i, [Round!FinishRow(r, IF r.code = "ok" THEN "completed"
                                               ELSE "failed") EXCEPT !.phase = "prepared"])
    <3> DEFINE w == IF r.code = "ok" THEN "completed" ELSE "failed"
               new == [[r EXCEPT !.row = w] EXCEPT !.phase = "prepared"]
    <3>1. w \in Rows /\ w # "none"
      OBVIOUS
    <3>3. Round!Task(i, new)
      BY <2>4
    <3> HIDE DEF w
    <3>2. /\ new \in RoundCall /\ new.kind = c.kind /\ new.row = w /\ new.did = c.did
          /\ new.phase = "prepared" /\ new.exec = r.exec /\ new.code = r.code
      BY <2>2, <3>1
    <3> HIDE DEF new
    <3> QED BY <3>1, <3>2, <3>3, <1>n, <1>t, <2>2, <2>3
  <2>5. CASE /\ r.exec = "committed"
             /\ Round!Task(i, [Round!FinishRow(r, "failed") EXCEPT !.phase = "prepared",
                                                        !.code = "quarantine"])
    <3> DEFINE w == [r EXCEPT !.row = "failed"]
               new == [w EXCEPT !.phase = "prepared", !.code = "quarantine"]
    <3>3. Round!Task(i, new)
      BY <2>5
    <3>1. /\ w \in RoundCall /\ w.kind = r.kind /\ w.row = "failed" /\ w.did = r.did
          /\ w.exec = r.exec
      BY <2>2
    <3> HIDE DEF w
    <3>5. /\ new \in RoundCall /\ new.kind = w.kind /\ new.row = w.row /\ new.did = w.did
          /\ new.phase = "prepared" /\ new.exec = w.exec /\ new.code = "quarantine"
      BY <3>1
    <3> HIDE DEF new
    <3>2. /\ new \in RoundCall /\ new.kind = c.kind /\ new.row = "failed" /\ new.did = c.did
          /\ new.phase = "prepared" /\ new.exec = r.exec /\ new.code = "quarantine"
      BY <2>2, <3>1, <3>5
    <3>4. new.code \notin Round!Repairable
      BY <3>2 DEF Round!Repairable
    <3>9. new.exec # "not_started"
      BY <3>2, <2>5
    <3>6. new.kind = c.kind /\ (c.did => c.kind \in {"act", "edit"})
      BY <3>2, <1>t
    <3>7. Known(new) /\ Correctable(new)
      BY <3>2, <3>4, <3>9, <3>6
    <3>8. /\ new \in RoundCall /\ new.phase # "answered" /\ c.phase # "answered"
      BY <3>2, <2>3
    <3> HIDE DEF Known, Correctable, RoundCall
    <3> QED BY <3>3, <3>7, <3>8, <1>n
  <2> QED BY <2>1, <2>4, <2>5
<1> QED BY <1>1, <1>2, <1>3, <1>4, <1>5, <1>6, <1>7, <1>8

\* A batch that is given up ends the round, whatever became of its calls.
LEMMA RoundEnds ==
  ASSUME RoundInv, loop = "batch", loop' \notin {"batch", "model"},
         UNCHANGED <<attempt, directive, round>>,
         calls' \in Seq(RoundCall), \A i \in DOMAIN calls' : Known(calls'[i])
  PROVE  RoundInv'
<1>1. directive' = {} /\ attempt' \in Nat /\ round' \in Nat
  BY DEF RoundInv, Underway
<1> QED BY <1>1 DEF RoundInv, Round!AnsweredInOrder, Known

\* BatchScheduler: a task that is cancelled keeps what is known of its effect.
LEMMA CancelledKnown ==
  ASSUME NEW c \in RoundCall, Known(c)
  PROVE  Round!Cancelled(c) \in RoundCall /\ Known(Round!Cancelled(c))
<1>1. CASE c.phase \in {"idle", "prepared", "answered", "raised", "paused"}
  BY <1>1 DEF Round!Cancelled
<1>2. CASE c.phase \notin {"idle", "prepared", "answered", "raised", "paused"}
  <2> DEFINE new == [[c EXCEPT !.row = "cancelled"] EXCEPT !.phase = "cancelled",
                                                          !.code = "cancelled"]
  <2>1. Round!Cancelled(c) = new
    BY <1>2 DEF Round!Cancelled, Round!FinishRow
  <2>2. /\ new \in RoundCall /\ new.kind = c.kind /\ new.did = c.did
        /\ new.row = "cancelled" /\ new.phase = "cancelled"
    BY DEF RoundCall, Rows, Phases, Codes
  <2>3. c.did => c.kind \in {"act", "edit"}
    BY DEF Known
  <2> HIDE DEF new
  <2>4. Known(new)
    BY <2>2, <2>3 DEF Known
  <2> QED BY <2>1, <2>2, <2>4
<1> QED BY <1>1, <1>2

\* A round whose calls are rewritten one by one keeps its shape.
LEMMA Rewritten ==
  ASSUME calls \in Seq(RoundCall), NEW F, DOMAIN F = DOMAIN calls,
         F = [i \in DOMAIN calls |-> F[i]],
         \A i \in DOMAIN calls : F[i] \in RoundCall
  PROVE  F \in Seq(RoundCall)
<1>1. Len(calls) \in Nat /\ DOMAIN calls = 1..Len(calls)
  BY LenProperties
<1> QED BY <1>1, SeqDef

LEMMA BatchCancelled ==
  ASSUME RoundInv, Round!CancelBatch
  PROVE  calls' \in Seq(RoundCall) /\ \A i \in DOMAIN calls' : Known(calls'[i])
<1>1. /\ calls \in Seq(RoundCall) /\ \A i \in DOMAIN calls : Known(calls[i])
      /\ \A i \in DOMAIN calls : calls[i] \in RoundCall
  BY ElementOfSeq, LenProperties DEF RoundInv
<1>2. /\ calls' = [i \in DOMAIN calls |-> calls'[i]] /\ DOMAIN calls' = DOMAIN calls
      /\ \A i \in DOMAIN calls : calls'[i] \in {calls[i], Round!Cancelled(calls[i])}
  BY DEF Round!CancelBatch
<1>3. \A i \in DOMAIN calls : calls'[i] \in RoundCall /\ Known(calls'[i])
  BY <1>1, <1>2, CancelledKnown
<1> QED BY <1>1, <1>2, <1>3, Rewritten

\* ToolLoop.run and BatchScheduler.run: an answer, an interrupt, a stop and a
\* pause keep the order of the answers and what is known of the effects.
LEMMA LoopKeepsRound ==
  ASSUME RoundInv,
         Round!Answer \/ Round!Interrupt \/ Round!StopBatch \/ Round!PauseRound
  PROVE  RoundInv'
<1>0. /\ calls \in Seq(RoundCall) /\ \A i \in DOMAIN calls : Known(calls[i])
      /\ \A i \in DOMAIN calls : calls[i] \in RoundCall
      /\ DOMAIN calls = 1..Len(calls) /\ Len(calls) \in Nat
  BY ElementOfSeq, LenProperties DEF RoundInv
<1>1. ASSUME Round!Answer PROVE RoundInv'
  <2>1. PICK n \in 1..MaxCalls : \E ks \in [1..n -> Round!Kinds] :
               calls' = [i \in DOMAIN ks |-> Round!NewCall(ks[i])]
    BY <1>1 DEF Round!Answer, Round!Answers
  <2>2. PICK ks \in [1..n -> Round!Kinds] :
               calls' = [i \in DOMAIN ks |-> Round!NewCall(ks[i])]
    BY <2>1
  <2>3. n \in Nat /\ 1 <= n
    BY <2>1
  <2>4. \A k \in Round!Kinds : /\ Round!NewCall(k) \in RoundCall
                               /\ Round!NewCall(k).phase = "idle" /\ ~Round!NewCall(k).did
    BY DEF Round!NewCall, RoundCall, Rows, Phases, Codes, Execs
  <2>5. calls' \in [1..n -> RoundCall]
    BY <2>2, <2>4
  <2>6. calls' \in Seq(RoundCall) /\ DOMAIN calls' = 1..n
    BY <2>3, <2>5, SeqDef
  <2>7. \A i \in DOMAIN calls' : calls'[i].phase = "idle" /\ ~calls'[i].did
    BY <2>2, <2>4
  <2>8. \A i \in DOMAIN calls' : Known(calls'[i])
    BY <2>7 DEF Known
  <2>9. /\ loop' = "batch" /\ directive' = {} /\ at' = 1 /\ msgs' = <<>>
        /\ round' \in Nat /\ attempt' \in Nat
    BY <1>1 DEF Round!Answer, RoundInv
  <2>10. Len(msgs') = 0 /\ msgs' = [k \in 1..0 |-> k]
    <3>1. Len(<<>>) = 0 /\ DOMAIN <<>> = {}
      BY EmptySeq, LenProperties
    <3>2. 1..0 = {}
      OBVIOUS
    <3>3. <<>> \in Seq({})
      BY EmptySeq
    <3>4. <<>> = [k \in 1..0 |-> k]
      BY <3>1, <3>2, <3>3
    <3> QED BY <2>9, <3>1, <3>4
  <2>11. Underway'
    <3>1. \A i \in DOMAIN calls' : calls'[i].phase \notin {"prepared", "answered"}
      BY <2>7
    <3>2. at' \in DOMAIN calls' /\ at' <= Len(msgs') + 1
      BY <2>3, <2>6, <2>9, <2>10
    <3>3. \A i \in DOMAIN calls' : calls'[i].phase = "answered" <=> i <= Len(msgs')
      BY <2>6, <2>7, <2>10
    <3> QED BY <2>9, <2>10, <3>1, <3>2, <3>3 DEF Underway, Correctable
  <2> QED BY <2>6, <2>8, <2>9, <2>11 DEF RoundInv, Round!AnsweredInOrder, Known
<1>2. ASSUME Round!Interrupt PROVE RoundInv'
  <2>1. CASE Round!Alone /\ calls[at].phase = "running" /\ Round!HasEffect(calls[at])
    <3> DEFINE c == calls[at]
               new == [c EXCEPT !.interrupted = TRUE]
    <3>1. /\ loop = "batch" /\ calls' = [calls EXCEPT ![at].interrupted = TRUE]
          /\ UNCHANGED <<at, msgs, loop, attempt, directive, round>>
      BY <1>2, <2>1 DEF Round!Interrupt
    <3>2. at \in DOMAIN calls
      BY <3>1 DEF RoundInv, Underway
    <3>3. c \in RoundCall /\ Known(c) /\ c.phase = "running"
      BY <1>0, <2>1, <3>2
    <3>4. /\ new \in RoundCall /\ new.kind = c.kind /\ new.did = c.did /\ new.row = c.row
          /\ new.phase = c.phase
      BY <3>3 DEF RoundCall
    <3>5. Round!Task(at, new)
      BY <2>1, <3>1, <3>2 DEF Round!Task, Round!Alone
    <3> HIDE DEF new, c
    <3>6. Known(new) /\ Correctable(new)
      BY <3>3, <3>4 DEF Known, Correctable
    <3>7. new.phase # "answered" /\ calls[at].phase # "answered"
      BY <2>1, <3>3, <3>4
    <3> QED BY <3>2, <3>4, <3>5, <3>6, <3>7, TaskStep
  <2>2. CASE ~(Round!Alone /\ calls[at].phase = "running" /\ Round!HasEffect(calls[at]))
    <3>1. loop = "batch" /\ Round!CancelBatch /\ loop' = "cancelled"
          /\ UNCHANGED <<attempt, directive, round>>
      BY <1>2, <2>2 DEF Round!Interrupt
    <3> QED BY <3>1, BatchCancelled, RoundEnds
  <2> QED BY <2>1, <2>2
<1>3. ASSUME Round!StopBatch PROVE RoundInv'
  <2>1. loop = "batch" /\ Round!CancelBatch /\ loop' = "stopped"
        /\ UNCHANGED <<attempt, directive, round>>
    BY <1>3 DEF Round!StopBatch
  <2> QED BY <2>1, BatchCancelled, RoundEnds
<1>4. ASSUME Round!PauseRound PROVE RoundInv'
  <2>1. loop = "batch" /\ UNCHANGED <<attempt, directive, round>>
    BY <1>4 DEF Round!PauseRound
  <2>2. PICK b \in Round!Batch :
          LET later == (b + 1)..Len(calls) IN
          IF \E j \in later : calls[j].row # "none"
          THEN Round!CancelBatch /\ loop' = "clash"
          ELSE /\ calls' = [i \in DOMAIN calls |->
                    IF i \in later
                      THEN [calls[i] EXCEPT !.phase = "answered",
                            !.row = "cancelled", !.code = "barrier"]
                      ELSE IF i \in Round!Batch THEN Round!Cancelled(calls[i])
                                                ELSE calls[i]]
               /\ loop' = "paused"
    BY <1>4 DEF Round!PauseRound
  <2> DEFINE later == (b + 1)..Len(calls)
  <2>3. CASE \E j \in later : calls[j].row # "none"
    BY <2>1, <2>2, <2>3, BatchCancelled, RoundEnds
  <2>4. CASE \A j \in later : calls[j].row = "none"
    <3> DEFINE barrier(c) == [c EXCEPT !.phase = "answered", !.row = "cancelled",
                                       !.code = "barrier"]
    <3>1. /\ calls' = [i \in DOMAIN calls |->
                         IF i \in later THEN barrier(calls[i])
                         ELSE IF i \in Round!Batch THEN Round!Cancelled(calls[i])
                                                   ELSE calls[i]]
          /\ loop' = "paused"
      BY <2>2, <2>4
    <3>2. \A c \in RoundCall : Known(c) /\ c.row = "none" =>
             barrier(c) \in RoundCall /\ Known(barrier(c))
      <4> SUFFICES ASSUME NEW c \in RoundCall, Known(c), c.row = "none"
                   PROVE  barrier(c) \in RoundCall /\ Known(barrier(c))
        OBVIOUS
      <4>1. ~c.did
        BY DEF Known
      <4>2. /\ barrier(c) \in RoundCall /\ barrier(c).did = c.did
            /\ barrier(c).row = "cancelled"
        BY DEF RoundCall, Rows, Phases, Codes
      <4> HIDE DEF barrier
      <4> QED BY <4>1, <4>2 DEF Known
    <3>3. /\ calls' = [i \in DOMAIN calls |-> calls'[i]] /\ DOMAIN calls' = DOMAIN calls
          /\ \A i \in DOMAIN calls : \/ calls'[i] \in {calls[i], Round!Cancelled(calls[i])}
                                     \/ calls[i].row = "none" /\ calls'[i] = barrier(calls[i])
      BY <2>4, <3>1
    <3> HIDE DEF barrier
    <3>4. \A i \in DOMAIN calls : calls'[i] \in RoundCall /\ Known(calls'[i])
      BY <1>0, <3>2, <3>3, CancelledKnown
    <3>5. calls' \in Seq(RoundCall)
      BY <1>0, <3>3, <3>4, Rewritten
    <3> QED BY <2>1, <3>1, <3>3, <3>4, <3>5, RoundEnds
  <2> QED BY <2>3, <2>4
<1> QED BY <1>1, <1>2, <1>3, <1>4

\* One more answer is appended to the answers so far.
LEMMA OneMore ==
  ASSUME NEW m \in Nat
  PROVE  /\ Append([k \in 1..m |-> k], m + 1) = [k \in 1..(m + 1) |-> k]
         /\ Len([k \in 1..(m + 1) |-> k]) = m + 1
<1> DEFINE s == [k \in 1..m |-> k]
           t == [k \in 1..(m + 1) |-> k]
<1>1. s \in Seq(Nat) /\ Len(s) = m
  <2>1. s \in [1..m -> Nat]
    OBVIOUS
  <2>2. s \in Seq(Nat)
    BY <2>1, SeqDef
  <2> QED BY <2>2, LenProperties
<1>2. t \in Seq(Nat) /\ Len(t) = m + 1
  <2>1. t \in [1..(m + 1) -> Nat]
    OBVIOUS
  <2>2. t \in Seq(Nat)
    BY <2>1, SeqDef
  <2> QED BY <2>2, LenProperties
<1>3. /\ Append(s, m + 1) \in Seq(Nat) /\ Len(Append(s, m + 1)) = m + 1
      /\ \A k \in 1..m : Append(s, m + 1)[k] = s[k]
      /\ Append(s, m + 1)[m + 1] = m + 1
  BY <1>1, AppendProperties
<1>4. \A k \in 1..(m + 1) : Append(s, m + 1)[k] = t[k]
  <2> SUFFICES ASSUME NEW k \in 1..(m + 1) PROVE Append(s, m + 1)[k] = t[k]
    OBVIOUS
  <2>1. t[k] = k
    OBVIOUS
  <2>2. CASE k = m + 1
    BY <1>3, <2>1, <2>2
  <2>3. CASE k \in 1..m
    BY <1>3, <2>1, <2>3
  <2> QED BY <2>2, <2>3
<1> HIDE DEF s, t
<1>5. Append(s, m + 1) = t
  BY <1>2, <1>3, <1>4, SeqEqual
<1> QED BY <1>2, <1>5 DEF s, t

\* The sizes that ToolRound speaks of are those of the library.
LEMMA SameSize == \A S : Round!Cardinality(S) = Cardinality(S)
BY DEF Round!Cardinality, Cardinality

\* BatchScheduler.run: the results of a batch are committed in the order of the
\* calls, and after the last one every call of the round has its answer.
LEMMA CommitKeepsRound ==
  ASSUME RoundInv, NEW i \in DOMAIN calls, Round!Commit(i)
  PROVE  RoundInv'
<1> DEFINE m == Len(msgs)
           last == \A j \in Round!Batch \ {i} : calls[j].phase = "answered"
           next == at + Round!Cardinality(Round!Batch)
           done == last /\ next > Len(calls)
<1>0. /\ calls \in Seq(RoundCall) /\ \A j \in DOMAIN calls : Known(calls[j])
      /\ \A j \in DOMAIN calls : calls[j] \in RoundCall
      /\ DOMAIN calls = 1..Len(calls) /\ Len(calls) \in Nat
      /\ attempt \in Nat /\ round \in Nat
  BY ElementOfSeq, LenProperties DEF RoundInv
<1>1. /\ loop = "batch" /\ i \in Round!Batch /\ Round!MayCommit(i)
      /\ msgs' = Append(msgs, i)
      /\ calls' = [calls EXCEPT ![i].phase = "answered"]
      /\ at' = IF last THEN next ELSE at
      /\ loop' = IF calls[i].interrupted THEN "cancelled"
                 ELSE IF done THEN "model" ELSE "batch"
      /\ directive' = IF done THEN Round!Offered ELSE {}
      /\ attempt' = IF done /\ Round!Offered = {} THEN 0 ELSE attempt
      /\ round' = round
  BY DEF Round!Commit
<1>2. /\ directive = {} /\ at \in 1..Len(calls)
      /\ \A j \in DOMAIN calls : Correctable(calls[j])
      /\ msgs = [k \in 1..m |-> k] /\ m \in Nat /\ at <= m + 1
      /\ \A j \in DOMAIN calls : calls[j].phase = "answered" <=> j <= m
  BY <1>0, <1>1 DEF RoundInv, Underway
<1> HIDE DEF m, last, next, done
\* A batch has no gaps.
<1>3. /\ at \in Round!Batch /\ Round!Batch \subseteq at..Len(calls)
      /\ \A j \in Round!Batch, k \in at..Len(calls) : k <= j => k \in Round!Batch
  <2>1. Round!Batch = {j \in at..Len(calls) :
                         \A k \in (at + 1)..j : ~Round!StartsBatch(k)}
    BY DEF Round!Batch
  <2>2. at \in Nat /\ at <= Len(calls)
    BY <1>0, <1>2
  <2>3. at \in Round!Batch
    <3>1. (at + 1)..at = {}
      BY <2>2
    <3>2. at \in at..Len(calls)
      BY <2>2, <1>0
    <3> QED BY <2>1, <3>1, <3>2
  <2>4. ASSUME NEW j \in Round!Batch, NEW k \in at..Len(calls), k <= j
        PROVE  k \in Round!Batch
    <3>1. (at + 1)..k \subseteq (at + 1)..j
      BY <2>1, <2>2, <2>4, <1>0
    <3>2. \A x \in (at + 1)..j : ~Round!StartsBatch(x)
      BY <2>1
    <3> QED BY <2>1, <3>1, <3>2
  <2> QED BY <2>1, <2>3, <2>4
\* The call that is committed is the first one without an answer.
<1>4. i = m + 1
  <2>1. i \in 1..Len(calls) /\ calls[i].phase = "prepared"
    BY <1>0, <1>1 DEF Round!MayCommit
  <2>2. m < i
    BY <1>0, <1>2, <2>1
  <2>3. ASSUME m + 1 < i PROVE FALSE
    <3>0. m + 1 \in at..Len(calls) /\ m + 1 <= i
      BY <1>0, <1>2, <2>1, <2>3
    <3>1. m + 1 \in Round!Batch
      BY <1>1, <1>3, <3>0
    <3>2. calls[m + 1].phase = "answered" /\ m + 1 \in DOMAIN calls
      BY <1>0, <1>1, <1>2, <2>1, <2>3, <3>1 DEF Round!MayCommit
    <3> QED BY <1>2, <3>2
  <2> QED BY <1>0, <1>2, <2>1, <2>2, <2>3
<1>5. msgs' = [k \in 1..(m + 1) |-> k] /\ Len(msgs') = m + 1
  BY <1>1, <1>2, <1>4, OneMore
<1>6. i \in 1..Len(calls) /\ calls[i] \in RoundCall /\ calls[i].phase = "prepared"
      /\ Known(calls[i])
  BY <1>0, <1>1 DEF Round!MayCommit
<1> DEFINE new == [calls[i] EXCEPT !.phase = "answered"]
<1>7. /\ new \in RoundCall /\ new.phase = "answered" /\ new.kind = calls[i].kind
      /\ new.did = calls[i].did /\ new.exec = calls[i].exec /\ new.row = calls[i].row
      /\ new.code = calls[i].code
  BY <1>6 DEF RoundCall, Phases
<1>8. calls' = [calls EXCEPT ![i] = new]
  BY <1>1
<1> HIDE DEF new
<1>9. /\ calls' \in Seq(RoundCall) /\ DOMAIN calls' = DOMAIN calls /\ calls'[i] = new
      /\ \A j \in DOMAIN calls \ {i} : calls'[j] = calls[j] /\ Len(calls') = Len(calls)
  BY <1>0, <1>6, <1>7, <1>8, ExceptSeq
<1>10. Known(new)
  BY <1>6, <1>7 DEF Known
<1>11. \A j \in DOMAIN calls' : Known(calls'[j])
  BY <1>0, <1>9, <1>10
<1>12. \A j \in DOMAIN calls : calls'[j].did = calls[j].did
  BY <1>7, <1>9
<1>13. \A j \in DOMAIN calls : calls'[j].phase = "answered" <=> j <= m + 1
  <2> SUFFICES ASSUME NEW j \in DOMAIN calls
               PROVE  calls'[j].phase = "answered" <=> j <= m + 1
    OBVIOUS
  <2>1. CASE j = i
    BY <1>0, <1>2, <1>4, <1>7, <1>9, <2>1
  <2>2. CASE j # i
    <3>1. calls'[j] = calls[j]
      BY <1>9, <2>2
    <3>2. j \in Nat /\ j # m + 1
      BY <1>0, <1>4, <2>2
    <3> QED BY <1>2, <3>1, <3>2
  <2> QED BY <2>1, <2>2
\* After the last commit of a batch the next batch begins behind it.
<1>14. last => next = i + 1
  <2> SUFFICES ASSUME last PROVE next = i + 1
    OBVIOUS
  <2>1. \A j \in Round!Batch : j <= i
    BY <1>0, <1>2, <1>3, <1>4 DEF last
  <2>2. Round!Batch = at..i
    <3>1. at..i \subseteq at..Len(calls) /\ \A k \in at..i : k <= i
      BY <1>0, <1>2, <1>6
    <3>2. \A k \in at..i : k \in Round!Batch
      BY <1>1, <1>3, <3>1
    <3>3. \A k \in Round!Batch : k \in at..i
      <4>1. at \in Int /\ Len(calls) \in Int /\ i \in Int
        BY <1>0, <1>2, <1>6
      <4>2. \A k \in Round!Batch : k \in at..Len(calls) /\ k <= i
        BY <1>3, <2>1
      <4> QED BY <4>1, <4>2
    <3> QED BY <3>2, <3>3
  <2>3. Cardinality(at..i) = i - at + 1
    BY <1>2, <1>4, <1>0, FS_Interval
  <2> QED BY <1>2, <1>4, <1>0, <2>2, <2>3, SameSize DEF next
<1>15. CASE done
  <2>0. next = i + 1 /\ next > Len(calls)
    BY <1>14, <1>15 DEF done
  <2>1. i = Len(calls) /\ \A j \in DOMAIN calls : j <= m \/ j = i
    <3>1. i = Len(calls)
      BY <1>0, <1>6, <2>0
    <3>2. \A j \in 1..i : j <= m \/ j = i
      BY <1>2, <1>4
    <3> QED BY <1>0, <3>1, <3>2
  <2>2. \A j \in Round!Offered : j \in DOMAIN calls /\ ~calls'[j].did /\ attempt < MaxRepair
    <3> SUFFICES ASSUME NEW j \in Round!Offered
                 PROVE  j \in DOMAIN calls /\ ~calls'[j].did /\ attempt < MaxRepair
      OBVIOUS
    <3>1. /\ j \in DOMAIN calls /\ calls[j].code \in Round!Repairable
          /\ calls[j].exec = "not_started"
      BY DEF Round!Offered
    <3>2. calls[j].phase \in {"prepared", "answered"}
      BY <1>2, <1>6, <2>1, <3>1
    <3>e. "error" \notin Round!Repairable
      BY DEF Round!Repairable
    <3>3. calls[j].did = FALSE
      BY <1>0, <3>1, <3>2, <3>e DEF Known, RoundCall
    <3>4. attempt < MaxRepair
      BY <1>2, <3>1, <3>2 DEF Correctable
    <3> QED BY <1>12, <3>1, <3>3, <3>4
  <2>3. \A j \in directive' : j \in DOMAIN calls' /\ ~calls'[j].did /\ attempt' < MaxRepair
    BY <1>1, <1>9, <1>15, <2>2
  <2>4. loop' # "batch" /\ attempt' \in Nat
    BY <1>0, <1>1, <1>15
  <2>5. msgs' = [k \in DOMAIN calls' |-> k]
    BY <1>0, <1>4, <1>5, <1>9, <2>1
  <2> QED BY <1>0, <1>1, <1>9, <1>11, <2>3, <2>4, <2>5
      DEF RoundInv, Round!AnsweredInOrder, Known
<1>16. CASE ~done
  <2>1. directive' = {} /\ attempt' = attempt /\ round' = round /\ loop' # "model"
    BY <1>1, <1>16
  <2>2. at' \in DOMAIN calls /\ at' <= m + 2
    <3>1. CASE last
      BY <1>0, <1>1, <1>2, <1>4, <1>6, <1>14, <1>16, <3>1 DEF done
    <3>2. CASE ~last
      BY <1>0, <1>1, <1>2, <3>2
    <3> QED BY <3>1, <3>2
  <2>3. \A j \in DOMAIN calls' : Correctable(calls'[j])
    <3>1. Correctable(new)
      BY <1>2, <1>6, <1>7 DEF Correctable
    <3> QED BY <1>2, <1>9, <3>1
  <2>4. Underway'
    <3>1. Len(msgs') \in Nat /\ at' <= Len(msgs') + 1
      BY <1>0, <1>2, <1>5, <2>2
    <3> QED BY <1>5, <1>9, <1>13, <2>1, <2>2, <2>3, <3>1 DEF Underway, Correctable
  <2> QED BY <1>0, <1>9, <1>11, <2>1, <2>4
      DEF RoundInv, Round!AnsweredInOrder, Known
<1> QED BY <1>15, <1>16

\* The rounds of tool calls: whatever batches, failures, pauses and interrupts,
\* effects are known and answers are in the order of the calls.
LEMMA RoundSafe == Round!Spec => [](Round!EffectsAreKnown /\ Round!AnsweredInOrder)
<1>1. Round!Init => RoundInv
  <2> SUFFICES ASSUME Round!Init PROVE RoundInv
    OBVIOUS
  <2>1. <<>> \in Seq(RoundCall) /\ DOMAIN <<>> = {}
    BY EmptySeq, LenProperties
  <2> QED BY <2>1 DEF Round!Init, RoundInv, Round!AnsweredInOrder
<1>2. RoundInv /\ [Round!Next]_(Round!vars) => RoundInv'
  <2> SUFFICES ASSUME RoundInv, [Round!Next]_(Round!vars) PROVE RoundInv'
    OBVIOUS
  <2>1. ASSUME UNCHANGED Round!vars PROVE RoundInv'
    BY <2>1 DEF Round!vars, RoundInv, Underway, Correctable, Known, Round!AnsweredInOrder
  <2> QED BY <2>1, TasksKeepRound, LoopKeepsRound, CommitKeepsRound DEF Round!Next
<1>3. RoundInv => Round!EffectsAreKnown /\ Round!AnsweredInOrder
  BY DEF RoundInv, Known, Round!EffectsAreKnown, Round!Undeclared
<1> QED BY <1>1, <1>2, <1>3, PTL DEF Round!Spec

\* ToolLoop, InvocationPreparer and executor._run: in Session, a call reported as
\* not started had no effect, and the answers of a round are in the order of its
\* calls, for any number of calls, of concurrent reads and of repair attempts.
THEOREM RoundsAreExact == Spec => []ToolRoundHolds
<1>1. Init => Round!Init \/ focus # "tools"
  BY DEF Init
<1>2. [Next]_vars => [Round!Next]_(Round!vars)
  BY DEF Next, vars, RoundVars, Round!vars
<1>3. focus # "tools" /\ [Next]_vars => (focus # "tools")'
  BY DEF Next, vars
<1>4. (Round!EffectsAreKnown /\ Round!AnsweredInOrder) \/ focus # "tools" => ToolRoundHolds
  BY DEF ToolRoundHolds
<1> QED BY <1>1, <1>2, <1>3, RoundSafe, <1>4, PTL DEF Spec, Round!Spec

=============================================================================
