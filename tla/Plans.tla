------------------------------- MODULE Plans -------------------------------
(***************************************************************************)
(* Plan Mode of one session: the plan records, their revisions, the enter  *)
(* and submit requests and the implementation of an approved plan          *)
(* (storage/repositories/plans.py), used by the slash command (cli/plans), *)
(* by the model's plan tools (tooling/tools/plans.py), by whoever answers  *)
(* the pending requests, and by the run that drafts or implements.         *)
(*                                                                         *)
(* A revision is named by its text: (plan, sha256) is unique, so a text    *)
(* has one revision in a plan.  The Markdown mirror is not modelled.       *)
(***************************************************************************)
EXTENDS Integers, Sequences, FiniteSets, SequencesExt, FiniteSetsExt

CONSTANTS
    Plan, Text, None,
    First,       \* the initial content of a plan created from an objective
    MaxRequests, \* bound: requests of the session
    MaxRuns      \* bound: runs of the session

VARIABLES
    plans,    \* plan -> status, current text and all its revisions' texts
    recent,   \* plans by updated_at, the latest last
    requests, \* plan_requests in the order they were created
    impl,     \* plan_implementations by plan
    runs,     \* status of each run, and the plan it implements
    model,    \* what the foreground run's model read: plan and text
    user,     \* the slash command in progress
    approved, \* history: plan -> text on screen when its submission was approved
    exited    \* history: plans left with /plan exit

vars == <<plans, recent, requests, impl, runs, model, user, approved, exited>>

Live == {"running", "waiting"}
NoRead == [plan |-> None, text |-> None]
IdleUser == [pc |-> "idle", plan |-> None, text |-> None, req |-> 0]
Absent == [status |-> "none", cur |-> None, texts |-> {}]
NoImpl == [status |-> "none", text |-> None, run |-> 0]

Init ==
    /\ plans = [p \in Plan |-> Absent]
    /\ recent = <<>>
    /\ requests = <<>>
    /\ impl = [p \in Plan |-> NoImpl]
    /\ runs = <<>>
    /\ model = NoRead /\ user = IdleUser
    /\ approved = [p \in Plan |-> None]
    /\ exited = {}

Touch(p) == Append(Remove(recent, p), p)
RunStatus(n) == IF n = 0 THEN "none" ELSE runs[n].status
Foreground == {n \in DOMAIN runs : runs[n].status = "running"}
Pending == {r \in DOMAIN requests : requests[r].status = "pending"}

(* The plan that keeps the session read-only: a draft or a submission, or  *)
(* a decided submission whose run still goes on.                           *)
IsActive(p) ==
    \/ plans[p].status \in {"draft", "awaiting_approval"}
    \/ /\ plans[p].status \in {"approved", "rejected"}
       /\ \E r \in DOMAIN requests :
            /\ requests[r].plan = p /\ requests[r].kind = "submit"
            /\ RunStatus(requests[r].run) \in Live
Newest(S) == IF S = {} THEN None ELSE recent[CHOOSE i \in DOMAIN recent :
                 recent[i] \in S /\ \A j \in DOMAIN recent : recent[j] \in S => j <= i]
Active == Newest({p \in Plan : IsActive(p)})
LatestUnapproved ==
    Newest({p \in Plan : plans[p].status \in
                {"draft", "awaiting_approval", "rejected", "cancelled"}})

Unused == {p \in Plan : plans[p].status = "none"}
Insert(p, text) ==
    /\ plans' = [plans EXCEPT ![p] = [status |-> "draft", cur |-> text, texts |-> {text}]]
    /\ recent' = Touch(p)
SetStatus(p, status) ==
    /\ plans' = [plans EXCEPT ![p].status = status]
    /\ recent' = Touch(p)

(* append_revision: the plan is a draft, its current text is the one the   *)
(* writer read, and the new text was never a revision of it.               *)
AppendRevision(p, expected, text) ==
    /\ plans[p].status = "draft" /\ plans[p].cur = expected
    /\ text \notin plans[p].texts
    /\ plans' = [plans EXCEPT ![p].cur = text, ![p].texts = @ \cup {text}]
    /\ recent' = Touch(p)

(* The same write without the precondition on the text that was read.      *)
SubmitAnything(p, expected, n) ==
    /\ plans[p].status = "draft"
    /\ requests' = Append(requests, [kind |-> "submit", plan |-> p, text |-> plans[p].cur,
                                     status |-> "pending", run |-> n])
    /\ SetStatus(p, "awaiting_approval")

(* PlanRepository.submit: exactly the revision that was read is submitted. *)
Submit(p, expected, n) ==
    /\ plans[p].status = "draft" /\ plans[p].cur = expected
    /\ requests' = Append(requests, [kind |-> "submit", plan |-> p, text |-> expected,
                                     status |-> "pending", run |-> n])
    /\ SetStatus(p, "awaiting_approval")

CanAsk == Len(requests) < MaxRequests

---------------------------------------------------------------------------
(* The slash command; idle-only, so no run is in the foreground when it    *)
(* starts, though one may start in another client while it waits.          *)
Commandable == user.pc = "idle" /\ Foreground = {}

(* /plan with or without an objective: resume the latest plan that was not *)
(* approved as a new draft, or create one.                                 *)
Enter(objective) ==
    /\ Commandable /\ Active = None
    /\ \E p \in Unused :
         LET old == LatestUnapproved
         IN  Insert(p, IF objective \/ old = None THEN First ELSE plans[old].cur)
    /\ UNCHANGED <<requests, impl, runs, model, user, approved, exited>>

(* /plan open, submit and exit read the active plan first.                 *)
ReadPlan(command) ==
    /\ Commandable /\ Active # None
    /\ user' = [pc |-> command, plan |-> Active, text |-> plans[Active].cur, req |-> 0]
    /\ UNCHANGED <<plans, recent, requests, impl, runs, model, approved, exited>>

(* The editor's content becomes a revision of the plan active by then.     *)
Edit(text) ==
    /\ user.pc = "open"
    /\ user' = IdleUser
    /\ IF /\ Active # None
          /\ plans[Active].status = "draft" /\ plans[Active].cur = user.text
          /\ text \notin plans[Active].texts
       THEN AppendRevision(Active, user.text, text)
       ELSE UNCHANGED <<plans, recent>>
    /\ UNCHANGED <<requests, impl, runs, model, approved, exited>>

Exit ==
    /\ user.pc = "exit"
    /\ user' = IdleUser
    /\ IF plans[user.plan].status \in {"draft", "awaiting_approval"}
       THEN SetStatus(user.plan, "cancelled") /\ exited' = exited \cup {user.plan}
       ELSE UNCHANGED <<plans, recent, exited>>
    /\ UNCHANGED <<requests, impl, runs, model, approved>>

(* The submission is stored, then the text read before it is shown.        *)
SlashSubmit ==
    /\ user.pc = "submit" /\ CanAsk
    /\ Submit(user.plan, user.text, 0)
    /\ user' = [user EXCEPT !.pc = "review", !.req = Len(requests) + 1]
    /\ UNCHANGED <<impl, runs, model, approved, exited>>

SlashSubmitFails ==
    /\ user.pc = "submit"
    /\ plans[user.plan].status # "draft" \/ plans[user.plan].cur # user.text
    /\ user' = IdleUser
    /\ UNCHANGED <<plans, recent, requests, impl, runs, model, approved, exited>>

(* PlanRepository.decide: one transaction over the request and its plan,   *)
(* whatever status the plan has by then; a model's run goes on.            *)
DecideSubmit(r, choice, shown) ==
    LET p == requests[r].plan
    IN  /\ r \in Pending /\ requests[r].kind = "submit"
        /\ requests' = [requests EXCEPT ![r].status =
             CASE choice = "implement" -> "approved" [] choice = "feedback" -> "feedback"
               [] choice = "reject" -> "rejected"]
        /\ SetStatus(p, CASE choice = "implement" -> "approved" [] choice = "feedback" -> "draft"
                          [] choice = "reject" -> "rejected")
        /\ approved' = IF choice = "implement" THEN [approved EXCEPT ![p] = shown] ELSE approved
        /\ LET n == requests[r].run
           IN  runs' = IF RunStatus(n) = "waiting" THEN [runs EXCEPT ![n].status = "running"]
                       ELSE runs

Decisions == {"implement", "feedback", "reject"}

SlashDecide(choice) ==
    /\ user.pc = "review"
    /\ IF user.req \in Pending
       THEN /\ DecideSubmit(user.req, choice, user.text)
            /\ user' = IF choice = "implement" THEN [user EXCEPT !.pc = "queue"] ELSE IdleUser
       ELSE user' = IdleUser /\ UNCHANGED <<plans, recent, requests, runs, approved>>
    /\ UNCHANGED <<impl, model, exited>>

(* ensure_implementation: one queued work item per approved request.       *)
Ensure(r) ==
    LET p == requests[r].plan
    IN  /\ requests[r].kind = "submit" /\ requests[r].status = "approved"
        /\ impl[p].status = "none"
        /\ impl' = [impl EXCEPT ![p] = [status |-> "queued", text |-> requests[r].text, run |-> 0]]
        /\ SetStatus(p, "implementing")

SlashQueue ==
    /\ user.pc = "queue"
    /\ user' = IdleUser
    /\ \/ Ensure(user.req)
       \/ impl[user.plan].status # "none" /\ UNCHANGED <<plans, recent, impl>>
    /\ UNCHANGED <<requests, runs, model, approved, exited>>

(* A pending request answered from the approvals list: the revision of the *)
(* request is what is shown.                                               *)
Answer(r, choice) ==
    /\ user.pc = "idle" /\ Foreground = {}
    /\ r \in Pending /\ requests[r].kind = "submit"
    /\ DecideSubmit(r, choice, requests[r].text)
    /\ UNCHANGED <<impl, model, user, exited>>

AnswerEnter(r, enter) ==
    /\ user.pc = "idle" /\ Foreground = {}
    /\ r \in Pending /\ requests[r].kind = "enter"
    /\ IF enter
       THEN \E p \in Unused :
              /\ Insert(p, First)
              /\ requests' = [requests EXCEPT ![r].status = "approved", ![r].plan = p]
       ELSE /\ requests' = [requests EXCEPT ![r].status = "rejected"]
            /\ UNCHANGED <<plans, recent>>
    /\ runs' = [runs EXCEPT ![requests[r].run].status =
                  IF @ = "waiting" THEN "running" ELSE @]
    /\ UNCHANGED <<impl, model, user, approved, exited>>

---------------------------------------------------------------------------
(* A run of the session starts: a question, or a queued implementation     *)
(* (mark_implementation_run).                                              *)
StartRun ==
    /\ Foreground = {} /\ Len(runs) < MaxRuns
    /\ runs' = Append(runs, [status |-> "running", plan |-> None])
    /\ model' = NoRead
    /\ UNCHANGED <<plans, recent, requests, impl, user, approved, exited>>

StartImplementation(p) ==
    /\ Foreground = {} /\ Len(runs) < MaxRuns
    /\ impl[p].status = "queued"
    /\ runs' = Append(runs, [status |-> "running", plan |-> p])
    /\ impl' = [impl EXCEPT ![p].status = "running", ![p].run = Len(runs) + 1]
    /\ SetStatus(p, "implementing")
    /\ model' = NoRead
    /\ UNCHANGED <<requests, user, approved, exited>>

(* The attachment of each model round, or get_plan.                        *)
ModelReads ==
    /\ Foreground # {} /\ Active # None
    /\ model' = [plan |-> Active, text |-> plans[Active].cur]
    /\ UNCHANGED <<plans, recent, requests, impl, runs, user, approved, exited>>

(* enter_plan_mode is allowed only while no plan is active; the run waits. *)
EnterTool(n) ==
    /\ n \in Foreground /\ Active = None /\ CanAsk
    /\ requests' = Append(requests, [kind |-> "enter", plan |-> None, text |-> None,
                                     status |-> "pending", run |-> n])
    /\ runs' = [runs EXCEPT ![n].status = "waiting"]
    /\ UNCHANGED <<plans, recent, impl, model, user, approved, exited>>

UpdateTool(text) ==
    /\ Foreground # {} /\ Active # None /\ model.plan # None
    /\ AppendRevision(Active, model.text, text)
    /\ UNCHANGED <<requests, impl, runs, model, user, approved, exited>>

SubmitTool(n) ==
    /\ n \in Foreground /\ Active # None /\ model.plan # None /\ CanAsk
    /\ Submit(Active, model.text, n)
    /\ runs' = [runs EXCEPT ![n].status = "waiting"]
    /\ UNCHANGED <<impl, model, user, approved, exited>>

(* The run ends; after an orderly end its approved submission is queued,   *)
(* and an implementing run settles its implementation.                     *)
EndRun(n, status) ==
    /\ n \in Foreground
    /\ runs' = [runs EXCEPT ![n].status = status]
    /\ model' = NoRead
    /\ LET p == runs[n].plan
           mine == {r \in DOMAIN requests : requests[r].run = n /\ requests[r].kind = "submit"
                                            /\ requests[r].status = "approved"}
       IN  IF p # None
           THEN /\ impl' = [impl EXCEPT ![p].status = status]
                /\ SetStatus(p, IF status = "completed" THEN "implemented"
                                ELSE "implementation_failed")
           ELSE IF status = "completed" /\ mine # {} /\ impl[requests[Max(mine)].plan].status = "none"
           THEN Ensure(Max(mine))
           ELSE UNCHANGED <<plans, recent, impl>>
    /\ UNCHANGED <<requests, user, approved, exited>>

(* The process dies; the next start settles its interrupted runs.          *)
Crash ==
    /\ runs' = [n \in DOMAIN runs |-> IF runs[n].status = "running"
                                      THEN [runs[n] EXCEPT !.status = "interrupted"] ELSE runs[n]]
    /\ runs' # runs \/ user # IdleUser
    /\ model' = NoRead /\ user' = IdleUser
    /\ UNCHANGED <<plans, recent, requests, impl, approved, exited>>

(* PlanningService.reconcile, whenever a client opens the session: an      *)
(* approved submission without an implementation is queued (each request   *)
(* is a transaction of its own).                                           *)
Reconcile(r) ==
    /\ user = IdleUser /\ Foreground = {}
    /\ r \in DOMAIN requests /\ Ensure(r)
    /\ UNCHANGED <<requests, runs, model, user, approved, exited>>

Next ==
    \/ \E objective \in BOOLEAN : Enter(objective)
    \/ \E command \in {"open", "submit", "exit"} : ReadPlan(command)
    \/ \E t \in Text : Edit(t) \/ UpdateTool(t)
    \/ Exit \/ SlashSubmit \/ SlashSubmitFails \/ SlashQueue
    \/ \E choice \in Decisions : SlashDecide(choice)
    \/ \E r \in DOMAIN requests, choice \in Decisions : Answer(r, choice)
    \/ \E r \in DOMAIN requests, enter \in BOOLEAN : AnswerEnter(r, enter)
    \/ StartRun \/ \E p \in Plan : StartImplementation(p)
    \/ ModelReads
    \/ \E n \in DOMAIN runs : EnterTool(n) \/ SubmitTool(n)
    \/ \E n \in DOMAIN runs, s \in {"completed", "failed", "cancelled"} : EndRun(n, s)
    \/ Crash \/ \E r \in DOMAIN requests : Reconcile(r)

Spec == Init /\ [][Next]_vars

(* What is queued for implementation is the text that was on the screen    *)
(* when the plan was approved, however edits, submissions, restarts and    *)
(* the model's own updates interleave.                                     *)
ImplementsApproved ==
    \A p \in Plan : impl[p].status # "none" => impl[p].text = approved[p]

(* /plan exit asks with the words "no implementation will run": a plan     *)
(* left that way is never queued for implementation.                       *)
ExitIsFinal == \A p \in exited : impl[p].status = "none"
=============================================================================
