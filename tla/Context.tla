------------------------------- MODULE Context -------------------------------
(***************************************************************************)
(* The context budget of a session: what of the history a run is given,    *)
(* when it is replaced by a summary, which stored summary is used again,   *)
(* and how the messages of a run are compacted between two requests.  A    *)
(* text is the set of turns and rounds it tells the model about, and a     *)
(* size; wording, schemas and the calibration of estimates are left out.   *)
(***************************************************************************)
EXTENDS Integers, Sequences, Functions

CONSTANTS Budget,      \* input_budget, the hard limit
          Triggers,    \* values the growth-adapted soft trigger can have
          SummaryMax,  \* summary_max_tokens
          RecentTurns, \* preserve_recent_turns
          MaxFailures, \* max_compaction_failures
          MaxTurns, MaxRounds, MaxRev  \* bounds

Fixed == 1       \* instructions and recalled memory
TurnSize == 2    \* a finished turn of the session
Large == 3       \* a round with a tool result above the inline limit
Small == 1       \* any other round, and a result moved to an artifact
NoRecord == [covers |-> {}, size |-> 0, last |-> 0, rev |-> 0, profile |-> 0,
             policy |-> "none", quality |-> "ok", raced |-> FALSE]

VARIABLES turns,    \* messages: the turns of the session
          stale,    \* excluded_runs of the memory service
          rev,      \* revision_digest of the memory service
          profile,  \* cache_identity: the model in use
          auto,     \* settings.auto_compact
          active,   \* the compaction session_context_state points to
          failures, \* ContextBudget.failures
          run       \* the run being built or executed

vars == <<turns, stale, rev, profile, auto, active, failures, run>>
session == <<turns, stale, rev, profile, auto>>

\* excl, tag: what build has read; conv: units of the conversation;
\* raced: memory changed between the two reads; lost: resumed without summary.
NoRun == [pc |-> "idle", excl |-> {}, tag |-> 0, conv |-> <<>>, rounds |-> 0,
          raced |-> FALSE, lost |-> FALSE]

Init ==
  /\ turns = 0 /\ stale = {} /\ rev = 1 /\ profile = 1
  /\ auto \in BOOLEAN
  /\ active = NoRecord /\ failures = 0 /\ run = NoRun
----------------------------------------------------------------------------
\* A unit of the conversation; big counts its results above the inline limit.
Unit(covers, size, kind) == [covers |-> covers, size |-> size, kind |-> kind, big |-> 0]

SizeOf(conv) == SumFunction([i \in DOMAIN conv |-> conv[i].size])
CoversOf(conv) == UNION {conv[i].covers : i \in DOMAIN conv}
Estimate(conv) == Fixed + SizeOf(conv)

\* The units that pass a test, in order: SelectSeq, with a definition to reason from.
Kept(conv, Passes(_)) ==
  LET kept[n \in 0..Len(conv)] ==
        IF n = 0 THEN <<>>
        ELSE IF Passes(conv[n]) THEN Append(kept[n - 1], conv[n]) ELSE kept[n - 1]
  IN  kept[Len(conv)]

\* target_tokens keeps its distance from the trigger.
Target(trigger) == (2 * trigger) \div 3

\* compaction_decision.
Decision(size, trigger) ==
  IF size > Budget THEN "forced" ELSE IF size > trigger THEN "compact" ELSE "none"

\* context_entries: the turns that are not excluded, oldest first.
Entries == Kept([i \in 1..turns |-> Unit({i}, TurnSize, "turn")],
                LAMBDA u : u.covers \intersect run.excl = {})

Question == Unit({}, 1, "run")

\* split_recent and fit_recent_to_target: how many units stay as they are.
\* The last one always does.
RecentCount(conv, other, trigger) ==
  LET Newest(k) == SubSeq(conv, Len(conv) - k + 1, Len(conv))
      Stays(k) == k = 1 \/ /\ k <= RecentTurns
                           /\ Fixed + other + SizeOf(Newest(k)) + SummaryMax <= Target(trigger)
  IN CHOOSE k \in 1..Len(conv) : /\ Stays(k)
                                 /\ \A j \in (k + 1)..Len(conv) : ~Stays(j)

\* _fallback_summary and _fit_summary_to_limit: a summary that had to be made
\* or cut without the model is degraded.
Degraded(older, limit) == {[covers |-> CoversOf(older), size |-> limit, degraded |-> TRUE]}

\* _summary_chunks and _split_summary_entry: cutting the entries into requests
\* that fit loses none of them.
Segmented(older) == CoversOf(older)

\* _summarize_segment, _summarize_once: an answer that is valid within the limit,
\* with the references of everything it was made from.
Answered(covers, limit) ==
  {[covers |-> covers, size |-> s, degraded |-> FALSE] : s \in 1..limit}

\* _summarize: the segments' answers reduced to one, or the fallback.
Summaries(older, limit) ==
  Degraded(older, limit) \union Answered(Segmented(older), limit)

\* _summary_message.
SummaryUnit(summary) == Unit(summary.covers, summary.size, "summary")

\* _result_quality.
Quality(summary, size, trigger) ==
  IF summary.degraded THEN "degraded"
  ELSE IF size > Target(trigger) THEN "target_unreachable" ELSE "ok"

\* get_or_create_compaction, and once more in slim mode while the result is
\* above the trigger: the summaries that can come out, with their policy.
Compactions(older, rest, trigger) ==
  LET Over(s) == Estimate(<<SummaryUnit(s)>> \o rest) > trigger /\ ~s.degraded
      normal == Summaries(older, SummaryMax)
  IN  {<<s, "normal">> : s \in {t \in normal : ~Over(t)}}
      \union (IF \E t \in normal : Over(t)
              THEN Summaries(older, SummaryMax \div 2) \X {"slim"} ELSE {})
----------------------------------------------------------------------------
\* The run ends; its messages are a turn of the session whatever the outcome.
EndRun ==
  /\ turns' = turns + 1
  /\ run' = NoRun
  /\ UNCHANGED <<stale, rev, profile, auto>>

\* ContextBudgetExceeded, with a failure counted or not.
Raise(counted) ==
  /\ failures' = IF counted THEN failures + 1 ELSE failures
  /\ EndRun /\ UNCHANGED active

Send(conv) == run' = [run EXCEPT !.pc = "run", !.conv = conv]

\* _require_compaction_progress and the budget, then Keep.
Settle(before, conv, Keep) ==
  IF Estimate(conv) > Budget \/ Estimate(conv) >= before
  THEN Raise(TRUE)
  ELSE /\ failures' = 0
       /\ Send(conv)
       /\ Keep /\ UNCHANGED session

\* build: the failure limit, then the exclusions and the entries ...
Begin ==
  /\ run.pc = "idle" /\ turns < MaxTurns
  /\ IF failures >= MaxFailures
     THEN EndRun
     ELSE run' = [NoRun EXCEPT !.pc = "history", !.excl = stale] /\ UNCHANGED session
  /\ UNCHANGED <<active, failures>>

\* ... and, when every retrieval has come back, the revision of the memory.
ReadRevision ==
  /\ run.pc = "history"
  /\ run' = [run EXCEPT !.pc = "build", !.tag = rev, !.raced = stale # run.excl]
  /\ UNCHANGED <<session, active, failures>>

\* Mutant of Usable: the active summary is used whatever memory says.
UsableAlways == active.policy = "normal" /\ active.profile = profile

\* A stored summary is used under the same model, memory and prompt policy.
Usable ==
  /\ active.policy = "normal" /\ active.profile = profile
  /\ active.rev = run.tag

AfterActive ==
  <<SummaryUnit(active)>> \o Kept(Entries, LAMBDA u : \A i \in u.covers : i > active.last)
  \o <<Question>>

UsesActive(trigger) ==
  LET size == Estimate(AfterActive) IN
  Usable /\ (size <= trigger \/ (active.quality # "ok" /\ size <= Budget))

BuildActive(trigger) ==
  /\ run.pc = "build" /\ UsesActive(trigger)
  /\ run' = [run EXCEPT !.pc = "run", !.conv = AfterActive, !.raced = @ \/ active.raced]
  /\ UNCHANGED <<session, active, failures>>

\* Mutant of BuildFull: without automatic compaction nothing looks at the size.
BuildFullUnchecked(trigger) ==
  LET conv == Append(Entries, Question) IN
  /\ run.pc = "build" /\ ~UsesActive(trigger)
  /\ ~auto \/ Decision(Estimate(conv), trigger) = "none"
  /\ Send(conv) /\ UNCHANGED <<session, active, failures>>

\* The whole history, when it fits or must do.
BuildFull(trigger) ==
  LET conv == Append(Entries, Question) IN
  /\ run.pc = "build" /\ ~UsesActive(trigger)
  /\ ~auto \/ Decision(Estimate(conv), trigger) = "none"
  /\ IF Estimate(conv) > Budget THEN Raise(FALSE)
     ELSE Send(conv) /\ UNCHANGED <<session, active, failures>>

\* Older turns replaced by a summary, which becomes the active one.  The
\* history holds no tool result, so micro_compact changes nothing here.
BuildCompacted(trigger) ==
  LET before == Estimate(Append(Entries, Question))
      keep == RecentCount(Entries, Question.size, trigger)
      older == SubSeq(Entries, 1, Len(Entries) - keep)
      rest == Append(SubSeq(Entries, Len(Entries) - keep + 1, Len(Entries)), Question)
  IN  /\ run.pc = "build" /\ ~UsesActive(trigger)
      /\ auto /\ Decision(before, trigger) # "none"
      /\ IF Entries = <<>> \/ older = <<>> THEN Raise(TRUE)
         ELSE \E c \in Compactions(older, rest, trigger) :
                LET conv == <<SummaryUnit(c[1])>> \o rest IN
                Settle(before, conv,
                  active' = [covers |-> c[1].covers, size |-> c[1].size,
                             last |-> CHOOSE i \in CoversOf(older) :
                                        \A j \in CoversOf(older) : j <= i,
                             rev |-> run.tag, profile |-> profile, policy |-> c[2],
                             quality |-> Quality(c[1], Estimate(conv), trigger),
                             raced |-> run.raced])
----------------------------------------------------------------------------
\* A model response and its tool results extend the last unit; a message
\* injected from the mailbox begins a unit of its own.
Round(size, injected) ==
  LET item == -(run.rounds + 1)  \* rounds of the run itself are negative
      big == IF size = Large THEN 1 ELSE 0
      Grown(u) == [u EXCEPT !.covers = @ \union {item}, !.size = @ + size, !.big = @ + big]
      last == Len(run.conv)
      conv == IF injected THEN Append(run.conv, Grown(Unit({}, 0, "run")))
              ELSE [run.conv EXCEPT ![last] = Grown(run.conv[last])]
  IN
  /\ run.pc = "run" /\ run.rounds < MaxRounds
  /\ run' = [run EXCEPT !.pc = "check", !.rounds = @ + 1, !.conv = conv]
  /\ UNCHANGED <<session, active, failures>>

\* micro_compact: large results go to artifacts, a preview stays.
MicroCompact(conv) ==
  [i \in DOMAIN conv |-> [conv[i] EXCEPT !.size = @ - conv[i].big * (Large - Small), !.big = 0]]

\* The pinned prefix is Fixed; a summary message is part of the conversation.
CheckpointSplit(conv, trigger) ==
  LET keep == RecentCount(conv, 0, trigger)
  IN  <<SubSeq(conv, 1, Len(conv) - keep), SubSeq(conv, Len(conv) - keep + 1, Len(conv))>>

\* compact_checkpoint before a request, or forced after the provider reported
\* an overflow.  The summary of a checkpoint is never activated.
Checkpoint(trigger, force) ==
  LET conv == run.conv
      before == Estimate(conv)
      micro == MicroCompact(conv)
      parts == CheckpointSplit(micro, trigger)
      Pass(result) ==
        IF Estimate(result) > Budget THEN Raise(FALSE)
        ELSE Send(result) /\ UNCHANGED <<session, active, failures>>
  IN
  /\ run.pc = IF force THEN "run" ELSE "check"
  /\ IF ~auto THEN (IF force THEN Raise(FALSE) ELSE Pass(conv))
     ELSE IF ~force /\ Decision(before, trigger) = "none" THEN Pass(conv)
     ELSE IF failures >= MaxFailures THEN Raise(FALSE)
     ELSE IF ~force /\ Decision(Estimate(micro), trigger) = "none" THEN Pass(micro)
     ELSE IF parts[1] = <<>>
          THEN IF Estimate(micro) < before /\ Estimate(micro) <= Budget
               THEN /\ failures' = 0 /\ Send(micro) /\ UNCHANGED <<session, active>>
               ELSE Raise(TRUE)
     ELSE \E c \in Compactions(parts[1], parts[2], trigger) :
            Settle(before, <<SummaryUnit(c[1])>> \o parts[2], UNCHANGED active)

\* The artifact could not be stored: the run fails and keeps the original.
ArtifactFails ==
  /\ run.pc = "check" /\ auto
  /\ \E i \in DOMAIN run.conv : run.conv[i].big > 0
  /\ \E t \in Triggers : Decision(Estimate(run.conv), t) # "none"
  /\ Raise(FALSE)

\* The run stops for an approval or a question; its messages are the
\* checkpoint it is resumed from.
Pause ==
  /\ run.pc = "run"
  /\ run' = [run EXCEPT !.pc = "paused"]
  /\ UNCHANGED <<session, active, failures>>

\* normalize_checkpoint: every message that carries untrusted context is left
\* out, the summary with it, and the prompt is rendered again.
Resume ==
  /\ run.pc = "paused"
  /\ LET conv == Kept(run.conv, LAMBDA u : u.kind # "summary") IN
     run' = [run EXCEPT !.pc = "check", !.conv = conv, !.lost = @ \/ conv # run.conv]
  /\ UNCHANGED <<session, active, failures>>

Finish ==
  /\ run.pc = "run"
  /\ EndRun /\ UNCHANGED <<active, failures>>

\* /compact: every entry, whatever is excluded, without a memory revision.
CompactCommand(trigger, focus) ==
  /\ run.pc = "idle"
  /\ \E keep \in {k \in 1..turns : k = 1 \/ k <= RecentTurns} :
       LET all == [i \in 1..turns |-> Unit({i}, TurnSize, "turn")]
           older == SubSeq(all, 1, turns - keep)
           rest == SubSeq(all, turns - keep + 1, turns)
       IN
       /\ older # <<>>
       /\ \E c \in Compactions(older, rest, trigger) :
            LET size == Estimate(<<SummaryUnit(c[1])>> \o rest) IN
            IF size > Budget \/ size >= Estimate(all)
            THEN failures' = failures + 1 /\ UNCHANGED active
            ELSE /\ failures' = 0
                 /\ active' = [covers |-> c[1].covers, size |-> c[1].size, last |-> turns - keep,
                               rev |-> 0, profile |-> profile,
                               policy |-> IF focus THEN "focus" ELSE c[2],
                               quality |-> Quality(c[1], size, trigger), raced |-> FALSE]
  /\ failures <= MaxFailures  \* bound: the counter has no limit of its own
  /\ UNCHANGED <<session, run>>

\* A memory is added, changed or deleted; runs that used it become stale.
MemoryChange ==
  /\ rev < MaxRev
  /\ rev' = rev + 1
  /\ \E more \in SUBSET (1..turns) : stale' = stale \union more
  /\ UNCHANGED <<turns, profile, auto, active, failures, run>>

SwitchModel ==
  /\ run.pc = "idle"
  /\ profile' = 3 - profile
  /\ UNCHANGED <<turns, stale, rev, auto, active, failures, run>>

Next ==
  \/ Begin \/ ReadRevision
  \/ \E t \in Triggers : \/ BuildActive(t) \/ BuildFull(t) \/ BuildCompacted(t)
                         \/ \E force \in BOOLEAN : Checkpoint(t, force)
                         \/ \E focus \in BOOLEAN : CompactCommand(t, focus)
  \/ \E s \in {Small, Large}, mail \in BOOLEAN : Round(s, mail)
  \/ ArtifactFails \/ Pause \/ Resume \/ Finish
  \/ MemoryChange \/ SwitchModel

Spec == Init /\ [][Next]_vars
----------------------------------------------------------------------------
Visible == CoversOf(run.conv)

\* A request never exceeds the input budget of the model, through every path
\* of build and compact_checkpoint.
FitsBudget == run.pc = "run" => Estimate(run.conv) <= Budget

\* What a run is told of its session, in full or through a summary, is every
\* turn that is not excluded, and every round of its own: a summary is not
\* used again after a change of memory made one of its turns stale.  Memory
\* that changes between the two reads of build, and a resumed run, are
\* excepted (ResumeKeepsContext, and the README).
ContextIsExact ==
  run.pc \in {"run", "check"} /\ ~run.raced /\ ~run.lost =>
    Visible = ((1..turns) \ run.excl) \union {-i : i \in 1..run.rounds}

\* A run that is resumed still knows every turn and round it was told of.
ResumeKeepsContext ==
  run.pc = "check" /\ ~run.raced =>
    ((1..turns) \ run.excl) \union {-i : i \in 1..run.rounds} \subseteq Visible
=============================================================================
