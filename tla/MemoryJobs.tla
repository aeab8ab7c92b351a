----------------------------- MODULE MemoryJobs -----------------------------
(***************************************************************************)
(* The memory worker: the durable extraction job of a finished run, the    *)
(* drain tasks that claim it, and the candidates they store and adopt.  The *)
(* database is shared by every process of the user, and each recovers all  *)
(* running jobs when it starts.                                            *)
(* One extraction yields one text; whether it may be adopted without       *)
(* review, or relates to an existing memory, is what the model calls say.  *)
(* A memory is only present, changed by someone, or gone (MemoryStore).    *)
(***************************************************************************)
EXTENDS Integers

CONSTANTS Mem,          \* memories that can be created
          Cand,         \* candidates that can be stored
          Drain,        \* tasks of MemoryJobWorker
          None,         \* no memory, no candidate
          MaxAttempts   \* attempts of a job, 3 in the code

VARIABLES kept,    \* memories of this text: none, active, changed or gone
          maker,   \* what created each memory
          cand,    \* memory_candidates
          job,     \* memory_jobs
          drain,   \* the drain tasks
          review,  \* accept_candidate between its commits
          crossed  \* history: a job was recovered while its task still ran

vars == <<kept, maker, cand, job, drain, review, crossed>>

Asleep == [pc |-> "idle", cand |-> None, related |-> None, exact |-> FALSE,
           created |-> FALSE, attempts |-> 0]
NoReview == [pc |-> "idle", cand |-> None]

Init ==
  /\ kept = [m \in Mem |-> "none"]
  /\ maker = [m \in Mem |-> "none"]
  /\ cand = [c \in Cand |-> [status |-> "none", auto |-> FALSE]]
  /\ job = [status |-> "none", attempts |-> 0]
  /\ drain = [d \in Drain |-> Asleep]
  /\ review = NoReview
  /\ crossed = FALSE

Create(by) == \E m \in Mem :
  /\ kept[m] = "none"
  /\ kept' = [kept EXCEPT ![m] = "active"]
  /\ maker' = [maker EXCEPT ![m] = by]
----------------------------------------------------------------------------
(* The job queue.                                                          *)

\* enqueue: INSERT OR IGNORE under the idempotency key of the run or task.
\* A purge may have replaced the payload, which fails the capture later.
Enqueue ==
  /\ job.status = "none"
  /\ job' = [job EXCEPT !.status = "queued"]
  /\ UNCHANGED <<kept, maker, cand, drain, review, crossed>>

\* claim: the oldest queued job, one more attempt, in one transaction.
\* Crossed recoveries add attempts; the guard bounds them.
Claim ==
  /\ job.status = "queued" /\ job.attempts <= MaxAttempts
  /\ job' = [job EXCEPT !.status = "running", !.attempts = @ + 1]

\* What fail leaves behind after a number of attempts.
AfterFailure(attempts) == IF attempts >= MaxAttempts THEN "failed" ELSE "queued"

\* recover: every running job of the database, whoever runs it.
Recovered ==
  IF job.status = "running"
  THEN [job EXCEPT !.status = AfterFailure(job.attempts)] ELSE job
----------------------------------------------------------------------------
(* _drain and capture.                                                     *)

DrainClaim(d) ==
  /\ drain[d].pc = "idle" /\ Claim
  /\ drain' = [drain EXCEPT ![d] = [Asleep EXCEPT !.pc = "capture"]]
  /\ UNCHANGED <<kept, maker, cand, review, crossed>>

\* Mutant of Extract: the visible memories are not searched.
ExtractBlind(d) ==
  /\ drain[d].pc = "capture"
  /\ drain' = [drain EXCEPT ![d].pc = "found"]
  /\ UNCHANGED <<kept, maker, cand, job, review, crossed>>

\* What the extractor's answer comes to: a durable text with sources, or
\* nothing (notes, unsupported records; todos are routed to the task list).
Yields == BOOLEAN

\* _store up to the search: a visible memory with the same text makes the
\* record a duplicate, others go to a model that may relate it.
Related ==
  LET same == {m \in Mem : kept[m] = "active"}
      others == {m \in Mem : kept[m] = "changed"} IN
  IF same = {} THEN others \union {None} ELSE same

\* capture: the segments are extracted, reduced and deduplicated.
Extract(d) ==
  /\ drain[d].pc = "capture"
  /\ \E some \in Yields :
       IF ~some THEN drain' = [drain EXCEPT ![d].pc = "done"]
       ELSE \E r \in Related :
              drain' = [drain EXCEPT ![d].pc = "found", ![d].related = r,
                         ![d].exact = \E m \in Mem : kept[m] = "active"]
  /\ UNCHANGED <<kept, maker, cand, job, review, crossed>>

\* Whether a candidate may be adopted without review: policy automatic, the
\* verifier's support, calibrated confidence, a scope and no risk.
Verified == BOOLEAN

\* The rest of _store: the candidate, in conflict with the memory the model
\* related it to or not.
Store(d) ==
  /\ drain[d].pc = "found"
  /\ \E c \in {x \in Cand : cand[x].status = "none"}, auto \in Verified,
        conflict \in {FALSE, drain[d].related # None /\ ~drain[d].exact} :
       /\ cand' = [cand EXCEPT ![c] =
                     [status |-> IF conflict THEN "conflict" ELSE "pending",
                      auto |-> auto /\ ~conflict]]
       /\ drain' = [drain EXCEPT ![d].pc = "stored", ![d].cand = c]
  /\ UNCHANGED <<kept, maker, job, review, crossed>>

\* _adopt_automatic: a new text becomes a memory, a duplicate one more source.
Adopt(d) ==
  /\ drain[d].pc = "stored" /\ cand[drain[d].cand].auto
  /\ \/ drain[d].related = None /\ Create("extract")
     \/ drain[d].related # None /\ UNCHANGED <<kept, maker>>
  /\ drain' = [drain EXCEPT ![d].pc = "adopted", ![d].created = drain[d].related = None]
  /\ UNCHANGED <<cand, job, review, crossed>>

LeaveForReview(d) ==
  /\ drain[d].pc = "stored" /\ ~cand[drain[d].cand].auto
  /\ drain' = [drain EXCEPT ![d].pc = "done"]
  /\ UNCHANGED <<kept, maker, cand, job, review, crossed>>

\* candidates.decide: whatever the status was.
Decide(c, status) == cand' = [cand EXCEPT ![c].status = status]

AdoptDecide(d) ==
  /\ drain[d].pc = "adopted"
  /\ Decide(drain[d].cand, IF drain[d].created THEN "accepted" ELSE "duplicate")
  /\ drain' = [drain EXCEPT ![d].pc = "done"]
  /\ UNCHANGED <<kept, maker, job, review, crossed>>

\* complete: whatever the status was.
Complete(d) ==
  /\ drain[d].pc = "done"
  /\ job' = [job EXCEPT !.status = "completed"]
  /\ drain' = [drain EXCEPT ![d] = Asleep]
  /\ UNCHANGED <<kept, maker, cand, review, crossed>>

\* A model call, a write, a redacted payload or capture_disabled: fail reads
\* the attempts ...
FailRead(d) ==
  /\ drain[d].pc \in {"capture", "found", "stored", "adopted", "done"}
  /\ drain' = [drain EXCEPT ![d].pc = "fail", ![d].attempts = job.attempts]
  /\ UNCHANGED <<kept, maker, cand, job, review, crossed>>

\* ... and updates the row afterwards.
Fail(d) ==
  /\ drain[d].pc = "fail"
  /\ job' = [job EXCEPT !.status = AfterFailure(drain[d].attempts)]
  /\ drain' = [drain EXCEPT ![d] = Asleep]
  /\ UNCHANGED <<kept, maker, cand, review, crossed>>

\* The process ends, or close cancels the tasks after ten seconds; the next
\* start recovers.
Restart ==
  /\ drain # [d \in Drain |-> Asleep] \/ review # NoReview
  /\ drain' = [d \in Drain |-> Asleep]
  /\ review' = NoReview
  /\ job' = Recovered
  /\ UNCHANGED <<kept, maker, cand, crossed>>

\* Another process starts while this one runs.
OtherStarts ==
  /\ job.status = "running"
  /\ job' = Recovered
  /\ crossed' = TRUE
  /\ UNCHANGED <<kept, maker, cand, drain, review>>
----------------------------------------------------------------------------
(* Review.                                                                 *)

\* accept reads the candidate, creates or edits the memory, and decides.
AcceptRead(c) ==
  /\ review.pc = "idle" /\ cand[c].status \in {"pending", "conflict"}
  /\ review' = [pc |-> "read", cand |-> c]
  /\ UNCHANGED <<kept, maker, cand, job, drain, crossed>>

AcceptWrite ==
  /\ review.pc = "read"
  /\ \/ Create("review")
     \/ \E m \in Mem : /\ kept[m] \in {"active", "changed"}
                       /\ kept' = [kept EXCEPT ![m] = "changed"]
                       /\ UNCHANGED maker
  /\ review' = [review EXCEPT !.pc = "written"]
  /\ UNCHANGED <<cand, job, drain, crossed>>

AcceptDecide ==
  /\ review.pc = "written"
  /\ Decide(review.cand, "accepted")
  /\ review' = NoReview
  /\ UNCHANGED <<kept, maker, job, drain, crossed>>

\* reject_candidate and purge_candidate look at no status.
RejectOrPurge(c) ==
  /\ cand[c].status # "none"
  /\ Decide(c, "rejected") \/ Decide(c, "purged")
  /\ UNCHANGED <<kept, maker, job, drain, review, crossed>>

\* Someone edits, forgets, undoes or purges a memory, or consolidates.
ChangeMemory(m) ==
  /\ kept[m] \in {"active", "changed"}
  /\ \E k \in {"changed", "gone"} : kept' = [kept EXCEPT ![m] = k]
  /\ UNCHANGED <<maker, cand, job, drain, review, crossed>>
----------------------------------------------------------------------------
Work(d) == \/ DrainClaim(d) \/ Extract(d) \/ Store(d) \/ Adopt(d) \/ LeaveForReview(d)
           \/ AdoptDecide(d) \/ Complete(d) \/ FailRead(d) \/ Fail(d)

Next ==
  \/ Enqueue
  \/ \E d \in Drain : Work(d)
  \/ Restart \/ OtherStarts
  \/ \E c \in Cand : AcceptRead(c) \/ RejectOrPurge(c)
  \/ AcceptWrite \/ AcceptDecide
  \/ \E m \in Mem : ChangeMemory(m)

Spec == Init /\ [][Next]_vars
----------------------------------------------------------------------------
\* Retries and restarts never adopt a run's text twice: of two memories one
\* extraction job created, one was changed or removed since, unless another
\* process recovered the job under a task that still worked on it.
MemoryAdoptedOnce == ~crossed =>
  \A m, n \in Mem : m # n /\ maker[m] = "extract" /\ maker[n] = "extract"
                      => "active" \notin {kept[m]} \intersect {kept[n]}
=============================================================================
