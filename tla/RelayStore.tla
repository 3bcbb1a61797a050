----------------------------- MODULE RelayStore -----------------------------
(***************************************************************************)
(* The file-backed sales queue of backend/app/services/gpt_quote_relay.py. *)
(* A job is one JSON file; every operation below is what one call of the   *)
(* store does to one job record while it holds the queue's flock, so the   *)
(* operators of this module are functions from a record to a record and    *)
(* RelayQueue decides who calls them and when.                             *)
(*                                                                         *)
(* Abstractions.  A conversation index stands for the (at most two) waves  *)
(* sent in it.  `lines' is the set of conversations whose raw sales text   *)
(* is still in the record.  A job from before numbered intake keeps its    *)
(* text as conversation 0 and needs one conversation; the size of its plan *)
(* is unknown until it is sealed.  Texts, prices, events and the           *)
(* submission code (part of a receipt bound to the job id) are left out.   *)
(***************************************************************************)
EXTENDS Integers, FiniteSets, FiniteSetsExt

CONSTANTS
  Jobs,            \* job ids the store can mint
  Requests,        \* client_request_ids the sales page can send
  Engines,         \* enabled quote engines, one desktop worker each
  NoJob, NoEngine, NoReceipt, NoRequest,
  Convs,           \* [Jobs -> Nat]: conversations the job needs
  Numbered,        \* jobs that arrive as numbered components
  MaxConcurrent,   \* global_active_chat_limit
  MaxPerJob,       \* max_active_chats_per_sales_job
  LeaseTime,       \* lease length in clock units
  MaxTime,         \* bound on the clock
  MaxRetries,      \* bound on the partial retries of one job
  Outcomes         \* what the receipts of this system may say

ASSUME StoreAssumption ==
  /\ Convs \in [Jobs -> Nat \ {0}]
  /\ Numbered \subseteq Jobs
  /\ \A j \in Jobs \ Numbered : Convs[j] = 1
  /\ MaxConcurrent \in Nat \ {0}
  /\ MaxPerJob \in Nat \ {0}
  /\ LeaseTime \in Nat \ {0}
  /\ MaxTime \in Nat
  /\ MaxRetries \in Nat
  /\ Outcomes \subseteq {"full", "partial", "blocked"}
  /\ NoEngine \notin Engines
  /\ NoJob \notin Jobs
  /\ NoReceipt \notin [at : Nat, outcome : Outcomes]

\* QUOTE_ENGINES names two engines; RoutesTo below relies on it.
ASSUME EnginesAssumption == IsFiniteSet(Engines) /\ Cardinality(Engines) \in 1..2

Never == -1        \* a timestamp field that is null

VARIABLES
  job,             \* jobs/gpt-*.json
  requestIndex,    \* requests/*.json
  receipt,         \* completions/*.json
  heartbeat,       \* worker-heartbeat*.json, as _engine_heartbeat_ready reads it
  now              \* the clock

storeVars == <<job, requestIndex, receipt, heartbeat, now>>

-----------------------------------------------------------------------------
Delivered == {"completed", "partial"}
Terminal  == Delivered \union {"failed", "cancelled"}
Status    == {"absent", "queued", "processing", "needs_login"} \union Terminal

Times == Nat \union {Never}

Conversations == UNION {0..(Convs[j] - 1) : j \in Jobs}

JobRecord ==
  [status : Status,
   request : Requests \union {NoRequest},   \* quote_options.client_request_id
   preferred : Engines \union {NoEngine},
   assigned : Engines \union {NoEngine},
   worker : Engines \union {NoEngine},
   lease : Times,              \* lease_expires_at
   created : Nat,              \* created_at
   lines : SUBSET Nat,         \* conversations with raw source text left
   purged : BOOLEAN,           \* source_purged_at is set
   sessions : SUBSET Nat,      \* chat_sessions, one per conversation
   running : SUBSET Nat,       \* sessions saved as running or merging
   sealed : BOOLEAN,           \* the component count is known
   retryAt : Times,            \* partial_retry_requested_at
   retryPending : BOOLEAN,
   generation : Nat,           \* partial_retry_generation
   result : Outcomes \union {"none"}]

\* A `blocked' outcome is a partial one with no retryable component.
Receipt == [at : Nat, outcome : Outcomes]

NoRecord ==
  [status |-> "absent", request |-> NoRequest, preferred |-> NoEngine, assigned |-> NoEngine,
   worker |-> NoEngine, lease |-> Never, created |-> 0, lines |-> {},
   purged |-> FALSE, sessions |-> {}, running |-> {}, sealed |-> FALSE,
   retryAt |-> Never, retryPending |-> FALSE, generation |-> 0,
   result |-> "none"]

\* The record create() writes: the text, or its numbered split, is in it.
NewRecord(q, j, engine) ==
  [NoRecord EXCEPT
     !.status = "queued", !.request = q, !.preferred = engine, !.created = now,
     !.lines = IF j \in Numbered THEN 0..(Convs[j] - 1) ELSE {0},
     !.sealed = j \in Numbered]

-----------------------------------------------------------------------------
(* Record transitions *)

Submitted(r) == r.sessions # {}

LeaseExpired(r) ==
  r.status = "processing" /\ r.lease # Never /\ r.lease <= now

\* The purge inside purge_all_sources and cancel: every text goes.
WithoutSource(r) == [r EXCEPT !.lines = {}, !.purged = TRUE]

\* cancel()'s write.
Cancelled(r) == [WithoutSource(r) EXCEPT !.status = "cancelled"]

PurgedOnlyLater(r, c) == [r EXCEPT !.lines = @ \ ({c} \ {0})]

\* purge_intake_batch and purge_source after conversation c was sent.
SourcePurged(r, c) ==
  LET left == r.lines \ {c}
  IN  [r EXCEPT !.lines = left, !.purged = left = {}]

\* reconcile_delivery_receipt: a trusted receipt decides the outcome.
FreshReceipt(j) ==
  receipt[j] # NoReceipt /\ receipt[j].at > job[j].retryAt

DeliveryOf(j) ==
  [job[j] EXCEPT
     !.status = IF receipt[j].outcome = "full" THEN "completed" ELSE "partial",
     !.result = receipt[j].outcome,
     !.lease = Never]

AlreadyDelivered(r) == r.status \in Delivered /\ r.result # "none"

\* Wrong variants, for the mutants: text still waiting to be purged; a receipt
\* older than the retry; a failed job taken for final.
ReconciledUnpurged(j) ==
  IF job[j].status = "cancelled" \/ AlreadyDelivered(job[j]) \/ ~FreshReceipt(j)
  THEN job[j] ELSE DeliveryOf(j)
ReconciledStale(j) ==
  IF \/ job[j].status = "cancelled" \/ AlreadyDelivered(job[j])
     \/ receipt[j] = NoReceipt \/ ~job[j].purged
  THEN job[j] ELSE DeliveryOf(j)
ReconciledUnlessFailed(j) ==
  IF \/ job[j].status \in {"cancelled", "failed"} \/ AlreadyDelivered(job[j])
     \/ ~FreshReceipt(j) \/ ~job[j].purged
  THEN job[j] ELSE DeliveryOf(j)

Reconciled(j) ==
  IF \/ job[j].status = "cancelled" \/ AlreadyDelivered(job[j])
     \/ ~FreshReceipt(j) \/ ~job[j].purged
  THEN job[j] ELSE DeliveryOf(j)

\* Mutants: a cancelled job, or a delivered one, may be overwritten.
SettledDelivery(r) == r.status \in Delivered
SettledCancel(r) == r.status = "cancelled"

\* update_if_not_cancelled refuses these statuses, and only these.
Settled(r) == r.status \in {"cancelled"} \union Delivered

\* purge_all_sources, as fail_job and settle_programmatic_delivery call it.
AllPurged(r) == IF Settled(r) THEN r ELSE WithoutSource(r)

\* The failed status that clears the lease: of fail_job, of settling, of
\* fail_continuation_limit and of the failure branch of complete_job.
Failed(r) ==
  IF Settled(r) THEN r ELSE [r EXCEPT !.status = "failed", !.lease = Never]

\* submit_job finds no source text: the lease is left as it was.
FailedSourceMissing(r) ==
  IF Settled(r) THEN r ELSE [r EXCEPT !.status = "failed"]

\* Mutant: a job that waits for a sign-in always goes back to the queue.
LoggedOutRequeued(r) ==
  IF Settled(r) THEN r
  ELSE [r EXCEPT !.status = "queued", !.assigned = NoEngine,
                 !.worker = NoEngine, !.lease = Never]

\* mark_needs_login, applied to a record the worker holds.
LoggedOut(r) ==
  IF Settled(r) THEN r
  ELSE [r EXCEPT
          !.status = IF Submitted(r) THEN "needs_login" ELSE "queued",
          !.assigned = IF Submitted(r) THEN r.assigned ELSE NoEngine,
          !.worker = NoEngine, !.lease = Never]

\* Mutant: the submitted job is queued again after the sign-in.
ResumedRequeued(r) ==
  [r EXCEPT !.status = "queued", !.worker = NoEngine, !.lease = Never]

\* resume_login_waiting for one waiting record.
Resumed(r) ==
  [r EXCEPT !.status = IF Submitted(r) THEN "processing" ELSE "queued",
            !.worker = NoEngine, !.lease = Never]

\* renew_lease: only the recorded worker, and only in the last half.
Renewed(r, e) ==
  IF \/ r.status # "processing"
     \/ r.worker # e
     \/ r.lease # Never /\ r.lease - now > LeaseTime \div 2
  THEN r
  ELSE [r EXCEPT !.lease = now + LeaseTime]

\* Mutant: the claim takes no lease.
ClaimedUnleased(r, e) ==
  [r EXCEPT !.status = "processing", !.assigned = e, !.worker = e]

\* claim_next's write, and the lease part of claim_submitted_for_monitoring.
Claimed(r, e) ==
  [r EXCEPT !.status = "processing", !.assigned = e, !.worker = e,
            !.lease = now + LeaseTime]

Monitored(r, e) == [r EXCEPT !.worker = e, !.lease = now + LeaseTime]

\* record_chat_session: no status is checked, a saved session is running.
SessionRecorded(r, c) ==
  [r EXCEPT !.sessions = @ \union {c}, !.running = @ \union {c}]

\* retry_partial: back to the queue under a new generation.
Retried(r) ==
  [r EXCEPT !.status = "queued", !.worker = NoEngine, !.lease = Never,
            !.retryAt = now, !.retryPending = TRUE, !.generation = @ + 1]

-----------------------------------------------------------------------------
(* Scheduling: the slots and the routing of claim_next *)

SmallerOf(a, b) == IF a <= b THEN a ELSE b

SlotCount(j) ==
  IF job[j].sealed
  THEN SmallerOf(Convs[j], SmallerOf(MaxConcurrent, MaxPerJob))
  ELSE 1

\* Jobs of an engine that hold slots: processing under a live (or no) lease.
Occupying(e) ==
  {j \in Jobs : /\ job[j].status = "processing"
                /\ ~LeaseExpired(job[j])
                /\ job[j].assigned = e}

ActiveSlots(e) == MapThenSumSet(SlotCount, Occupying(e))

HasUnplanned(e) == \E j \in Occupying(e) : ~job[j].sealed

Claimable(j) == job[j].status = "queued" \/ LeaseExpired(job[j])

\* Mutant: a job of unknown size does not keep the engine to itself.
HasRoomUnplanned(e, j) == ActiveSlots(e) + SlotCount(j) <= MaxConcurrent

HasRoom(e, j) ==
  ~HasUnplanned(e) /\ ActiveSlots(e) + SlotCount(j) <= MaxConcurrent

\* can_run as seen by the engine `by' that is asking.
CanRun(e, j, by) ==
  /\ HasRoom(e, j)
  /\ e = by \/ heartbeat[e] = "ready"
  /\ heartbeat[e] # "down"

\* Mutant: a job whose lease has run out is routed afresh.
RoutesToAnyone(j, e) ==
  /\ CanRun(e, j, e)
  /\ job[j].preferred # e => ~CanRun(job[j].preferred, j, e)

RoutesTo(j, e) ==
  IF job[j].assigned # NoEngine
  THEN job[j].assigned = e
  ELSE /\ CanRun(e, j, e)
       /\ job[j].preferred # e => ~CanRun(job[j].preferred, j, e)

Eligible(e) == {j \in Jobs : Claimable(j) /\ RoutesTo(j, e) /\ HasRoom(e, j)}

OldestEligible(e) ==
  {j \in Eligible(e) : \A k \in Eligible(e) : job[j].created <= job[k].created}

=============================================================================
