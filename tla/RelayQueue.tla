----------------------------- MODULE RelayQueue -----------------------------
(***************************************************************************)
(* The relay queue at work: the sales API, one desktop worker per engine   *)
(* (tools/gpt_quote_relay_worker.py) and the MCP server's completion       *)
(* receipt, interleaved over the shared job files of RelayStore.           *)
(*                                                                         *)
(* A worker runs main()'s loop: resume -> attach -> claim -> serve ->      *)
(* resume.  What it keeps in memory (the active chats, the submission in   *)
(* progress) is lost in a crash; what the chats themselves answer is a     *)
(* nondeterministic choice.  Waves inside a conversation, continuation     *)
(* budgets and deferred retries are the subject of ChatWaves.              *)
(***************************************************************************)
EXTENDS RelayStore

CONSTANTS
  HostMayStall,    \* may more than half a lease pass between two polls?
  MaySignOut,      \* may the desktop session lose its sign-in?
  Polled,          \* jobs whose sales page polls them, the others' are left at once
  MaxCrashes       \* bound on crashes of workers and of the API in create()

ASSUME QueueAssumption ==
  /\ HostMayStall \in BOOLEAN /\ MaySignOut \in BOOLEAN /\ MaxCrashes \in Nat
  /\ Polled \subseteq Jobs

VARIABLES
  phase,           \* where each worker's main loop stands
  loggedIn,        \* browser.logged_in() of each engine
  chats,           \* active_quotes: conversations each worker holds, per job
  sub,             \* the submission each worker is in the middle of
  cancelling,      \* jobs whose cancel() has read an open record
  prompted,        \* jobs whose first prompt has reached a chat
  delivering,      \* jobs whose final delivery guard has passed
  page,            \* the sales page of each job: does it poll the job?
  crashes

workerVars == <<phase, loggedIn, chats, sub>>
vars == <<storeVars, workerVars, cancelling, prompted, delivering, page, crashes>>

Phase == {"down", "resume", "attach", "claim", "serve"}

\* Stages of one chat being opened.  "sent": the prompt is in the chat but
\* the session is not saved yet; "recorded": saved, its text not yet purged.
\* "error": an exception has ended the poll of this chat; "failing": fail_job
\* has purged the job and not yet written its status.
Stage == {"idle", "claimed", "retry", "sent", "recorded", "error", "failing"}
Idle  == [job |-> NoJob, conv |-> 0, stage |-> "idle"]

\* The sales page of a job polls it, has stopped because it saw it end, or
\* was left: closed, used for the next quote, or told to cancel.
Page == {"off", "polls", "left"}

Submission == [job : Jobs \union {NoJob}, conv : Nat, stage : Stage]

Init ==
  /\ job = [j \in Jobs |-> NoRecord]
  /\ requestIndex = [q \in Requests |-> NoJob]
  /\ receipt = [j \in Jobs |-> NoReceipt]
  /\ heartbeat = [e \in Engines |-> "never"]
  /\ now = 0
  /\ phase = [e \in Engines |-> "down"]
  /\ loggedIn = [e \in Engines |-> TRUE]
  /\ chats = [e \in Engines |-> [j \in Jobs |-> {}]]
  /\ sub = [e \in Engines |-> Idle]
  /\ cancelling = {}
  /\ prompted = {}
  /\ delivering = {}
  /\ page = [j \in Jobs |-> "off"]
  /\ crashes = 0

Holds(e, j) == chats[e][j] # {}
ActiveChats(e) == MapThenSumSet(LAMBDA j : Cardinality(chats[e][j]), Jobs)
HasChatRoom(e, j) ==
  ActiveChats(e) < MaxConcurrent /\ Cardinality(chats[e][j]) < MaxPerJob

JobChanged(j, r) == job' = [job EXCEPT ![j] = r]
ChatsChanged(e, j, kept) == chats' = [chats EXCEPT ![e][j] = kept]
Goto(e, p) == phase' = [phase EXCEPT ![e] = p]
PageTurns(j, p) == page' = [page EXCEPT ![j] = p]
PageOpens(j) == PageTurns(j, IF j \in Polled THEN "polls" ELSE "left")

-----------------------------------------------------------------------------
(* The sales API *)

\* create(): the job file, then the request index file, under one lock.
Create(q, j, e) ==
  /\ requestIndex[q] = NoJob
  /\ job[j].status = "absent"
  /\ JobChanged(j, NewRecord(q, j, e))
  /\ PageOpens(j)
  /\ requestIndex' = [requestIndex EXCEPT ![q] = j]
  /\ UNCHANGED <<receipt, heartbeat, now, workerVars, cancelling, prompted, delivering, crashes>>

\* The process dies between the two writes: the flock goes with it.
CreateCrash(q, j, e) ==
  /\ crashes < MaxCrashes
  /\ requestIndex[q] = NoJob
  /\ job[j].status = "absent"
  /\ JobChanged(j, NewRecord(q, j, e))
  /\ crashes' = crashes + 1
  /\ UNCHANGED <<requestIndex, receipt, heartbeat, now, workerVars, cancelling, prompted, delivering, page>>

\* public_get() for the page that polls the job: it stops when it sees it end.
SalesPoll(j) ==
  /\ page[j] = "polls" /\ job[j].status # "absent"
  /\ Reconciled(j) # job[j] \/ Reconciled(j).status \in Terminal
  /\ JobChanged(j, Reconciled(j))
  /\ PageTurns(j, IF Reconciled(j).status \in Terminal THEN "off" ELSE "polls")
  /\ UNCHANGED <<requestIndex, receipt, heartbeat, now, workerVars,
                 cancelling, prompted, delivering, crashes>>

\* Sales leaves the page, starts another quote in it, or cancels a job that
\* has ended unseen (cancel() returns such a record as it is).
PageLeft(j) ==
  /\ page[j] = "polls"
  /\ PageTurns(j, "left")
  /\ UNCHANGED <<storeVars, workerVars, cancelling, prompted, delivering, crashes>>

\* cancel() reads the record outside the lock ...
CancelRead(j) ==
  /\ job[j].status \notin Terminal \union {"absent"}
  /\ j \notin cancelling
  /\ cancelling' = cancelling \union {j}
  /\ UNCHANGED <<storeVars, workerVars, prompted, delivering, page, crashes>>

\* ... and then writes `cancelled', whatever the record has become.
CancelWrite(j) ==
  /\ j \in cancelling
  /\ JobChanged(j, Cancelled(job[j]))
  /\ PageTurns(j, "left")
  /\ cancelling' = cancelling \ {j}
  /\ UNCHANGED <<requestIndex, receipt, heartbeat, now, workerVars, prompted,
                 delivering, crashes>>

RetryPartial(j) ==
  /\ job[j].status = "partial"
  /\ job[j].result = "partial"
  /\ job[j].generation < MaxRetries
  /\ JobChanged(j, Retried(job[j]))
  /\ PageOpens(j)
  /\ UNCHANGED <<requestIndex, receipt, heartbeat, now, workerVars,
                 cancelling, prompted, delivering, crashes>>

Sales ==
  \/ \E q \in Requests, j \in Jobs, e \in Engines : Create(q, j, e) \/ CreateCrash(q, j, e)
  \/ \E j \in Jobs : SalesPoll(j) \/ PageLeft(j) \/ CancelRead(j) \/ CancelWrite(j) \/ RetryPartial(j)

-----------------------------------------------------------------------------
(* The MCP server, as far as the queue sees it *)

\* The first saved price plan seals the component count of the job.
SealPlan(j) ==
  /\ job[j].status = "processing"
  /\ j \in prompted
  /\ ~job[j].sealed
  /\ JobChanged(j, [job[j] EXCEPT !.sealed = TRUE])
  /\ UNCHANGED <<requestIndex, receipt, heartbeat, now, workerVars,
                 cancelling, prompted, delivering, page, crashes>>

\* The last delivery guard reads `processing'; a delivery of the current
\* retry generation that already happened is replayed, not repeated.
DeliveryGuard(j) ==
  /\ j \notin delivering
  /\ job[j].status = "processing"
  /\ j \in prompted
  /\ ~FreshReceipt(j)
  /\ delivering' = delivering \union {j}
  /\ UNCHANGED <<storeVars, workerVars, cancelling, prompted, page, crashes>>

\* The receipt is renamed into place some time after the guard passed.  The
\* clock is finer than a delivery: it is later than the retry it answers.
WriteReceipt(j, o) ==
  /\ j \in delivering
  /\ now > job[j].retryAt
  /\ receipt' = [receipt EXCEPT ![j] = [at |-> now, outcome |-> o]]
  /\ delivering' = delivering \ {j}
  /\ UNCHANGED <<job, requestIndex, heartbeat, now, workerVars, cancelling, prompted, page, crashes>>

\* The delivery fails before its receipt is in place.
DeliveryFails(j) ==
  /\ j \in delivering
  /\ delivering' = delivering \ {j}
  /\ UNCHANGED <<storeVars, workerVars, cancelling, prompted, page, crashes>>

Mcp ==
  \E j \in Jobs :
    \/ SealPlan(j) \/ DeliveryGuard(j) \/ DeliveryFails(j)
    \/ \E o \in Outcomes : WriteReceipt(j, o)

-----------------------------------------------------------------------------
(* The desktop worker of engine e: main() *)

Waiting(e, r) ==
  /\ r.status = "needs_login"
  /\ e = IF r.assigned # NoEngine THEN r.assigned ELSE r.preferred

\* Top of the loop, signed in: stop the chats of cancelled jobs (a stop that
\* cannot be confirmed keeps its slot), resume_login_waiting, heartbeat.
ResumeLogin(e) ==
  /\ phase[e] = "resume" /\ loggedIn[e]
  /\ job' = [j \in Jobs |-> IF Waiting(e, job[j]) THEN Resumed(job[j]) ELSE job[j]]
  /\ \E unstopped \in SUBSET {j \in Jobs : Holds(e, j) /\ job[j].status = "cancelled"} :
       chats' = [chats EXCEPT ![e] =
                   [j \in Jobs |-> IF job[j].status = "cancelled" /\ j \notin unstopped
                                   THEN {} ELSE @[j]]]
  /\ heartbeat' = [heartbeat EXCEPT ![e] = "ready"]
  /\ Goto(e, "attach")
  /\ UNCHANGED <<requestIndex, receipt, now, loggedIn, sub,
                 cancelling, prompted, delivering, page, crashes>>

\* Mutant: every job of the engine waits, not only those with an active chat.
LogoutAll(e) ==
  /\ phase[e] = "resume" /\ ~loggedIn[e]
  /\ job' = [j \in Jobs |-> IF job[j].assigned = e THEN LoggedOut(job[j]) ELSE job[j]]
  /\ chats' = [chats EXCEPT ![e] = [j \in Jobs |-> {}]]
  /\ heartbeat' = [heartbeat EXCEPT ![e] = "down"]
  /\ UNCHANGED <<requestIndex, receipt, now, phase, loggedIn, sub,
                 cancelling, prompted, delivering, page, crashes>>

\* Top of the loop, signed out: every job with an active chat waits for the
\* administrator and the chats are forgotten.
Logout(e) ==
  /\ phase[e] = "resume" /\ ~loggedIn[e]
  /\ job' = [j \in Jobs |-> IF Holds(e, j) THEN LoggedOut(job[j]) ELSE job[j]]
  /\ chats' = [chats EXCEPT ![e] = [j \in Jobs |-> {}]]
  /\ heartbeat' = [heartbeat EXCEPT ![e] = "down"]
  /\ UNCHANGED <<requestIndex, receipt, now, phase, loggedIn, sub,
                 cancelling, prompted, delivering, page, crashes>>

\* claim_submitted_for_monitoring with the active jobs excluded, then
\* reattach_job_chats: running sessions come back, and a pending partial
\* retry is prompted in the coordinator chat alone.
Unattended(e) ==
  {j \in Jobs : /\ job[j].status = "processing" /\ job[j].assigned = e
                /\ ~Holds(e, j) /\ Submitted(job[j])}

RetryPrompted(r) ==
  [r EXCEPT !.running = @ \union {0}, !.retryPending = FALSE]

AttachedRecord(e, r) ==
  IF r.retryPending /\ 0 \in r.sessions
  THEN RetryPrompted(Monitored(r, e))
  ELSE Monitored(r, e)

AttachedChats(r) ==
  IF r.retryPending THEN {0} \intersect r.sessions ELSE r.running

Attach(e) ==
  /\ phase[e] = "attach"
  /\ job' = [j \in Jobs |-> IF j \in Unattended(e) THEN AttachedRecord(e, job[j])
                                                   ELSE job[j]]
  /\ chats' = [chats EXCEPT ![e] =
                 [j \in Jobs |-> IF j \in Unattended(e) THEN AttachedChats(job[j])
                                                        ELSE @[j]]]
  /\ Goto(e, "claim")
  /\ UNCHANGED <<requestIndex, receipt, heartbeat, now, loggedIn, sub,
                 cancelling, prompted, delivering, page, crashes>>

\* claim_next: the oldest eligible job.
ClaimNext(e) ==
  /\ phase[e] = "claim" /\ sub[e] = Idle
  /\ \E j \in OldestEligible(e) :
       /\ JobChanged(j, Claimed(job[j], e))
       /\ sub' = [sub EXCEPT ![e] =
                    [job |-> j, conv |-> 0,
                     stage |-> IF job[j].retryPending /\ Submitted(job[j])
                               THEN "retry" ELSE "claimed"]]
  /\ UNCHANGED <<requestIndex, receipt, heartbeat, now, phase, loggedIn, chats,
                 cancelling, prompted, delivering, page, crashes>>

\* reattach_job_chats for a job claimed with a pending partial retry.
SubmitRetry(e) ==
  LET j == sub[e].job IN
  /\ sub[e].stage = "retry"
  /\ JobChanged(j, IF Settled(job[j]) THEN [job[j] EXCEPT !.running = @ \union {0}]
                   ELSE RetryPrompted(job[j]))
  /\ ChatsChanged(e, j, chats[e][j] \union {0})
  /\ sub' = [sub EXCEPT ![e] = Idle]
  /\ UNCHANGED <<requestIndex, receipt, heartbeat, now, phase, loggedIn,
                 cancelling, prompted, delivering, page, crashes>>

\* submit_job, signed out: mark_needs_login on the claimed record.
SubmitLoggedOut(e) ==
  /\ sub[e].stage = "claimed" /\ ~loggedIn[e]
  /\ JobChanged(sub[e].job, LoggedOut(job[sub[e].job]))
  /\ sub' = [sub EXCEPT ![e] = Idle]
  /\ UNCHANGED <<requestIndex, receipt, heartbeat, now, phase, loggedIn, chats,
                 cancelling, prompted, delivering, page, crashes>>

\* submit_job finds no text for the first chat.
SubmitMissing(e) ==
  LET j == sub[e].job IN
  /\ sub[e].stage = "claimed" /\ loggedIn[e]
  /\ 0 \notin job[j].lines
  /\ JobChanged(j, FailedSourceMissing(job[j]))
  /\ sub' = [sub EXCEPT ![e] = Idle]
  /\ UNCHANGED <<requestIndex, receipt, heartbeat, now, phase, loggedIn, chats,
                 cancelling, prompted, delivering, page, crashes>>

\* submit_job: start_quote puts the prompt into a new chat.
SubmitSend(e) ==
  /\ sub[e].stage = "claimed" /\ loggedIn[e]
  /\ 0 \in job[sub[e].job].lines
  /\ sub' = [sub EXCEPT ![e].stage = "sent"]
  /\ prompted' = prompted \union {sub[e].job}
  /\ UNCHANGED <<storeVars, phase, loggedIn, chats, cancelling, delivering, page, crashes>>

\* create_missing_component_chats: one more conversation of a running job,
\* which gets that conversation's own text.
OpenChat(e, j, c) ==
  /\ phase[e] \in {"claim", "serve"} /\ sub[e] = Idle
  /\ job[j].status = "processing" /\ job[j].worker = e
  /\ Submitted(job[j])
  /\ c \in (1..(Convs[j] - 1) \ job[j].sessions) \intersect job[j].lines
  /\ HasChatRoom(e, j)
  /\ sub' = [sub EXCEPT ![e] = [job |-> j, conv |-> c, stage |-> "sent"]]
  /\ UNCHANGED <<storeVars, phase, loggedIn, chats, cancelling, prompted,
                 delivering, page, crashes>>

\* record_chat_session ...
SubmitRecord(e) ==
  /\ sub[e].stage = "sent"
  /\ JobChanged(sub[e].job, SessionRecorded(job[sub[e].job], sub[e].conv))
  /\ sub' = [sub EXCEPT ![e].stage = "recorded"]
  /\ UNCHANGED <<requestIndex, receipt, heartbeat, now, phase, loggedIn, chats,
                 cancelling, prompted, delivering, page, crashes>>

\* ... and then purge_intake_batch or purge_source; the chat is active.
SubmitPurge(e) ==
  LET j == sub[e].job  c == sub[e].conv IN
  /\ sub[e].stage = "recorded"
  /\ JobChanged(j, SourcePurged(job[j], c))
  /\ ChatsChanged(e, j, chats[e][j] \union {c})
  /\ sub' = [sub EXCEPT ![e] = Idle]
  /\ UNCHANGED <<requestIndex, receipt, heartbeat, now, phase, loggedIn,
                 cancelling, prompted, delivering, page, crashes>>

\* An exception while a chat is polled, its receipt reconciled and its lease
\* renewed.
PollError(e, j) ==
  /\ phase[e] = "serve" /\ sub[e] = Idle
  /\ Reconciled(j).status \notin Terminal
  /\ JobChanged(j, Renewed(Reconciled(j), e))
  /\ \E c \in chats[e][j] :
       sub' = [sub EXCEPT ![e] = [job |-> j, conv |-> c, stage |-> "error"]]
  /\ UNCHANGED <<requestIndex, receipt, heartbeat, now, phase, loggedIn, chats,
                 cancelling, prompted, delivering, page, crashes>>

\* fail_job, after that exception or one at any point of the submission of a
\* claimed job: it purges the job's texts ...
FailPurge(e) ==
  /\ \/ sub[e].stage \in {"claimed", "retry", "sent", "recorded"} /\ sub[e].conv = 0
     \/ sub[e].stage = "error"
  /\ JobChanged(sub[e].job, AllPurged(job[sub[e].job]))
  /\ sub' = [sub EXCEPT ![e].stage = "failing"]
  /\ UNCHANGED <<requestIndex, receipt, heartbeat, now, phase, loggedIn, chats,
                 cancelling, prompted, delivering, page, crashes>>

\* ... and then writes `failed'.  A chat that was polled is closed.
FailJob(e) ==
  LET j == sub[e].job IN
  /\ sub[e].stage = "failing"
  /\ JobChanged(j, Failed(job[j]))
  /\ IF phase[e] = "serve"
     THEN ChatsChanged(e, j, chats[e][j] \ {sub[e].conv}) /\ Goto(e, "resume")
     ELSE UNCHANGED <<chats, phase>>
  /\ sub' = [sub EXCEPT ![e] = Idle]
  /\ UNCHANGED <<requestIndex, receipt, heartbeat, now, loggedIn,
                 cancelling, prompted, delivering, page, crashes>>

\* The claim loop ends: nothing is eligible, or a new chat has no stable
\* reference yet and must stay on screen.
ClaimDone(e) ==
  /\ phase[e] = "claim" /\ sub[e] = Idle
  /\ OldestEligible(e) = {} \/ \E j \in Jobs : Holds(e, j)
  /\ Goto(e, "serve")
  /\ UNCHANGED <<storeVars, loggedIn, chats, sub, cancelling, prompted,
                 delivering, page, crashes>>

\* settle_programmatic_delivery of a job with no active chat, no session
\* saved as running and no text left to send: the deferred conversation is
\* prompted once more, or the job fails because its delivery never came (the
\* purge before that write finds no text: the last one left marked the record).
ReadyToSettle(e, j) ==
  /\ phase[e] \in {"claim", "serve"} /\ sub[e] = Idle
  /\ job[j].status = "processing" /\ job[j].worker = e
  /\ ~Holds(e, j) /\ Submitted(job[j])
  /\ job[j].running = {} /\ job[j].lines = {}

ReopenDeferred(e, j) ==
  /\ ReadyToSettle(e, j)
  /\ Reconciled(j) = job[j]
  /\ \E c \in job[j].sessions :
       /\ JobChanged(j, [job[j] EXCEPT !.running = {c}])
       /\ ChatsChanged(e, j, {c})
  /\ UNCHANGED <<requestIndex, receipt, heartbeat, now, phase, loggedIn, sub,
                 cancelling, prompted, delivering, page, crashes>>

FailUndelivered(e, j) ==
  /\ ReadyToSettle(e, j)
  /\ JobChanged(j, IF Reconciled(j) = job[j] THEN Failed(job[j])
                                             ELSE Reconciled(j))
  /\ UNCHANGED <<requestIndex, receipt, heartbeat, now, phase, loggedIn, chats, sub,
                 cancelling, prompted, delivering, page, crashes>>

\* One poll of one chat per loop; the receipt is reconciled first.
PollTerminal(e, j) ==
  /\ phase[e] = "serve" /\ sub[e] = Idle /\ Holds(e, j)
  /\ Reconciled(j).status \in Terminal
  /\ JobChanged(j, Reconciled(j))
  /\ \E unstopped \in SUBSET chats[e][j] : ChatsChanged(e, j, unstopped)
  /\ Goto(e, "resume")
  /\ UNCHANGED <<requestIndex, receipt, heartbeat, now, loggedIn, sub,
                 cancelling, prompted, delivering, page, crashes>>

\* The chat is still at work, or was prompted again: only the lease moves.
\* Or its wave is saved or set aside and it has no other: the chat is closed.
\* Or the answer is a confirmed stop.
PollOutcomes(r, c) ==
  {[rec |-> r, closed |-> {}],
   [rec |-> [r EXCEPT !.running = @ \ {c}], closed |-> {c}],
   [rec |-> Failed(r), closed |-> {c}]}

PollChat(e, j) ==
  /\ phase[e] = "serve" /\ sub[e] = Idle
  /\ Reconciled(j).status \notin Terminal
  /\ \E c \in chats[e][j] : \E out \in PollOutcomes(Renewed(Reconciled(j), e), c) :
       /\ JobChanged(j, out.rec)
       /\ ChatsChanged(e, j, chats[e][j] \ out.closed)
  /\ Goto(e, "resume")
  /\ UNCHANGED <<requestIndex, receipt, heartbeat, now, loggedIn, sub,
                 cancelling, prompted, delivering, page, crashes>>

ServeNothing(e) ==
  /\ phase[e] = "serve" /\ sub[e] = Idle
  /\ \A j \in Jobs : ~Holds(e, j)
  /\ Goto(e, "resume")
  /\ UNCHANGED <<storeVars, loggedIn, chats, sub, cancelling, prompted,
                 delivering, page, crashes>>

\* The process, or the loop's own exception handler, drops what is in memory.
Crash(e) ==
  /\ phase[e] # "down" /\ crashes < MaxCrashes
  /\ Goto(e, "down")
  /\ chats' = [chats EXCEPT ![e] = [j \in Jobs |-> {}]]
  /\ sub' = [sub EXCEPT ![e] = Idle]
  /\ crashes' = crashes + 1
  /\ UNCHANGED <<storeVars, loggedIn, cancelling, prompted, delivering, page>>

Start(e) ==
  /\ phase[e] = "down"
  /\ Goto(e, "resume")
  /\ heartbeat' = [heartbeat EXCEPT ![e] = "down"]
  /\ UNCHANGED <<job, requestIndex, receipt, now, loggedIn, chats, sub,
                 cancelling, prompted, delivering, page, crashes>>

Worker(e) ==
  \/ ResumeLogin(e) \/ Logout(e) \/ Attach(e)
  \/ ClaimNext(e) \/ SubmitRetry(e) \/ SubmitLoggedOut(e) \/ SubmitMissing(e)
  \/ SubmitSend(e) \/ SubmitRecord(e) \/ SubmitPurge(e) \/ FailPurge(e)
  \/ FailJob(e)
  \/ ClaimDone(e) \/ ServeNothing(e)
  \/ \E j \in Jobs : \/ ReopenDeferred(e, j) \/ FailUndelivered(e, j)
                     \/ PollTerminal(e, j) \/ PollChat(e, j) \/ PollError(e, j)
                     \/ \E c \in Conversations : OpenChat(e, j, c)

-----------------------------------------------------------------------------
(* The environment: sign-in, heartbeats, time *)

SignInChanges(e) ==
  /\ MaySignOut
  /\ loggedIn' = [loggedIn EXCEPT ![e] = ~@]
  /\ UNCHANGED <<storeVars, phase, chats, sub, cancelling, prompted, delivering, page, crashes>>

\* No heartbeat for 45 seconds.
HeartbeatExpires(e) ==
  /\ heartbeat[e] = "ready"
  /\ heartbeat' = [heartbeat EXCEPT ![e] = "down"]
  /\ UNCHANGED <<job, requestIndex, receipt, now, workerVars, cancelling, prompted,
                 delivering, page, crashes>>

\* A live worker polls every active chat, and re-attaches every other job,
\* well within a lease, unless its host is suspended.
Watched(e, j) ==
  /\ job[j].status = "processing" /\ job[j].worker = e
  /\ \/ phase[e] \in {"claim", "serve"}
     \/ phase[e] # "down" /\ Holds(e, j)

Timely(e) ==
  \A j \in Jobs : Watched(e, j) /\ job[j].lease # Never => job[j].lease > now + 1

Tick ==
  /\ now < MaxTime
  /\ HostMayStall \/ \A e \in Engines : Timely(e)
  /\ now' = now + 1
  /\ UNCHANGED <<job, requestIndex, receipt, heartbeat, workerVars, cancelling,
                 prompted, delivering, page, crashes>>

Environment ==
  Tick \/ \E e \in Engines : SignInChanges(e) \/ HeartbeatExpires(e) \/ Crash(e) \/ Start(e)

Next == Sales \/ Mcp \/ (\E e \in Engines : Worker(e)) \/ Environment

Spec == Init /\ [][Next]_vars

\* Fairness.  A sales page that polls a job goes on until it sees it end or is
\* left; a worker that is not killed goes on with the submission, or the failure,
\* that it has in hand.  Nothing is assumed of the chats, of the next round of the
\* worker's loop or of its restart after a crash.
InHand(e) == SubmitRecord(e) \/ SubmitPurge(e) \/ FailPurge(e) \/ FailJob(e)

FairSpec ==
  /\ Spec
  /\ \A j \in Jobs : WF_vars(SalesPoll(j))
  /\ \A e \in Engines : WF_vars(InHand(e))

-----------------------------------------------------------------------------
(* Correctness *)

TypeOK ==
  /\ job \in [Jobs -> JobRecord]
  /\ requestIndex \in [Requests -> Jobs \union {NoJob}]
  /\ receipt \in [Jobs -> Receipt \union {NoReceipt}]
  /\ heartbeat \in [Engines -> {"never", "down", "ready"}]
  /\ now \in Nat
  /\ phase \in [Engines -> Phase]
  /\ loggedIn \in [Engines -> BOOLEAN]
  /\ chats \in [Engines -> [Jobs -> SUBSET Nat]]
  /\ sub \in [Engines -> Submission]
  /\ cancelling \subseteq Jobs
  /\ prompted \subseteq Jobs
  /\ delivering \subseteq Jobs
  /\ page \in [Jobs -> Page]
  /\ crashes \in Nat

\* No raw sales text outlives its job: once a job is cancelled or delivered,
\* whichever of the submission, purge, cancel and failure steps came in
\* between, no unsent text is left in its record.
NoSourceKept ==
  \A j \in Jobs :
    job[j].status \in Delivered \union {"cancelled"} => job[j].lines = {}

\* A delivered job shows the receipt of its own retry generation: a receipt
\* older than the retry never completes the retried job, and the status says
\* what that receipt says.
DeliveredByFreshReceipt ==
  \A j \in Jobs :
    job[j].status \in Delivered =>
      /\ FreshReceipt(j)
      /\ job[j].status = "completed" <=> receipt[j].outcome = "full"

\* No job is stranded: a job in `processing' either has a lease that can
\* expire (claim_next takes it again) or a saved chat (the monitoring claim
\* takes it), and it is routed to an engine.
NoStrandedJob ==
  \A j \in Jobs :
    job[j].status = "processing" =>
      /\ job[j].lease # Never \/ Submitted(job[j])
      /\ job[j].assigned \in Engines

\* A queued job can be started: the text of its first chat is still there,
\* unless it is queued for a partial retry.  No sign-out, failed stop or crash
\* sends a job whose text is already purged back to the head of the queue.
\* Not so from the second retry on: requested while the first one is being
\* prompted, it loses its mark to the write that follows that prompt.  Nor when
\* a crash cuts fail_job off after its purge: a job without a chat is then left
\* in progress without text, and a sign-out queues it as such.
QueuedIsStartable ==
  \A j \in Jobs :
    job[j].status = "queued" =>
      \/ 0 \in job[j].lines
      \/ job[j].retryPending
      \/ job[j].generation > 1
      \/ crashes > 0 /\ job[j].purged /\ ~Submitted(job[j])

\* Two engines never work on one job, neither in a chat nor in a submission.
OneEnginePerJob ==
  \A j \in Jobs : \A d, e \in Engines :
    /\ Holds(d, j) \/ sub[d].job = j
    /\ Holds(e, j) \/ sub[e].job = j
    => d = e

\* A job of unknown size has its engine to itself: two un-numbered jobs
\* without a saved plan never hold slots of one engine at once, through
\* sign-outs, lease expiry and crashes.  (A partial retry may set one beside
\* another that has come back from a sign-out.)
OneUnplannedJob ==
  \A e \in Engines : \A j, k \in Occupying(e) :
    ~job[j].sealed /\ ~job[k].sealed => j = k

\* A job with a saved chat is monitored by its reference, its first prompt is
\* not submitted again (but see QueuedIsStartable for a second retry).
NeverResubmitted ==
  \A e \in Engines :
    sub[e].stage = "claimed" =>
      ~Submitted(job[sub[e].job]) \/ job[sub[e].job].generation > 1

\* Cancellation is final, whoever writes next.
CancelledIsFinal ==
  [][\A j \in Jobs : job[j].status = "cancelled" => job'[j].status = "cancelled"]_vars

\* A delivery is undone only by a partial retry, which opens a new
\* generation, or by a cancel that had read the job before it was delivered.
DeliveryIsKept ==
  [][\A j \in Jobs :
       job[j].status \in Delivered =>
         \/ job'[j].status = job[j].status /\ job'[j].result = job[j].result
         \/ /\ job[j].status = "partial" /\ job'[j].status = "queued"
            /\ job'[j].generation > job[j].generation
         \/ job'[j].status = "cancelled" /\ j \in cancelling]_vars

\* A failed job is taken up again only by its receipt, or by a worker that
\* signs out while it still holds one of the job's other chats.
FailedStaysFailed ==
  [][\A j \in Jobs :
       job[j].status = "failed" /\ job'[j].status # "failed" =>
         \/ job'[j].status \in Delivered /\ FreshReceipt(j)
         \/ job'[j].status = "cancelled" /\ j \in cancelling
         \/ job'[j].status = "needs_login" /\ \E e \in Engines : Holds(e, j)]_vars

\* A trusted receipt of a job whose text is purged reaches the job record as
\* long as the sales page polls the job: also when the worker has declared the
\* job failed meanwhile, and with the worker down.  (A page that has seen `failed'
\* polls no more, and nobody else reads the receipt of a failed job.)
ReceiptIsAdopted ==
  \A j \in Jobs :
    (FreshReceipt(j) /\ job[j].purged /\ page[j] = "polls")
      ~> (job[j].status \in Delivered \union {"cancelled"} \/ page[j] = "left")

\* The text of a submitted chat leaves the queue file, unless the worker dies
\* before it has purged it: a saved session is monitored, not submitted again.
SubmittedTextGoes ==
  \A j \in Jobs :
    (0 \in job[j].sessions) ~> (0 \notin job[j].lines \/ crashes > 0)
=============================================================================
