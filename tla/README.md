# AstraQuote: a verification project

AstraQuote turns a sales text into a priced multi-cloud quote. The sales page
hands the text to a backend, the backend queues it as a job file, a desktop
worker pastes it into a signed-in chat, the chat calls the MCP server to price
the components and to build the workbook, and a completion receipt written by
the MCP server ends the job. This directory models the parts of that chain that
keep state and meet each other concurrently, checks them with TLC and proves
the results that matter most with TLAPS.

## 1. Inventory

| Component | Code | State | Meets the others through | Hard behaviour | Correct when |
|---|---|---|---|---|---|
| Relay queue store | `backend/app/services/gpt_quote_relay.py` | `jobs/*.json`, `requests/*.json`, `completions/*.json`, `worker-heartbeat*.json` | one flock per call; files read by three processes | reads outside the lock, two-file writes, leases, receipts that arrive before or after a failure | a job has one outcome, that of its receipt; no raw text outlives it; a submitted text is never submitted again |
| Desktop relay worker | `tools/gpt_quote_relay_worker.py` | `active_quotes` (memory only) | store calls, the chat window | crash, restart and sign-out between any two store calls; polling answers | chats, slots and job records agree; every job is attended |
| Sales relay API | `backend/app/aws_main.py` 331-388 | none | store calls | the page retries, polls and cancels at any time | one request, one job; cancel is final |
| MCP quote workflow | `deploy/astraquote-mcp/lib/v2-workflow.js`, `query-lifecycle.js` | price batches, checkpoints | files shared with the store; concurrent tool calls of several chats | state read before an `await` and used after it | no price, plan or result is lost; a quote is built from complete evidence |
| MCP quote store and delivery | `lib/v2-quote-store.js`, `lib/quote-delivery.js`, `lib/relay-job-state.js` | records, manifests, receipts | rename into place; the delivery guard reads the job file | a stop or a partial retry between guard and receipt; a restart between upload and manifest; two calls at once | what is published has its workbook; one quote per generation |
| MCP caches | `lib/official-price-cache.js`, `lib/pricing-capability-store.js` | SQLite rows with times | shared by all chats | a refusal and a success recorded at the same moment | a later success lifts a block |
| Confirmation sessions | `backend/app/services/confirmation_sessions.py`, `azure_quote_service.py` | SQLite rows with a lease; drafts in memory | the customer's and the sales page, preview jobs | a lease no one renews, a preview that ends late, two copies of one configuration | what is priced is what was approved; a submission ends |
| Quote job manager | `backend/app/services/quote_jobs.py` | jobs and asyncio tasks (memory) | confirmation sessions | time limit, loss at a restart | a session does not wait for a job that is gone |
| Catalog caches | `backend/app/integrations/azure_bulk_cache.py` and others | SQLite snapshots | price lookups during a refresh | a death in a download of many pages; two transactions of one lookup | lookups read one complete snapshot, and an old one is replaced |
| Component batches | `backend/app/services/gpt_quote_batches.py` | none (pure) | job plan of the store | boundaries (5 per wave, 2 waves per chat) | every component is in exactly one wave |
| OAuth gateway | `deploy/astraquote-mcp-oauth/app.py` | SQLite codes, tokens, accounts | the MCP server asks it about a token | a code presented twice | one token per code |
| Quote service, parsing, official pricing, domain library, pages, legacy scripts | `quote_service.py`, `deepseek.py`, `mcp_v2_pricing.py`, ... | mostly none | called sequentially | data, not protocol | see section 5 |

PROJECT.json lists every component with its status and, under `hazards`, what
in this code is hard to test, each at its line.

## 2. Modules

### RelayStore
The store. A job file is a record (`job[j]`); every operation of the store that
rewrites one job file under the flock is an operator from a record to a record
(`Claimed`, `Renewed`, `Retried`, `Cancelled`, ...). `Reconciled(j)` is
`reconcile_delivery_receipt`; `RoutesTo`, `HasRoom` and `OldestEligible` are the
selection of `claim_next` (slots by job status, an unplanned job has its engine
to itself, an engine is preferred while it can run the job).

Abstractions: a conversation index stands for the waves sent in it; `lines` is
the set of conversations whose text is still in the file; a lease, a receipt and
a retry carry the time of a small clock; `Convs` says how many conversations a
job needs; a job outside `Numbered` comes from before numbered intake, has one
conversation and a size unknown until its first price plan (`sealed`).

### RelayQueue
Who calls the store and when.
* *Sales* (`aws_main.py`): `Create`, `CreateCrash` (between its two writes),
  `SalesPoll`, `CancelRead` and `CancelWrite` (the read is outside the lock),
  `RetryPartial`. `page[j]` is the sales page of a job: it polls until it sees the
  job end (`failed` included) and then stops; `PageLeft` closes it or gives it
  another quote.
* *Mcp*: `SealPlan`, `DeliveryGuard`, `WriteReceipt`, `DeliveryFails`. The guard
  and the receipt are two steps because the code has no lock around them.
* *Worker(e)*: one loop of `main()` per engine, `phase` says where it stands.
  `ResumeLogin` or `Logout` at the top, `Attach` (monitoring claim and
  re-attachment), `ClaimNext` and the steps of `submit_job` (`SubmitSend`,
  `SubmitRecord`, `SubmitPurge`, one per store call, and its failures),
  `OpenChat` for the further conversations, then one poll (`PollTerminal`,
  `PollChat`), and the settlement of a job whose chats are all closed
  (`ReopenDeferred`, `FailUndelivered`). An exception in a submission or a poll
  (`PollError`) reaches `fail_job`, which is two store calls, `FailPurge` and
  `FailJob`, with room for a crash and for every other process between them.
* *Environment*: sign-in changes, heartbeats that age, the clock, crashes.

What a chat answers is a choice (`PollOutcomes`). What happens between the waves
of one conversation is ChatWaves.

### ChatWaves
One numbered job from the moment `submit_job` has sent its first wave, seen from
inside the worker. RelayQueue says which job a worker holds; ChatWaves says what
it does with the job's conversations.
* *State.* Per wave: its text in the queue file (`lines`), its chat session
  (`session`: status, deferred components, spent retry, requests for the
  result, settle window) and what the MCP server has (`registered`, `done`,
  `saved`, `owner`, `receipt`). Per conversation: the chat the worker holds
  (`chat`, the memory that a restart loses) and whether its agent is generating
  (`turn`). One `draft` for the one visible composer.
* *Agents*: `Register` and `CompletePrice` (`getPrices`), `SaveResult`
  (`saveComponentResultFragment`), `Deliver`, at any time after the agent was
  told of the wave, so also late, after the worker has judged it.
* *The desktop*: `Submit` is `continue_quote`. A prompt is confirmed, or it
  stays in the composer and `PendingPromptSubmissionError` is raised; the next
  call that switches to a chat submits that draft and raises again
  (`FlushDraft`). `Abandon` says where the error is caught: around a poll the
  chats stay, elsewhere the supervisor starts over.
* *Worker functions* of several writes are a `task` with a `step`:
  `advance_to_next_wave` is `AdvanceText` (prompt), `AdvanceMark` (old session),
  `RecordSession`, `PurgeText`; a new chat is `OpenText`, `RecordSession`,
  `PurgeText`; the deferred retry is `RetryPrompt`, `RetryRecord`; a request for
  the result is `FinalPrompt`, `FinalCount`. A crash may fall between the steps.
* *main()'s loop* is `phase`: `Attach`, `CreateMissing` with `OpenNext` and
  `OpenDone`, the settlement (`SettleRetry`, `SettleFail`, `SettleOverLimit`,
  `SettleNothing`) and one poll (`AdvanceMachine`, `Reply`, `Timeout`). The poll
  settles once more inside its own error handling (phase `polled`; `timed` for
  the handler of a timeout, whose errors reach the supervisor).
  `continue_component_batch` is `ContinueWave` with one action per outcome.

Abstractions: the components of a wave are numbers in the order the worker takes
them, the numbered lines first; a deadline may pass at any poll and a settle
window between two polls that see the same state; the two or more sessions of
one retry, or of one finished group, are written in one step; chat references,
leases, sign-out and other jobs are in RelayQueue.

### ComponentBatches
The pure code that deals the components of a job out: the numbering a text must
have (`IsNumbered`), the split of its lines into waves (`NumberedIntake`), of waves
into conversations (`ConversationIndex`, `WaveIndex`, `WaveCount`), the number of
chats and of slots, the family of a component (`RootOf`, for `root_key` and
`component_root`, also when parents are missing or cyclic), what a wave owns of
the plan the agents registered (`StateKeys`), and the split of a plan from before
numbered intake (`ComponentPlan`). `MCComponentBatches` compares every operator
with a reference definition over all small texts and plans; `MCChatWaves` extends
it, so TLC evaluates these assumptions in the `waves_` runs, and takes the lines of
its waves from `NumberedIntake`.

### QueryLifecycle and PriceBatch
The price batch of one numbered job in the MCP server. QueryLifecycle holds the
pure rules of `query-lifecycle.js`: contexts of queries and how they are merged
(`mergeQueryContexts`), which result closes a billing scope, which query a later
one supersedes, and the state of a component. PriceBatch is who uses them.
* *State.* `batch` is the saved file (queries in the order they were first
  asked, their payloads, results, contexts; planned scopes; page evidence; sealed
  results of waves), `stage` the checkpoint, `refused` the capability store.
  `call[c]` is a `get_prices` that waits for the official API, with everything it
  read before: the request, the queries it saw, what it asked and what it skipped.
  `batch.free` are the components the saved results list under
  `zero_cost_services`, `quote` whether the whole quote is built and with which.
* *getPrices* is `GetPrices` up to its await (all checks of the request, the loop
  that decides per query whether it is reused, skipped or sent) and then
  `PricesArrive`, which merges the answers into the latest batch, or ends in an
  error and leaves it. `GetSaved` needs no request and is one step. `PricesFail`
  and `Restart` are a call that does not come back.
* *saveComponentResultFragment* is `SaveFragment`, *buildEstimate* up to the
  record `BuildQuote`. Both pass `contextEvidenceViolations` (`Provable`): a planned
  scope has a price or page evidence, or is a commitment scope whose on-demand
  price is known (`ByFallback`), or its component is listed as free of charge; a
  scope with both a price and a page is refused, unless free. `RefusalExpires` is
  the five minutes of `capabilityBlocker`.

Abstractions: a scope stands for component, billing and scenario key; a payload
for what `officialAttemptFingerprint` keeps; the arithmetic of a price row and
the customer facts of a result are data, a result is accepted or not. Which
components a result lists as free is the agent's choice, as it is in the code: the
documentation it cites is not looked up. The rows without a price of a partial
quote (`unpriced_services`) are left out: policy refuses them for a job of the sales
page (`v2-workflow.js:1264-1287`).

### EvidenceLedger
What PriceBatch promises, without calls and queries: plans, prices, page evidence
and seals are only added; a result is sealed when each scope of its wave is
accounted for, by a price, a page, the on-demand price in place of a commitment,
or a declaration that its component is free; and one quote is built, once, when
the same holds of all waves. PriceBatch implements it (`IsLedger`) under the
mapping that forgets calls, payloads, contexts and results that are not prices;
the property is checked in `price_all` and proved.

### QuoteDelivery
`buildEstimate` from the record on, and `deliverRecord`, for one sales job.
* *State.* The job file as the guard reads it (`job`), the records (`quotes`) and
  which of them the idempotency index leads to (`keyed`), the relay index
  (`checkpoint`), objects, token manifests and index manifests, the completion
  `receipt`, and per call the step it is at. `overlap` (two calls at once) and
  `unmarked` (a receipt was written and the update of its record failed or was cut
  off) are history variables that the properties name as their conditions.
* *Actions.* A call runs to its next await in one step: `ReturnSaved`,
  `ReplayDelivery` or `NewQuote`, `Guard` at its three places, `Lookup`, `Upload`,
  `Check` after the upload and `Remove`, `WriteToken`, `WriteIndex`,
  `SaveArtifactStage`, `WriteReceipt`, `MarkDelivered`.
* *Failures.* `put()` writes the record, its index and the checkpoint without an
  await; `PutStops` is a death or an error after the first or the second of them,
  which leaves a record that the next call finds by its key or not at all
  (`Found`). `WriteFails` is an error at any write up to the receipt. In a replay an
  error goes to the caller; in a new quote it reaches the handler that marks the
  record and the checkpoint `failed`, each of which may itself fail (`Gives`).
  After the receipt the code updates the record, then the checkpoint, and an
  error of either runs the handler, all without an await: no other call sees the
  states in between, so the outcomes are what matters. `MarkDelivered` is both
  writes; `MarkRecordOnly` the record alone, when the server dies there, or the
  checkpoint and then the handler's own write fail; `UpdateFails` the rest: the
  record cannot be written, or the handler overwrites it with `failed`.
* *Environment.* `Adopt`, `Stop`, `RetryPartial` and `Claim` are the steps of
  RelayStore and RelayQueue that a delivery can meet; `Restart` ends all calls.

### ConfirmationSession
One customer confirmation of the Azure program: the row in SQLite, the draft and
the preview jobs in memory, the customer's pages, the sales page and the quote.
* A handler has no await, so `Reload`, `Answer`, `Feedback`, `Approve`,
  `SalesPolls` and `QuoteStarts` are one step each, with `get()`'s reset of a lost
  lease and of an abandoned submission (`Got`) and the preview a submission starts
  (`Serve`).
* The link may be open in several `Pages`. A page shows what the last response
  said (`tab`), and a response may be lost (`ShowOrNot`): a page that sent answers
  then has its questions again and may send them once more. `submit()` checks no
  status, so `Answer` is possible in every state of the session; the history
  variable `crossed` says that it happened when the session was not asking, or that
  a table was approved which the row no longer had. The code refuses answers to
  questions that are no longer among the row's; the model accepts them as well,
  as crossed.
* A preview reads the configuration after its first await (`PreviewReads`), works
  the answers into it, and then publishes, withholds its result because of an
  internal issue, or fails (`PreviewEnds`). It publishes whatever has become of
  the session.
* `Tick` ages a row in processing and the jobs; a job ends at its limit. `Restart` loses jobs
  and drafts.

A configuration is how often each submission has been worked into it, which is
what the properties have to tell apart.

### BulkCatalog
The snapshot of the Azure retail catalog. The task (`sync()`) wakes, resumes the
newest partial download or starts one, fetches and saves pages one at a time
(page and rows in one transaction), and publishes (`Complete`, which keeps the
snapshot it replaces and deletes others). A lookup reads the id of the published
snapshot and its rows in two transactions. Requests fail, the program restarts,
snapshots grow old, the service publishes a new edition in the middle of a
download. Pages are numbers; "no next page" is stored as an empty `next_url`, after
which a resumed download starts at page 1 with its count going on.

## 3. Checks

| Run | Shows | Bounds |
|---|---|---|
| `queue_one` | the safety of one job: text, receipts, leases, cancel, delivery, failure; liveness: a trusted receipt reaches the record | one job of two conversations whose page polls, one engine, one crash, sign-outs, two partial retries, clock 0..2 with a lease of 2; `FairSpec` |
| `queue_engines` | one job is never worked on by two engines | two engines (the code names two), one un-numbered job, one crash, sign-outs, a host that may stall past a lease |
| `queue_two` | an unplanned job has its engine to itself | two un-numbered jobs, one engine, sign-outs |
| `waves_one` | the safety of one conversation: prompts within their budgets, the list of the retry complete | two waves of two and one lines, the first agent splits off one component, a retry of at most two, a withdrawal, one crash, one unconfirmed prompt |
| `waves_three` | between conversations: no text lost; the job's share of chats, also when a restart re-attaches; retries after all texts; a failure is earned | three waves in two conversations, share 1, the first agent splits its line, a retry of at most two, so one may be over the limit, one crash |
| `waves_live` | liveness: the job ends, a deferred wave is retried | three waves in two conversations, share 1, `RepliesSpec` |
| `delivery_all` | deliveries: what is published has its link; with one call at a time the link works, one quote per generation, a final receipt and a saved result stand, a late receipt answers no newer retry | two calls, one partial retry, three records (the third only while no calls have overlapped), any restarts, stops and failed writes |
| `delivery_link` | refutes a comment (see findings) | two calls, one record |
| `price_all` | the batch implements the ledger; a completed batch is covered; requests per scope are bounded | two calls, two waves of one component, the second with an on-demand and a commitment scope and possibly free, four query ids, three payloads, one of a local route; limit 2 |
| `sessions_all` | a submission ends; what is priced is what was approved; edits stay, are worked in once, and a quoted session is not reopened | two pages, two submissions, two previews at once, lost responses, one restart; lease 1, time limit 2, stale after 3; `FairSpec` |
| `sessions_quote` | refutes a message to the customer (see findings) | the same |
| `catalog_all` | the published snapshot is whole, there for every lookup, and replaced when it is old | three pages, page limit 4, two editions, two troubles; `FairSpec` |

Why the bounds are enough: every operation touches one record, so the conflicts
of several jobs are those of slots and routing (two jobs, two engines); a lease
of 2 on a clock of 0..2 can expire, be renewed before, and be taken over; one crash can fall
between any two steps; two conversations are the fewest with a chat that the
coordinator opens later.

In ChatWaves a conversation has at most two waves, so two waves cover what
happens inside one and three waves (two conversations) what happens between
two. Two lines are the fewest of which one can be deferred while another goes
on. `MaxFinalize` is 1 as in the deployed default; `MaxAsked` only stops the history counters, above the
largest value a property compares with.

In RelayQueue the jobs whose page polls are a parameter (`Polled`): a page that
never polls is one that was left at once, which is all the other two runs need.
`MaxCrashes` counts crashes of workers and in `create()`; `queue_two` has none, and
its theorem covers them.

In QuoteDelivery two calls are the fewest that overlap; a partial quote, its
retry and the quote of the retry need two records, an orphan left by `put()` a third
(`MCQuoteDelivery` keeps the third to histories without overlap). In PriceBatch two calls on two
waves meet in one batch in every way (`MCPriceBatch` lists the requests: plans,
a second attempt that replaces the first, page evidence, a request that repeats
an id with another payload). Its constraint `Bounded` keeps calls
that overlap, are lost or fail to save to histories in which no result is free of
charge, and leaves out calls under way beside a built quote: what is free is only
read where a result is sealed or a quote is built. The three times of ConfirmationSession keep their
order (120 s < 300 s < 480 s), which is all the code's decisions depend on; two
previews run side by side because the first lost its lease, or because answers
were sent twice. Its constraint `Apart` keeps these two causes to different
histories; every safety property makes an exception for one of them or for both.
In BulkCatalog the page
limit is one above the number of pages, so restarts can exceed it; three ids are
the published snapshot, the one before and a download.

The clock of the queue is also a bound on fairness: `Tick` may not skip a poll that is due
(`Timely`) unless the host stalls (`HostMayStall`), which `queue_engines` allows.

Fairness (`FairSpec`): a sales page that polls goes on until it sees the job end
or is left (an interval timer; a failed poll is retried), and a worker that is not
killed goes on with the submission or the failure it has in hand (`InHand`),
which are consecutive store calls of one function. Nothing is assumed of the
chats, the administrator, the MCP server, the next round of the worker's loop or
its restart. So `ReceiptIsAdopted` speaks of a job while its page polls: a page that
has seen `failed` polls no more, and no worker reads the receipt of a failed job.
In ChatWaves `WorkerFairness` lets
the worker's functions and loop run, adopts a receipt (the sales page polls) and
polls every chat: `active_quote_poll_order` takes the least recently seen first
and each chat has a deadline, so a chat whose poll can end again and again is
polled to its end (strong fairness). `RepliesSpec` adds that an agent's turn
ends: without it a chat that goes on generating after its wave is sealed keeps
`advance_machine_completed_wave` busy, which never looks at the deadline.

In ConfirmationSession `FairSpec` lets each of the customer's pages poll (a timer,
except while it shows questions or the end), time pass and previews end (they have a time limit); nothing is assumed of the customer, of
sales or of the server staying up. In BulkCatalog it lets the task run and a new
download find the service in reach: failures and restarts are bounded by
`MaxTroubles`, so `OldIsReplaced` says that finitely many of them delay a refresh
and never stop it.

The type invariants of all modules are proved. Those of ChatWaves and
ConfirmationSession are also checked by a run, since their shapes are the least
obvious; the others are not among the runs' properties.

### What the checks found
Two runs with `expect: violation` each refute one sentence of the repository;
PROJECT.json quotes it under `findings`.
* `delivery_link`: a second call of `build_estimate` that overlaps the first
  deletes the workbook behind the link the sales page already shows.
* `sessions_quote`: a change that the customer is told was not made is in the
  configuration that is priced, because the draft is replaced before it is
  decided whether the preview is published.

The models also show behaviour that no property here rules out. It is named in
the hazards, or is the condition of a property:
* the queue: a crash between the two writes of `create()` leaves one request with
  two jobs (`CreateCrash`); a crash between the two store calls of `fail_job` leaves
  a job in progress whose text is gone, and a sign-out queues it as such, with no
  text and no mark, for a worker to claim in vain (the last case of
  `QueuedIsStartable`); a receipt that arrives after the page has seen `failed` is
  read by nobody (`ReceiptIsAdopted` asks for a page that polls); a host suspended
  past a lease submits a job again (`NeverResubmitted` holds without one only); a crash between the saved chat and the purge leaves the
  raw text (the exception in `SubmittedTextGoes`); a cancelled job's chats still
  hold the desktop when its slots are given away; a second partial retry that
  sales asks for while the worker sends the prompt of the first loses its mark,
  which is cleared after the prompt (`gpt_quote_relay_worker.py:1439-1444`), and
  is then a queued job that nothing starts (`QueuedIsStartable` speaks of the
  first retry only);
* conversations: a restart at the wrong moment sends the deferred retry twice
  (the history in `PromptBudget`); a draft left in the composer goes out with a
  later call and is sent again; a component the agent splits off after its wave
  was judged, or a deferral that comes late, keeps the job in progress; a
  deferred group over the limit is never sent (`SettleOverLimit`), and the job fails
  without its retry (the last case of `FailureIsEarned`); when an agent splits off
  two components in one wave, each can be open in turn, and the conversation is
  asked to continue without end (the condition of `ContinuationsBounded`); a job withdrawn
  while chats are opened may get one more text;
* deliveries: when a receipt is written and its record is not updated, by an error
  or a restart, the old record is delivered again, also beside a partial retry, and
  its receipt answers that retry (the condition `~unmarked`), because
  `reconcile_delivery_receipt` compares times; a `put()` that stops half-way
  leaves a record that nobody or only its key leads to, so a generation may have
  two records on disk, of which one is ever seen (`Known`);
* price batches: page evidence for a scope that an API answer prices meanwhile
  leaves a scope whose evidence is contradictory and a batch that no estimate can
  be built from, unless its component is free (`Provable`); waves sealed with different metadata of the whole
  quote leave a job without one (`SameMeta`);
* confirmations: nothing renews the lease of a preview in the Azure program, so
  a slow one loses it and a second preview works the same answers in again (the
  condition `~lost`); answers that are sent again, from a second page or after a
  lost response, start a second preview beside the first, which drops the change
  that is published first, and they reopen a session that is approved or
  completed; an approval names no version of the table, so it may be of another
  than the customer saw (the condition `~crossed` for all three).

## 4. Proofs

`RelayQueue_proofs` proves, for any number of jobs, requests and conversations
and any bounds:
* `TypesHold`: `Spec => []TypeOK`. The inductive invariant adds to `TypeOK` that a
  submission in progress is about a job.
* `CancellationIsFinal`: `Spec => CancelledIsFinal`. `RecordSteps` reduces every
  action to what it does to one record; the theorem is a case split on that.
* `SourceIsPurged`: `Spec => []NoSourceKept`. `NoSourceKept` alone is not
  inductive: a delivery does not purge, it asks for the purge mark. The
  strengthening `Purged` says that a marked record has no text and that what is
  delivered or cancelled is marked.

`RelayWorkers_proofs` proves the invariants of RelayQueue that say how the workers and the
store agree. Its inductive invariant, on top of the types: whoever submits a job
or holds a chat of it is the engine the job is assigned to; a job in processing has a lease or a saved chat; up to its first retry
a queued record has a first text or the retry's mark, or is one that `fail_job` has
purged and not failed, which as long as nobody crashed is a record some worker
is about to fail (`FailureInv`); a delivery between guard and
receipt belongs to a job without a receipt of its last retry. From it follow
`OneEngineWorks` (`OneEnginePerJob`), `NobodyIsStranded`, `QueuedJobsStart`,
`DeliveryIsFresh`, and the action properties `FailureStays` and `DeliveryStays`, each by
one lemma per group of actions (claims, submissions, polls, ends, receipts).

It also proves the two invariants that rest on time and on the whole engine, each
under a proviso that is part of its statement:
* `ChatsAreMonitored` (`NeverResubmitted`), when the host does not stall past a
  lease, as in `queue_one`. `LeaseInv` says that what a live worker has in hand - a
  job it submits, or whose lease it would renew this round - has a live lease
  (`LeaseOK`, with `Attended` for the clock), and that a job claimed for its first
  prompt has no chat yet (`FirstPrompt`). So a job whose chat is being read is
  never there for a claim that would start it again.
* `UnplannedJobsAreAlone` (`OneUnplannedJob`), under the same condition and as long as no
  job was retried: a partial retry queues its job again without asking who has the
  engine. `Unplanned` collects the jobs of an engine that hold a slot, or will again
  without a claim because they wait for a sign-in or for the monitoring claim; at
  most one is of unknown size. For that, a worker that claims has nothing waiting for a
  sign-in (`SignedIn`), and an un-numbered job has one chat, with which it fails (`OneChat`).

`ChatWaves_proofs` proves every invariant of ChatWaves for any number of waves,
components, restarts and unconfirmed prompts, in layers that build on each other:
* `TypesHold`. `Typed` says of each step of the worker what it can have in hand, and
  of a chat or a draft which waves it can be about.
* `TextsAreKept` and `RetriesComeLast`. `NoTextLost` alone is not inductive: the purge
  comes steps after the prompt. The invariant adds that a worker function
  past its prompt has told its text (`TaskSent`), and that a retry, in progress or left
  in the composer, is there only when all texts were told (`DraftSent`), because a
  draft goes out with any later call. `Heard` is what a chat's turn does to the
  history; a step either is such a turn or leaves the history alone.
* `Ordered`, which the rest needs: where the loop can be when a function runs, that
  the retry is alone in progress, in which order the waves of a conversation run,
  and that a running wave has its chat.
* `ChatLimitHolds`: the conversations in use, which are those with a chat and those a
  function is about to give one, are at most the job's share (`BusyOK`).
* `PromptBudgetHolds`: for each wave and kind of prompt, the prompts that reached the
  agent and the one left in the composer are at most what the session's record
  says plus one for each crash and each missing confirmation (`Budget`). The record
  is written after the prompt, so a step in between needs a case of its own.
* `DeferredCoversOpenHolds`: the list of a wave that is deferred, or that a function is
  about to defer, has all its open lines (`Cover`).
* `FailureIsEarnedHolds`: what the record says was sent was sent (`Earned`).
* `ContinuationsAreBounded`: a conversation is asked to continue only when its turn
  brought a line to those that are done or on the list, so there are at most as many
  continuations as such lines, and fewer than components (`Count`, by cardinality).

`ConfirmationSession_proofs` proves the safety properties of `sessions_all` for any
number of pages, submissions, previews and restarts. While no lease was lost and
nothing crossed, a preview runs only for the session in processing, alone, about
the row's answers, and what is in memory is not behind the row (`Leased`); while, in
addition, no finished preview was withheld, the draft is the row's configuration and
the approved table is the row's (`Faithful`). `QuoteIsApproved`, `ChangesStay` and
`QuotedStays` are consequences. `WorkedInOnce` does not need the second condition:
answers sent again are a submission of their own, and `Once` says that whatever
previews run side by side, each has answers that neither the row, the draft nor
another preview has (`OnlyWith`), so that publishing one adds each at most once.

`ComponentBatches_proofs` proves what the queue, the worker and the seals of the MCP
server rest on: `LineInOneWave`, `FamilyInOneWave` and `PlanIsPartition` (no component
in two waves or in none, families together) and `ChatsAreSlots` (the two ways the
code rounds give the same number). The lemma behind the first three is `OneSlice`:
the pieces a list is cut into share no position and leave none out. That `RootOf`
itself is the top of the family is an induction and stays with TLC.

`QuoteDelivery_proofs` proves every property of `delivery_all` for any number of
calls, retries, quotes and restarts. The inductive invariant `IInv` has three
layers.
* Always: `NamesAreQuotes` (checkpoint, receipt and calls name records of
  generations that have been) and `LinkedCallsHaveLink`: a call that is past
  `createArtifact` has its index manifest on disk. With them `PublishedHasLink` is
  inductive, also when calls overlap.
* With one call at a time, `Alone`: as long as the checkpoint names no record,
  nobody knows one (`NothingKnown`), whatever `put()` left behind; a call delivers
  the named record, which is not delivered yet, or the one it found by its key
  until that is named (`CallIsNamed`); of the known records the named one is the
  newest and the only one that may be full (`NamedIsNewest`); a link leads to a
  workbook, and a call that has no link yet cannot remove one (`LinksAreLive`).
  From it follow `LinkWorksAlone`, `OneQuotePerGeneration`, `FinalReceiptStands` and
  `SavedResultStands`.
* ... and every receipt noted in its record (`~unmarked`), `Present` and
  `ReceiptIsDelivered`: receipts and calls in flight are of the job's generation. A
  partial retry raises the generation; that it finds no call in flight is the
  heart of `ReceiptOfGeneration`: such a call would deliver the named record, which
  is the receipt's and delivered.

The lemma `CallerDoes` sorts the steps of a call, and one lemma per layer
(`CommonStep`, `AloneStep`, `ServedStep`) has one case per action.

`PriceBatch_proofs` proves `BatchIsLedger`, the refinement, for any sets of calls,
ids, payloads, scopes, waves and requests: initial states map to initial states
and each action to a step of the ledger or a stutter. A call merges its answers
into a batch that others changed; the invariant `IInv` says that a call waits only
for ids that had no result in what it read, that ids with a result are asked ids,
and that a scope with a price has a billed context. Hence a price that arrived
meanwhile is kept (`Keep`) or the merge is refused (`Conflict`). `MergeAdds` is the
lemma about a merge and is what breaks when `Keep` is weakened. That a sealed wave
stays accounted for (`SealedAreComplete`) needs that its plan is frozen once it is
registered and that prices, on-demand prices included, stay. `CompletedCovered`
adds that the checkpoint of completion is written with the batch it was decided
on, and that nothing later takes evidence away: each planned scope has a price or
a page, or a sealed result that bills it on demand or as free. `AttemptsAreBounded` needs an account of the
requests: while calls do not overlap and none was cut off, every request that was
sent is an answer in the batch or belongs to the one call under way
(`SentIsSpent`), whose ids the limit counted before they were sent. It assumes
that the limit is at least one, which is what the policy accepts.

`BulkCatalog_proofs` proves the safety properties of `catalog_all` for catalogs of
any number of pages, editions, ids and any page limit. Its invariant says that a
download has every page before the one it goes on with, or all of them when it
starts over, and that published snapshots are complete, distinct from the
download and not deleted under a lookup. It also proves what no run repeats: at most
one partial download exists (`StagingIsOne`), and what lookups are served changes
only by a publication (`ServedStable`).

Assumptions: the ASSUMEs of the modules (`StoreAssumption`, `QueueAssumption`,
`DeliveryAssumption`, `RequestsAssumption`, `BatchAssumption`, `PagesAssumption`, ...),
which TLC evaluates in every run: bounds are numbers, model values are distinct,
requests are well-typed, and the query ids are finitely many.

Only model-checked: liveness (`ReceiptIsAdopted`, `SubmittedTextGoes`,
`JobEnds`, `DeferredIsRetried`, `SessionSettles`, `OldIsReplaced`), which is out of the
prover's reach, and that `RootOf` is the top of a family. Every safety property of
the passing runs is stated by a theorem. `NeverResubmitted` and `OneUnplannedJob` hold under the provisos of their theorems: no
host that stalls past a lease, and for the second no retry of a job. The runs that
check them (`queue_one`, `queue_two`) make the same provisos. Two hazards of
PROJECT.json have no property, and say why: the second prompt after a suspended
host, which the code does allow, and the five-minute refusal of a provider, about
which nothing stronger holds than that it ends.

## 5. Not modelled

* *The interpretation runtime.* `backend/app/aws_main.py:3-6` states that the
  legacy interpretation, selection, confirmation and BCM runtime is deliberately
  not imported by the production program. Its files are the largest of the
  repository (`deepseek.py`, `quote_service.py`, `generic_official.py`,
  `prompt_library.py`, `bcm_estimator.py`: over 33000 lines). They turn text into
  fields and fields into requests, sequentially and without shared state, and
  are not translated. This is why the modules cover a small share of the
  repository's lines while covering most of the code that keeps state.
* *Text and arithmetic*: prompts, parsing, price rows, workbooks, pages. They are
  data to the protocols above: evidence, a text or a plan is accepted or not.
* *The screen*: deep links, selectors, approvals. Their outcome (sent, not
  confirmed, signed out, an answer, none) is a choice in the models.
* *Without a protocol*: the MCP server's surface, the official pricing gateway,
  the domain library, the deployment scripts and the legacy calculators.
* *Of the batches*: the wording of the prompts and the values of the policy file. In
  RelayStore the number of conversations of a job is a constant.
* *OAuth gateway*: codes and tokens, each exchanged in one transaction of one process.
* In RelayQueue: promotion of chat references, the progress snapshot, uploads.
  In ChatWaves: errors that are neither a missing confirmation nor a timeout
  (the poll fails the job, as in RelayQueue), and partial retries (the same). In
  QuoteDelivery: the layout of the workbook. In ConfirmationSession: `cancel` and
  `shutdown` of the job manager, which no program calls. In BulkCatalog: the
  migration of older schema versions.

## 6. Plan

Done, in this order: RelayStore and RelayQueue with proofs; ChatWaves;
QuoteDelivery; QueryLifecycle, EvidenceLedger and PriceBatch; ConfirmationSession;
BulkCatalog; the proofs of QuoteDelivery, PriceBatch and BulkCatalog; the workers of
RelayQueue, ConfirmationSession and ChatWaves; ComponentBatches with proofs; the
other invariants of ChatWaves, the leases and un-numbered jobs of RelayQueue, and the
attempts of PriceBatch.

Left, in the order of their worth:

| Module | Of the code | Worth |
|---|---|---|
| compositions | - | ChatWaves over PriceBatch in place of its `Agents`; QuoteDelivery over RelayStore's `Reconciled` |
| OAuthCodes | `astraquote-mcp-oauth/app.py` | one token per code, with two clients and expiry |
