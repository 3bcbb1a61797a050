---------------------------- MODULE QuoteDelivery ----------------------------
(***************************************************************************)
(* buildEstimate and deliverRecord of the MCP server for one sales job:    *)
(* the quote record, its workbook in the object store, the manifest of the *)
(* download link, the checkpoint and the completion receipt.  A call of    *)
(* the tool runs to its next await in one step; other calls, the relay     *)
(* store (RelayStore) and a restart of the server come in between.  Where  *)
(* such a step makes several writes, an error or a death after each of     *)
(* them is an outcome of its own.                                          *)
(***************************************************************************)
EXTENDS Naturals, Sequences, FiniteSets

CONSTANTS
  Calls,          \* concurrent calls of build_estimate for the job
  AllowPartial,   \* delivery.allow_partial_sales_quote of the policy
  MaxRetries,     \* bound: partial retries
  MaxQuotes       \* bound: quote records

ASSUME DeliveryAssumption ==
  /\ AllowPartial \in BOOLEAN
  /\ MaxRetries \in Nat
  /\ MaxQuotes \in Nat \ {0}

VARIABLES
  job,         \* the relay job file: status, generation, receipt fresh or not
  quotes,      \* the quote records, in the order they were put
  keyed,       \* quotes an idempotency index leads to
  checkpoint,  \* the relay index: stage and quote_id (0: none)
  objects,     \* quotes with a workbook in the object store
  tokens,      \* quotes with a token manifest
  links,       \* quotes with the index manifest readExistingArtifact reads
  receipt,     \* the quote of the completion receipt (0: none)
  call,        \* where each call stands
  overlap,     \* history: two calls delivered at the same time
  unmarked     \* history: a receipt was written, but `delivered' not in its record

history == <<overlap, unmarked>>
vars == <<job, quotes, keyed, checkpoint, objects, tokens, links, receipt, call, history>>
artifacts == <<objects, tokens, links>>

-----------------------------------------------------------------------------
Stages == {"none", "estimate_validated", "artifacts_generated",
           "delivery_completed", "failed"}
Steps  == {"idle", "guard", "lookup", "render", "upload", "check", "remove",
           "token", "index", "saved", "permit", "receipt", "update"}
Delivered == {"completed", "partial"}
Ended     == Delivered \union {"cancelled", "failed"}

Quote == [generation : 0..MaxRetries, partial : BOOLEAN,
          delivery : {"pending", "delivered", "failed"}]

\* A call: its step, the quote it delivers, and whether it found that quote
\* (a replay has no error handler that marks the record).
Idle == [step |-> "idle", quote |-> 0, replay |-> FALSE]
Call == [step : Steps, quote : 0..MaxQuotes, replay : BOOLEAN]

TypeOK ==
  /\ job \in [status : {"queued", "processing", "stale"} \union Ended,
              generation : 0..MaxRetries, fresh : BOOLEAN]
  /\ quotes \in Seq(Quote) /\ Len(quotes) <= MaxQuotes
  /\ keyed \subseteq 1..MaxQuotes
  /\ checkpoint \in [stage : Stages, quote : 0..MaxQuotes]
  /\ \A s \in {objects, tokens, links} : s \subseteq 1..MaxQuotes
  /\ receipt \in 0..MaxQuotes
  /\ call \in [Calls -> Call]
  /\ overlap \in BOOLEAN /\ unmarked \in BOOLEAN

\* A job failed by an older poller, `stale', may still be finalized.
Init ==
  /\ job \in [status : {"processing", "stale"}, generation : {0}, fresh : {FALSE}]
  /\ quotes = <<>> /\ keyed = {}
  /\ checkpoint = [stage |-> "none", quote |-> 0]
  /\ objects = {} /\ tokens = {} /\ links = {}
  /\ receipt = 0
  /\ call = [c \in Calls |-> Idle]
  /\ overlap = FALSE /\ unmarked = FALSE

-----------------------------------------------------------------------------
(* The job and its records *)

\* canFinalizeRelayJob, read by every delivery guard.
CanFinalize == job.status \in {"processing", "stale"}

\* findByRelayJobId, and otherwise findByIdempotencyKey: the agent chooses the
\* key, so the call finds one of the indexed records or none.
Found == IF checkpoint.quote # 0 THEN {checkpoint.quote} ELSE keyed \union {0}

ReplayDelivered(q) == IF q # 0 /\ quotes[q].delivery # "delivered" THEN 0 ELSE q

\* The quote buildEstimate takes up again; a partial one of an earlier
\* generation is not a replay.
Replay(q) ==
  IF q # 0 /\ quotes[q].partial /\ job.generation > quotes[q].generation
  THEN 0 ELSE q

MarkDelivery(q, status) ==
  quotes' = [quotes EXCEPT ![q].delivery = status]

MarkStage(stage, q) == checkpoint' = [stage |-> stage, quote |-> q]

Delivering(c) == call[c].step # "idle"

Step(c, step) == call' = [call EXCEPT ![c].step = step]

Starts(c, q, replay) ==
  /\ call' = [call EXCEPT ![c] = [step |-> "guard", quote |-> q, replay |-> replay]]
  /\ overlap' = (overlap \/ \E d \in Calls \ {c} : Delivering(d))

-----------------------------------------------------------------------------
(* buildEstimate: everything up to the first await is one step *)

\* A delivered quote is returned as saved.
ReturnSaved(c) ==
  /\ ~Delivering(c)
  /\ \E q \in Found : Replay(q) # 0 /\ quotes[q].delivery = "delivered"
  /\ UNCHANGED vars

\* A quote that was put and not delivered is delivered again.
ReplayDelivery(c) ==
  /\ ~Delivering(c)
  /\ \E q \in Found :
       /\ Replay(q) # 0 /\ quotes[q].delivery # "delivered"
       /\ Starts(c, q, TRUE)
  /\ UNCHANGED <<job, quotes, keyed, checkpoint, artifacts, receipt, unmarked>>

\* A new quote is wanted: bindRelayJobContext wants an active job, and the
\* validated record is put.
Puts(c, partial) ==
  /\ ~Delivering(c) /\ Len(quotes) < MaxQuotes
  /\ \E q \in Found : Replay(q) = 0
  /\ CanFinalize
  /\ partial => AllowPartial
  /\ quotes' = Append(quotes, [generation |-> job.generation, partial |-> partial,
                               delivery |-> "pending"])

\* put() writes the record, its idempotency index and the checkpoint.
NewQuote(c, partial) ==
  /\ Puts(c, partial)
  /\ keyed' = keyed \union {Len(quotes')}
  /\ MarkStage("estimate_validated", Len(quotes'))
  /\ Starts(c, Len(quotes'), FALSE)
  /\ UNCHANGED <<job, artifacts, receipt, unmarked>>

\* put() stops after its first or its second write; no handler is told.
PutStops(c, partial) ==
  /\ Puts(c, partial)
  /\ keyed' \in {keyed, keyed \union {Len(quotes')}}
  /\ UNCHANGED <<job, checkpoint, artifacts, receipt, call, history>>

-----------------------------------------------------------------------------
(* createArtifact *)

\* An error ends the call.  Unless it is a replay, the handler of buildEstimate
\* marks the record and the checkpoint; either write of its own may fail, too.
Gives(c) ==
  /\ call' = [call EXCEPT ![c] = Idle]
  /\ \/ UNCHANGED <<quotes, checkpoint>>
     \/ /\ ~call[c].replay
        /\ MarkDelivery(call[c].quote, "failed")
        /\ UNCHANGED checkpoint \/ MarkStage("failed", call[c].quote)

\* assertDeliveryAllowed before the workbook is looked up, before it is
\* uploaded and before the receipt.
Guard(c) ==
  \E from \in {"guard", "render", "permit"} :
    /\ call[c].step = from
    /\ IF CanFinalize
       THEN /\ Step(c, CASE from = "guard"  -> "lookup"
                         [] from = "render" -> "upload"
                         [] from = "permit" -> "receipt")
            /\ UNCHANGED <<quotes, checkpoint>>
       ELSE Gives(c)
    /\ UNCHANGED <<keyed, job, artifacts, receipt, history>>

LookupNothing(c) ==
  /\ call[c].step = "lookup" /\ Step(c, "render")
  /\ UNCHANGED <<keyed, job, quotes, checkpoint, artifacts, receipt, history>>

\* readExistingArtifact.
Lookup(c) ==
  /\ call[c].step = "lookup"
  /\ Step(c, IF call[c].quote \in links THEN "saved" ELSE "render")
  /\ UNCHANGED <<keyed, job, quotes, checkpoint, artifacts, receipt, history>>

\* The key depends on the quote only: a second upload replaces the first.
Upload(c) ==
  /\ call[c].step = "upload"
  /\ objects' = objects \union {call[c].quote}
  /\ Step(c, "check")
  /\ UNCHANGED <<keyed, job, quotes, checkpoint, tokens, links, receipt, history>>

\* The guard after the upload; a job that ended meanwhile loses the object.
Check(c) ==
  /\ call[c].step = "check"
  /\ Step(c, IF CanFinalize THEN "token" ELSE "remove")
  /\ UNCHANGED <<keyed, job, quotes, checkpoint, artifacts, receipt, history>>

Remove(c) ==
  /\ call[c].step = "remove"
  /\ objects' \in {objects, objects \ {call[c].quote}}
  /\ Gives(c)
  /\ UNCHANGED <<keyed, job, tokens, links, receipt, history>>

WriteTokenOnly(c) ==
  /\ call[c].step = "token"
  /\ tokens' = tokens \union {call[c].quote}
  /\ Step(c, "saved")
  /\ UNCHANGED <<keyed, job, quotes, checkpoint, objects, links, receipt, history>>

\* writeArtifactManifest: the token file, then the index file.
WriteToken(c) ==
  /\ call[c].step = "token"
  /\ tokens' = tokens \union {call[c].quote}
  /\ Step(c, "index")
  /\ UNCHANGED <<keyed, job, quotes, checkpoint, objects, links, receipt, history>>

WriteIndex(c) ==
  /\ call[c].step = "index"
  /\ links' = links \union {call[c].quote}
  /\ Step(c, "saved")
  /\ UNCHANGED <<keyed, job, quotes, checkpoint, objects, tokens, receipt, history>>

-----------------------------------------------------------------------------
(* deliverRecord after the artifact *)

MarkDeliveredEarly(c) ==
  /\ call[c].step = "saved"
  /\ MarkStage("artifacts_generated", call[c].quote)
  /\ MarkDelivery(call[c].quote, "delivered")
  /\ Step(c, "permit")
  /\ UNCHANGED <<keyed, job, artifacts, receipt, history>>

\* The checkpoint names the workbook before the receipt is written.
SaveArtifactStage(c) ==
  /\ call[c].step = "saved"
  /\ MarkStage("artifacts_generated", call[c].quote)
  /\ Step(c, "permit")
  /\ UNCHANGED <<keyed, job, quotes, artifacts, receipt, history>>

\* writeRelayCompletionReceipt: the rename that publishes the receipt.
WriteReceipt(c) ==
  /\ call[c].step = "receipt"
  /\ receipt' = call[c].quote
  /\ job' = [job EXCEPT !.fresh = TRUE]
  /\ Step(c, "update")
  /\ UNCHANGED <<keyed, quotes, checkpoint, artifacts, history>>

\* The record and then the checkpoint: no await lies between them, ...
MarkDelivered(c) ==
  /\ call[c].step = "update"
  /\ MarkDelivery(call[c].quote, "delivered")
  /\ MarkStage("delivery_completed", call[c].quote)
  /\ call' = [call EXCEPT ![c] = Idle]
  /\ UNCHANGED <<job, keyed, artifacts, receipt, history>>

\* ... but the server may die there, or the checkpoint fail and after it the
\* handler, or there be none, for a replay: only the record is marked.
MarkRecordOnly(c) ==
  /\ call[c].step = "update"
  /\ MarkDelivery(call[c].quote, "delivered")
  /\ call' = [call EXCEPT ![c] = Idle]
  /\ UNCHANGED <<job, keyed, checkpoint, artifacts, receipt, history>>

\* The object store, a manifest, the checkpoint or the receipt cannot be written.
WriteFails(c) ==
  /\ call[c].step \in {"render", "upload", "token", "index", "saved", "receipt"}
  /\ Gives(c)
  /\ UNCHANGED <<job, keyed, artifacts, receipt, history>>

\* The receipt is in place, but the record cannot be updated; or it can, its
\* checkpoint cannot, and the handler writes `failed' over `delivered' at once.
UpdateFails(c) ==
  /\ call[c].step = "update"
  /\ Gives(c)
  /\ unmarked' = TRUE
  /\ UNCHANGED <<job, keyed, artifacts, receipt, overlap>>

-----------------------------------------------------------------------------
(* The relay store and the process *)

\* reconcile_delivery_receipt: a receipt newer than the last retry request
\* decides the outcome, unless the job was stopped or already has its result.
Adopt ==
  /\ receipt # 0 /\ job.fresh
  /\ job.status \notin Delivered \union {"cancelled"}
  /\ job' = [job EXCEPT !.status =
               IF quotes[receipt].partial THEN "partial" ELSE "completed"]
  /\ UNCHANGED <<keyed, quotes, checkpoint, artifacts, receipt, call, history>>

\* cancel() of the sales page, and the worker's fail().
Stop(status) ==
  /\ job.status \in {"queued", "processing"}
  /\ status \in {"cancelled", "failed"}
  /\ job' = [job EXCEPT !.status = status]
  /\ UNCHANGED <<keyed, quotes, checkpoint, artifacts, receipt, call, history>>

RetryKeepsReceipt ==
  /\ job.status = "partial" /\ job.generation < MaxRetries
  /\ job' = [job EXCEPT !.status = "queued", !.generation = @ + 1]
  /\ UNCHANGED <<keyed, quotes, checkpoint, artifacts, receipt, call, history>>

\* retry_partial, and the worker's next claim.
RetryPartial ==
  /\ job.status = "partial" /\ job.generation < MaxRetries
  /\ job' = [status |-> "queued", generation |-> job.generation + 1, fresh |-> FALSE]
  /\ UNCHANGED <<keyed, quotes, checkpoint, artifacts, receipt, call, history>>

Claim ==
  /\ job.status = "queued"
  /\ job' = [job EXCEPT !.status = "processing"]
  /\ UNCHANGED <<keyed, quotes, checkpoint, artifacts, receipt, call, history>>

\* The server restarts: calls are gone, files stay.
Restart ==
  /\ \E c \in Calls : Delivering(c)
  /\ call' = [c \in Calls |-> Idle]
  /\ unmarked' = (unmarked \/ \E c \in Calls : call[c].step = "update")
  /\ UNCHANGED <<job, quotes, keyed, checkpoint, artifacts, receipt, overlap>>

-----------------------------------------------------------------------------
Caller(c) ==
  \/ ReturnSaved(c) \/ ReplayDelivery(c)
  \/ \E partial \in BOOLEAN : NewQuote(c, partial) \/ PutStops(c, partial)
  \/ Guard(c) \/ Lookup(c) \/ Upload(c) \/ Check(c) \/ Remove(c)
  \/ WriteToken(c) \/ WriteIndex(c) \/ SaveArtifactStage(c)
  \/ WriteReceipt(c) \/ MarkDelivered(c) \/ MarkRecordOnly(c)
  \/ WriteFails(c) \/ UpdateFails(c)

Next ==
  \/ \E c \in Calls : Caller(c)
  \/ Adopt \/ RetryPartial \/ Claim \/ Restart
  \/ \E status \in Ended : Stop(status)

Spec == Init /\ [][Next]_vars

-----------------------------------------------------------------------------
(* Properties *)

Live(q) == q \in objects /\ q \in tokens

\* The download link of a job the sales page shows as delivered resolves to a
\* workbook: the object is not deleted by another call that delivers the same
\* quote (QuoteDeliveryService._createOrReuseArtifact).
LinkWorks == job.status \in Delivered => receipt # 0 /\ Live(receipt)

\* With one call at a time the link works, whatever restarts, stops, failed
\* writes and retries come in between.
LinkWorksAlone == ~overlap => LinkWorks

\* Whatever is published names a quote whose index manifest is on disk, also
\* when calls overlap or the server restarts: neither a receipt nor a delivered
\* record gets ahead of its artifact (the order of deliverRecord).
PublishedHasLink ==
  \A q \in DOMAIN quotes :
    receipt = q \/ quotes[q].delivery = "delivered" => q \in links

\* With one call at a time the receipt of a completed job is its last: a
\* repeated build_estimate, a restart and an old retry never replace it.
FinalReceiptStands ==
  [][ job.status = "completed" /\ ~overlap => receipt' = receipt ]_vars

\* The records the rest of the system sees: named by the checkpoint or the
\* receipt, or marked.  (A put that stops leaves a record nobody may ever find.)
Known(q) == q \in {checkpoint.quote, receipt} \/ quotes[q].delivery # "pending"

\* One quote per generation of the job, with one call at a time: whatever write
\* fails and whenever the server dies, the index leads back to the quote that
\* was put for this generation, or nobody has seen that quote.
OneQuotePerGeneration ==
  ~overlap => \A i, j \in DOMAIN quotes :
                i # j /\ Known(i) /\ Known(j) =>
                  quotes[i].generation # quotes[j].generation

\* The result that resume_quote_job returns "exactly as saved" stays saved: with
\* one call at a time, a record that a call may find delivered is never marked
\* otherwise afterwards.
SavedResultStands ==
  [][ ~overlap' => \A q \in DOMAIN quotes :
        quotes[q].delivery = "delivered" => quotes'[q].delivery = "delivered" ]_vars

\* A receipt the job still accepts is one of its present generation, with one
\* call at a time, if every receipt written so far was noted in its record: a
\* late receipt never answers a newer partial retry (reconcile_delivery_receipt
\* compares times, not generations).  A record that was not marked can be
\* delivered again, beside the retry.
ReceiptOfGeneration ==
  ~overlap /\ ~unmarked /\ job.fresh => quotes[receipt].generation = job.generation
=============================================================================
