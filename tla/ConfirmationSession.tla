------------------------- MODULE ConfirmationSession -------------------------
(***************************************************************************)
(* One customer confirmation of the Azure program: the session row in      *)
(* SQLite, the preview and quote jobs of the server's memory, the pages    *)
(* the customer has open on the link and that of sales                     *)
(* (confirmation_sessions.py, quote_jobs.py, azure_main.py,                *)
(* azure_quote_service.py, the two pages).                                 *)
(* An HTTP handler has no await inside, so it is one step; a preview is    *)
(* three: started by a handler, it reads the configuration after its first *)
(* await and publishes when it ends.                                       *)
(***************************************************************************)
EXTENDS Naturals

CONSTANTS
  None,         \* no configuration
  Pages,        \* the pages the customer has open on the link
  MaxEdits,     \* bound: submissions of the customer
  Jobs,         \* bound: previews that may run at once
  MaxRestarts,  \* bound: restarts of the server
  Lease,        \* CONFIGURATION_PROCESSING_LEASE_SECONDS (120 s)
  Timeout,      \* preview_timeout_seconds (300 s)
  Stale         \* CONFIGURATION_REPROCESSING_STALE_SECONDS (480 s)

ASSUME TimesAssumption == /\ Lease \in Nat /\ Timeout \in Nat /\ Stale \in Nat
                          /\ Lease < Timeout /\ Timeout < Stale
ASSUME BoundsAssumption == MaxEdits \in Nat /\ MaxRestarts \in Nat

VARIABLES
  row,       \* the session: status, configuration, answers, two ages
  draft,     \* AzureQuoteService._drafts: the configuration in memory
  job,       \* the preview jobs
  tab,       \* what each of the customer's pages shows
  sales,     \* the sales page
  quote,     \* the configuration that is priced
  edits,     \* submissions so far
  restarts,
  approved,  \* history: the configuration the customer saw and approved
  lost,      \* history: a session left "processing" while its preview ran
  crossed,   \* history: a page answered, or approved, what the session had left
  unpublished \* history: a preview ended and published nothing

history == <<approved, lost, crossed, unpublished>>
vars == <<row, draft, job, tab, sales, quote, edits, restarts, history>>

Edits == 1..MaxEdits
\* A configuration: how often each submission has been worked into it (capped
\* at 2; a deletion by index or an addition is not the same when repeated).
Configurations == [Edits -> 0..2]
Original == [e \in Edits |-> 0]
Worked(cfg, answers) ==
  [e \in Edits |-> IF e \in answers /\ cfg[e] < 2 THEN cfg[e] + 1 ELSE cfg[e]]

Idle == [age |-> 0, asked |-> {}, cfg |-> None]

TypeOK ==
  /\ row \in [status : {"pending", "reviewing", "processing",
                        "configuration_review", "approved", "completed"},
              cfg : Configurations, answers : SUBSET Edits,
              lease : 0..(Lease + 1), age : 0..(Stale + 1)]
  /\ draft \in Configurations \union {None}
  /\ job \in [Jobs -> [age : 0..Timeout, asked : SUBSET Edits, cfg : Configurations \union {None}]]
  /\ tab \in [Pages -> [status : {"pending", "reviewing", "processing",
                                  "configuration_review", "approved", "completed"},
                       table : Configurations \union {None}]]
  /\ sales \in {"watching", "starting", "pricing", "ended"}
  /\ edits \in 0..MaxEdits /\ restarts \in 0..MaxRestarts

\* A page shows the session's status, and in the end the table to approve.
Shown(r) == [status |-> r.status,
             table  |-> IF r.status = "configuration_review" THEN r.cfg ELSE None]

\* The first preview has asked questions or gone straight to the final table.
Init ==
  /\ \E s \in {"pending", "configuration_review"} :
       /\ row = [status |-> s, cfg |-> Original, answers |-> {}, lease |-> 0, age |-> 0]
       /\ tab = [p \in Pages |-> Shown(row)]
  /\ draft = Original
  /\ job = [j \in Jobs |-> Idle]
  /\ sales = "watching" /\ quote = None
  /\ edits = 0 /\ restarts = 0
  /\ approved = None /\ lost = FALSE /\ crossed = FALSE /\ unpublished = FALSE

Running == {j \in Jobs : job[j].asked # {}}
Free    == Jobs \ Running

-----------------------------------------------------------------------------
(* The store *)

\* get(): a lease that was not renewed is given up; an abandoned submission
\* becomes the editable table again.  The row keeps its configuration.
LeaseChecked(r) ==
  IF r.status = "processing" /\ r.lease > Lease
  THEN [r EXCEPT !.status = "reviewing", !.lease = 0] ELSE r
AbandonedUnchecked(r) == r
Abandoned(r) ==
  IF r.status = "reviewing" /\ r.age > Stale
  THEN [r EXCEPT !.status = "configuration_review"] ELSE r
Got(r) == Abandoned(LeaseChecked(r))

\* submit and submit_configuration_feedback
Submitted(r, e) ==
  [r EXCEPT !.status = "reviewing", !.answers = {e}, !.lease = 0, !.age = 0]

\* begin_configuration_reprocessing, without an owner.
ClaimedLater(r) == [r EXCEPT !.lease = 0]
Claimed(r) == [r EXCEPT !.status = "processing", !.lease = 0]

\* create_or_replace with questions; without, and prepare_configuration_review.
Asking(r, cfg) ==
  [r EXCEPT !.status = "pending", !.cfg = cfg, !.answers = {}, !.lease = 0, !.age = 0]
Reviewing(r, cfg) ==
  [r EXCEPT !.status = "configuration_review", !.cfg = cfg, !.lease = 0, !.age = 0]

\* complete_by_draft
Completed(r) ==
  IF r.status \in {"reviewing", "processing", "approved"}
  THEN [r EXCEPT !.status = "completed", !.lease = 0] ELSE r

-----------------------------------------------------------------------------
(* The handlers *)

\* After get() or a submission: claim what is to be processed and start its
\* preview with the saved answers.  No heartbeat will follow: AzureQuoteService
\* has no heartbeat_configuration_reprocessing.
Serve(r) ==
  IF r.status = "reviewing"
  THEN /\ Free # {}
       /\ row' = Claimed(r)
       /\ job' = [job EXCEPT ![CHOOSE j \in Free : TRUE] =
                    [age |-> 0, asked |-> r.answers, cfg |-> None]]
  ELSE row' = r /\ UNCHANGED job

Loses(r) == row.status = "processing" /\ LeaseChecked(r) # r /\ Running # {}

Get ==
  /\ Serve(Got(row))
  /\ lost' = (lost \/ Loses(row))

-----------------------------------------------------------------------------
(* The customer's pages *)

Show(p) == tab' = [tab EXCEPT ![p] = Shown(row')]

\* A response that is lost leaves a page with the questions or the table it
\* had, for the customer to send again.
ShowOrNot(p) == Show(p) \/ UNCHANGED tab

Reload(p) ==
  /\ Get /\ Show(p)
  /\ UNCHANGED <<draft, sales, quote, edits, restarts, approved, crossed, unpublished>>

\* A page reads the session on a timer, except while it shows questions or
\* the end.
TabPolls(p) == tab[p].status \notin {"pending", "completed"} /\ Reload(p)

\* submit takes answers whatever has become of the session meanwhile: from a
\* page that was open on the side, or sent again when a response was lost.
Answer(p) ==
  /\ tab[p].status = "pending" /\ edits < MaxEdits
  /\ Serve(Submitted(row, edits + 1)) /\ ShowOrNot(p)
  /\ edits' = edits + 1
  /\ crossed' = (crossed \/ row.status # "pending")
  /\ UNCHANGED <<draft, sales, quote, restarts, approved, lost, unpublished>>

\* submit_configuration_feedback checks the session.
Feedback(p) ==
  /\ tab[p].status = "configuration_review" /\ edits < MaxEdits
  /\ row.status = "configuration_review"
  /\ Serve(Submitted(row, edits + 1)) /\ ShowOrNot(p)
  /\ edits' = edits + 1
  /\ UNCHANGED <<draft, sales, quote, restarts, approved, lost, crossed, unpublished>>

\* approve_configuration checks the status; the request names no version of the
\* table the customer saw.
Approve(p) ==
  /\ tab[p].status = "configuration_review"
  /\ row.status = "configuration_review"
  /\ row' = [row EXCEPT !.status = "approved"] /\ ShowOrNot(p)
  /\ approved' = tab[p].table
  /\ crossed' = (crossed \/ tab[p].table # row.cfg)
  /\ UNCHANGED <<draft, job, sales, quote, edits, restarts, lost, unpublished>>

-----------------------------------------------------------------------------
(* Previews: QuoteJobManager._run_preview, AzureQuoteService.preview *)

\* _intent_for_request at the start of a preview or quote.
Configuration(r) == IF draft # None THEN draft ELSE r.cfg

PreviewReads(j) ==
  /\ j \in Running /\ job[j].cfg = None
  /\ job' = [job EXCEPT ![j].cfg = Worked(Configuration(row), job[j].asked)]
  /\ UNCHANGED <<row, draft, tab, sales, quote, edits, restarts, history>>

Ends(j) == j \in Running /\ job' = [job EXCEPT ![j] = Idle]

PublishesRowOnly(j) ==
  /\ Ends(j) /\ job[j].cfg # None
  /\ row' \in {Asking(row, job[j].cfg), Reviewing(row, job[j].cfg)}
  /\ UNCHANGED <<draft, tab, sales, quote, edits, restarts, history>>

\* The result is published whatever has become of the session meanwhile.
PreviewPublishes(j) ==
  /\ Ends(j) /\ job[j].cfg # None
  /\ row' \in {Asking(row, job[j].cfg), Reviewing(row, job[j].cfg)}
  /\ draft' = job[j].cfg
  /\ UNCHANGED <<tab, sales, quote, edits, restarts, history>>

\* An internal issue is left: the draft is replaced, nothing is published.
PreviewWithholds(j) ==
  /\ Ends(j) /\ job[j].cfg # None
  /\ draft' = job[j].cfg
  /\ unpublished' = TRUE
  /\ UNCHANGED <<row, tab, sales, quote, edits, restarts, approved, lost, crossed>>

\* A timeout or an error; there is no recovery of the session in Azure.
PreviewFails(j) ==
  /\ Ends(j)
  /\ UNCHANGED <<row, draft, tab, sales, quote, edits, restarts, history>>

PreviewEnds(j) == PreviewPublishes(j) \/ PreviewWithholds(j) \/ PreviewFails(j)

-----------------------------------------------------------------------------
(* The sales page and the quote job *)

SalesPolls ==
  /\ sales = "watching"
  /\ Get
  /\ sales' = IF row'.status = "approved" THEN "starting" ELSE sales
  /\ UNCHANGED <<draft, tab, quote, edits, restarts, approved, crossed, unpublished>>

\* create_quote checks the session and reads the configuration in one step.
QuoteStarts ==
  /\ sales = "starting"
  /\ IF row.status = "approved"
     THEN quote' = Configuration(row) /\ sales' = "pricing"
     ELSE sales' = "ended" /\ UNCHANGED quote
  /\ UNCHANGED <<row, draft, job, tab, edits, restarts, history>>

QuoteEnds ==
  /\ sales = "pricing" /\ sales' = "ended"
  /\ row' \in {Completed(row), row}
  /\ UNCHANGED <<draft, job, tab, quote, edits, restarts, history>>

-----------------------------------------------------------------------------
(* Time and restarts *)

Older(n, limit) == IF n < limit THEN n + 1 ELSE n

\* The two ages matter while a submission is in processing.
Aged(r) ==
  IF r.status = "processing"
  THEN [r EXCEPT !.lease = Older(@, Lease + 1), !.age = Older(@, Stale + 1)] ELSE r

TickWithoutLimit ==
  /\ row' = Aged(row)
  /\ job' = [j \in Jobs |-> IF j \in Running THEN [job[j] EXCEPT !.age = @ + 1] ELSE job[j]]
  /\ UNCHANGED <<draft, tab, sales, quote, edits, restarts, history>>

\* A job is ended at its time limit.
Tick ==
  /\ \A j \in Running : job[j].age < Timeout
  /\ row' = Aged(row)
  /\ job' = [j \in Jobs |-> IF j \in Running THEN [job[j] EXCEPT !.age = @ + 1] ELSE job[j]]
  /\ UNCHANGED <<draft, tab, sales, quote, edits, restarts, history>>

\* Jobs and drafts are in memory only; the pages poll on and find a 404.
Restart ==
  /\ restarts < MaxRestarts
  /\ restarts' = restarts + 1
  /\ job' = [j \in Jobs |-> Idle] /\ draft' = None
  /\ sales' = IF sales \in {"starting", "pricing"} THEN "ended" ELSE sales
  /\ UNCHANGED <<row, tab, quote, edits, history>>

Next ==
  \/ \E p \in Pages : Reload(p) \/ TabPolls(p) \/ Answer(p) \/ Feedback(p) \/ Approve(p)
  \/ \E j \in Jobs : PreviewReads(j) \/ PreviewEnds(j)
  \/ SalesPolls \/ QuoteStarts \/ QuoteEnds
  \/ Tick \/ Restart

\* A page polls on a timer, a job ends by itself or at its time limit.
Fairness ==
  /\ \A p \in Pages : WF_vars(TabPolls(p))
  /\ WF_vars(Tick)
  /\ \A j \in Jobs : WF_vars(PreviewEnds(j))

Spec     == Init /\ [][Next]_vars
FairSpec == Spec /\ Fairness

-----------------------------------------------------------------------------
(* Properties *)

\* Whatever fails, is lost or restarts: a page that shows a submission in
\* processing gets a table, questions or an end for it (get()).
SessionSettles ==
  \A p \in Pages : tab[p].status = "processing" ~> tab[p].status # "processing"

\* No finished change of the customer is dropped again, as long as no preview
\* lost its lease while it ran and no page sent answers to a session that no
\* longer asked: each preview builds on what the last one left.
EditsStay ==
  [][~lost' /\ ~crossed' => \A e \in Edits : row'.cfg[e] >= row.cfg[e]]_vars

\* The configuration that is priced is the one the customer saw and approved,
\* as long as every preview kept its lease and published what it found, and
\* every page answered and approved what the session was at.
QuotedAsApproved ==
  quote # None /\ ~lost /\ ~crossed /\ ~unpublished => quote = approved

\* No submission is worked into the configuration twice, whatever is retried
\* after a restart or a failure and whatever page sends more answers, as long
\* as every preview kept its lease and published what it found.
WorkedOnceKept == ~lost /\ ~unpublished => \A e \in Edits : row.cfg[e] <= 1

\* A quoted session is not reopened, as long as no lease was lost and no page
\* sent answers to a session that no longer asked.
CompletedStays ==
  [][row.status = "completed" /\ ~lost' /\ ~crossed' => row'.status = "completed"]_vars

\* A quote is made of the configuration the customer approved, whatever fails
\* (leases kept, answers not crossed): get() tells the customer of a change
\* that failed that the original configuration was kept.
QuotedIsApproved == quote # None /\ ~lost /\ ~crossed => quote = approved
=============================================================================
