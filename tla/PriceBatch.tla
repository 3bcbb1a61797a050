----------------------------- MODULE PriceBatch -----------------------------
(***************************************************************************)
(* The price batch of one numbered sales job in the MCP server: get_prices *)
(* of several chats, each with its own view of the batch while it waits    *)
(* for the official API, the results of component waves, and the quote     *)
(* that is assembled from them (v2-workflow.js, pricing-capability-store). *)
(***************************************************************************)
EXTENDS QueryLifecycle

CONSTANTS
  Calls,        \* calls of get_prices that may be under way together
  WaveOf,       \* the wave (relay batch) of a component
  FallbackOf,   \* the on-demand scopes whose price may stand for a commitment scope
  Requests,     \* the requests the agents may make
  LocalRoutes,  \* payloads with a route_id of the local AWS routes
  Metas,        \* whole-quote metadata a wave's result may carry
  NoMeta,
  AttemptLimit, \* official_api_network_attempt_limit_per_scope of the policy (2)
  MaySend,      \* bound: the answers the official API may give
  MayBeFree,    \* bound: the components a result may list as free of charge
  Nobody        \* no request: the call is idle

Waves == {WaveOf[c] : c \in Components}
ComponentsIn(w) == {c \in Components : WaveOf[c] = w}
WaveOfScope(s) == WaveOf[OwnerOf[s]]

\* A request: the wave, the scopes of its plan ({}: no plan), the queries with
\* payload and context, and page evidence as pairs of scope and attempt.
ASSUME RequestsAssumption ==
  \A r \in Requests :
    /\ r.wave \in Waves /\ r.plan \subseteq Scopes
    /\ DOMAIN r.ask \subseteq Ids /\ DOMAIN r.ask # {}
    /\ \A id \in DOMAIN r.ask :
         r.ask[id].payload \in Payloads /\ r.ask[id].context \in Contexts
    /\ r.page \subseteq Scopes \X Ids

\* What a call keeps while it waits: its request, the queries it saw, those it
\* asks the API and those it answers itself.
Waiting ==
  [request : Requests, seen : UNION {[S -> Payloads] : S \in SUBSET Ids},
   asked : SUBSET Ids, skipped : SUBSET Ids]

ASSUME BatchAssumption ==
  /\ FallbackOf \in [Scopes -> SUBSET Scopes]
  /\ IsFiniteSet(Ids) /\ Payloads # {}
  /\ NoMeta \notin Metas /\ MaySend \subseteq Answers /\ MayBeFree \subseteq Components
  /\ AttemptLimit \in Nat \ {0} /\ Nobody \notin Waiting

VARIABLES
  batch,       \* the saved price batch
  stage,       \* the stage of the checkpoint
  refused,     \* capability store: recent refusal without a later success
  call,        \* the requests under way, with what they read and asked
  quote,       \* whether the whole quote is built, and its zero-cost components
  sent,        \* history: requests sent per scope, until disturbed
  disturbed    \* history: calls overlapped, were lost, or asked a scope twice

vars == <<batch, stage, refused, call, quote, sent, disturbed>>

NewBatch ==
  [order |-> <<>>, payload |-> [id \in Ids |-> CHOOSE p \in Payloads : TRUE],
   result |-> [id \in Ids |-> "none"], context |-> [id \in Ids |-> NoContext],
   plan |-> {}, page |-> {}, seal |-> [w \in Waves |-> NoMeta], free |-> {}]

Init ==
  /\ batch = NewBatch
  /\ stage = "created"
  /\ refused = FALSE
  /\ call = [c \in Calls |-> Nobody]
  /\ quote = [built |-> FALSE, free |-> {}]
  /\ sent = [s \in Scopes |-> 0]
  /\ disturbed = FALSE

TypeOK ==
  /\ \A i, j \in DOMAIN batch.order : batch.order[i] = batch.order[j] => i = j
  /\ Asked(batch) \subseteq Ids
  /\ batch.result \in [Ids -> Kinds] /\ batch.context \in [Ids -> Contexts]
  /\ batch.plan \subseteq Scopes /\ batch.page \subseteq Scopes
  /\ batch.seal \in [Waves -> Metas \union {NoMeta}] /\ batch.free \subseteq Components
  /\ stage \in {"created", "pricing_partial", "pricing_completed",
                "pricing_request_rejected", "estimate_validated"}
  /\ call \in [Calls -> Waiting \union {Nobody}]
  /\ quote \in [built : BOOLEAN, free : SUBSET Components]
  /\ refused \in BOOLEAN /\ disturbed \in BOOLEAN

-----------------------------------------------------------------------------
(* The batch as one request sees it *)

Registered(b, w) == \E s \in b.plan : WaveOfScope(s) = w
AllRegistered(b) == \A w \in Waves : Registered(b, w)
Sealed(b, w) == b.seal[w] # NoMeta
SealedComponents(b) == {c \in Components : Sealed(b, WaveOf[c])}

\* sealedComponentPlan and relayBatchPlan: the first plan of a wave has
\* exactly its components; a later one repeats it.
PlanFits(b, r) ==
  /\ r.plan = {} => Registered(b, r.wave)
  /\ r.plan # {} => {OwnerOf[s] : s \in r.plan} = ComponentsIn(r.wave)
  /\ r.plan # {} /\ Registered(b, r.wave) =>
       r.plan = {s \in b.plan : WaveOfScope(s) = r.wave}

Update(r) == [id \in DOMAIN r.ask |-> r.ask[id].context]

\* The queries, contexts and plan of a request on top of the batch b.
WithRequest(b, r) ==
  LET new == {id \in DOMAIN r.ask : id \notin Asked(b)}
      order == CHOOSE q \in [1..Cardinality(new) -> new] :
                 \A i, j \in DOMAIN q : i # j => q[i] # q[j]
  IN  [b EXCEPT
        !.order   = @ \o order,
        !.payload = [id \in Ids |-> IF id \in DOMAIN r.ask
                                    THEN r.ask[id].payload ELSE @[id]],
        !.context = MergedContexts(@, Update(r)),
        !.plan    = @ \union r.plan]

\* Every query declares discovery or a planned scope of its own wave
\* (assertFormalQuotePricingPlan, relayBatchPlan).
ScopesFit(b, r) ==
  \A id \in DOMAIN r.ask : ScopeOf(b, id) # NoScope =>
    ScopeOf(b, id) \in b.plan /\ WaveOfScope(ScopeOf(b, id)) = r.wave

\* assertSingleRelayComponentProgressCall.
OneComponent(b, r) ==
  \A x, y \in {id \in DOMAIN r.ask : ScopeOf(b, id) # NoScope /\ ~Done(b, id)} :
    OwnerOf[ScopeOf(b, x)] = OwnerOf[ScopeOf(b, y)]

\* A query that has a price is not asked for something else.
SamePayload(b, n, r) ==
  \A id \in DOMAIN r.ask : Reusable(b.result[id], ScopeOf(n, id)) =>
    b.payload[id] = r.ask[id].payload

Acceptable(b, r) ==
  LET n == WithRequest(b, r)
  IN  /\ PlanFits(b, r)
      /\ ContextsFit(b.context, Update(r), Asked(n))
      /\ ScopesFit(n, r) /\ OneComponent(n, r) /\ SamePayload(b, n, r)

-----------------------------------------------------------------------------
(* Which queries go out: the loop over materializedQueries *)

\* Earlier unusable attempts of the scope, with the contexts of the request.
Tried(b, n, s) ==
  {id \in Asked(b) : ScopeOf(n, id) = s /\ s # NoScope /\ b.result[id] # "none"
                     /\ ~Reusable(b.result[id], s)}

CountedFailed(b, tried) == {id \in tried : b.result[id] = "failed"}
Counted(b, tried) == {id \in tried : b.result[id] # "skipped"}

Skipped(b, r, id) ==
  LET n     == WithRequest(b, r)
      tried == Tried(b, n, ScopeOf(n, id))
  IN  \/ \E old \in tried : b.payload[old] = r.ask[id].payload
      \/ \E old \in tried : b.payload[old] \in LocalRoutes /\ b.result[old] # "input"
      \/ Cardinality(Counted(b, tried)) >= AttemptLimit
      \/ refused

\* A query with any saved result is never sent again.
Unanswered(b, r) == {id \in DOMAIN r.ask : b.result[id] = "none"}
Skips(b, r)  == {id \in Unanswered(b, r) : Skipped(b, r, id)}
Outgoing(b, r) == Unanswered(b, r) \ Skips(b, r)

-----------------------------------------------------------------------------
(* The merge after the await *)

\* The queries a call saw before it waited.
Queries(b) == [id \in Asked(b) |-> b.payload[id]]

\* Another request gave the query id another meaning meanwhile.
Conflict(b, seen, r) ==
  \E id \in DOMAIN r.ask \intersect Asked(b) :
    /\ id \in DOMAIN seen => b.payload[id] # seen[id]
    /\ b.payload[id] # r.ask[id].payload

KeepNothing(b, n, id) == FALSE
\* A saved price is kept when a slower answer to the same query arrives.
Keep(b, n, id) ==
  Reusable(b.result[id], ScopeOf(n, id)) /\ b.payload[id] = n.payload[id]

WithAnswers(b, n, answer) ==
  [n EXCEPT !.result =
     [id \in Ids |-> IF id \in DOMAIN answer /\ ~Keep(b, n, id)
                     THEN answer[id] ELSE @[id]]]

\* mergeSavedOfficialPageEvidence: page evidence of a planned scope, backed by
\* an unusable attempt of that scope, and no price of that scope so far.
PageFits(b, page) ==
  /\ page[1] \in b.plan
  /\ ScopeOf(b, page[2]) = page[1] /\ b.result[page[2]] # "none"
  /\ \A id \in Attempts(b, page[1]) : ~Done(b, id)

WithPages(b, r) == [b EXCEPT !.page = @ \union {page[1] : page \in r.page}]

Merged(b, r, answer) ==
  WithPages(WithAnswers(b, WithRequest(b, r), answer), r)

Mergeable(b, seen, r, answer) ==
  /\ ~Conflict(b, seen, r)
  /\ PlanFits(b, r)
  /\ ContextsFit(b.context, Update(r), Asked(WithRequest(b, r)))
  /\ \A page \in r.page : PageFits(WithAnswers(b, WithRequest(b, r), answer), page)

PricedOut(b) ==
  \A s \in b.plan :
    ComponentState(b, OwnerOf[s], SealedComponents(b)) = "completed"
CompletedAnyPlan(b) == PricedOut(b)
Completed(b) == AllRegistered(b) /\ PricedOut(b)

\* The results are merged into the latest batch, or the call ends in an error.
Save(r, seen, answer) ==
  IF Mergeable(batch, seen, r, answer)
  THEN /\ batch' = Merged(batch, r, answer)
       /\ stage' = IF Completed(batch') THEN "pricing_completed" ELSE "pricing_partial"
       /\ UNCHANGED disturbed
  ELSE UNCHANGED <<batch, stage>> /\ disturbed' = TRUE

-----------------------------------------------------------------------------
(* get_prices *)

Asks(r, s) ==
  Cardinality({id \in Outgoing(batch, r) : r.ask[id].context.scope = s})

\* Nothing to ask: the call is done in one step.
GetSaved(c, r) ==
  /\ Outgoing(batch, r) = {}
  /\ Save(r, Queries(batch), [id \in Skips(batch, r) |-> "skipped"])
  /\ UNCHANGED <<refused, call, quote, sent>>

AskApi(c, r) ==
  /\ Outgoing(batch, r) # {}
  /\ call' = [call EXCEPT ![c] =
       [request |-> r, seen |-> Queries(batch), asked |-> Outgoing(batch, r),
        skipped |-> Skips(batch, r)]]
  /\ sent' = [s \in Scopes |-> IF disturbed THEN 0 ELSE sent[s] + Asks(r, s)]
  /\ disturbed' = (disturbed \/ (\E d \in Calls : call[d] # Nobody)
                    \/ \E s \in Scopes : Asks(r, s) > 1)
  /\ UNCHANGED <<batch, stage, refused, quote>>

GetPrices(c) ==
  /\ call[c] = Nobody
  /\ \E r \in {x \in Requests : Acceptable(batch, x)} : GetSaved(c, r) \/ AskApi(c, r)

\* recordCapabilityBatch: a success outweighs a refusal of the same moment.
RecordedRefusal(answer) ==
  IF \E id \in DOMAIN answer : answer[id] \in {"priced", "listed"} THEN FALSE
  ELSE refused \/ \E id \in DOMAIN answer : answer[id] = "refused"

PricesArrive(c, answer) ==
  LET k == call[c]
  IN  /\ k # Nobody
      /\ Save(k.request, k.seen,
              [id \in k.asked \union k.skipped |->
                 IF id \in k.asked THEN answer[id] ELSE "skipped"])
      /\ refused' = RecordedRefusal(answer)
      /\ call' = [call EXCEPT ![c] = Nobody]
      /\ UNCHANGED <<quote, sent>>

\* The request as a whole fails.
PricesFail(c) ==
  /\ call[c] # Nobody
  /\ stage' = "pricing_request_rejected" /\ disturbed' = TRUE
  /\ call' = [call EXCEPT ![c] = Nobody]
  /\ UNCHANGED <<batch, refused, quote, sent>>

\* The server restarts: calls are gone, files stay.
Restart ==
  /\ \E c \in Calls : call[c] # Nobody
  /\ call' = [c \in Calls |-> Nobody] /\ disturbed' = TRUE
  /\ UNCHANGED <<batch, stage, refused, quote, sent>>

\* capabilityBlocker: a refusal counts for five minutes.
RefusalExpires ==
  /\ refused /\ refused' = FALSE
  /\ UNCHANGED <<batch, stage, call, quote, sent, disturbed>>

-----------------------------------------------------------------------------
(* build_estimate *)

Priced(b, s) == \E id \in Attempts(b, s) : Done(b, id)
Evidenced(b, s) == Priced(b, s) \/ s \in b.page

\* A result lists each component with its price evidence or as free of charge
\* (free); a commitment scope may be billed at the on-demand price instead.
ByFallback(b, s) == \E base \in FallbackOf[s] : Priced(b, base)
Covered(b, s, free) == Evidenced(b, s) \/ ByFallback(b, s) \/ OwnerOf[s] \in free

\* Saved page evidence is attached to every priced component, and refused when
\* the scope has a price as well.
Provable(b, s, free) ==
  Covered(b, s, free) /\ (Priced(b, s) /\ s \in b.page => OwnerOf[s] \in free)
ProvableWave(b, w, free) ==
  Registered(b, w) /\ \A s \in b.plan : WaveOfScope(s) = w => Provable(b, s, free)
ProvableQuote(b, free) == \A w \in Waves : ProvableWave(b, w, free)

AllSealed(b) == \A w \in Waves : Sealed(b, w)
SameMeta(b)  == Cardinality({b.seal[w] : w \in Waves}) = 1

\* saveComponentResultFragment: a wave's result is sealed once; the last one
\* builds the quote, unless the waves disagree about the whole quote or the
\* evidence of an earlier one has become contradictory.
SaveFragment(w, meta, free) ==
  /\ ProvableWave(batch, w, free)
  /\ Sealed(batch, w) =>
       batch.seal[w] = meta /\ batch.free \intersect ComponentsIn(w) = free
  /\ batch' = [batch EXCEPT !.seal[w] = meta, !.free = @ \union free]
  /\ LET builds == /\ AllSealed(batch') /\ SameMeta(batch') /\ ~quote.built
                   /\ ProvableQuote(batch', batch'.free)
     IN  /\ quote' = IF builds THEN [built |-> TRUE, free |-> batch'.free] ELSE quote
         /\ stage' = CASE builds -> "estimate_validated"
                       [] AllSealed(batch') /\ ~builds -> stage
                       [] OTHER -> "pricing_partial"
  /\ UNCHANGED <<refused, call, sent, disturbed>>

\* A quote built from the agent's own whole input; merge_authorized is never
\* set, so a job of several waves needs all their results.
BuildQuote(free) ==
  /\ ~quote.built
  /\ ProvableQuote(batch, free)
  /\ Cardinality(Waves) > 1 => AllSealed(batch)
  /\ quote' = [built |-> TRUE, free |-> free] /\ stage' = "estimate_validated"
  /\ UNCHANGED <<batch, refused, call, sent, disturbed>>

-----------------------------------------------------------------------------
Next ==
  \/ \E c \in Calls :
       \/ GetPrices(c)
       \/ /\ call[c] # Nobody
          /\ \E answer \in [call[c].asked -> MaySend] : PricesArrive(c, answer)
       \/ PricesFail(c)
  \/ Restart \/ RefusalExpires
  \/ \E w \in Waves, meta \in Metas : \E free \in SUBSET (ComponentsIn(w) \intersect MayBeFree) :
       SaveFragment(w, meta, free)
  \/ \E free \in SUBSET MayBeFree : BuildQuote(free)

Spec == Init /\ [][Next]_vars

-----------------------------------------------------------------------------
(* Properties *)

\* Whatever chats overlap, fail or restart: plans, prices, page evidence and
\* results only grow, a result is sealed when each of its scopes is priced, on
\* a page, at its on-demand price or free of charge, and the quote is built from
\* all of them (the re-read after the await in getPrices).
ScopesOf(components) == {s \in Scopes : OwnerOf[s] \in components}
Ledger == INSTANCE EvidenceLedger WITH
  WaveOf <- [s \in Scopes |-> WaveOfScope(s)],
  plans  <- batch.plan,
  prices <- {<<id, ScopeOf(batch, id)>> :
               id \in {x \in Asked(batch) : batch.result[x] = "priced"
                                       /\ ScopeOf(batch, x) # NoScope}},
  pages  <- batch.page,
  seals  <- {w \in Waves : Sealed(batch, w)},
  free   <- ScopesOf(batch.free),
  quote  <- [quote EXCEPT !.free = ScopesOf(@)]
IsLedger == Ledger!Spec

\* A checkpoint that sends the agent on to build_estimate has every wave
\* registered, and evidence for every planned scope, or a saved result that
\* bills the scope on demand or lists its component as free of charge.
CompletedIsCovered ==
  stage = "pricing_completed" =>
    /\ AllRegistered(batch)
    /\ \A s \in batch.plan :
         \/ Evidenced(batch, s)
         \/ Sealed(batch, WaveOfScope(s)) /\ Covered(batch, s, batch.free)

\* The official API is asked at most AttemptLimit times for a billing scope it
\* has no price for, as long as calls come one after another, ask a scope once
\* and get their answers saved (getPrices counts attempts in the saved batch).
AttemptsBounded ==
  ~disturbed => \A s \in Scopes : Priced(batch, s) \/ sent[s] <= AttemptLimit
=============================================================================
