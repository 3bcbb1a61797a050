-------------------------- MODULE PriceBatch_proofs --------------------------
(***************************************************************************)
(* The price batch implements the evidence ledger for any number of calls, *)
(* queries, scopes and waves: whatever chats overlap, no price, plan or    *)
(* page evidence is lost, and a sealed result accounts for every scope of  *)
(* its wave: by a price, a page, the on-demand price or as free of charge. *)
(*                                                                         *)
(* A call that waited merges its answers into a batch others have changed. *)
(* Nothing is lost because a call only waits for ids that had no result    *)
(* when it read the batch (CallsAreFresh), ids with a result are exactly   *)
(* those saved, and hence a price that arrived meanwhile was asked with    *)
(* the same payload, or the merge is refused.                              *)
(*                                                                         *)
(* While calls follow one another, every request that was sent to the API  *)
(* is an answer in the batch or belongs to the one call under way          *)
(* (Account), so the attempts get_prices counts are all there have been.   *)
(***************************************************************************)
EXTENDS PriceBatch, FiniteSetTheorems, FunctionTheorems, TLAPS

BatchRecord ==
  [order : Seq(Ids), payload : [Ids -> Payloads], result : [Ids -> Kinds],
   context : [Ids -> Contexts], plan : SUBSET Scopes, page : SUBSET Scopes,
   seal : [Waves -> Metas \union {NoMeta}], free : SUBSET Components]

Distinct(order) == \A i, j \in DOMAIN order : order[i] = order[j] => i = j
Entries(order)  == {order[i] : i \in DOMAIN order}

\* A context with a scope is one of a billed query.
ScopesBilled(b) == \A id \in Ids : ScopeOf(b, id) # NoScope => b.context[id].purpose = "pricing"

-----------------------------------------------------------------------------
(* A request on top of a batch *)

\* Every finite set can be put in an order, as the loop over the queries does.
LEMMA OrderExists ==
  ASSUME NEW new \in SUBSET Ids
  PROVE  \E q \in [1..Cardinality(new) -> new] :
           \A i, j \in DOMAIN q : i # j => q[i] # q[j]
  <1>1. IsFiniteSet(new)
    BY FS_Subset, BatchAssumption
  <1>2. Cardinality(new) \in Nat /\ ExistsBijection(1..Cardinality(new), new)
    BY <1>1, FS_CardinalityType
  <1>3. PICK q \in Bijection(1..Cardinality(new), new) : TRUE
    BY <1>2 DEF ExistsBijection
  <1> QED  BY <1>3 DEF Bijection, Injection, Surjection, IsInjective

LEMMA Concatenated ==
  ASSUME NEW new \in SUBSET Ids, NEW s \in Seq(Ids), NEW n \in Nat, NEW q \in [1..n -> new],
         Distinct(s), Distinct(q), new \intersect Entries(s) = {}
  PROVE  /\ s \o q \in Seq(Ids)
         /\ Distinct(s \o q)
         /\ Entries(s) \subseteq Entries(s \o q)
         /\ Entries(s \o q) \subseteq Entries(s) \union new
  <1> USE DEF Distinct, Entries
  <1>1. q \in Seq(Ids) /\ Len(q) = n /\ DOMAIN q = 1..n
    OBVIOUS
  <1>2. /\ s \o q \in Seq(Ids) /\ Len(s \o q) = Len(s) + n
        /\ DOMAIN s = 1..Len(s) /\ DOMAIN (s \o q) = 1..(Len(s) + n)
    BY <1>1
  <1>3. \A i \in 1..(Len(s) + n) : (s \o q)[i] = IF i <= Len(s) THEN s[i] ELSE q[i - Len(s)]
    BY <1>1
  <1>4. \A i \in 1..(Len(s) + n) : i > Len(s) => i - Len(s) \in 1..n
    BY <1>1
  <1> DEFINE t == s \o q
  <1>5. \A i \in DOMAIN s : i \in DOMAIN t /\ t[i] = s[i]
    BY <1>2, <1>3
  <1>6. \A j \in DOMAIN t : t[j] \in new \/ \E i \in DOMAIN s : s[i] = t[j]
    BY <1>1, <1>2, <1>3, <1>4
  <1>7. Distinct(t)
    <2> SUFFICES ASSUME NEW i \in DOMAIN t, NEW j \in DOMAIN t, t[i] = t[j] PROVE i = j
      BY DEF Distinct
    <2>1. CASE i <= Len(s) /\ j <= Len(s)
      BY <2>1, <1>2, <1>3 DEF Distinct
    <2>2. CASE i > Len(s) /\ j > Len(s)
      BY <2>2, <1>1, <1>2, <1>3, <1>4
    <2>3. CASE (i <= Len(s) /\ j > Len(s)) \/ (i > Len(s) /\ j <= Len(s))
      BY <2>3, <1>1, <1>2, <1>3, <1>4
    <2> QED  BY <2>1, <2>2, <2>3, <1>2
  <1> QED  BY <1>2, <1>5, <1>6, <1>7

LEMMA RequestType ==
  ASSUME NEW r \in Requests
  PROVE  /\ r.wave \in Waves /\ r.plan \in SUBSET Scopes
         /\ DOMAIN r.ask \in SUBSET Ids
         /\ \A id \in DOMAIN r.ask :
              r.ask[id].payload \in Payloads /\ r.ask[id].context \in Contexts
         /\ \A page \in r.page : page[1] \in Scopes
  <1>1. r.page \in SUBSET (Scopes \X Ids)
    BY RequestsAssumption
  <1>2. \A page \in r.page : page[1] \in Scopes
    BY <1>1
  <1> QED  BY <1>2, RequestsAssumption

\* mergeQueryContexts returns contexts, and an id that is billed to a scope
\* stays billed to that scope.
LEMMA MergedContextsFit ==
  ASSUME NEW context \in [Ids -> Contexts], NEW update, NEW asked,
         DOMAIN update \in SUBSET Ids, \A id \in DOMAIN update : update[id] \in Contexts,
         ContextsFit(context, update, asked),
         \A id \in Ids : context[id].scope # NoScope => context[id].purpose = "pricing"
  PROVE  /\ MergedContexts(context, update) \in [Ids -> Contexts]
         /\ \A id \in DOMAIN update : MergedContexts(context, update)[id].scope = update[id].scope
         /\ \A id \in Ids : context[id].scope # NoScope =>
              MergedContexts(context, update)[id].scope = context[id].scope
         /\ \A id \in Ids : MergedContexts(context, update)[id].scope # NoScope =>
              MergedContexts(context, update)[id].purpose = "pricing"
  <1> DEFINE updated == Updated(context, update)
             adopted == Adopted(updated)
  <1>1. updated \in [Ids -> Contexts]
    <2> SUFFICES ASSUME NEW id \in Ids, id \in DOMAIN update
                 PROVE  [update[id] EXCEPT !.old = @ \union context[id].old] \in Contexts
      BY DEF Updated
    <2>1. update[id] \in Contexts /\ context[id] \in Contexts
      OBVIOUS
    <2> QED  BY <2>1 DEF Contexts
  <1>2. \A id \in Ids : id \in DOMAIN update =>
          /\ updated[id].scope = update[id].scope /\ updated[id].purpose = update[id].purpose
    BY DEF Updated, Contexts
  <1>3. \A id \in Ids : id \notin DOMAIN update => updated[id] = context[id]
    BY DEF Updated
  <1>4. \A id \in DOMAIN update : UpdateAllowed(id, context[id], update[id], asked)
    BY DEF ContextsFit
  <1>5. \A id \in Ids : updated[id].scope # NoScope => updated[id].purpose = "pricing"
    BY <1>2, <1>3, <1>4 DEF UpdateAllowed
  <1>6. \A id \in Ids : context[id].scope # NoScope =>
          updated[id].scope = context[id].scope /\ updated[id].purpose = "pricing"
    BY <1>2, <1>3, <1>4, <1>5 DEF UpdateAllowed
  <1> HIDE DEF updated
  <1>7. adopted \in [Ids -> Contexts]
    <2> SUFFICES ASSUME NEW id \in Ids, \E new \in Ids : Replaces(updated, new, id)
                 PROVE  [purpose |-> "pricing", old |-> {},
                         scope |-> updated[CHOOSE new \in Ids : Replaces(updated, new, id)].scope]
                          \in Contexts
      BY <1>1 DEF Adopted
    <2> DEFINE heir == CHOOSE new \in Ids : Replaces(updated, new, id)
    <2>1. heir \in Ids
      OBVIOUS
    <2> HIDE DEF heir
    <2>2. updated[heir] \in Contexts
      BY <1>1, <2>1
    <2>3. updated[heir].scope \in Scopes \union {NoScope}
      BY <2>2 DEF Contexts
    <2> QED  BY <2>3 DEF Contexts, heir
  <1>8. \A id \in Ids : \/ adopted[id] = updated[id]
                        \/ (updated[id].purpose = "none" /\ adopted[id].purpose = "pricing")
    <2> SUFFICES ASSUME NEW id \in Ids, adopted[id] # updated[id]
                 PROVE  updated[id].purpose = "none" /\ adopted[id].purpose = "pricing"
      OBVIOUS
    <2> DEFINE billed == updated[id].purpose = "none" /\ \E new \in Ids : Replaces(updated, new, id)
    <2>1. billed
      BY DEF Adopted
    <2>2. adopted[id] = [purpose |-> "pricing", old |-> {},
                         scope |-> updated[CHOOSE new \in Ids : Replaces(updated, new, id)].scope]
      BY <2>1 DEF Adopted
    <2> QED  BY <2>1, <2>2
  <1>9. \A id \in Ids : context[id].scope # NoScope => adopted[id].scope = context[id].scope
    BY <1>6, <1>8
  <1>10. \A id \in Ids : adopted[id].scope # NoScope => adopted[id].purpose = "pricing"
    BY <1>5, <1>8
  <1>11. \A id \in DOMAIN update : adopted[id].scope = update[id].scope
    BY <1>2, <1>4, <1>8 DEF UpdateAllowed
  <1> QED  BY <1>7, <1>9, <1>10, <1>11 DEF MergedContexts, updated

\* What a request adds to a batch, and what it leaves alone.
LEMMA RequestAdds ==
  ASSUME NEW b \in BatchRecord, NEW r \in Requests, Distinct(b.order), ScopesBilled(b),
         NEW asked, ContextsFit(b.context, Update(r), asked)
  PROVE  LET n == WithRequest(b, r)
         IN  /\ n \in BatchRecord /\ Distinct(n.order) /\ ScopesBilled(n)
             /\ Asked(b) \subseteq Asked(n)
             /\ Asked(n) \subseteq Asked(b) \union DOMAIN r.ask
             /\ n.plan = b.plan \union r.plan
             /\ n.page = b.page /\ n.seal = b.seal /\ n.free = b.free /\ n.result = b.result
             /\ \A id \in DOMAIN r.ask : n.payload[id] = r.ask[id].payload
             /\ \A id \in DOMAIN r.ask : ScopeOf(n, id) = r.ask[id].context.scope
             /\ \A id \in Ids : ScopeOf(b, id) # NoScope => ScopeOf(n, id) = ScopeOf(b, id)
  <1> DEFINE n == WithRequest(b, r)
             new == {id \in DOMAIN r.ask : id \notin Asked(b)}
             q == CHOOSE q \in [1..Cardinality(new) -> new] :
                    \A i, j \in DOMAIN q : i # j => q[i] # q[j]
             payload == [id \in Ids |-> IF id \in DOMAIN r.ask
                                        THEN r.ask[id].payload ELSE b.payload[id]]
             context == MergedContexts(b.context, Update(r))
  <1>1. /\ b.order \in Seq(Ids) /\ b.payload \in [Ids -> Payloads]
        /\ b.context \in [Ids -> Contexts] /\ b.plan \in SUBSET Scopes
        /\ b = [order |-> b.order, payload |-> b.payload, result |-> b.result,
                context |-> b.context, plan |-> b.plan, page |-> b.page, seal |-> b.seal,
                free |-> b.free]
    BY DEF BatchRecord
  <1>2. new \in SUBSET Ids
    BY RequestType
  <1>3. Cardinality(new) \in Nat
    BY <1>2, FS_Subset, FS_CardinalityType, BatchAssumption
  <1>4. q \in [1..Cardinality(new) -> new] /\ Distinct(q)
    BY <1>2, OrderExists DEF Distinct
  <1>5. n = [order |-> b.order \o q, payload |-> payload, result |-> b.result,
             context |-> context, plan |-> b.plan \union r.plan, page |-> b.page, seal |-> b.seal,
             free |-> b.free]
    <2>1. n = [b EXCEPT !.order = b.order \o q, !.payload = payload,
                        !.context = context, !.plan = b.plan \union r.plan]
      BY DEF WithRequest
    <2> HIDE DEF n, q, payload, context
    <2> QED  BY <1>1, <2>1
  <1>6. Entries(b.order) = Asked(b) /\ new \intersect Entries(b.order) = {}
    BY DEF Asked, Entries
  <1> HIDE DEF q
  <1>7. /\ b.order \o q \in Seq(Ids) /\ Distinct(b.order \o q)
        /\ Entries(b.order) \subseteq Entries(b.order \o q)
        /\ Entries(b.order \o q) \subseteq Entries(b.order) \union new
    <2> DEFINE size == Cardinality(new)
    <2>1. size \in Nat /\ q \in [1..size -> new]
      BY <1>3, <1>4
    <2> HIDE DEF new, size
    <2> QED  BY <1>1, <1>2, <1>4, <1>6, <2>1, Concatenated
  <1>8. payload \in [Ids -> Payloads] /\ \A id \in DOMAIN r.ask : payload[id] = r.ask[id].payload
    BY <1>1, RequestType
  <1>9. /\ DOMAIN Update(r) = DOMAIN r.ask
        /\ \A id \in DOMAIN r.ask : Update(r)[id] \in Contexts /\ Update(r)[id] = r.ask[id].context
    BY RequestType DEF Update
  <1>10. /\ context \in [Ids -> Contexts]
         /\ \A id \in DOMAIN r.ask : context[id].scope = Update(r)[id].scope
         /\ \A id \in Ids : b.context[id].scope # NoScope => context[id].scope = b.context[id].scope
         /\ \A id \in Ids : context[id].scope # NoScope => context[id].purpose = "pricing"
    BY <1>1, <1>9, RequestType, MergedContextsFit DEF ScopesBilled, ScopeOf
  <1> HIDE DEF n, payload, context, new
  <1>11. n \in BatchRecord
    BY <1>1, <1>5, <1>7, <1>8, <1>10, RequestType DEF BatchRecord
  <1>12. Asked(n) = Entries(b.order \o q)
    BY <1>5 DEF Asked, Entries
  <1>13. Asked(b) \subseteq Asked(n) /\ Asked(n) \subseteq Asked(b) \union DOMAIN r.ask
    BY <1>6, <1>7, <1>12 DEF new
  <1>14. ScopesBilled(n) /\ \A id \in Ids : ScopeOf(b, id) # NoScope => ScopeOf(n, id) = ScopeOf(b, id)
    BY <1>5, <1>10 DEF ScopesBilled, ScopeOf
  <1>15. /\ Distinct(n.order) /\ n.plan = b.plan \union r.plan
         /\ n.page = b.page /\ n.seal = b.seal /\ n.free = b.free /\ n.result = b.result
         /\ \A id \in DOMAIN r.ask : n.payload[id] = r.ask[id].payload
         /\ \A id \in DOMAIN r.ask : ScopeOf(n, id) = r.ask[id].context.scope
    BY <1>5, <1>7, <1>8, <1>9, <1>10 DEF ScopeOf
  <1> QED  BY <1>11, <1>13, <1>14, <1>15 DEF n

-----------------------------------------------------------------------------
(* A finished call on top of the batch it finds *)

AllAnswered(b) == \A id \in Asked(b) : b.result[id] # "none"

\* A call answers ids it had not seen in the batch it read, and all of its own
\* that have no result.
Answering(b, r, seen, answer) ==
  /\ DOMAIN answer \subseteq DOMAIN r.ask
  /\ \A id \in DOMAIN answer : answer[id] \in Answers \union {"skipped"} /\ id \notin DOMAIN seen
  /\ \A id \in DOMAIN r.ask : id \in DOMAIN answer \/ b.result[id] # "none"

\* The later batch m has everything that b has.
Grows(b, m) ==
  /\ Asked(b) \subseteq Asked(m) /\ b.plan \subseteq m.plan /\ b.page \subseteq m.page
  /\ \A id \in Ids : b.result[id] # "none" => m.result[id] # "none"
  /\ \A id \in Asked(b) : b.result[id] = "priced" => m.result[id] = "priced"
  /\ \A id \in Ids : ScopeOf(b, id) # NoScope => ScopeOf(m, id) = ScopeOf(b, id)

LEMMA MergeAdds ==
  ASSUME NEW b \in BatchRecord, Distinct(b.order), ScopesBilled(b), AllAnswered(b),
         NEW r \in Requests, NEW seen, NEW answer,
         Answering(b, r, seen, answer), Mergeable(b, seen, r, answer)
  PROVE  LET m == Merged(b, r, answer)
         IN  /\ m \in BatchRecord /\ Distinct(m.order) /\ ScopesBilled(m) /\ AllAnswered(m)
             /\ Grows(b, m)
             /\ m.plan = b.plan \union r.plan /\ m.seal = b.seal /\ m.free = b.free
  <1> DEFINE n == WithRequest(b, r)
             result == [id \in Ids |-> IF id \in DOMAIN answer /\ ~Keep(b, n, id)
                                       THEN answer[id] ELSE n.result[id]]
             page == n.page \union {x[1] : x \in r.page}
             m == Merged(b, r, answer)
  <1>1. ContextsFit(b.context, Update(r), Asked(n)) /\ ~Conflict(b, seen, r)
    BY DEF Mergeable
  <1>2. /\ n \in BatchRecord /\ Distinct(n.order) /\ ScopesBilled(n)
        /\ Asked(b) \subseteq Asked(n) /\ Asked(n) \subseteq Asked(b) \union DOMAIN r.ask
        /\ n.plan = b.plan \union r.plan
        /\ n.page = b.page /\ n.seal = b.seal /\ n.free = b.free /\ n.result = b.result
        /\ \A id \in DOMAIN r.ask : n.payload[id] = r.ask[id].payload
        /\ \A id \in Ids : ScopeOf(b, id) # NoScope => ScopeOf(n, id) = ScopeOf(b, id)
    <2> HIDE DEF n
    <2> QED  BY <1>1, RequestAdds DEF n
  <1>3. m = [[n EXCEPT !.result = result] EXCEPT !.page = page]
    BY DEF Merged, WithPages, WithAnswers
  <1> HIDE DEF n, m
  <1>4. /\ n.order \in Seq(Ids) /\ n.payload \in [Ids -> Payloads] /\ n.result \in [Ids -> Kinds]
        /\ n.context \in [Ids -> Contexts] /\ n.plan \in SUBSET Scopes
        /\ n.page \in SUBSET Scopes /\ n.seal \in [Waves -> Metas \union {NoMeta}]
        /\ n.free \in SUBSET Components
        /\ n = [order |-> n.order, payload |-> n.payload, result |-> n.result,
                context |-> n.context, plan |-> n.plan, page |-> n.page, seal |-> n.seal,
                free |-> n.free]
    BY <1>2 DEF BatchRecord
  <1>5. result \in [Ids -> Kinds]
    <2> SUFFICES ASSUME NEW id \in Ids, id \in DOMAIN answer PROVE answer[id] \in Kinds
      BY <1>4
    <2> QED  BY DEF Answering, Kinds
  <1>6. \A id \in Ids : n.result[id] # "none" => result[id] # "none"
    BY DEF Answering, Answers
  <1>7. \A id \in DOMAIN r.ask : result[id] # "none"
    <2> SUFFICES ASSUME NEW id \in DOMAIN r.ask, n.result[id] = "none" PROVE result[id] # "none"
      BY <1>6, RequestType
    <2>1. id \in Ids /\ id \in DOMAIN answer /\ answer[id] # "none"
      BY <1>2, RequestType DEF Answering, Answers
    <2>2. ~Keep(b, n, id)
      BY <1>2 DEF Keep, Reusable
    <2> QED  BY <2>1, <2>2
  <1>8. \A id \in Asked(b) : id \in Ids /\ b.result[id] = "priced" => result[id] = "priced"
    <2> SUFFICES ASSUME NEW id \in Asked(b), id \in Ids, b.result[id] = "priced", id \in DOMAIN answer
                 PROVE  Keep(b, n, id)
      BY <1>2
    <2>1. id \in DOMAIN r.ask /\ id \notin DOMAIN seen
      BY DEF Answering
    <2>2. b.payload[id] = r.ask[id].payload
      BY <1>1, <2>1 DEF Conflict
    <2> QED  BY <1>2, <2>1, <2>2 DEF Keep, Reusable
  <1>9. page \in SUBSET Scopes
    BY <1>4, RequestType
  <1>10. Asked(b) \subseteq Ids
    BY DEF Asked, BatchRecord
  <1> HIDE DEF result, page
  <1>11. m = [order |-> n.order, payload |-> n.payload, result |-> result,
              context |-> n.context, plan |-> n.plan, page |-> page, seal |-> n.seal,
              free |-> n.free]
    BY <1>3, <1>4
  <1>12. m \in BatchRecord /\ Distinct(m.order)
    BY <1>2, <1>4, <1>5, <1>9, <1>11 DEF BatchRecord
  <1>13. Asked(m) = Asked(n) /\ \A id \in Ids : ScopeOf(m, id) = ScopeOf(n, id)
    BY <1>11 DEF Asked, ScopeOf
  <1>14. ScopesBilled(m)
    BY <1>2, <1>11, <1>13 DEF ScopesBilled
  <1>15. AllAnswered(m)
    BY <1>2, <1>6, <1>7, <1>10, <1>11, <1>13 DEF AllAnswered
  <1>16. Grows(b, m)
    <2>1. b.page \subseteq m.page /\ b.plan \subseteq m.plan
      BY <1>2, <1>11 DEF page
    <2> QED  BY <2>1, <1>2, <1>6, <1>8, <1>10, <1>11, <1>13 DEF Grows
  <1>17. m.plan = b.plan \union r.plan /\ m.seal = b.seal /\ m.free = b.free
    BY <1>2, <1>11
  <1> QED  BY <1>12, <1>14, <1>15, <1>16, <1>17 DEF m

\* A scope with a price keeps it.
LEMMA PriceStays ==
  ASSUME NEW b \in BatchRecord, NEW m \in BatchRecord, Grows(b, m),
         NEW s \in Scopes, Priced(b, s)
  PROVE  Priced(m, s)
  <1>1. PICK id \in Attempts(b, s) : Done(b, id)
    BY DEF Priced
  <1>2. id \in Asked(b) /\ id \in Ids /\ ScopeOf(b, id) = s /\ s # NoScope
    BY <1>1, ScopesAssumption DEF Attempts, Asked, BatchRecord
  <1>3. b.result[id] = "priced"
    BY <1>1, <1>2 DEF Done, Reusable
  <1>4. id \in Asked(m) /\ ScopeOf(m, id) = s /\ m.result[id] = "priced"
    BY <1>2, <1>3 DEF Grows
  <1>5. id \in Attempts(m, s) /\ Done(m, id)
    BY <1>4 DEF Attempts, Done, Reusable
  <1> QED  BY <1>5 DEF Priced

\* What accounts for a scope goes on to do so, also when more is declared free.
LEMMA CoverStays ==
  ASSUME NEW b \in BatchRecord, NEW m \in BatchRecord, Grows(b, m),
         NEW s \in Scopes, NEW free, NEW more, free \subseteq more, Covered(b, s, free)
  PROVE  Covered(m, s, more)
  <1>1. CASE s \in b.page
    BY <1>1 DEF Grows, Evidenced, Covered
  <1>2. CASE Priced(b, s)
    BY <1>2, PriceStays DEF Evidenced, Covered
  <1>3. CASE ByFallback(b, s)
    <2>1. PICK base \in FallbackOf[s] : Priced(b, base)
      BY <1>3 DEF ByFallback
    <2>2. base \in Scopes
      BY BatchAssumption
    <2>3. Priced(m, base)
      BY <2>1, <2>2, PriceStays
    <2> QED  BY <2>3 DEF ByFallback, Covered
  <1> QED  BY <1>1, <1>2, <1>3 DEF Covered, Evidenced

-----------------------------------------------------------------------------
(* Plans and what is complete *)

Complete(b, w, free) ==
  /\ Registered(b, w)
  /\ \A s \in b.plan : WaveOfScope(s) = w => Covered(b, s, free)

\* The plan of a wave is registered as a whole: relayBatchPlan takes no scope
\* for a wave that has a plan.
LEMMA PlanIsFrozen ==
  ASSUME NEW b \in BatchRecord, NEW r \in Requests, PlanFits(b, r)
  PROVE  \A s \in r.plan \ b.plan : ~Registered(b, WaveOfScope(s))
  <1> SUFFICES ASSUME NEW s \in r.plan, s \notin b.plan PROVE ~Registered(b, WaveOfScope(s))
    OBVIOUS
  <1>1. OwnerOf[s] \in ComponentsIn(r.wave)
    BY DEF PlanFits
  <1>2. WaveOfScope(s) = r.wave
    BY <1>1 DEF ComponentsIn, WaveOfScope
  <1> QED  BY <1>2 DEF PlanFits

LEMMA CompleteStays ==
  ASSUME NEW b \in BatchRecord, NEW m \in BatchRecord, Grows(b, m),
         NEW free, NEW more, free \subseteq more, NEW w, Complete(b, w, free),
         \A s \in m.plan \ b.plan : ~Registered(b, WaveOfScope(s))
  PROVE  Complete(m, w, more)
  <1>1. Registered(m, w)
    BY DEF Complete, Registered, Grows
  <1>2. ASSUME NEW s \in m.plan, WaveOfScope(s) = w PROVE Covered(m, s, more)
    <2>1. s \in b.plan /\ s \in Scopes
      BY <1>2 DEF Complete, BatchRecord
    <2> QED  BY <1>2, <2>1, CoverStays DEF Complete
  <1> QED  BY <1>1, <1>2 DEF Complete

\* Everything in a sealed wave is accounted for.
SealedAreComplete(b) == \A w \in Waves : Sealed(b, w) => Complete(b, w, b.free)

\* componentProgress calls a component completed on evidence or a saved result.
LEMMA CompletedHasEvidence ==
  ASSUME NEW b \in BatchRecord, SealedAreComplete(b), Completed(b)
  PROVE  /\ AllRegistered(b)
         /\ \A s \in b.plan :
              \/ Evidenced(b, s)
              \/ Sealed(b, WaveOfScope(s)) /\ Covered(b, s, b.free)
  <1>1. AllRegistered(b) /\ PricedOut(b)
    BY DEF Completed
  <1>2. ASSUME NEW s \in b.plan
        PROVE  Evidenced(b, s) \/ (Sealed(b, WaveOfScope(s)) /\ Covered(b, s, b.free))
    <2> DEFINE owner == OwnerOf[s]
               states == {ScopeState(b, x) : x \in PlannedOf(b, owner)}
    <2>1. s \in Scopes /\ owner \in Components /\ s \in PlannedOf(b, owner)
      BY ScopesAssumption DEF BatchRecord, PlannedOf
    <2>2. owner \in SealedComponents(b) \/ states = {"completed"}
      BY <1>1 DEF PricedOut, ComponentState
    <2>3. CASE owner \in SealedComponents(b)
      <3>1. Sealed(b, WaveOfScope(s)) /\ WaveOfScope(s) \in Waves
        BY <2>1, <2>3 DEF SealedComponents, WaveOfScope, Waves
      <3> QED  BY <3>1 DEF SealedAreComplete, Complete
    <2>4. CASE states = {"completed"}
      <3>1. ScopeState(b, s) = "completed"
        BY <2>1, <2>4
      <3>2. PICK id \in Attempts(b, s) : Done(b, id) \/ ByPage(b, id)
        BY <3>1 DEF ScopeState
      <3> QED  BY <3>2 DEF Evidenced, Priced, ByPage, Attempts
    <2> QED  BY <2>2, <2>3, <2>4
  <1> QED  BY <1>1, <1>2

-----------------------------------------------------------------------------
(* The inductive invariant *)

Stages == {"created", "pricing_partial", "pricing_completed",
           "pricing_request_rejected", "estimate_validated"}

Types ==
  /\ batch \in BatchRecord /\ Distinct(batch.order)
  /\ stage \in Stages
  /\ call \in [Calls -> Waiting \union {Nobody}]
  /\ refused \in BOOLEAN /\ disturbed \in BOOLEAN
  /\ quote \in [built : BOOLEAN, free : SUBSET Components]

\* A call waits for ids it had not seen in the batch; its other ids have a
\* result.
CallsAreFresh ==
  \A c \in Calls : call[c] # Nobody =>
    LET k == call[c]
    IN  /\ k \in Waiting
        /\ k.asked \union k.skipped \subseteq DOMAIN k.request.ask
        /\ \A id \in k.asked \union k.skipped : id \notin DOMAIN k.seen
        /\ \A id \in DOMAIN k.request.ask :
             id \in k.asked \union k.skipped \/ batch.result[id] # "none"

IInv ==
  /\ Types
  /\ ScopesBilled(batch) /\ AllAnswered(batch) /\ SealedAreComplete(batch)
  /\ CallsAreFresh
  /\ CompletedIsCovered

LEMMA InitIInv == Init => IInv
  <1> SUFFICES ASSUME Init PROVE IInv
    OBVIOUS
  <1>1. /\ batch.order = <<>> /\ batch.result = [id \in Ids |-> "none"]
        /\ batch.context = [id \in Ids |-> NoContext] /\ batch.plan = {} /\ batch.page = {}
        /\ batch.seal = [w \in Waves |-> NoMeta] /\ batch.free = {}
    BY DEF Init, NewBatch
  <1>2. NoContext \in Contexts
    BY DEF NoContext, Contexts
  <1>3. (CHOOSE p \in Payloads : TRUE) \in Payloads
    BY BatchAssumption
  <1>4. batch \in BatchRecord
    BY <1>2, <1>3 DEF Init, NewBatch, BatchRecord, Kinds
  <1>5. Distinct(batch.order) /\ AllAnswered(batch)
    BY <1>1 DEF Distinct, AllAnswered, Asked
  <1>6. ScopesBilled(batch) /\ SealedAreComplete(batch)
    BY <1>1 DEF ScopesBilled, ScopeOf, NoContext, SealedAreComplete, Sealed
  <1>7. CallsAreFresh /\ CompletedIsCovered
    BY DEF Init, CallsAreFresh, CompletedIsCovered
  <1>8. Types
    BY <1>4, <1>5 DEF Init, Types, Stages
  <1> QED  BY <1>5, <1>6, <1>7, <1>8 DEF IInv

-----------------------------------------------------------------------------
(* Steps *)

\* What a step does to the batch, seen from the ledger.
Gathers ==
  /\ Grows(batch, batch') /\ batch'.seal = batch.seal /\ batch'.free = batch.free
  /\ \A s \in batch'.plan \ batch.plan : ~Registered(batch, WaveOfScope(s))

BatchIsSound ==
  /\ batch \in BatchRecord /\ Distinct(batch.order) /\ stage \in Stages
  /\ ScopesBilled(batch) /\ AllAnswered(batch) /\ SealedAreComplete(batch)
  /\ CompletedIsCovered

LEMMA SaveKeeps ==
  ASSUME IInv, disturbed \in BOOLEAN,
         NEW r \in Requests, NEW seen, NEW answer,
         Answering(batch, r, seen, answer), Save(r, seen, answer)
  PROVE  /\ BatchIsSound' /\ disturbed' \in BOOLEAN
         /\ Gathers
  <1>1. CASE ~Mergeable(batch, seen, r, answer)
    <2>1. batch' = batch /\ stage' = stage /\ disturbed' = TRUE
      BY <1>1 DEF Save
    <2> QED  BY <1>1, <2>1 DEF IInv, Types, BatchIsSound, Gathers, Grows, CompletedIsCovered
  <1>2. CASE Mergeable(batch, seen, r, answer)
    <2> DEFINE m == Merged(batch, r, answer)
    <2>1. batch \in BatchRecord /\ Distinct(batch.order) /\ ScopesBilled(batch) /\ AllAnswered(batch)
      BY DEF IInv, Types
    <2>2. /\ m \in BatchRecord /\ Distinct(m.order) /\ ScopesBilled(m) /\ AllAnswered(m)
          /\ Grows(batch, m) /\ m.plan = batch.plan \union r.plan
          /\ m.seal = batch.seal /\ m.free = batch.free
      BY <1>2, <2>1, MergeAdds
    <2>3. PlanFits(batch, r)
      BY <1>2 DEF Mergeable
    <2>4. \A s \in m.plan \ batch.plan : ~Registered(batch, WaveOfScope(s))
      BY <2>1, <2>2, <2>3, PlanIsFrozen
    <2> HIDE DEF m
    <2>5. SealedAreComplete(m)
      BY <2>1, <2>2, <2>4, CompleteStays DEF IInv, SealedAreComplete, Sealed
    <2>6. /\ batch' = m /\ disturbed' = disturbed
          /\ stage' = IF Completed(m) THEN "pricing_completed" ELSE "pricing_partial"
      BY <1>2 DEF Save, m
    <2>7. CompletedIsCovered'
      BY <2>2, <2>5, <2>6, CompletedHasEvidence DEF CompletedIsCovered
    <2> QED  BY <2>2, <2>4, <2>5, <2>6, <2>7 DEF BatchIsSound, Gathers, Stages
  <1> QED  BY <1>1, <1>2

\* Calls that wait on go on to be fresh when the batch grows.
LEMMA OthersStayFresh ==
  ASSUME CallsAreFresh, Grows(batch, batch'),
         \A c \in Calls : call'[c] # Nobody => call'[c] = call[c]
  PROVE  CallsAreFresh'
  <1> SUFFICES ASSUME NEW c \in Calls, call'[c] # Nobody
               PROVE  \A id \in DOMAIN call[c].request.ask :
                        id \in call[c].asked \union call[c].skipped \/ batch'.result[id] # "none"
    BY DEF CallsAreFresh
  <1>1. call[c] # Nobody /\ call[c].request \in Requests
    BY DEF CallsAreFresh, Waiting
  <1>2. DOMAIN call[c].request.ask \in SUBSET Ids
    BY <1>1, RequestType
  <1> QED  BY <1>1, <1>2 DEF CallsAreFresh, Grows

LEMMA GetSavedStep ==
  ASSUME IInv, NEW c \in Calls, NEW r \in Requests, GetSaved(c, r)
  PROVE  IInv' /\ Gathers
  <1> DEFINE answer == [id \in Skips(batch, r) |-> "skipped"]
  <1>1. Skips(batch, r) = {id \in DOMAIN r.ask : batch.result[id] = "none"}
    BY DEF GetSaved, Outgoing, Skips, Unanswered
  <1>2. Answering(batch, r, Queries(batch), answer)
    BY <1>1 DEF Answering, Queries, IInv, AllAnswered
  <1>3. Save(r, Queries(batch), answer)
    BY DEF GetSaved
  <1> HIDE DEF answer
  <1>4. BatchIsSound' /\ disturbed' \in BOOLEAN /\ Gathers
    BY <1>2, <1>3, SaveKeeps DEF IInv, Types
  <1>5. UNCHANGED <<refused, call, quote>>
    BY DEF GetSaved
  <1>6. CallsAreFresh'
    BY <1>4, <1>5, OthersStayFresh DEF IInv, Gathers
  <1> QED  BY <1>4, <1>5, <1>6 DEF IInv, Types, BatchIsSound

LEMMA AskApiStep ==
  ASSUME IInv, NEW c \in Calls, NEW r \in Requests, AskApi(c, r)
  PROVE  IInv' /\ UNCHANGED <<batch, quote>> /\ call'[c] \in Waiting
  <1> DEFINE k == [request |-> r, seen |-> Queries(batch), asked |-> Outgoing(batch, r),
                   skipped |-> Skips(batch, r)]
  <1>1. UNCHANGED <<batch, stage, refused, quote>> /\ call' = [call EXCEPT ![c] = k]
    BY DEF AskApi
  <1>2. k.asked \union k.skipped = {id \in DOMAIN r.ask : batch.result[id] = "none"}
    BY DEF Outgoing, Skips, Unanswered
  <1>3. DOMAIN k.seen = Asked(batch) /\ Asked(batch) \subseteq Ids
    BY DEF Queries, Asked, IInv, Types, BatchRecord
  <1>4. k \in Waiting
    <2>1. k.asked \in SUBSET Ids /\ k.skipped \in SUBSET Ids
      BY RequestType DEF Outgoing, Skips, Unanswered
    <2>2. k.seen \in [Asked(batch) -> Payloads]
      BY <1>3 DEF Queries, IInv, Types, BatchRecord
    <2>3. k.seen \in UNION {[S -> Payloads] : S \in SUBSET Ids}
      BY <1>3, <2>2
    <2> QED  BY <2>1, <2>3 DEF Waiting
  <1>5. \A id \in k.asked \union k.skipped : id \notin DOMAIN k.seen
    BY <1>2, <1>3 DEF IInv, AllAnswered
  <1>6. k.request = r
    OBVIOUS
  <1> HIDE DEF k
  <1>7. call' \in [Calls -> Waiting \union {Nobody}] /\ call'[c] \in Waiting
    BY <1>1, <1>4 DEF IInv, Types
  <1>8. CallsAreFresh'
    <2> SUFFICES ASSUME NEW d \in Calls, call'[d] # Nobody
                 PROVE  LET x == call'[d]
                        IN  /\ x \in Waiting
                            /\ x.asked \union x.skipped \subseteq DOMAIN x.request.ask
                            /\ \A id \in x.asked \union x.skipped : id \notin DOMAIN x.seen
                            /\ \A id \in DOMAIN x.request.ask :
                                 id \in x.asked \union x.skipped \/ batch'.result[id] # "none"
      BY DEF CallsAreFresh
    <2>1. CASE d = c
      <3>1. call'[d] = k
        BY <1>1, <2>1 DEF IInv, Types
      <3> QED  BY <1>1, <1>2, <1>4, <1>5, <1>6, <3>1
    <2>2. CASE d # c
      <3>1. call'[d] = call[d]
        BY <1>1, <2>2 DEF IInv, Types
      <3> QED  BY <1>1, <3>1 DEF IInv, CallsAreFresh
    <2> QED  BY <2>1, <2>2
  <1>9. disturbed' \in BOOLEAN
    BY DEF AskApi, IInv, Types
  <1> QED  BY <1>1, <1>7, <1>8, <1>9 DEF IInv, Types, CompletedIsCovered

LEMMA PricesArriveStep ==
  ASSUME IInv, NEW c \in Calls, call[c] # Nobody, NEW answer \in [call[c].asked -> MaySend],
         PricesArrive(c, answer)
  PROVE  IInv' /\ Gathers /\ quote' = quote
  <1> DEFINE k == call[c]
             all == [id \in k.asked \union k.skipped |->
                       IF id \in k.asked THEN answer[id] ELSE "skipped"]
  <1>1. /\ k.request \in Requests
        /\ k.asked \union k.skipped \subseteq DOMAIN k.request.ask
        /\ \A id \in k.asked \union k.skipped : id \notin DOMAIN k.seen
        /\ \A id \in DOMAIN k.request.ask :
             id \in k.asked \union k.skipped \/ batch.result[id] # "none"
    BY DEF IInv, CallsAreFresh, Waiting
  <1>2. \A id \in DOMAIN all : all[id] \in Answers \union {"skipped"}
    BY BatchAssumption
  <1>3. Answering(batch, k.request, k.seen, all)
    BY <1>1, <1>2 DEF Answering
  <1>4. /\ Save(k.request, k.seen, all)
        /\ refused' = RecordedRefusal(answer) /\ call' = [call EXCEPT ![c] = Nobody]
        /\ UNCHANGED <<quote, sent>>
    BY DEF PricesArrive
  <1> HIDE DEF k, all
  <1>5. BatchIsSound' /\ disturbed' \in BOOLEAN /\ Gathers
    BY <1>1, <1>3, <1>4, SaveKeeps DEF IInv, Types
  <1>6. refused' \in BOOLEAN
    BY <1>4 DEF RecordedRefusal, IInv, Types
  <1>7. call' \in [Calls -> Waiting \union {Nobody}]
    BY <1>4 DEF IInv, Types
  <1>8. \A d \in Calls : call'[d] # Nobody => call'[d] = call[d]
    BY <1>4 DEF IInv, Types
  <1>9. CallsAreFresh'
    BY <1>5, <1>8, OthersStayFresh DEF IInv, Gathers
  <1> QED  BY <1>4, <1>5, <1>6, <1>7, <1>9 DEF IInv, Types, BatchIsSound

\* A call that fails or is lost changes nothing of the batch.
LEMMA CallLostStep ==
  ASSUME IInv, (\E c \in Calls : PricesFail(c)) \/ Restart \/ RefusalExpires
  PROVE  IInv' /\ UNCHANGED <<batch, quote>>
  <1>1. UNCHANGED <<batch, quote>> /\ stage' \in {stage, "pricing_request_rejected"}
        /\ refused' \in BOOLEAN /\ disturbed' \in BOOLEAN
    BY DEF PricesFail, Restart, RefusalExpires, IInv, Types
  <1>2. call' \in [Calls -> Waiting \union {Nobody}]
    BY DEF PricesFail, Restart, RefusalExpires, IInv, Types
  <1>3. \A d \in Calls : call'[d] # Nobody => call'[d] = call[d]
    BY DEF PricesFail, Restart, RefusalExpires, IInv, Types
  <1>4. Grows(batch, batch')
    BY <1>1 DEF Grows
  <1>5. CallsAreFresh'
    BY <1>3, <1>4, OthersStayFresh DEF IInv
  <1>6. stage' \in Stages /\ CompletedIsCovered'
    BY <1>1 DEF IInv, Types, CompletedIsCovered, Stages
  <1> QED  BY <1>1, <1>2, <1>5, <1>6 DEF IInv, Types

\* Evidence is a matter of the queries, results, contexts and pages.
LEMMA SameEvidence ==
  ASSUME NEW b, NEW m, m.order = b.order, m.result = b.result, m.context = b.context,
         m.plan = b.plan, m.page = b.page
  PROVE  /\ Asked(m) = Asked(b)
         /\ \A s : Evidenced(m, s) <=> Evidenced(b, s)
         /\ \A s, free : Covered(m, s, free) <=> Covered(b, s, free)
         /\ \A s, free : Provable(m, s, free) <=> Provable(b, s, free)
         /\ \A w : Registered(m, w) <=> Registered(b, w)
         /\ \A w, free : Complete(m, w, free) <=> Complete(b, w, free)
         /\ \A id : ScopeOf(m, id) = ScopeOf(b, id)
  <1>1. Asked(m) = Asked(b) /\ \A id : ScopeOf(m, id) = ScopeOf(b, id)
    BY DEF Asked, ScopeOf
  <1>2. \A s : Priced(m, s) <=> Priced(b, s)
    BY <1>1 DEF Priced, Attempts, Done, ScopeOf
  <1>3. \A s : Evidenced(m, s) <=> Evidenced(b, s)
    BY <1>2 DEF Evidenced
  <1>4. \A s, free : Covered(m, s, free) <=> Covered(b, s, free)
    BY <1>2, <1>3 DEF Covered, ByFallback
  <1>5. \A s, free : Provable(m, s, free) <=> Provable(b, s, free)
    BY <1>2, <1>4 DEF Provable
  <1>6. \A w : Registered(m, w) <=> Registered(b, w)
    BY DEF Registered
  <1> QED  BY <1>1, <1>3, <1>4, <1>5, <1>6 DEF Complete

LEMMA ProvableIsComplete ==
  ASSUME NEW b, NEW w, NEW free, ProvableWave(b, w, free)
  PROVE  Complete(b, w, free)
  BY DEF ProvableWave, Provable, Complete

\* More declared free of charge takes nothing back.
LEMMA MoreFree ==
  ASSUME NEW b, NEW w, NEW free, NEW more, free \subseteq more, Complete(b, w, free)
  PROVE  Complete(b, w, more)
  BY DEF Complete, Covered

LEMMA SaveFragmentStep ==
  ASSUME IInv, NEW w \in Waves, NEW meta \in Metas, NEW free \in SUBSET ComponentsIn(w),
         SaveFragment(w, meta, free)
  PROVE  /\ IInv'
         /\ batch'.order = batch.order /\ batch'.result = batch.result
         /\ batch'.context = batch.context /\ batch'.plan = batch.plan
         /\ batch'.page = batch.page
         /\ batch'.free = batch.free \union free
         /\ Sealed(batch, w) => batch'.free = batch.free
         /\ Complete(batch, w, batch'.free)
         /\ \A v \in Waves : Sealed(batch', v) <=> v = w \/ Sealed(batch, v)
         /\ \/ quote' = quote
            \/ /\ ~quote.built /\ quote' = [built |-> TRUE, free |-> batch'.free]
               /\ AllSealed(batch') /\ \A v \in Waves : Complete(batch, v, batch'.free)
  <1>1. batch \in BatchRecord /\ quote \in [built : BOOLEAN, free : SUBSET Components]
        /\ free \in SUBSET Components
    BY DEF IInv, Types, ComponentsIn
  <1>2. /\ batch' = [batch EXCEPT !.seal[w] = meta, !.free = @ \union free]
        /\ Sealed(batch, w) =>
             batch.seal[w] = meta /\ batch.free \intersect ComponentsIn(w) = free
        /\ ProvableWave(batch, w, free)
        /\ UNCHANGED <<refused, call, disturbed>>
    BY DEF SaveFragment
  <1>3. /\ batch' \in BatchRecord
        /\ batch'.order = batch.order /\ batch'.result = batch.result
        /\ batch'.context = batch.context /\ batch'.plan = batch.plan
        /\ batch'.page = batch.page /\ batch'.free = batch.free \union free
        /\ Sealed(batch', w)
        /\ \A v \in Waves : v # w => batch'.seal[v] = batch.seal[v]
    <2>1. batch' = [batch EXCEPT !.seal[w] = meta, !.free = @ \union free]
      BY <1>2
    <2> QED  BY <1>1, <2>1, BatchAssumption DEF BatchRecord, Sealed
  <1>4. Complete(batch, w, batch'.free)
    BY <1>2, <1>3, ProvableIsComplete, MoreFree
  <1>5. \A v \in Waves : Sealed(batch', v) <=> v = w \/ Sealed(batch, v)
    BY <1>3 DEF Sealed
  <1>6. /\ Asked(batch') = Asked(batch)
        /\ \A s : Evidenced(batch', s) <=> Evidenced(batch, s)
        /\ \A s, f : Covered(batch', s, f) <=> Covered(batch, s, f)
        /\ \A s, f : Provable(batch', s, f) <=> Provable(batch, s, f)
        /\ \A v : Registered(batch', v) <=> Registered(batch, v)
        /\ \A v, f : Complete(batch', v, f) <=> Complete(batch, v, f)
        /\ \A id : ScopeOf(batch', id) = ScopeOf(batch, id)
    BY <1>3, SameEvidence
  <1>7. SealedAreComplete(batch')
    <2> SUFFICES ASSUME NEW v \in Waves, Sealed(batch', v) PROVE Complete(batch, v, batch'.free)
      BY <1>6 DEF SealedAreComplete
    <2>1. CASE v = w
      BY <1>4, <2>1
    <2>2. CASE v # w
      <3>1. Complete(batch, v, batch.free)
        BY <1>5, <2>2 DEF IInv, SealedAreComplete
      <3> QED  BY <1>3, <3>1, MoreFree
    <2> QED  BY <2>1, <2>2
  <1>8. ScopesBilled(batch') /\ AllAnswered(batch') /\ Distinct(batch'.order)
    BY <1>3, <1>6 DEF IInv, Types, ScopesBilled, AllAnswered
  <1>9. /\ stage' \in {stage, "pricing_partial", "estimate_validated"}
        /\ quote' \in [built : BOOLEAN, free : SUBSET Components]
        /\ \/ quote' = quote
           \/ /\ ~quote.built /\ quote' = [built |-> TRUE, free |-> batch'.free]
              /\ AllSealed(batch') /\ ProvableQuote(batch', batch'.free)
    <2> DEFINE builds == /\ AllSealed(batch') /\ SameMeta(batch') /\ ~quote.built
                         /\ ProvableQuote(batch', batch'.free)
    <2>1. /\ stage' = CASE builds -> "estimate_validated"
                        [] AllSealed(batch') /\ ~builds -> stage
                        [] OTHER -> "pricing_partial"
          /\ quote' = IF builds THEN [built |-> TRUE, free |-> batch'.free] ELSE quote
      BY DEF SaveFragment
    <2>2. batch'.free \in SUBSET Components
      BY <1>3 DEF BatchRecord
    <2>3. builds => AllSealed(batch') /\ ~quote.built /\ ProvableQuote(batch', batch'.free)
      OBVIOUS
    <2> HIDE DEF builds
    <2>4. stage' \in {stage, "pricing_partial", "estimate_validated"}
      BY <2>1
    <2> QED  BY <1>1, <2>1, <2>2, <2>3, <2>4
  <1>10. ASSUME quote' # quote, NEW v \in Waves PROVE Complete(batch, v, batch'.free)
    BY <1>6, <1>9, <1>10, ProvableIsComplete DEF ProvableQuote
  <1>11. stage' \in Stages
    BY <1>9 DEF IInv, Types, Stages
  <1>12. CompletedIsCovered'
    <2> SUFFICES ASSUME stage' = "pricing_completed"
                 PROVE  /\ AllRegistered(batch')
                        /\ \A s \in batch'.plan :
                             \/ Evidenced(batch', s)
                             \/ Sealed(batch', WaveOfScope(s)) /\ Covered(batch', s, batch'.free)
      BY DEF CompletedIsCovered
    <2>1. /\ AllRegistered(batch)
          /\ \A s \in batch.plan :
               \/ Evidenced(batch, s)
               \/ Sealed(batch, WaveOfScope(s)) /\ Covered(batch, s, batch.free)
      BY <1>9 DEF IInv, CompletedIsCovered
    <2>2. AllRegistered(batch')
      BY <1>6, <2>1 DEF AllRegistered
    <2>3. ASSUME NEW s \in batch.plan, Sealed(batch, WaveOfScope(s))
          PROVE  Sealed(batch', WaveOfScope(s))
      <3>1. WaveOfScope(s) \in Waves
        BY <1>1, ScopesAssumption DEF BatchRecord, WaveOfScope, Waves
      <3> QED  BY <1>5, <2>3, <3>1
    <2>4. ASSUME NEW s, Covered(batch, s, batch.free) PROVE Covered(batch', s, batch'.free)
      BY <1>3, <1>6, <2>4 DEF Covered
    <2> QED  BY <1>3, <1>6, <2>1, <2>2, <2>3, <2>4
  <1>13. CallsAreFresh'
    BY <1>2, <1>3 DEF IInv, CallsAreFresh
  <1>14. IInv'
    BY <1>2, <1>3, <1>7, <1>8, <1>9, <1>11, <1>12, <1>13 DEF IInv, Types
  <1>15. Sealed(batch, w) => batch'.free = batch.free
    BY <1>2, <1>3
  <1> QED  BY <1>3, <1>4, <1>5, <1>9, <1>10, <1>14, <1>15

LEMMA BuildQuoteStep ==
  ASSUME IInv, NEW free \in SUBSET MayBeFree, BuildQuote(free)
  PROVE  IInv' /\ \A w \in Waves : Complete(batch, w, free)
  <1>1. UNCHANGED <<batch, refused, call, disturbed>> /\ quote' = [built |-> TRUE, free |-> free]
        /\ stage' = "estimate_validated"
    BY DEF BuildQuote
  <1>2. \A w \in Waves : Complete(batch, w, free)
    BY ProvableIsComplete DEF BuildQuote, ProvableQuote
  <1>3. free \in SUBSET Components
    BY BatchAssumption
  <1> QED  BY <1>1, <1>2, <1>3 DEF IInv, Types, Stages, CompletedIsCovered, CallsAreFresh

\* The agents' results, and the quotes built without one.
Sealing == \E w \in Waves, meta \in Metas :
             \E free \in SUBSET (ComponentsIn(w) \intersect MayBeFree) :
               SaveFragment(w, meta, free)
Building == \E free \in SUBSET MayBeFree : BuildQuote(free)

LEMMA IInvStep == IInv /\ [Next]_vars => IInv'
  <1> SUFFICES ASSUME IInv, [Next]_vars PROVE IInv'
    OBVIOUS
  <1>1. CASE \E c \in Calls : GetPrices(c)
    BY <1>1, GetSavedStep, AskApiStep DEF GetPrices
  <1>2. CASE \E c \in Calls : /\ call[c] # Nobody
                           /\ \E answer \in [call[c].asked -> MaySend] : PricesArrive(c, answer)
    BY <1>2, PricesArriveStep
  <1>3. CASE (\E c \in Calls : PricesFail(c)) \/ Restart \/ RefusalExpires
    BY <1>3, CallLostStep
  <1>4. CASE Sealing
    BY <1>4, SaveFragmentStep DEF Sealing
  <1>5. CASE Building
    BY <1>5, BuildQuoteStep DEF Building
  <1>6. CASE UNCHANGED vars
    BY <1>6 DEF vars, IInv, Types, CallsAreFresh, CompletedIsCovered
  <1> QED
    BY <1>1, <1>2, <1>3, <1>4, <1>5, <1>6 DEF Next, Sealing, Building

LEMMA IInvHolds == Spec => []IInv
  BY InitIInv, IInvStep, PTL DEF Spec

-----------------------------------------------------------------------------
(* What holds of every price batch *)

\* The shape of the batch: no id is listed twice, every id has a query.
THEOREM TypeCorrect == Spec => []TypeOK
  <1>1. IInv => TypeOK
    <2> SUFFICES ASSUME IInv PROVE TypeOK
      OBVIOUS
    <2>1. /\ Asked(batch) \subseteq Ids /\ batch.result \in [Ids -> Kinds]
          /\ batch.context \in [Ids -> Contexts] /\ batch.plan \subseteq Scopes
          /\ batch.page \subseteq Scopes /\ batch.seal \in [Waves -> Metas \union {NoMeta}]
          /\ batch.free \subseteq Components
          /\ \A i, j \in DOMAIN batch.order : batch.order[i] = batch.order[j] => i = j
      BY DEF IInv, Types, BatchRecord, Asked, Distinct
    <2> QED  BY <2>1 DEF IInv, Types, TypeOK, Stages
  <1> QED  BY <1>1, IInvHolds, PTL

\* A checkpoint that sends the agent on to build_estimate has every planned
\* scope accounted for: by evidence, or in the saved result of its wave.
THEOREM CompletedCovered == Spec => []CompletedIsCovered
  <1>1. IInv => CompletedIsCovered
    BY DEF IInv
  <1> QED  BY <1>1, IInvHolds, PTL

-----------------------------------------------------------------------------
(* The limit of requests per scope *)

\* What a merge does when its answers are for ids that have none.
LEMMA MergeAnswers ==
  ASSUME NEW b \in BatchRecord, Distinct(b.order), ScopesBilled(b),
         NEW r \in Requests, NEW seen, NEW answer,
         Answering(b, r, seen, answer), Mergeable(b, seen, r, answer),
         \A id \in DOMAIN answer : b.result[id] \in {"none", "skipped"}
  PROVE  LET m == Merged(b, r, answer)
         IN  /\ \A id \in DOMAIN answer : m.result[id] = answer[id]
             /\ \A id \in Ids : id \notin DOMAIN answer => m.result[id] = b.result[id]
             /\ DOMAIN r.ask \subseteq Asked(m)
             /\ \A id \in DOMAIN r.ask : ScopeOf(m, id) = r.ask[id].context.scope
  <1> DEFINE n == WithRequest(b, r)
             m == Merged(b, r, answer)
             result == [id \in Ids |-> IF id \in DOMAIN answer /\ ~Keep(b, n, id)
                                       THEN answer[id] ELSE n.result[id]]
             page == n.page \union {x[1] : x \in r.page}
  <1>1. ContextsFit(b.context, Update(r), Asked(n))
    BY DEF Mergeable
  <1>2. /\ n \in BatchRecord /\ n.result = b.result
        /\ \A id \in DOMAIN r.ask : ScopeOf(n, id) = r.ask[id].context.scope
    <2> HIDE DEF n
    <2> QED  BY <1>1, RequestAdds DEF n
  <1>3. DOMAIN r.ask \subseteq Asked(n)
    BY <1>1 DEF ContextsFit, UpdateAllowed, Update
  <1>4. m = [[n EXCEPT !.result = result] EXCEPT !.page = page]
    BY DEF Merged, WithPages, WithAnswers
  <1> HIDE DEF n, m, page
  <1>5. m.result = result /\ m.order = n.order /\ m.context = n.context
    BY <1>2, <1>4 DEF BatchRecord
  <1>6. \A id \in DOMAIN answer : id \in Ids /\ ~Keep(b, n, id)
    BY RequestType DEF Answering, Keep, Reusable
  <1> QED  BY <1>2, <1>3, <1>5, <1>6 DEF Asked, ScopeOf, m

\* The ids of a scope that the API has answered, and those it is asked for.
Spent(b, s) == {id \in Attempts(b, s) : b.result[id] \notin {"none", "skipped"}}
Underway(s) ==
  {id \in Ids : \E c \in Calls : /\ call[c] # Nobody /\ id \in call[c].asked
                                 /\ call[c].request.ask[id].context.scope = s}

\* While calls follow one another, a single call is under way, nobody else gets
\* an answer to its queries, and whatever was sent is answered or under way.
OneAtATime == \A c, d \in Calls : call[c] # Nobody /\ call[d] # Nobody => c = d
OwnAnswers ==
  \A c \in Calls : call[c] # Nobody =>
    \A id \in call[c].asked \union call[c].skipped : batch.result[id] \in {"none", "skipped"}
SentIsSpent ==
  \A s \in Scopes : sent[s] <= Cardinality(Spent(batch, s) \union Underway(s))

Account ==
  /\ sent \in [Scopes -> Nat]
  /\ ~disturbed => OneAtATime /\ OwnAnswers /\ SentIsSpent /\ AttemptsBounded

LEMMA InitAccount == Init => Account
  <1> SUFFICES ASSUME Init PROVE Account
    OBVIOUS
  <1>1. sent = [s \in Scopes |-> 0] /\ \A c \in Calls : call[c] = Nobody
    BY DEF Init
  <1>2. \A s \in Scopes : Spent(batch, s) \union Underway(s) \in SUBSET Ids
    BY DEF Init, NewBatch, Spent, Attempts, Asked, Underway
  <1>3. \A s \in Scopes : Cardinality(Spent(batch, s) \union Underway(s)) \in Nat
    BY <1>2, FS_Subset, FS_CardinalityType, BatchAssumption
  <1>4. SentIsSpent /\ AttemptsBounded
    BY <1>1, <1>3, BatchAssumption DEF SentIsSpent, AttemptsBounded
  <1> QED  BY <1>1, <1>4 DEF Account, OneAtATime, OwnAnswers

\* Sets of ids are finite, and a larger one has no fewer members.
LEMMA Counting ==
  ASSUME NEW S \in SUBSET Ids, NEW T \in SUBSET Ids
  PROVE  /\ IsFiniteSet(S) /\ Cardinality(S) \in Nat
         /\ S \subseteq T => Cardinality(S) <= Cardinality(T)
         /\ S \intersect T = {} => Cardinality(S \union T) = Cardinality(S) + Cardinality(T)
  <1>1. IsFiniteSet(S) /\ IsFiniteSet(T)
    BY FS_Subset, BatchAssumption
  <1>2. Cardinality(S) \in Nat /\ Cardinality(T) \in Nat
    BY <1>1, FS_CardinalityType
  <1>3. S \subseteq T => Cardinality(S) <= Cardinality(T)
    BY <1>1, FS_Subset
  <1>4. Cardinality(S \union T) = Cardinality(S) + Cardinality(T) - Cardinality(S \intersect T)
    BY <1>1, FS_Union
  <1>5. S \intersect T = {} => Cardinality(S \intersect T) = 0
    BY FS_EmptySet
  <1> QED  BY <1>1, <1>2, <1>3, <1>4, <1>5

LEMMA SpentIds ==
  ASSUME NEW b \in BatchRecord, NEW s
  PROVE  Spent(b, s) \in SUBSET Ids /\ Underway(s) \in SUBSET Ids
  BY DEF Spent, Attempts, Asked, BatchRecord, Underway

\* Such a merge keeps what is spent, and its own answers are spent on the
\* scopes they were asked for.
LEMMA MergeSpends ==
  ASSUME NEW b \in BatchRecord, Distinct(b.order), ScopesBilled(b), AllAnswered(b),
         NEW r \in Requests, NEW seen, NEW answer,
         Answering(b, r, seen, answer), Mergeable(b, seen, r, answer),
         \A id \in DOMAIN answer : b.result[id] \in {"none", "skipped"},
         NEW s \in Scopes
  PROVE  LET m == Merged(b, r, answer)
         IN  /\ Spent(b, s) \subseteq Spent(m, s)
             /\ \A id \in DOMAIN answer :
                  answer[id] # "skipped" /\ r.ask[id].context.scope = s => id \in Spent(m, s)
  <1> DEFINE m == Merged(b, r, answer)
  <1>1. m \in BatchRecord /\ Grows(b, m)
    BY MergeAdds
  <1>2. /\ \A id \in DOMAIN answer : m.result[id] = answer[id]
        /\ \A id \in Ids : id \notin DOMAIN answer => m.result[id] = b.result[id]
        /\ DOMAIN r.ask \subseteq Asked(m)
        /\ \A id \in DOMAIN r.ask : ScopeOf(m, id) = r.ask[id].context.scope
    BY MergeAnswers
  <1> HIDE DEF m
  <1>3. ASSUME NEW id \in Spent(b, s) PROVE id \in Spent(m, s)
    <2>1. id \in Asked(b) /\ id \in Ids /\ ScopeOf(b, id) = s /\ s # NoScope
      BY <1>3, ScopesAssumption DEF Spent, Attempts, Asked, BatchRecord
    <2>2. m.result[id] = b.result[id]
      BY <1>2, <1>3, <2>1 DEF Spent
    <2>3. id \in Attempts(m, s)
      BY <1>1, <2>1 DEF Grows, Attempts
    <2> QED  BY <1>3, <2>2, <2>3 DEF Spent
  <1>4. ASSUME NEW id \in DOMAIN answer, answer[id] # "skipped", r.ask[id].context.scope = s
        PROVE  id \in Spent(m, s)
    <2>1. id \in Attempts(m, s)
      BY <1>2, <1>4 DEF Attempts, Answering
    <2> QED  BY <1>2, <1>4, <2>1 DEF Spent, Answering, Answers
  <1> QED  BY <1>3, <1>4 DEF m

LEMMA GetSavedAccount ==
  ASSUME IInv, Account, NEW c \in Calls, NEW r \in Requests, GetSaved(c, r)
  PROVE  Account'
  <1> DEFINE answer == [id \in Skips(batch, r) |-> "skipped"]
             m == Merged(batch, r, answer)
  <1>1. Skips(batch, r) = {id \in DOMAIN r.ask : batch.result[id] = "none"}
    BY DEF GetSaved, Outgoing, Skips, Unanswered
  <1>2. Answering(batch, r, Queries(batch), answer)
    BY <1>1 DEF Answering, Queries, IInv, AllAnswered
  <1>3. Save(r, Queries(batch), answer) /\ UNCHANGED <<call, sent>>
    BY DEF GetSaved
  <1>4. \A id \in DOMAIN answer : batch.result[id] = "none" /\ answer[id] = "skipped"
    BY <1>1
  <1> HIDE DEF answer
  <1> SUFFICES ASSUME ~disturbed'
               PROVE  (OneAtATime /\ OwnAnswers /\ SentIsSpent /\ AttemptsBounded)'
    BY <1>3 DEF Account
  <1>5. Mergeable(batch, Queries(batch), r, answer) /\ ~disturbed /\ batch' = m
    BY <1>3 DEF Save
  <1>6. batch \in BatchRecord /\ m \in BatchRecord /\ Grows(batch, m)
    BY <1>2, <1>5, MergeAdds DEF IInv, Types
  <1>7. \A s \in Scopes : Spent(batch, s) \subseteq Spent(m, s)
    BY <1>2, <1>4, <1>5, MergeSpends DEF IInv, Types
  <1>8. \A id \in Ids : m.result[id] # batch.result[id] => m.result[id] = "skipped"
    BY <1>2, <1>4, <1>5, MergeAnswers DEF IInv, Types
  <1> HIDE DEF m
  <1>9. OwnAnswers'
    <2> SUFFICES ASSUME NEW d \in Calls, call[d] # Nobody,
                        NEW id \in call[d].asked \union call[d].skipped
                 PROVE  m.result[id] \in {"none", "skipped"}
      BY <1>3, <1>5 DEF OwnAnswers
    <2>1. id \in Ids
      BY DEF IInv, CallsAreFresh, Waiting
    <2> QED  BY <1>5, <1>8, <2>1 DEF Account, OwnAnswers
  <1>10. ASSUME NEW s \in Scopes PROVE Underway(s)' = Underway(s)
    BY <1>3 DEF Underway
  <1>11. SentIsSpent'
    <2> SUFFICES ASSUME NEW s \in Scopes
                 PROVE  sent[s] <= Cardinality(Spent(m, s) \union Underway(s))
      BY <1>3, <1>5, <1>10 DEF SentIsSpent
    <2> DEFINE old == Spent(batch, s) \union Underway(s)
               new == Spent(m, s) \union Underway(s)
    <2>1. old \in SUBSET Ids /\ new \in SUBSET Ids /\ old \subseteq new
      BY <1>6, <1>7, SpentIds
    <2>2. sent[s] \in Nat /\ sent[s] <= Cardinality(old)
      BY <1>5 DEF Account, SentIsSpent
    <2> HIDE DEF old, new
    <2>3. Cardinality(old) \in Nat /\ Cardinality(new) \in Nat /\ Cardinality(old) <= Cardinality(new)
      BY <2>1, Counting
    <2> QED  BY <2>2, <2>3 DEF new
  <1>12. AttemptsBounded'
    BY <1>3, <1>5, <1>6, PriceStays DEF Account, AttemptsBounded
  <1>13. OneAtATime'
    BY <1>3, <1>5 DEF Account, OneAtATime
  <1> QED  BY <1>9, <1>11, <1>12, <1>13

LEMMA AskApiAccount ==
  ASSUME IInv, Account, NEW c \in Calls, call[c] = Nobody,
         NEW r \in Requests, Acceptable(batch, r), AskApi(c, r)
  PROVE  Account'
  <1> DEFINE out == Outgoing(batch, r)
             for(s) == {id \in out : r.ask[id].context.scope = s}
             n == WithRequest(batch, r)
             k == [request |-> r, seen |-> Queries(batch), asked |-> out,
                   skipped |-> Skips(batch, r)]
  <1>1. /\ batch' = batch /\ call' = [call EXCEPT ![c] = k]
        /\ sent' = [s \in Scopes |-> IF disturbed THEN 0 ELSE sent[s] + Asks(r, s)]
        /\ disturbed' = (disturbed \/ (\E d \in Calls : call[d] # Nobody)
                          \/ \E s \in Scopes : Asks(r, s) > 1)
    BY DEF AskApi
  <1>2. /\ out \subseteq DOMAIN r.ask /\ out \in SUBSET Ids
        /\ \A id \in out \union Skips(batch, r) : batch.result[id] = "none"
    BY RequestType DEF Outgoing, Skips, Unanswered
  <1>3. \A s \in Scopes : for(s) \in SUBSET Ids /\ Asks(r, s) = Cardinality(for(s)) /\ Asks(r, s) \in Nat
    BY <1>2, Counting DEF Asks
  <1>4. sent' \in [Scopes -> Nat]
    <2> SUFFICES ASSUME NEW s \in Scopes PROVE sent[s] + Asks(r, s) \in Nat
      BY <1>1
    <2>1. sent[s] \in Nat
      BY DEF Account
    <2>2. Asks(r, s) \in Nat
      BY <1>3
    <2> HIDE DEF for, out
    <2> QED  BY <2>1, <2>2
  <1> SUFFICES ASSUME ~disturbed'
               PROVE  (OneAtATime /\ OwnAnswers /\ SentIsSpent /\ AttemptsBounded)'
    BY <1>4 DEF Account
  <1>5. /\ ~disturbed /\ \A d \in Calls : call[d] = Nobody
        /\ \A s \in Scopes : Asks(r, s) <= 1 /\ sent'[s] = sent[s] + Asks(r, s)
    <2>1. ~disturbed /\ (\A d \in Calls : call[d] = Nobody) /\ \A s \in Scopes : ~(Asks(r, s) > 1)
      BY <1>1
    <2>2. \A s \in Scopes : Asks(r, s) \in Nat
      BY <1>3
    <2>3. \A s \in Scopes : Asks(r, s) <= 1
      <3> SUFFICES ASSUME NEW s \in Scopes PROVE Asks(r, s) <= 1
        OBVIOUS
      <3> HIDE DEF for, out
      <3> QED  BY <2>1, <2>2
    <2>4. \A s \in Scopes : sent'[s] = sent[s] + Asks(r, s)
      BY <1>1, <2>1
    <2> QED  BY <2>1, <2>3, <2>4
  <1>6. k.request = r /\ k.asked = out /\ k.skipped = Skips(batch, r)
    OBVIOUS
  <1> HIDE DEF k, out, n
  <1>7. /\ call'[c] = k /\ \A d \in Calls : d # c => call'[d] = Nobody
        /\ k # Nobody
    <2>1. call'[c] = k
      BY <1>1 DEF IInv, Types
    <2>2. k # Nobody
      BY <2>1, AskApiStep, BatchAssumption
    <2> QED  BY <1>1, <1>5, <2>1, <2>2 DEF IInv, Types
  <1>8. OneAtATime' /\ OwnAnswers'
    BY <1>1, <1>2, <1>6, <1>7 DEF OneAtATime, OwnAnswers
  <1>9. ASSUME NEW s \in Scopes
        PROVE  /\ Underway(s) = {} /\ Underway(s)' = for(s)
               /\ Spent(batch, s) \intersect for(s) = {}
    <2>1. Underway(s) = {}
      BY <1>5 DEF Underway
    <2>2. Underway(s)' = for(s)
      BY <1>2, <1>6, <1>7 DEF Underway
    <2>3. Spent(batch, s) \intersect for(s) = {}
      BY <1>2 DEF Spent
    <2> QED  BY <2>1, <2>2, <2>3
  <1>10. ASSUME NEW s \in Scopes
         PROVE  /\ Cardinality(Spent(batch, s) \union for(s))
                     = Cardinality(Spent(batch, s)) + Asks(r, s)
                /\ sent[s] <= Cardinality(Spent(batch, s))
                /\ Cardinality(Spent(batch, s)) \in Nat /\ sent[s] \in Nat
    <2>1. Spent(batch, s) \in SUBSET Ids /\ for(s) \in SUBSET Ids
      BY <1>3, SpentIds DEF IInv, Types
    <2>2. Spent(batch, s) \union Underway(s) = Spent(batch, s)
      BY <1>9
    <2>3. sent[s] <= Cardinality(Spent(batch, s)) /\ sent[s] \in Nat
      BY <1>5, <2>2 DEF Account, SentIsSpent
    <2>4. Spent(batch, s) \intersect for(s) = {} /\ Asks(r, s) = Cardinality(for(s))
      BY <1>3, <1>9
    <2> HIDE DEF for
    <2> QED  BY <2>1, <2>3, <2>4, Counting
  <1>11. SentIsSpent'
    <2> SUFFICES ASSUME NEW s \in Scopes
                 PROVE  sent'[s] <= Cardinality(Spent(batch, s) \union for(s))
      BY <1>1, <1>9 DEF SentIsSpent
    <2> DEFINE spent == Cardinality(Spent(batch, s))
               all == Cardinality(Spent(batch, s) \union for(s))
               more == Asks(r, s)
    <2>1. more \in Nat /\ spent \in Nat /\ sent[s] \in Nat /\ sent[s] <= spent
      BY <1>3, <1>10
    <2>2. all = spent + more /\ sent'[s] = sent[s] + more
      BY <1>5, <1>10
    <2> HIDE DEF spent, all, more
    <2>3. sent'[s] <= all
      BY <2>1, <2>2
    <2> QED  BY <2>3 DEF all
  <1>12. AttemptsBounded'
    <2> SUFFICES ASSUME NEW s \in Scopes, ~Priced(batch, s) PROVE sent'[s] <= AttemptLimit
      BY <1>1 DEF AttemptsBounded
    <2> DEFINE more == Asks(r, s)
    <2>1. sent[s] <= AttemptLimit
      BY <1>5 DEF Account, AttemptsBounded
    <2>2. more \in Nat /\ more <= 1 /\ sent[s] \in Nat /\ sent'[s] = sent[s] + more
      BY <1>3, <1>5, <1>10
    <2>3. AttemptLimit \in Nat
      BY BatchAssumption
    <2>4. ASSUME more = 1 PROVE sent[s] < AttemptLimit
      <3>1. for(s) # {}
        BY <1>3, <2>4, FS_EmptySet
      <3>2. PICK id \in out : r.ask[id].context.scope = s
        BY <3>1
      <3> DEFINE tried == Tried(batch, n, ScopeOf(n, id))
      <3>3. id \in DOMAIN r.ask /\ ~(Cardinality(Counted(batch, tried)) >= AttemptLimit)
        BY <1>2, <3>2 DEF Outgoing, Skips, Skipped, out, n
      <3>4. /\ ScopeOf(n, id) = s
            /\ \A x \in Ids : ScopeOf(batch, x) # NoScope => ScopeOf(n, x) = ScopeOf(batch, x)
        BY <3>2, <3>3, RequestAdds DEF Acceptable, IInv, Types, n
      <3>5. s # NoScope /\ Asked(batch) \subseteq Ids
        BY ScopesAssumption DEF Asked, IInv, Types, BatchRecord
      <3>6. Spent(batch, s) \subseteq Counted(batch, tried)
        BY <3>4, <3>5 DEF Spent, Attempts, Counted, Tried, Priced, Done
      <3>7. Spent(batch, s) \in SUBSET Ids /\ Counted(batch, tried) \in SUBSET Ids
        BY <3>5 DEF Spent, Attempts, Counted, Tried
      <3>8. Cardinality(Spent(batch, s)) <= Cardinality(Counted(batch, tried))
            /\ Cardinality(Counted(batch, tried)) \in Nat
        BY <3>6, <3>7, Counting
      <3> DEFINE spent == Cardinality(Spent(batch, s))
                 counted == Cardinality(Counted(batch, tried))
      <3>9. spent \in Nat /\ sent[s] <= spent /\ spent <= counted /\ counted \in Nat
        BY <1>10, <3>8
      <3>10. ~(counted >= AttemptLimit)
        BY <3>3
      <3> HIDE DEF tried, spent, counted
      <3> QED  BY <2>2, <2>3, <3>9, <3>10
    <2> HIDE DEF more
    <2> QED  BY <2>1, <2>2, <2>3, <2>4
  <1> QED  BY <1>8, <1>11, <1>12

LEMMA PricesArriveAccount ==
  ASSUME IInv, Account, NEW c \in Calls, call[c] # Nobody,
         NEW answer \in [call[c].asked -> MaySend], PricesArrive(c, answer)
  PROVE  Account'
  <1> DEFINE k == call[c]
             all == [id \in k.asked \union k.skipped |->
                       IF id \in k.asked THEN answer[id] ELSE "skipped"]
             m == Merged(batch, k.request, all)
  <1>1. /\ k.request \in Requests
        /\ k.asked \union k.skipped \subseteq DOMAIN k.request.ask
        /\ \A id \in k.asked \union k.skipped : id \notin DOMAIN k.seen
        /\ \A id \in DOMAIN k.request.ask :
             id \in k.asked \union k.skipped \/ batch.result[id] # "none"
    BY DEF IInv, CallsAreFresh, Waiting
  <1>2. /\ DOMAIN all = k.asked \union k.skipped
        /\ \A id \in DOMAIN all : all[id] \in Answers \union {"skipped"}
        /\ \A id \in k.asked : all[id] # "skipped"
    BY BatchAssumption DEF Answers
  <1>3. Answering(batch, k.request, k.seen, all)
    BY <1>1, <1>2 DEF Answering
  <1>4. Save(k.request, k.seen, all) /\ call' = [call EXCEPT ![c] = Nobody] /\ sent' = sent
    BY DEF PricesArrive
  <1> SUFFICES ASSUME ~disturbed'
               PROVE  (OneAtATime /\ OwnAnswers /\ SentIsSpent /\ AttemptsBounded)'
    BY <1>4 DEF Account
  <1> HIDE DEF all, k
  <1>5. Mergeable(batch, k.seen, k.request, all) /\ ~disturbed /\ batch' = m
    BY <1>4 DEF Save
  <1>6. \A id \in DOMAIN all : batch.result[id] \in {"none", "skipped"}
    BY <1>2, <1>5 DEF Account, OwnAnswers, k
  <1>7. \A d \in Calls : call'[d] = Nobody
    BY <1>4, <1>5 DEF Account, OneAtATime, IInv, Types
  <1>8. OneAtATime' /\ OwnAnswers'
    BY <1>7 DEF OneAtATime, OwnAnswers
  <1>9. m \in BatchRecord /\ Grows(batch, m)
    BY <1>1, <1>3, <1>5, MergeAdds DEF IInv, Types
  <1>10. ASSUME NEW s \in Scopes
         PROVE  Spent(batch, s) \union Underway(s) \subseteq Spent(m, s)
    <2>1. /\ Spent(batch, s) \subseteq Spent(m, s)
          /\ \A id \in DOMAIN all :
               all[id] # "skipped" /\ k.request.ask[id].context.scope = s => id \in Spent(m, s)
      BY <1>1, <1>3, <1>5, <1>6, MergeSpends DEF IInv, Types
    <2>2. ASSUME NEW id \in Underway(s) PROVE id \in k.asked /\ k.request.ask[id].context.scope = s
      BY <1>5, <2>2 DEF Underway, Account, OneAtATime, k
    <2> QED  BY <1>2, <2>1, <2>2
  <1> HIDE DEF m
  <1>11. SentIsSpent'
    <2> SUFFICES ASSUME NEW s \in Scopes
                 PROVE  sent[s] <= Cardinality(Spent(m, s) \union Underway(s)')
      BY <1>4, <1>5 DEF SentIsSpent
    <2> DEFINE old == Spent(batch, s) \union Underway(s)
               new == Spent(m, s) \union Underway(s)'
    <2>1. Underway(s)' = {}
      BY <1>7 DEF Underway
    <2>2. new = Spent(m, s)
      BY <2>1
    <2>3. old \in SUBSET Ids /\ new \in SUBSET Ids /\ old \subseteq new
      BY <1>9, <1>10, <2>2, SpentIds
    <2>4. sent[s] \in Nat /\ sent[s] <= Cardinality(old)
      BY <1>5 DEF Account, SentIsSpent
    <2> HIDE DEF old, new
    <2>5. Cardinality(old) \in Nat /\ Cardinality(new) \in Nat /\ Cardinality(old) <= Cardinality(new)
      BY <2>3, Counting
    <2> QED  BY <2>4, <2>5 DEF new
  <1>12. AttemptsBounded'
    <2>1. \A s \in Scopes : Priced(batch, s) => Priced(m, s)
      BY <1>9, PriceStays DEF IInv, Types
    <2> QED  BY <1>4, <1>5, <2>1 DEF Account, AttemptsBounded
  <1> QED  BY <1>8, <1>11, <1>12

\* Neither the batch's queries nor the calls change.
LEMMA SameAccount ==
  ASSUME Account, UNCHANGED <<call, sent, disturbed>>,
         batch'.order = batch.order, batch'.result = batch.result,
         batch'.context = batch.context
  PROVE  Account'
  <1>1. \A s : Attempts(batch', s) = Attempts(batch, s)
    BY DEF Attempts, Asked, ScopeOf
  <1>2. \A s : Spent(batch', s) = Spent(batch, s) /\ (Priced(batch', s) <=> Priced(batch, s))
    BY <1>1 DEF Spent, Priced, Done, ScopeOf
  <1>3. \A s : Underway(s)' = Underway(s)
    BY DEF Underway
  <1> QED
    BY <1>2, <1>3 DEF Account, OneAtATime, OwnAnswers, SentIsSpent, AttemptsBounded

LEMMA AccountStep == IInv /\ Account /\ [Next]_vars => Account'
  <1> SUFFICES ASSUME IInv, Account, [Next]_vars PROVE Account'
    OBVIOUS
  <1>1. CASE \E c \in Calls : GetPrices(c)
    BY <1>1, GetSavedAccount, AskApiAccount DEF GetPrices
  <1>2. CASE \E c \in Calls : /\ call[c] # Nobody
                           /\ \E answer \in [call[c].asked -> MaySend] : PricesArrive(c, answer)
    BY <1>2, PricesArriveAccount
  <1>3. CASE (\E c \in Calls : PricesFail(c)) \/ Restart
    BY <1>3 DEF PricesFail, Restart, Account
  <1>4. CASE RefusalExpires \/ Building \/ UNCHANGED vars
    BY <1>4, SameAccount DEF RefusalExpires, Building, BuildQuote, vars
  <1>5. CASE Sealing
    <2>0. PICK w \in Waves, meta \in Metas :
            \E free \in SUBSET (ComponentsIn(w) \intersect MayBeFree) : SaveFragment(w, meta, free)
      BY <1>5 DEF Sealing
    <2>1. PICK free \in SUBSET ComponentsIn(w) : SaveFragment(w, meta, free)
      BY <2>0
    <2> QED  BY <2>1, SaveFragmentStep, SameAccount DEF SaveFragment
  <1> QED
    BY <1>1, <1>2, <1>3, <1>4, <1>5 DEF Next, Sealing, Building

\* The limit of requests per scope: while calls follow one another and are
\* saved, no scope without a price has been asked for more often than the
\* policy allows, for every number of queries, scopes and waves.
THEOREM AttemptsAreBounded == Spec => []AttemptsBounded
  <1>1. Init => IInv /\ Account
    BY InitIInv, InitAccount
  <1>2. IInv /\ Account /\ [Next]_vars => (IInv /\ Account)'
    BY IInvStep, AccountStep
  <1>3. IInv /\ Account => AttemptsBounded \/ disturbed
    BY DEF Account
  <1>4. IInv /\ Account => AttemptsBounded
    BY <1>3 DEF AttemptsBounded
  <1> QED  BY <1>1, <1>2, <1>4, PTL DEF Spec

-----------------------------------------------------------------------------
(* The batch implements the ledger *)

PriceIds(b) == {x \in Asked(b) : b.result[x] = "priced" /\ ScopeOf(b, x) # NoScope}
Prices(b)   == {<<id, ScopeOf(b, id)>> : id \in PriceIds(b)}
Seals(b)    == {w \in Waves : Sealed(b, w)}

\* A price is one in the ledger, and what is accounted for is so there.
LEMMA LedgerPriced ==
  ASSUME batch \in BatchRecord, NEW s \in Scopes, Priced(batch, s)
  PROVE  Ledger!Priced(s)
  <1>1. PICK id \in Attempts(batch, s) : Done(batch, id)
    BY DEF Priced
  <1>2. id \in PriceIds(batch) /\ ScopeOf(batch, id) = s
    BY <1>1, ScopesAssumption DEF PriceIds, Attempts, Done, Reusable
  <1>3. <<id, s>> \in Prices(batch) /\ <<id, s>>[2] = s
    BY <1>2 DEF Prices
  <1> QED  BY <1>3 DEF Ledger!Priced, Prices, PriceIds

LEMMA LedgerComplete ==
  ASSUME batch \in BatchRecord, NEW w, NEW free, Complete(batch, w, free)
  PROVE  Ledger!Complete(w, ScopesOf(free))
  <1> DEFINE wave == [s \in Scopes |-> WaveOfScope(s)]
  <1>1. batch.plan \subseteq Scopes /\ \A s \in batch.plan : wave[s] = WaveOfScope(s)
    BY DEF BatchRecord
  <1>2. \E s \in batch.plan : wave[s] = w
    BY <1>1 DEF Complete, Registered
  <1>3. ASSUME NEW s \in batch.plan, wave[s] = w PROVE Ledger!AccountedFor(s, ScopesOf(free))
    <2>1. Covered(batch, s, free) /\ s \in Scopes
      BY <1>1, <1>3 DEF Complete
    <2>2. CASE s \in batch.page
      BY <2>2 DEF Ledger!AccountedFor
    <2>3. CASE Priced(batch, s)
      BY <2>1, <2>3, LedgerPriced DEF Ledger!AccountedFor
    <2>4. CASE ByFallback(batch, s)
      <3>1. PICK base \in FallbackOf[s] : Priced(batch, base)
        BY <2>4 DEF ByFallback
      <3>2. base \in Scopes
        BY <2>1, BatchAssumption
      <3>3. Ledger!Priced(base)
        BY <1>1, <3>1, <3>2, LedgerPriced
      <3> QED  BY <3>1, <3>3 DEF Ledger!AccountedFor
    <2>5. CASE OwnerOf[s] \in free
      BY <2>1, <2>5 DEF Ledger!AccountedFor, ScopesOf
    <2> QED  BY <2>1, <2>2, <2>3, <2>4, <2>5 DEF Covered, Evidenced
  <1> QED  BY <1>2, <1>3 DEF Ledger!Complete

LEMMA GathersInLedger ==
  ASSUME batch \in BatchRecord, batch' \in BatchRecord, Gathers, quote' = quote
  PROVE  Ledger!Gather
  <1> DEFINE wave == [s \in Scopes |-> WaveOfScope(s)]
  <1>1. batch.plan \subseteq batch'.plan /\ batch.page \subseteq batch'.page
    BY DEF Gathers, Grows
  <1>2. \A s \in batch'.plan : wave[s] = WaveOfScope(s)
    BY DEF BatchRecord
  <1>3. \A s \in batch'.plan \ batch.plan : \A t \in batch.plan : wave[s] # wave[t]
    BY <1>1, <1>2 DEF Gathers, Registered
  <1>4. Prices(batch) \subseteq Prices(batch')
    <2> SUFFICES ASSUME NEW id \in PriceIds(batch)
                 PROVE  id \in PriceIds(batch') /\ ScopeOf(batch', id) = ScopeOf(batch, id)
      BY DEF Prices
    <2>1. id \in Asked(batch) /\ id \in Ids
      BY DEF PriceIds, Asked, BatchRecord
    <2> QED  BY <2>1 DEF PriceIds, Gathers, Grows
  <1>5. Seals(batch') = Seals(batch)
    BY DEF Gathers, Seals, Sealed
  <1>6. ScopesOf(batch'.free) = ScopesOf(batch.free)
    BY DEF Gathers
  <1>7. [quote EXCEPT !.free = ScopesOf(@)]' = [quote EXCEPT !.free = ScopesOf(@)]
    BY DEF ScopesOf
  <1> QED  BY <1>1, <1>3, <1>4, <1>5, <1>6, <1>7
             DEF Ledger!Gather, Ledger!Register, Prices, PriceIds, Seals

\* The quote as the ledger sees it.
LEMMA LedgerQuote ==
  ASSUME NEW built \in BOOLEAN, NEW free
  PROVE  [[built |-> built, free |-> free] EXCEPT !.free = ScopesOf(@)]
           = [built |-> built, free |-> ScopesOf(free)]
  OBVIOUS

LEMMA InitIsLedger == Init => Ledger!Init
  <1> SUFFICES ASSUME Init PROVE Ledger!Init
    OBVIOUS
  <1>1. ScopesOf({}) = {} /\ batch.free = {} /\ quote = [built |-> FALSE, free |-> {}]
    BY DEF Init, NewBatch, ScopesOf
  <1>2. [quote EXCEPT !.free = ScopesOf(@)] = [built |-> FALSE, free |-> {}]
    BY <1>1, LedgerQuote
  <1>3. /\ batch.plan = {} /\ batch.page = {} /\ Asked(batch) = {}
        /\ \A w \in Waves : ~Sealed(batch, w)
    BY DEF Init, NewBatch, Asked, Sealed
  <1> QED  BY <1>1, <1>2, <1>3 DEF Ledger!Init

LEMMA StepIsLedger == IInv /\ [Next]_vars => [Ledger!Next]_(Ledger!ledger)
  <1> SUFFICES ASSUME IInv, [Next]_vars PROVE Ledger!Next \/ UNCHANGED Ledger!ledger
    OBVIOUS
  <1>0. batch \in BatchRecord
    BY DEF IInv, Types
  <1>1. batch' \in BatchRecord
    BY IInvStep DEF IInv, Types
  <1>2. ASSUME UNCHANGED <<batch, quote>> PROVE UNCHANGED Ledger!ledger
    BY <1>2 DEF Ledger!ledger
  <1>3. ASSUME Gathers, quote' = quote PROVE Ledger!Next
    BY <1>0, <1>1, <1>3, GathersInLedger DEF Ledger!Next
  <1>4. CASE \E c \in Calls : GetPrices(c)
    <2>1. PICK c \in Calls, r \in Requests : GetSaved(c, r) \/ AskApi(c, r)
      BY <1>4 DEF GetPrices
    <2>2. CASE GetSaved(c, r)
      BY <1>3, <2>2, GetSavedStep DEF GetSaved
    <2>3. CASE AskApi(c, r)
      BY <1>2, <2>3, AskApiStep
    <2> QED  BY <2>1, <2>2, <2>3
  <1>5. CASE \E c \in Calls : /\ call[c] # Nobody
                           /\ \E answer \in [call[c].asked -> MaySend] : PricesArrive(c, answer)
    BY <1>3, <1>5, PricesArriveStep
  <1>6. CASE (\E c \in Calls : PricesFail(c)) \/ Restart \/ RefusalExpires
    BY <1>2, <1>6, CallLostStep
  <1>7. CASE Sealing
    <2>0. PICK w \in Waves, meta \in Metas :
            \E free \in SUBSET (ComponentsIn(w) \intersect MayBeFree) : SaveFragment(w, meta, free)
      BY <1>7 DEF Sealing
    <2>1. PICK free \in SUBSET ComponentsIn(w) : SaveFragment(w, meta, free)
      BY <2>0
    <2>2. /\ batch'.order = batch.order /\ batch'.result = batch.result
          /\ batch'.context = batch.context /\ batch'.plan = batch.plan
          /\ batch'.page = batch.page
          /\ batch'.free = batch.free \union free
          /\ Sealed(batch, w) => batch'.free = batch.free
          /\ Complete(batch, w, batch'.free)
          /\ \A v \in Waves : Sealed(batch', v) <=> v = w \/ Sealed(batch, v)
          /\ \/ quote' = quote
             \/ /\ ~quote.built /\ quote' = [built |-> TRUE, free |-> batch'.free]
                /\ AllSealed(batch') /\ \A v \in Waves : Complete(batch, v, batch'.free)
      BY <2>1, SaveFragmentStep
    <2>3. Asked(batch') = Asked(batch) /\ \A id : ScopeOf(batch', id) = ScopeOf(batch, id)
      BY <2>2, SameEvidence
    <2>4. Prices(batch') = Prices(batch)
      BY <2>2, <2>3 DEF Prices, PriceIds
    <2>5. Seals(batch) \subseteq Seals(batch') /\ \A v \in Seals(batch') \ Seals(batch) : v = w
      BY <2>2 DEF Seals
    <2> DEFINE was == ScopesOf(batch.free)
               now == ScopesOf(batch'.free)
    <2>6. \A v \in Seals(batch') \ Seals(batch) : Ledger!Complete(v, now)
      BY <1>0, <2>2, <2>5, LedgerComplete
    <2>7. was \subseteq now /\ now \subseteq Scopes
      BY <2>2 DEF ScopesOf
    <2>8. ASSUME NEW s \in now \ was
          PROVE  [x \in Scopes |-> WaveOfScope(x)][s] \in Seals(batch') \ Seals(batch)
      <3>1. s \in Scopes /\ OwnerOf[s] \in free
        BY <2>2 DEF ScopesOf
      <3>2. WaveOfScope(s) = w
        BY <3>1 DEF ComponentsIn, WaveOfScope
      <3>3. ~Sealed(batch, w)
        BY <2>2, <2>8
      <3> QED  BY <2>2, <3>1, <3>2, <3>3 DEF Seals
    <2>9. CASE quote' = quote
      <3>1. [quote EXCEPT !.free = ScopesOf(@)]' = [quote EXCEPT !.free = ScopesOf(@)]
        BY <2>9 DEF ScopesOf
      <3> QED  BY <2>2, <2>4, <2>5, <2>6, <2>7, <2>8, <3>1
                 DEF Ledger!Seal, Ledger!Next, Prices, PriceIds, Seals
    <2>10. CASE /\ ~quote.built /\ quote' = [built |-> TRUE, free |-> batch'.free]
                /\ AllSealed(batch') /\ \A v \in Waves : Complete(batch, v, batch'.free)
      <3>1. [quote EXCEPT !.free = ScopesOf(@)].built = quote.built
        BY DEF IInv, Types
      <3>2. [quote' EXCEPT !.free = ScopesOf(@)] = [built |-> TRUE, free |-> now]
        BY <2>10, LedgerQuote
      <3>3. \A v \in Waves : Ledger!Complete(v, now)
        BY <1>0, <2>10, LedgerComplete
      <3>4. Ledger!Built(now)
        BY <2>10, <3>1, <3>2, <3>3 DEF Ledger!Built, ScopesOf
      <3>5. Seals(batch') = Waves
        BY <2>10 DEF AllSealed, Seals
      <3> QED  BY <2>2, <2>4, <2>5, <2>6, <2>7, <2>8, <3>4, <3>5
                 DEF Ledger!Seal, Ledger!Next, Prices, PriceIds, Seals
    <2> QED  BY <2>2, <2>9, <2>10
  <1>8. CASE Building
    <2>1. PICK free \in SUBSET MayBeFree : BuildQuote(free)
      BY <1>8 DEF Building
    <2>2. \A w \in Waves : Ledger!Complete(w, ScopesOf(free))
      BY <1>0, <2>1, BuildQuoteStep, LedgerComplete
    <2>3. /\ ~quote.built /\ quote' = [built |-> TRUE, free |-> free] /\ batch' = batch
      BY <2>1 DEF BuildQuote
    <2>4. [quote EXCEPT !.free = ScopesOf(@)].built = quote.built
      BY DEF IInv, Types
    <2>5. [quote' EXCEPT !.free = ScopesOf(@)] = [built |-> TRUE, free |-> ScopesOf(free)]
      BY <2>3, LedgerQuote
    <2>6. Ledger!Built(ScopesOf(free)) /\ ScopesOf(free) \in SUBSET Scopes
      BY <2>2, <2>3, <2>4, <2>5 DEF Ledger!Built, ScopesOf
    <2>7. Ledger!Build
      BY <2>3, <2>6 DEF Ledger!Build
    <2> QED  BY <2>7 DEF Ledger!Next
  <1>9. CASE UNCHANGED vars
    BY <1>2, <1>9 DEF vars
  <1> QED
    BY <1>4, <1>5, <1>6, <1>7, <1>8, <1>9 DEF Next, Sealing, Building

\* Every behaviour of the price batch is one of the ledger: a price, plan or
\* page that was saved is never lost to a call that read the batch earlier,
\* and a quote is built only when every scope of every wave is priced, on a
\* page, at its on-demand price or declared free of charge.
THEOREM BatchIsLedger == Spec => IsLedger
  <1>1. Spec => Ledger!Init
    BY InitIsLedger DEF Spec
  <1>2. Spec => [][Ledger!Next]_(Ledger!ledger)
    BY StepIsLedger, IInvHolds, PTL DEF Spec
  <1> QED  BY <1>1, <1>2 DEF IsLedger, Ledger!Spec
=============================================================================
