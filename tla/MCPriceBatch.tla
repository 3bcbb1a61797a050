---------------------------- MODULE MCPriceBatch ----------------------------
(* PriceBatch for TLC: two waves of one component each; the second has an     *)
(* on-demand scope and a commitment scope that nobody prices.                 *)
EXTENDS PriceBatch, TLC

CONSTANTS q1, q2, q3, q4, p1, p2, p3, a, b, a1, b1, b2, m2

MCOwnerOf == a1 :> a @@ b1 :> b @@ b2 :> b
MCWaveOf  == a :> 1 @@ b :> 2
MCFallbackOf == a1 :> {} @@ b1 :> {} @@ b2 :> {b1}

Pricing(s, old) == [purpose |-> "pricing", scope |-> s, old |-> old]
Ask(id, payload, context) == id :> [payload |-> payload, context |-> context]
Request(w, plan, ask, page) == [wave |-> w, plan |-> plan, ask |-> ask, page |-> page]

\* Three attempts for the scope of the first wave, of which q2 may come with a
\* payload that was tried before, and page evidence for the failed q1.
MCRequests ==
  {Request(1, {a1}, Ask(q1, p1, Pricing(a1, {})), {}),
   Request(1, {}, Ask(q1, p1, Pricing(a1, {})), {<<a1, q1>>}),
   Request(1, {}, Ask(q2, p1, Pricing(a1, {})), {}),
   Request(1, {}, Ask(q2, p2, Pricing(a1, {q1})), {}),
   Request(1, {}, Ask(q4, p3, Pricing(a1, {})), {}),
   Request(2, {b1, b2}, Ask(q3, p1, Pricing(b1, {})), {})}

\* Bounds: calls overlap, are lost or fail to save in histories in which no result
\* is free of charge; the second wave's result carries one metadata only, and no
\* call is under way beside a built quote or a first wave with the other metadata.
UnderWay == Cardinality({c \in Calls : call[c] # Nobody})
Bounded ==
  /\ batch.seal[2] # m2
  /\ batch.free # {} => UnderWay <= 1 /\ ~disturbed
  /\ quote.built \/ batch.seal[1] = m2 => UnderWay = 0

MCSwaps == Permutations(Calls)
=============================================================================
