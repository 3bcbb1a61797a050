--------------------------- MODULE MCQuoteDelivery ---------------------------
(* QuoteDelivery for TLC: the calls are interchangeable. *)
EXTENDS QuoteDelivery, TLC

CallSymmetry == Permutations(Calls)

\* Bound: the third record is put only in histories without overlap.
QuotesBounded == overlap => Len(quotes) <= 2
=============================================================================
