--------------------------- MODULE EvidenceLedger ---------------------------
(***************************************************************************)
(* What the price batch of a sales quote promises: plans, prices, page     *)
(* evidence and component results are only ever added, a component result  *)
(* is sealed when every scope of it is accounted for, and one quote is     *)
(* built, once, from results that account for everything.                  *)
(***************************************************************************)
CONSTANTS
  Waves, Scopes, WaveOf,
  FallbackOf   \* scopes whose price may be billed instead of a scope's own

VARIABLES
  plans,   \* registered scopes
  prices,  \* saved official prices, as pairs of query and scope
  pages,   \* scopes with official page evidence
  seals,   \* waves with a sealed component result
  free,    \* scopes that a sealed result declares free of charge
  quote    \* whether the quote is built, and the scopes it declares free

ledger == <<plans, prices, pages, seals, free, quote>>

Init ==
  /\ plans = {} /\ prices = {} /\ pages = {} /\ seals = {} /\ free = {}
  /\ quote = [built |-> FALSE, free |-> {}]

Priced(s) == \E p \in prices : p[2] = s

AccountedFor(s, declared) ==
  s \in pages \/ Priced(s) \/ (\E base \in FallbackOf[s] : Priced(base)) \/ s \in declared

Complete(w, declared) ==
  /\ \E s \in plans : WaveOf[s] = w
  /\ \A s \in plans : WaveOf[s] = w => AccountedFor(s, declared)

\* A wave's plan is registered as a whole.
Register ==
  /\ plans \subseteq plans'
  /\ \A s \in plans' \ plans : \A t \in plans : WaveOf[s] # WaveOf[t]

Gather ==
  /\ Register
  /\ prices \subseteq prices' /\ pages \subseteq pages'
  /\ UNCHANGED <<seals, free, quote>>

Built(declared) ==
  /\ ~quote.built /\ quote' = [built |-> TRUE, free |-> declared]
  /\ \A w \in Waves : Complete(w, declared)

\* A result declares what is free in its own wave; the last may build the quote.
Seal ==
  /\ seals \subseteq seals' /\ free \subseteq free'
  /\ \A s \in free' \ free : WaveOf[s] \in seals' \ seals
  /\ \A w \in seals' \ seals : Complete(w, free')
  /\ UNCHANGED quote \/ (seals' = Waves /\ Built(free'))
  /\ UNCHANGED <<plans, prices, pages>>

Build ==
  /\ \E declared \in SUBSET Scopes : Built(declared)
  /\ UNCHANGED <<plans, prices, pages, seals, free>>

Next == Gather \/ Seal \/ Build

Spec == Init /\ [][Next]_ledger
=============================================================================
