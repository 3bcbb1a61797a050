---------------------------- MODULE MCRelayQueue ----------------------------
(* RelayQueue for TLC: the jobs in Big need two conversations, others one. *)
EXTENDS RelayQueue, TLC
CONSTANTS Big
Swaps == Permutations(Jobs) \union Permutations(Requests) \union Permutations(Engines)
MCConvs == [j \in Jobs |-> IF j \in Big THEN 2 ELSE 1]
=============================================================================
