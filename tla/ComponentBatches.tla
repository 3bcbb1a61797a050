-------------------------- MODULE ComponentBatches --------------------------
(***************************************************************************)
(* How the components of a sales job are dealt out to waves and waves to   *)
(* conversations (services/gpt_quote_batches.py and the places of          *)
(* services/gpt_quote_relay.py that count them).  The worker, the queue's  *)
(* slots and the MCP server's seals all rest on every component being in   *)
(* exactly one wave.  Pure operators; `maximum' is the number of top-level *)
(* components per wave.                                                    *)
(*                                                                         *)
(* A line of the sales text is the number it starts with: 0 when it has    *)
(* none, Blank when nothing is written on it.                              *)
(***************************************************************************)
EXTENDS Integers, FiniteSets, Sequences

Blank == -1
NoKey == 0

Ceil(n, d) == (n + d - 1) \div d
Lesser(a, b) == IF a < b THEN a ELSE b

-----------------------------------------------------------------------------
(* Numbered lines *)

NonEmptyLines(text) == SelectSeq(text, LAMBDA line : line # Blank)

\* parse_numbered_component_lines: the text is numbered 1, 2, 3, ... without gaps.
IsNumbered(text, maximum) ==
  LET lines == NonEmptyLines(text)
  IN  /\ Len(lines) \in 1..maximum
      /\ \A i \in 1..Len(lines) : lines[i] = i

\* The positions of batch b when a list of the given length is cut from the
\* front into pieces of at most `maximum'.
Slice(b, length, maximum) == (b * maximum + 1)..Lesser(b * maximum + maximum, length)
Batches(length, maximum) == 0..(Ceil(length, maximum) - 1)

\* split_numbered_intake: the components of a job are the numbers of its lines.
NumberedIntake(length, maximum) ==
  [b \in Batches(length, maximum) |-> Slice(b, length, maximum)]

-----------------------------------------------------------------------------
(* Batches, conversations and slots *)

ConversationIndex(b, waves) == b \div waves
WaveIndex(b, waves) == b % waves
WaveCount(b, count, waves) == Lesser(waves, count - ConversationIndex(b, waves) * waves)

\* intake_chat_count, from the batches; and what _slot_count makes of the lines.
ChatCount(length, maximum, waves) == Ceil(Ceil(length, maximum), waves)
SlotsNeeded(total, maximum, waves) ==
  LET chats == Ceil(total, maximum * waves) IN IF chats > 1 THEN chats ELSE 1

-----------------------------------------------------------------------------
(* A cleaned plan: `parent' maps a component to the one it was split off    *)
(* from, or to NoKey.  The parent may be missing, and the relation may be   *)
(* cyclic, in what an agent registers.                                      *)

Above(parent, k) ==
  LET up[i \in Nat] == IF i = 0 THEN k
                       ELSE IF up[i - 1] \in DOMAIN parent THEN parent[up[i - 1]] ELSE NoKey
  IN  {up[i] : i \in 0..Cardinality(DOMAIN parent)}

\* root_key and component_root: the top of k's family; NoKey where the first
\* raises an error and the second returns None.
RootOf(parent, k) ==
  LET tops == {t \in Above(parent, k) \intersect DOMAIN parent : parent[t] = NoKey}
  IN  IF tops = {} THEN NoKey ELSE CHOOSE t \in tops : TRUE

\* The components that quote_chat_batches counts to a numbered wave: its lines
\* and all that descends from them.
Owned(parent, lines) == {k \in DOMAIN parent : RootOf(parent, k) \in lines}
StateKeys(parent, lines) == lines \union Owned(parent, lines)

\* split_component_plan, for a job from before numbered intake.  `plan' is the
\* list of components; a plan that is not sound is an error (and no batches).
SoundPlan(plan, parent) ==
  /\ \A i, j \in 1..Len(plan) : plan[i] = plan[j] => i = j
  /\ DOMAIN parent = {plan[i] : i \in 1..Len(plan)}
  /\ \A k \in DOMAIN parent : RootOf(parent, k) # NoKey

Families(plan, parent) == {RootOf(parent, plan[i]) : i \in 1..Len(plan)}

\* Families stand in the order of their first member.
BeginsBefore(plan, parent, root, other) ==
  \E i \in 1..Len(plan) :
    /\ RootOf(parent, plan[i]) = root
    /\ \A j \in 1..i : RootOf(parent, plan[j]) # other

Rank(plan, parent, root) ==
  Cardinality({other \in Families(plan, parent) : BeginsBefore(plan, parent, other, root)}) + 1

ComponentPlan(plan, parent, maximum) ==
  LET families == Cardinality(Families(plan, parent))
  IN  [b \in Batches(families, maximum) |->
         {k \in DOMAIN parent :
            Rank(plan, parent, RootOf(parent, k)) \in Slice(b, families, maximum)}]
=============================================================================
