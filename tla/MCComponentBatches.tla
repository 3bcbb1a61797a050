------------------------- MODULE MCComponentBatches -------------------------
(* The operators of ComponentBatches compared with what they are meant to   *)
(* compute, over all small texts and plans.  TLC evaluates the assumptions   *)
(* in the runs of the modules that extend this one.                         *)
EXTENDS Integers, FiniteSets, Sequences

B == INSTANCE ComponentBatches

\* A text is taken as numbered when its numbers, in order, are 1, 2, 3, ...:
\* parse_numbered_component_lines.
ASSUME NumberedTexts ==
  \A n \in 0..3 : \A text \in [1..n -> {B!Blank, 0, 1, 2, 3}] :
    LET numbers == {text[i] : i \in 1..n} \ {B!Blank}
    IN  B!IsNumbered(text, 2) <=>
          /\ numbers \in {{1}, {1, 2}}
          /\ \A i, j \in 1..n : i < j /\ B!Blank \notin {text[i], text[j]} => text[i] < text[j]

\* split_numbered_intake: full batches up to the last, one after the other, that
\* together are all the lines.
ASSUME IntakeIsSplit ==
  \A n \in 1..25, c \in 1..5 :
    LET batch == B!NumberedIntake(n, c)
    IN  /\ UNION {batch[b] : b \in DOMAIN batch} = 1..n
        /\ \A b, d \in DOMAIN batch : b < d => \A i \in batch[b], j \in batch[d] : i < j
        /\ \A b \in DOMAIN batch :
             Cardinality(batch[b]) = IF b + 1 \in DOMAIN batch THEN c ELSE n - b * c

\* The chats that create() writes into the job are those that _slot_count
\* reserves for it; a batch is where its conversation and wave say; every
\* conversation but the last has all its waves.
ASSUME ChatsAndSlots ==
  \A n \in 1..25, c \in 1..5, v \in 1..3 :
    LET batches == B!Batches(n, c)
        chats == {B!ConversationIndex(b, v) : b \in batches}
    IN  /\ B!ChatCount(n, c, v) = B!SlotsNeeded(n, c, v)
        /\ chats = 0..(B!ChatCount(n, c, v) - 1)
        /\ \A b \in batches :
             /\ b = B!ConversationIndex(b, v) * v + B!WaveIndex(b, v)
             /\ B!WaveCount(b, Cardinality(batches), v)
                  = Cardinality({d \in batches : B!ConversationIndex(d, v) = B!ConversationIndex(b, v)})

\* quote_chat_batches counts to a wave its lines and what descends from them,
\* and nothing else, whatever parents the agent registered for the rest.
ASSUME WavesOwnFamilies ==
  \A parent \in [1..4 -> 0..5], lines \in {{1}, {1, 2}} :
    (\A k \in lines : parent[k] = 0) =>
      LET keys == B!StateKeys(parent, lines)
      IN  /\ lines \subseteq keys
          /\ \A k \in (1..4) \ lines : k \in keys <=> parent[k] \in keys

\* A plan in which a parent is missing (4) or a component descends from itself
\* is refused; any other is split with every component in the batch of its
\* parent, once, and full batches of families up to the last.
ASSUME PlansAreSplit ==
  \A parent \in [1..3 -> 0..4], plan \in {<<1, 2, 3>>, <<2, 1, 3>>, <<3, 2, 1>>, <<2, 3, 1>>} :
    LET tree == \A k \in 1..3 :
                  \/ parent[k] = 0
                  \/ parent[k] \in 1..3 /\ parent[parent[k]] = 0
                  \/ parent[k] \in 1..3 /\ parent[parent[k]] \in 1..3
                     /\ parent[parent[parent[k]]] = 0
        top == {k \in 1..3 : parent[k] = 0}
    IN  /\ B!SoundPlan(plan, parent) <=> tree
        /\ tree => \A c \in 1..3 :
             LET batch == B!ComponentPlan(plan, parent, c)
             IN  /\ \A k \in 1..3 :
                      /\ Cardinality({b \in DOMAIN batch : k \in batch[b]}) = 1
                      /\ \A b \in DOMAIN batch :
                           k \in batch[b] /\ parent[k] # 0 => parent[k] \in batch[b]
                 /\ \A b \in DOMAIN batch :
                      Cardinality(batch[b] \intersect top) =
                        IF b + 1 \in DOMAIN batch THEN c ELSE Cardinality(top) - b * c
=============================================================================
