----------------------- MODULE ComponentBatches_proofs -----------------------
(***************************************************************************)
(* Every component of a job is in exactly one wave, for texts and plans of *)
(* any length and any policy.                                              *)
(***************************************************************************)
EXTENDS ComponentBatches, FiniteSetTheorems, TLAPS

LEMMA CeilBounds ==
  ASSUME NEW n \in Nat, NEW d \in Nat \ {0}
  PROVE  /\ Ceil(n, d) \in Nat
         /\ n <= Ceil(n, d) * d
         /\ Ceil(n, d) * d < n + d
  <1> DEFINE q == (n + d - 1) \div d
  <1> DEFINE r == (n + d - 1) % d
  <1>1. q \in Int /\ r \in 0..(d - 1) /\ n + d - 1 = d * q + r
    OBVIOUS
  <1>2. q \in Nat
    BY <1>1
  <1>3. q * d = d * q
    BY <1>1
  <1> QED BY <1>1, <1>2, <1>3 DEF Ceil

LEMMA TimesGrows ==
  ASSUME NEW a \in Nat, NEW b \in Nat, NEW m \in Nat, a <= b
  PROVE  a * m <= b * m
  <1> DEFINE d == b - a
  <1>1. d \in Nat /\ b = a + d
    OBVIOUS
  <1>2. d * m \in Nat /\ a * m \in Nat
    BY <1>1
  <1>3. b * m = a * m + d * m
    BY <1>1
  <1> QED BY <1>2, <1>3

\* The pieces that a list is cut into share no position and leave none out.
LEMMA OneSlice ==
  ASSUME NEW length \in Nat, NEW maximum \in Nat \ {0}, NEW i \in 1..length
  PROVE  \E b \in Batches(length, maximum) :
           /\ i \in Slice(b, length, maximum)
           /\ \A d \in Batches(length, maximum) : i \in Slice(d, length, maximum) => d = b
  <1> DEFINE b == (i - 1) \div maximum
  <1> DEFINE r == (i - 1) % maximum
  <1> DEFINE count == Ceil(length, maximum)
  <1>1. b \in Int /\ r \in 0..(maximum - 1) /\ i - 1 = maximum * b + r
    OBVIOUS
  <1>2. b \in Nat /\ b * maximum \in Nat
    BY <1>1
  <1>3. b * maximum <= i - 1 /\ i <= b * maximum + maximum
    BY <1>1, <1>2
  <1>4. count \in Nat /\ length <= count * maximum
    BY CeilBounds
  <1> HIDE DEF b, r, count
  <1>5. b < count
    <2> SUFFICES ASSUME count <= b PROVE FALSE
      BY <1>2, <1>4
    <2>1. count * maximum <= b * maximum
      BY <1>2, <1>4, TimesGrows
    <2>2. count * maximum \in Nat
      BY <1>4
    <2> QED BY <1>2, <1>3, <1>4, <2>1, <2>2
  <1>6. b \in Batches(length, maximum)
    BY <1>2, <1>4, <1>5 DEF Batches, count
  <1>7. i \in Slice(b, length, maximum)
    BY <1>2, <1>3 DEF Slice, Lesser
  <1>8. ASSUME NEW d \in Batches(length, maximum), i \in Slice(d, length, maximum)
        PROVE  d = b
    <2>1. d \in Nat /\ d * maximum \in Nat
      BY <1>8, <1>4 DEF Batches, count
    <2>2. d * maximum <= i - 1 /\ i <= d * maximum + maximum
      BY <1>8, <2>1 DEF Slice, Lesser
    <2>3. ASSUME NEW x \in Nat, NEW y \in Nat, x < y,
                 x * maximum \in Nat, y * maximum \in Nat,
                 i <= x * maximum + maximum, y * maximum <= i - 1
          PROVE  FALSE
      <3>1. (x + 1) * maximum <= y * maximum
        BY <2>3, TimesGrows
      <3>2. (x + 1) * maximum = x * maximum + maximum
        BY <2>3
      <3> QED BY <2>3, <3>1, <3>2
    <2>4. ~(d < b)
      BY <1>2, <1>3, <2>1, <2>2, <2>3
    <2>5. ~(b < d)
      BY <1>2, <1>3, <2>1, <2>2, <2>3
    <2> QED BY <1>2, <2>1, <2>4, <2>5
  <1> QED BY <1>6, <1>7, <1>8

\* Ceil is the one number between its bounds.
LEMMA CeilUnique ==
  ASSUME NEW n \in Nat, NEW d \in Nat \ {0}, NEW x \in Nat, x * d \in Nat,
         n <= x * d, x * d < n + d
  PROVE  x = Ceil(n, d)
  <1> DEFINE q == Ceil(n, d)
  <1>1. q \in Nat /\ n <= q * d /\ q * d < n + d
    BY CeilBounds
  <1> HIDE DEF q
  <1>2. q * d \in Nat
    BY <1>1
  <1>3. ASSUME NEW a \in Nat, NEW b \in Nat, a * d \in Nat, b * d \in Nat,
               n <= a * d, b * d < n + d, a < b
        PROVE  FALSE
    <2>1. (a + 1) * d <= b * d
      BY <1>3, TimesGrows
    <2>2. (a + 1) * d = a * d + d
      BY <1>3
    <2> QED BY <1>3, <2>1, <2>2
  <1>4. ~(x < q) /\ ~(q < x)
    BY <1>1, <1>2, <1>3
  <1>5. x = q
    BY <1>1, <1>4
  <1> QED BY <1>5 DEF q

LEMMA CeilOfCeil ==
  ASSUME NEW n \in Nat, NEW c \in Nat \ {0}, NEW v \in Nat \ {0}
  PROVE  Ceil(Ceil(n, c), v) = Ceil(n, c * v)
  <1> DEFINE a == Ceil(n, c)
  <1> DEFINE x == Ceil(a, v)
  <1>1. a \in Nat /\ n <= a * c /\ a * c < n + c
    BY CeilBounds
  <1>2. x \in Nat /\ a <= x * v /\ x * v < a + v
    BY <1>1, CeilBounds
  <1> HIDE DEF a, x
  <1>3. a * c \in Nat /\ x * v \in Nat /\ c * v \in Nat \ {0} /\ x * (c * v) \in Nat
    <2>1. a * c \in Nat /\ x * v \in Nat /\ c * v \in Nat
      BY <1>1, <1>2
    <2>2. 1 * v <= c * v
      BY TimesGrows
    <2>3. x * (c * v) \in Nat
      BY <1>2, <2>1
    <2> QED BY <2>1, <2>2, <2>3
  <1>4. a * c <= (x * v) * c
    BY <1>1, <1>2, <1>3, TimesGrows
  <1>5. (x * v) * c = x * (c * v)
    BY <1>2
  <1>6. (x * v + 1) * c <= (a + v) * c
    BY <1>1, <1>2, <1>3, TimesGrows
  <1>7. (x * v + 1) * c = (x * v) * c + c /\ (a + v) * c = a * c + c * v
    BY <1>1, <1>2, <1>3
  <1>8. n <= x * (c * v) /\ x * (c * v) < n + c * v
    BY <1>1, <1>3, <1>4, <1>5, <1>6, <1>7
  <1>9. x = Ceil(n, c * v)
    BY <1>2, <1>3, <1>8, CeilUnique
  <1> QED BY <1>9 DEF a, x

\* The families of a plan are finitely many, and each has its place among them.
LEMMA RankInFamilies ==
  ASSUME NEW plan, Len(plan) \in Nat, NEW parent, NEW root \in Families(plan, parent)
  PROVE  /\ Cardinality(Families(plan, parent)) \in Nat
         /\ Rank(plan, parent, root) \in 1..Cardinality(Families(plan, parent))
  <1> DEFINE families == Families(plan, parent)
  <1> DEFINE before == {other \in families : BeginsBefore(plan, parent, other, root)}
  <1>1. IsFiniteSet(families)
    <2>1. IsFiniteSet(1..Len(plan))
      BY FS_Interval
    <2> DEFINE f == [i \in 1..Len(plan) |-> RootOf(parent, plan[i])]
    <2>2. f \in Surjection(1..Len(plan), families)
      BY DEF Surjection, Families
    <2> QED BY <2>1, <2>2, FS_Surjection
  <1>2. before \subseteq families \ {root}
    BY DEF BeginsBefore
  <1>3. IsFiniteSet(families \ {root}) /\ Cardinality(families \ {root}) = Cardinality(families) - 1
    BY <1>1, FS_RemoveElement
  <1>4. Cardinality(before) <= Cardinality(families \ {root}) /\ IsFiniteSet(before)
    BY <1>2, <1>3, FS_Subset
  <1>5. Cardinality(families) \in Nat /\ Cardinality(before) \in Nat
    BY <1>1, <1>4, FS_CardinalityType
  <1> QED BY <1>3, <1>4, <1>5 DEF Rank

-----------------------------------------------------------------------------
(* The theorems *)

\* split_numbered_intake: a numbered line is in one wave, and in no other.
THEOREM LineInOneWave ==
  ASSUME NEW length \in Nat, NEW maximum \in Nat \ {0}, NEW i \in 1..length
  PROVE  LET intake == NumberedIntake(length, maximum)
         IN  \E w \in DOMAIN intake :
               i \in intake[w] /\ \A v \in DOMAIN intake : i \in intake[v] => v = w
  BY OneSlice DEF NumberedIntake

\* quote_chat_batches: whatever plan the agents registered, a component whose
\* family starts in a numbered line is counted to the wave of that line only,
\* so no two chats price it and none leaves it to another.
THEOREM FamilyInOneWave ==
  ASSUME NEW length \in Nat, NEW maximum \in Nat \ {0}, NEW parent,
         NEW k \in DOMAIN parent, RootOf(parent, k) \in 1..length
  PROVE  LET intake == NumberedIntake(length, maximum)
         IN  \E w \in DOMAIN intake :
               /\ RootOf(parent, k) \in intake[w] /\ k \in Owned(parent, intake[w])
               /\ \A v \in DOMAIN intake : k \in Owned(parent, intake[v]) => v = w
  <1> DEFINE intake == NumberedIntake(length, maximum)
  <1>1. PICK w \in DOMAIN intake :
          /\ RootOf(parent, k) \in intake[w]
          /\ \A v \in DOMAIN intake : RootOf(parent, k) \in intake[v] => v = w
    BY LineInOneWave
  <1>2. \A v : k \in Owned(parent, intake[v]) <=> RootOf(parent, k) \in intake[v]
    BY DEF Owned
  <1> QED BY <1>1, <1>2

\* intake_chat_count and _slot_count round in different ways: the chats that a
\* job opens are those that its slots are reserved for.
THEOREM ChatsAreSlots ==
  ASSUME NEW length \in Nat \ {0}, NEW maximum \in Nat \ {0}, NEW waves \in Nat \ {0}
  PROVE  ChatCount(length, maximum, waves) = SlotsNeeded(length, maximum, waves)
  <1> DEFINE chats == Ceil(length, maximum * waves)
  <1>1. ChatCount(length, maximum, waves) = chats
    BY CeilOfCeil DEF ChatCount
  <1>2. maximum * waves \in Nat \ {0}
    <2>1. maximum * waves \in Nat
      OBVIOUS
    <2>2. 1 * waves <= maximum * waves
      BY TimesGrows
    <2> QED BY <2>1, <2>2
  <1>3. chats \in Nat /\ length <= chats * (maximum * waves)
    BY <1>2, CeilBounds
  <1> HIDE DEF chats
  <1>4. chats # 0
    <2> SUFFICES ASSUME chats = 0 PROVE FALSE
      OBVIOUS
    <2>1. chats * (maximum * waves) = 0
      BY <1>2
    <2> QED BY <1>3, <2>1
  <1>5. SlotsNeeded(length, maximum, waves) = chats
    BY <1>3, <1>4 DEF SlotsNeeded, chats
  <1> QED BY <1>1, <1>5

\* split_component_plan: every component of a sound plan is in exactly one batch,
\* and it shares it with its whole family.
THEOREM PlanIsPartition ==
  ASSUME NEW plan, Len(plan) \in Nat, NEW parent, SoundPlan(plan, parent),
         NEW maximum \in Nat \ {0}, NEW k \in DOMAIN parent
  PROVE  LET batch == ComponentPlan(plan, parent, maximum)
         IN  \E b \in DOMAIN batch :
               /\ \A l \in DOMAIN parent :
                    RootOf(parent, l) = RootOf(parent, k) => l \in batch[b]
               /\ \A d \in DOMAIN batch : k \in batch[d] => d = b
  <1> DEFINE batch == ComponentPlan(plan, parent, maximum)
  <1> DEFINE families == Cardinality(Families(plan, parent))
  <1> DEFINE place == Rank(plan, parent, RootOf(parent, k))
  <1>1. RootOf(parent, k) \in Families(plan, parent)
    BY DEF SoundPlan, Families
  <1>2. families \in Nat /\ place \in 1..families
    BY <1>1, RankInFamilies
  <1>3. PICK b \in Batches(families, maximum) :
          /\ place \in Slice(b, families, maximum)
          /\ \A d \in Batches(families, maximum) : place \in Slice(d, families, maximum) => d = b
    BY <1>2, OneSlice
  <1>4. DOMAIN batch = Batches(families, maximum)
    BY DEF ComponentPlan
  <1>5. \A d \in DOMAIN batch : \A l \in DOMAIN parent :
          l \in batch[d] <=> Rank(plan, parent, RootOf(parent, l)) \in Slice(d, families, maximum)
    BY DEF ComponentPlan
  <1> QED BY <1>3, <1>4, <1>5
=============================================================================
