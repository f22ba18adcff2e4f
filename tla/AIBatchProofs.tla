---------------------------- MODULE AIBatchProofs ----------------------------
(***************************************************************************)
(* Theorems about AIBatch, for any number of items, any token costs and    *)
(* limits, any number of goroutines and attempts, and any answers of the   *)
(* provider.                                                               *)
(***************************************************************************)
EXTENDS AIBatch, FiniteSetTheorems, SequenceTheorems, WellFoundedInduction, TLAPS

-----------------------------------------------------------------------------
(* Numbers and finite sets *)

LEMMA Numbers ==
    /\ N \in Nat /\ Cost \subseteq Nat /\ InputTokenBudget \in Nat
    /\ MaxBatchSize \in Nat \ {0} /\ MaxConcurrency \in Nat \ {0} /\ MaxAttempts \in Nat \ {0}
    /\ Category \subseteq AnyCategory
  BY AIConstants

\* A non-empty set of natural numbers has a smallest element.
LEMMA SmallestNumber ==
    ASSUME NEW S \in SUBSET Nat, S # {}
    PROVE  \E x \in S : \A y \in S : x <= y
<1>1. PICK x \in S : \A y \in S : <<y, x>> \notin OpToRel(<, Nat)
  BY WFMin, NatLessThanWellFounded
<1>2. \A y \in S : ~(y < x)
  BY <1>1 DEF OpToRel
<1> QED
  BY <1>2

\* The numbers 1..n are n, also when n is 0.
LEMMA CountUpTo ==
    ASSUME NEW n \in Nat
    PROVE  IsFiniteSet(1..n) /\ Cardinality(1..n) = n
<1>1. 1 \in Int /\ n \in Int
  OBVIOUS
<1>2. /\ IsFiniteSet(1..n)
      /\ Cardinality(1..n) = IF 1 > n THEN 0 ELSE n - 1 + 1
  BY <1>1, FS_Interval
<1> QED
  BY <1>2

LEMMA ItemIsFinite == IsFiniteSet(Item) /\ Item \subseteq Nat
  BY Numbers, CountUpTo DEF Item

LEMMA BatchIsFinite ==
    \A s \in Batch : /\ IsFiniteSet(s) /\ Cardinality(s) \in Nat
                     /\ Cardinality(s) = 0 <=> s = {}
  BY ItemIsFinite, FS_Subset, FS_CardinalityType, FS_EmptySet DEF Batch

\* A batch with items has a first and a last item, ...
LEMMA FirstItem ==
    ASSUME NEW s \in Batch, s # {}
    PROVE  \E x \in s : \A y \in s : x <= y
  BY SmallestNumber, ItemIsFinite DEF Batch

\* ... the last one the smallest bound of its items.
LEMMA LastItem ==
    ASSUME NEW s \in Batch, s # {}
    PROVE  \E x \in s : \A y \in s : y <= x
<1> DEFINE B == {b \in Nat : \A y \in s : y <= b}
<1>1. s \subseteq 1..N /\ N \in Nat
  BY Numbers DEF Batch, Item
<1>2. N \in B
  BY <1>1
<1>3. B \in SUBSET Nat /\ B # {}
  BY <1>2
<1>4. PICK b \in B : \A c \in B : b <= c
  <2> HIDE DEF B
  <2> QED
    BY <1>3, SmallestNumber
<1>5. b \in s
  <2> SUFFICES ASSUME b \notin s PROVE FALSE
    OBVIOUS
  <2>1. \A y \in s : y \in Nat /\ 1 <= y /\ y <= b /\ y # b
    BY <1>1
  <2>2. b - 1 \in Nat
    BY <2>1
  <2>3. b - 1 \in B
    BY <2>1, <2>2
  <2>4. b <= b - 1
    <3> HIDE DEF B
    <3> QED
      BY <1>4, <2>3
  <2> QED
    BY <2>2, <2>4
<1> QED
  BY <1>5

\* Disjoint batches count together as their union.
LEMMA CountDisjoint ==
    ASSUME NEW r \in Batch, NEW s \in Batch, r \cap s = {}
    PROVE  /\ r \cup s \in Batch
           /\ Cardinality(r \cup s) = Cardinality(r) + Cardinality(s)
<1>1. IsFiniteSet(r) /\ IsFiniteSet(s) /\ Cardinality(r) \in Nat /\ Cardinality(s) \in Nat
  BY BatchIsFinite
<1>2. Cardinality(r \cup s) = Cardinality(r) + Cardinality(s) - Cardinality(r \cap s)
  BY <1>1, FS_Union
<1>3. Cardinality(r \cap s) = 0
  BY FS_EmptySet
<1> QED
  BY <1>1, <1>2, <1>3 DEF Batch

-----------------------------------------------------------------------------
(* The loop of PackBatchItems.  PackLoop is a recursive function over 0..N: that it *)
(* exists, and what it keeps, follow from a smallest counterexample. *)

NothingPacked == [result |-> <<>>, current |-> {}, used |-> 0]

\* g holds the first turns of the loop.
Turns(g, n) == g = [m \in 0..n |-> IF m = 0 THEN NothingPacked ELSE PackItem(g[m - 1], m)]

LEMMA OneTurnMore ==
    ASSUME NEW n \in Nat, NEW g, Turns(g, n)
    PROVE  \E h : Turns(h, n + 1)
<1> DEFINE h == [m \in 0..(n + 1) |-> IF m = 0 THEN NothingPacked ELSE PackItem(g[m - 1], m)]
           k == [m \in 0..(n + 1) |-> IF m = 0 THEN NothingPacked ELSE PackItem(h[m - 1], m)]
<1>1. \A m \in 0..n : h[m] = g[m]
  <2> SUFFICES ASSUME NEW m \in 0..n PROVE h[m] = g[m]
    OBVIOUS
  <2>1. m \in 0..(n + 1)
    OBVIOUS
  <2>2. h[m] = IF m = 0 THEN NothingPacked ELSE PackItem(g[m - 1], m)
    BY <2>1, Zenon
  <2>3. g[m] = IF m = 0 THEN NothingPacked ELSE PackItem(g[m - 1], m)
    BY Zenon DEF Turns
  <2> QED
    BY <2>2, <2>3, Zenon
<1>2. \A m \in 0..(n + 1) : h[m] = k[m]
  <2> SUFFICES ASSUME NEW m \in 0..(n + 1) PROVE h[m] = k[m]
    OBVIOUS
  <2>1. h[m] = IF m = 0 THEN NothingPacked ELSE PackItem(g[m - 1], m)
    BY Zenon
  <2>2. k[m] = IF m = 0 THEN NothingPacked ELSE PackItem(h[m - 1], m)
    BY Zenon
  <2>3. m # 0 => m - 1 \in 0..n
    OBVIOUS
  <2>4. m # 0 => h[m - 1] = g[m - 1]
    BY <1>1, <2>3, Zenon
  <2> HIDE DEF h, k
  <2> QED
    BY <2>1, <2>2, <2>4, Zenon
<1>3. h = k
  <2>1. h = [m \in 0..(n + 1) |-> h[m]] /\ k = [m \in 0..(n + 1) |-> k[m]]
    OBVIOUS
  <2> HIDE DEF h, k
  <2> QED
    BY <1>2, <2>1, Zenon
<1>4. Turns(h, n + 1)
  <2> HIDE DEF h
  <2> QED
    BY <1>3, Zenon DEF Turns
<1> QED
  BY <1>4, Zenon

LEMMA TurnsExist == \A n \in Nat : \E g : Turns(g, n)
<1> DEFINE Bad == {n \in Nat : ~ \E g : Turns(g, n)}
<1>1. 0 \notin Bad
  <2> DEFINE g == [m \in 0..0 |-> NothingPacked]
             h == [m \in 0..0 |-> IF m = 0 THEN NothingPacked ELSE PackItem(g[m - 1], m)]
  <2>1. \A m \in 0..0 : m = 0
    OBVIOUS
  <2>2. g = h
    BY <2>1, Zenon
  <2>3. Turns(g, 0)
    <3> HIDE DEF g
    <3> QED
      BY <2>2, Zenon DEF Turns
  <2> QED
    BY <2>3
<1>2. Bad = {}
  <2> SUFFICES ASSUME Bad # {} PROVE FALSE
    OBVIOUS
  <2>1. Bad \in SUBSET Nat
    OBVIOUS
  <2>2. PICK n \in Bad : \A m \in Bad : n <= m
    <3> HIDE DEF Bad
    <3> QED
      BY <2>1, SmallestNumber
  <2>3. n - 1 \in Nat /\ n - 1 \notin Bad /\ (n - 1) + 1 = n
    <3> HIDE DEF Bad
    <3> QED
      BY <1>1, <2>1, <2>2
  <2>4. PICK g : Turns(g, n - 1)
    BY <2>3
  <2>5. \E h : Turns(h, (n - 1) + 1)
    BY <2>3, <2>4, OneTurnMore, Zenon
  <2> QED
    BY <2>3, <2>5
<1> QED
  BY <1>2

LEMMA PackLoopDef ==
    /\ PackLoop[0] = NothingPacked
    /\ \A n \in 1..N : PackLoop[n] = PackItem(PackLoop[n - 1], n)
<1>1. PICK g : Turns(g, N)
  BY TurnsExist, Numbers
<1>2. PackLoop = CHOOSE h : Turns(h, N)
  BY Zenon DEF PackLoop, Turns, NothingPacked
<1>3. Turns(PackLoop, N)
  BY <1>1, <1>2, Zenon
<1>4. \A m \in 0..N : PackLoop[m] = IF m = 0 THEN NothingPacked ELSE PackItem(PackLoop[m - 1], m)
  BY <1>3, Zenon DEF Turns
<1>5. 0 \in 0..N /\ \A n \in 1..N : n \in 0..N /\ n # 0
  BY Numbers
<1> QED
  BY <1>4, <1>5, Zenon

-----------------------------------------------------------------------------
(* The batches of PackBatchItems *)

\* The first item of c does not fit in s.
Refused(s, c) == \A x \in c : (\A y \in c : x <= y) => ~Fits(s \cup {x})

\* What PackedByTheLimits says of the batches that are complete
InLimits(r) ==
    /\ \A k, l \in DOMAIN r : k < l => \A x \in r[k], y \in r[l] : x < y
    /\ \A k \in DOMAIN r : r[k] # {} /\ Fits(r[k])
    /\ \A k \in 1..(Len(r) - 1) : Refused(r[k], r[k + 1])

LEMMA BatchesByTheLimits ==
    PackedByTheLimits <=> UNION Range(packed) = Item /\ InLimits(packed)
  BY DEF PackedByTheLimits, InLimits, Refused

\* The batch c may follow the batches r.
Follows(r, c) ==
    /\ \A k \in DOMAIN r : \A x \in r[k], y \in c : x < y
    /\ r # <<>> => Refused(r[Len(r)], c)

LEMMA UnionOneMore == \A R, c : UNION (R \cup {c}) = (UNION R) \cup c
  OBVIOUS

\* A batch that follows can be appended.
LEMMA OneBatchMore ==
    ASSUME NEW r \in Seq(Batch), InLimits(r),
           NEW c \in Batch, c # {}, Fits(c), Follows(r, c)
    PROVE  /\ Append(r, c) \in Seq(Batch) /\ InLimits(Append(r, c))
           /\ UNION Range(Append(r, c)) = (UNION Range(r)) \cup c
<1> DEFINE n == Len(r)
<1>0. PICK q : q = Append(r, c)
  OBVIOUS
<1>1. /\ n \in Nat /\ DOMAIN r = 1..n /\ q \in Seq(Batch) /\ Len(q) = n + 1
      /\ DOMAIN q = 1..(n + 1) /\ q[n + 1] = c /\ \A k \in 1..n : q[k] = r[k]
  BY <1>0
<1> HIDE DEF n
<1>2. \A k \in 1..(n + 1) : k \in 1..n \/ k = n + 1
  BY <1>1
<1>3. \A k, l \in DOMAIN q : k < l => \A x \in q[k], y \in q[l] : x < y
  <2> SUFFICES ASSUME NEW k \in DOMAIN q, NEW l \in DOMAIN q, k < l,
                      NEW x \in q[k], NEW y \in q[l]
               PROVE  x < y
    OBVIOUS
  <2>1. k \in 1..n
    BY <1>1
  <2>2. x \in r[k]
    BY <1>1, <2>1
  <2>3. CASE l \in 1..n
    BY <1>1, <2>1, <2>2, <2>3 DEF InLimits
  <2>4. CASE l = n + 1
    BY <1>1, <2>1, <2>2, <2>4 DEF Follows
  <2> QED
    BY <1>1, <1>2, <2>3, <2>4
<1>4. \A k \in DOMAIN q : q[k] # {} /\ Fits(q[k])
  <2> SUFFICES ASSUME NEW k \in DOMAIN q PROVE q[k] # {} /\ Fits(q[k])
    OBVIOUS
  <2>1. CASE k \in 1..n
    <3>1. r[k] # {} /\ Fits(r[k]) /\ q[k] = r[k]
      BY <1>1, <2>1 DEF InLimits
    <3> QED
      BY <3>1
  <2>2. CASE k = n + 1
    BY <1>1, <2>2
  <2> QED
    BY <1>1, <1>2, <2>1, <2>2
<1>5. \A k \in 1..(Len(q) - 1) : Refused(q[k], q[k + 1])
  <2> SUFFICES ASSUME NEW k \in 1..n PROVE Refused(q[k], q[k + 1])
    BY <1>1
  <2>1. CASE k \in 1..(n - 1)
    <3>1. Refused(r[k], r[k + 1]) /\ q[k] = r[k] /\ k + 1 \in 1..n /\ q[k + 1] = r[k + 1]
      BY <1>1, <2>1 DEF InLimits, n
    <3> QED
      BY <3>1
  <2>2. CASE k = n
    <3>1. q[k] = r[n] /\ q[k + 1] = c /\ r # <<>>
      BY <1>1, <2>2
    <3>2. Refused(r[n], c)
      BY <3>1 DEF Follows, n
    <3> QED
      BY <3>1, <3>2
  <2> QED
    BY <1>1, <2>1, <2>2
<1>6. UNION Range(q) = (UNION Range(r)) \cup c
  <2>1. Range(q) = {q[k] : k \in 1..(n + 1)} /\ Range(r) = {r[k] : k \in 1..n}
    BY <1>1 DEF Range
  <2>2. Range(q) = Range(r) \cup {c}
    <3>1. Range(q) \subseteq Range(r) \cup {c}
      BY <1>1, <1>2, <2>1
    <3>2. n + 1 \in 1..(n + 1) /\ \A k \in 1..n : k \in 1..(n + 1)
      BY <1>1
    <3>3. c \in Range(q) /\ \A k \in 1..n : r[k] \in Range(q)
      BY <1>1, <2>1, <3>2
    <3> QED
      BY <2>1, <3>1, <3>3
  <2>3. UNION (Range(r) \cup {c}) = (UNION Range(r)) \cup c
    BY UnionOneMore
  <2> QED
    BY <2>2, <2>3, Zenon
<1>7. InLimits(q)
  BY <1>3, <1>4, <1>5 DEF InLimits
<1> QED
  BY <1>0, <1>1, <1>6, <1>7

\* The tokens of a batch and one item more
LEMMA TokensAdd ==
    ASSUME cost \in [Item -> Cost], NEW s \in Batch, NEW x \in Item \ s, IsFiniteSet(Tokens(s))
    PROVE  /\ IsFiniteSet(Tokens(s \cup {x}))
           /\ Cardinality(Tokens(s \cup {x})) = Cardinality(Tokens(s)) + cost[x]
<1>1. PICK c \in Nat : c = cost[x]
  BY Numbers
<1> DEFINE own == {x} \X (1..c)
<1>2. Tokens(s \cup {x}) = Tokens(s) \cup own
  BY <1>1 DEF Tokens
<1>3. Tokens(s) \cap own = {}
  BY DEF Tokens
<1>4. IsFiniteSet(own) /\ Cardinality(own) = c
  <2>1. IsFiniteSet({x}) /\ Cardinality({x}) = 1
    BY FS_Singleton
  <2>2. IsFiniteSet(1..c) /\ Cardinality(1..c) = c
    BY CountUpTo
  <2>3. IsFiniteSet(own) /\ Cardinality(own) = Cardinality({x}) * Cardinality(1..c)
    BY <2>1, <2>2, FS_Product, Zenon
  <2> HIDE DEF own
  <2> QED
    BY <2>1, <2>2, <2>3
<1> HIDE DEF own
<1>5. PICK t : t = Tokens(s)
  OBVIOUS
<1>6. /\ IsFiniteSet(t \cup own)
      /\ Cardinality(t \cup own) = Cardinality(t) + Cardinality(own) - Cardinality(t \cap own)
  BY <1>4, <1>5, FS_Union
<1>7. Cardinality(t \cap own) = 0 /\ Cardinality(t) \in Nat
  BY <1>3, <1>5, FS_EmptySet, FS_CardinalityType
<1>8. Cardinality(t \cup own) = Cardinality(t) + c
  BY <1>4, <1>6, <1>7
<1>9. Tokens(s \cup {x}) = t \cup own
  BY <1>2, <1>5
<1> QED
  BY <1>1, <1>5, <1>6, <1>8, <1>9

LEMMA NoTokens == IsFiniteSet(Tokens({})) /\ Cardinality(Tokens({})) = 0
<1>1. Tokens({}) = {}
  BY DEF Tokens
<1> QED
  BY <1>1, FS_EmptySet

\* The variables of the loop after the first n items
PackState(acc, n) ==
    /\ acc \in [result: Seq(Batch), current: Batch, used: Nat]
    /\ InLimits(acc.result) /\ Follows(acc.result, acc.current)
    /\ (UNION Range(acc.result)) \cup acc.current = 1..n
    /\ acc.current # {} => Fits(acc.current)
    /\ IsFiniteSet(Tokens(acc.current)) /\ acc.used = Cardinality(Tokens(acc.current))
    /\ acc.current = {} => n = 0 /\ acc.result = <<>>

LEMMA NothingIsPackState == PackState(NothingPacked, 0)
<1>1. /\ NothingPacked.result = <<>> /\ NothingPacked.current = {} /\ NothingPacked.used = 0
      /\ NothingPacked \in [result: Seq(Batch), current: Batch, used: Nat]
  BY DEF NothingPacked, Batch
<1>2. InLimits(<<>>) /\ Follows(<<>>, {})
  BY DEF InLimits, Follows
<1>3. (UNION Range(<<>>)) \cup {} = 1..0
  BY DEF Range
<1> QED
  BY <1>1, <1>2, <1>3, NoTokens DEF PackState

\* A batch takes an item when its limits allow it, and the first item always.
LEMMA ItemJoins ==
    ASSUME cost \in [Item -> Cost], NEW n \in Nat, n + 1 \in Item, NEW acc, PackState(acc, n),
           acc.current # {} => /\ Cardinality(acc.current) < MaxBatchSize
                               /\ acc.used + cost[n + 1] <= InputTokenBudget,
           NEW new, new = [acc EXCEPT !.current = @ \cup {n + 1}, !.used = @ + cost[n + 1]]
    PROVE  PackState(new, n + 1)
<1>1. PICK x \in Item : x = n + 1
  OBVIOUS
<1>2. PICK r \in Seq(Batch) : r = acc.result
  BY DEF PackState
<1>3. PICK c \in Batch : c = acc.current
  BY DEF PackState
<1>4. PICK u \in Nat : u = acc.used
  BY DEF PackState
<1>5. PICK d \in Nat : d = cost[x]
  BY Numbers
<1>6. /\ InLimits(r) /\ Follows(r, c) /\ (UNION Range(r)) \cup c = 1..n
      /\ c # {} => Fits(c)
      /\ IsFiniteSet(Tokens(c)) /\ u = Cardinality(Tokens(c))
      /\ c = {} => n = 0 /\ r = <<>>
      /\ c # {} => Cardinality(c) < MaxBatchSize /\ u + d <= InputTokenBudget
  BY <1>1, <1>2, <1>3, <1>4, <1>5 DEF PackState
<1>7. PICK s : s = c \cup {x}
  OBVIOUS
<1>8. /\ new.result = r /\ new.current = s /\ new.used = u + d
      /\ new \in [result: Seq(Batch), current: Batch, used: Nat]
  <2>1. acc \in [result: Seq(Batch), current: Batch, used: Nat]
    BY DEF PackState
  <2>2. s \in Batch
    BY <1>7 DEF Batch
  <2>3. acc.current \cup {n + 1} = s /\ acc.used + cost[n + 1] = u + d /\ u + d \in Nat
    BY <1>1, <1>3, <1>4, <1>5, <1>7
  <2>4. new = [acc EXCEPT !.current = s, !.used = u + d]
    BY <2>3
  <2> QED
    BY <1>2, <2>1, <2>2, <2>3, <2>4
<1>9. x \notin c /\ \A y \in c : y \in Nat /\ y < x
  BY <1>1, <1>6
<1>10. IsFiniteSet(Tokens(s)) /\ Cardinality(Tokens(s)) = u + d
  BY <1>5, <1>6, <1>7, <1>9, TokensAdd
<1>11. Cardinality(s) = Cardinality(c) + 1 /\ Cardinality(c) \in Nat
  BY <1>7, <1>9, BatchIsFinite, FS_AddElement
<1>12. Fits(s)
  <2>1. CASE c = {}
    <3>1. Cardinality(s) = 1
      BY <1>11, <2>1, FS_EmptySet
    <3> QED
      BY <3>1, Numbers DEF Fits
  <2>2. CASE c # {}
    <3>1. Cardinality(s) <= MaxBatchSize
      BY <1>6, <1>11, <2>2, Numbers
    <3>2. Cardinality(Tokens(s)) <= InputTokenBudget
      BY <1>6, <1>10, <2>2
    <3> QED
      BY <3>1, <3>2 DEF Fits
  <2> QED
    BY <2>1, <2>2
<1>13. Follows(r, s)
  <2>1. \A k \in DOMAIN r : \A y \in r[k] : y \in 1..n
    BY <1>6 DEF Range
  <2>2. \A k \in DOMAIN r : \A y \in r[k], z \in s : y < z
    <3> SUFFICES ASSUME NEW k \in DOMAIN r, NEW y \in r[k], NEW z \in s PROVE y < z
      OBVIOUS
    <3>1. CASE z \in c
      BY <1>6, <3>1 DEF Follows
    <3>2. CASE z = x
      BY <1>1, <2>1, <3>2
    <3> QED
      BY <1>7, <3>1, <3>2
  <2>3. r # <<>> => Refused(r[Len(r)], s)
    <3> SUFFICES ASSUME r # <<>>, NEW z \in s, \A y \in s : z <= y
                 PROVE  ~Fits(r[Len(r)] \cup {z})
      BY DEF Refused
    <3>1. PICK y : y \in c
      BY <1>6
    <3>2. y \in Nat /\ y < x /\ z <= y
      BY <1>7, <1>9, <3>1
    <3>3. z # x
      BY <1>1, <3>2
    <3>4. z \in c /\ \A w \in c : z <= w
      BY <1>7, <3>3
    <3> QED
      BY <1>6, <3>4 DEF Follows, Refused
  <2> QED
    BY <2>2, <2>3 DEF Follows
<1>14. (UNION Range(r)) \cup s = 1..(n + 1)
  <2>1. (UNION Range(r)) \cup s = ((UNION Range(r)) \cup c) \cup {x}
    BY <1>7
  <2>2. 1..(n + 1) = (1..n) \cup {x}
    BY <1>1
  <2> QED
    BY <1>6, <2>1, <2>2
<1>15. s # {}
  BY <1>7
<1> QED
  BY <1>6, <1>8, <1>10, <1>12, <1>13, <1>14, <1>15 DEF PackState

\* Otherwise the batch is complete and the item opens the next one.
LEMMA ItemOpens ==
    ASSUME cost \in [Item -> Cost], NEW n \in Nat, n + 1 \in Item, NEW acc, PackState(acc, n),
           acc.current # {},
           \/ Cardinality(acc.current) >= MaxBatchSize
           \/ acc.used + cost[n + 1] > InputTokenBudget,
           NEW new, new = [result |-> Append(acc.result, acc.current), current |-> {n + 1},
                           used |-> cost[n + 1]]
    PROVE  PackState(new, n + 1)
<1>1. PICK x \in Item : x = n + 1
  OBVIOUS
<1>2. PICK r \in Seq(Batch) : r = acc.result
  BY DEF PackState
<1>3. PICK c \in Batch : c = acc.current
  BY DEF PackState
<1>4. PICK u \in Nat : u = acc.used
  BY DEF PackState
<1>5. PICK d \in Nat : d = cost[x]
  BY Numbers
<1>6. /\ InLimits(r) /\ Follows(r, c) /\ (UNION Range(r)) \cup c = 1..n
      /\ c # {} /\ Fits(c) /\ IsFiniteSet(Tokens(c)) /\ u = Cardinality(Tokens(c))
      /\ Cardinality(c) >= MaxBatchSize \/ u + d > InputTokenBudget
  BY <1>1, <1>2, <1>3, <1>4, <1>5 DEF PackState
<1>7. PICK q : q = Append(r, c)
  OBVIOUS
<1>8. q \in Seq(Batch) /\ InLimits(q) /\ UNION Range(q) = (UNION Range(r)) \cup c
  BY <1>6, <1>7, OneBatchMore
<1>9. q # <<>> /\ q[Len(q)] = c
  BY <1>2, <1>3, <1>7
<1>10. PICK s \in Batch : s = {x}
  BY DEF Batch
<1>11. /\ new.result = q /\ new.current = s /\ new.used = d
       /\ new \in [result: Seq(Batch), current: Batch, used: Nat]
  <2>1. new = [result |-> q, current |-> s, used |-> d]
    BY <1>1, <1>2, <1>3, <1>5, <1>7, <1>10
  <2>2. q \in Seq(Batch) /\ s \in Batch /\ d \in Nat
    BY <1>8, Zenon
  <2>3. new.result = q /\ new.current = s /\ new.used = d
    BY <2>1
  <2>4. [result |-> q, current |-> s, used |-> d] \in [result: Seq(Batch), current: Batch, used: Nat]
    BY <2>2
  <2> QED
    BY <2>1, <2>3, <2>4
<1>12. IsFiniteSet(Tokens(s)) /\ Cardinality(Tokens(s)) = d
  <2>1. {} \in Batch /\ s = {} \cup {x} /\ x \in Item \ {}
    BY <1>10 DEF Batch
  <2>2. /\ IsFiniteSet(Tokens({} \cup {x}))
        /\ Cardinality(Tokens({} \cup {x})) = Cardinality(Tokens({})) + cost[x]
    BY <2>1, NoTokens, TokensAdd
  <2> QED
    BY <1>5, <1>10, <2>1, <2>2, NoTokens
<1>13. s # {} /\ Fits(s)
  <2>1. Cardinality(s) = 1 /\ s # {}
    BY <1>10, FS_Singleton
  <2>2. 1 <= MaxBatchSize
    BY Numbers
  <2> QED
    BY <2>1, <2>2 DEF Fits
<1>14. Follows(q, s)
  <2>1. \A y \in UNION Range(q) : y \in Nat /\ y < x
    <3>1. UNION Range(q) = 1..n
      BY <1>6, <1>8
    <3>2. \A y \in 1..n : y \in Nat /\ y < x
      BY <1>1
    <3> QED
      BY <3>1, <3>2, Zenon
  <2>2. \A k \in DOMAIN q : \A y \in q[k], z \in s : y < z
    BY <1>10, <2>1 DEF Range
  <2>3. x \notin c
    BY <1>1, <1>6
  <2>4. /\ Cardinality(c \cup {x}) = Cardinality(c) + 1
        /\ Cardinality(c) \in Nat /\ Cardinality(c) # 0
    BY <1>6, <2>3, BatchIsFinite, FS_AddElement
  <2>5. Cardinality(Tokens(c \cup {x})) = u + d
    BY <1>5, <1>6, <2>3, TokensAdd
  <2>6. ~Fits(c \cup {x})
    <3>1. Cardinality(c \cup {x}) # 1
      BY <2>4
    <3>2. \/ ~(Cardinality(c \cup {x}) <= MaxBatchSize)
          \/ ~(Cardinality(Tokens(c \cup {x})) <= InputTokenBudget)
      BY <1>6, <2>4, <2>5, Numbers
    <3> QED
      BY <3>1, <3>2 DEF Fits
  <2>7. Refused(c, s)
    BY <1>10, <2>6 DEF Refused
  <2> QED
    BY <1>9, <2>2, <2>7 DEF Follows
<1>15. (UNION Range(q)) \cup s = 1..(n + 1)
  <2>1. 1..(n + 1) = (1..n) \cup {x}
    BY <1>1
  <2> QED
    BY <1>6, <1>8, <1>10, <2>1
<1> QED
  BY <1>8, <1>11, <1>12, <1>13, <1>14, <1>15 DEF PackState

LEMMA PackTurn ==
    ASSUME cost \in [Item -> Cost], NEW n \in Nat, n + 1 \in Item, NEW acc, PackState(acc, n)
    PROVE  PackState(PackItem(acc, n + 1), n + 1)
<1> DEFINE full == /\ acc.current # {}
                   /\ \/ Cardinality(acc.current) >= MaxBatchSize
                      \/ acc.used + cost[n + 1] > InputTokenBudget
<1>1. /\ acc.current \in Batch /\ acc.used \in Nat /\ cost[n + 1] \in Nat
      /\ Cardinality(acc.current) \in Nat
  BY Numbers, BatchIsFinite DEF PackState
<1>2. CASE full
  <2>1. PackItem(acc, n + 1) = [result |-> Append(acc.result, acc.current), current |-> {n + 1},
                                used |-> cost[n + 1]]
    BY <1>2, Zenon DEF PackItem
  <2> QED
    BY <1>2, <2>1, ItemOpens, Zenon
<1>3. CASE ~full
  <2>1. acc.current # {} => /\ Cardinality(acc.current) < MaxBatchSize
                            /\ acc.used + cost[n + 1] <= InputTokenBudget
    BY <1>1, <1>3, Numbers
  <2>2. PackItem(acc, n + 1) = [acc EXCEPT !.current = @ \cup {n + 1}, !.used = @ + cost[n + 1]]
    BY <1>3, Zenon DEF PackItem
  <2> QED
    BY <2>1, <2>2, ItemJoins, Zenon
<1> QED
  BY <1>2, <1>3

LEMMA PackLoopState ==
    ASSUME cost \in [Item -> Cost]
    PROVE  PackState(PackLoop[N], N)
<1> DEFINE Bad == {n \in 0..N : ~PackState(PackLoop[n], n)}
<1>1. Bad = {}
  <2> SUFFICES ASSUME Bad # {} PROVE FALSE
    OBVIOUS
  <2>1. Bad \in SUBSET Nat
    OBVIOUS
  <2>2. PICK n \in Bad : \A m \in Bad : n <= m
    <3> HIDE DEF Bad
    <3> QED
      BY <2>1, SmallestNumber
  <2>3. n \in 0..N /\ ~PackState(PackLoop[n], n)
    OBVIOUS
  <2>4. n # 0
    BY <2>3, PackLoopDef, NothingIsPackState, Zenon
  <2>5. n \in 1..N /\ n - 1 \in Nat /\ (n - 1) + 1 = n /\ n - 1 \in 0..N /\ ~(n <= n - 1)
    BY <2>3, <2>4, Numbers
  <2>6. PackState(PackLoop[n - 1], n - 1)
    BY <2>2, <2>5
  <2>7. PackState(PackItem(PackLoop[n - 1], (n - 1) + 1), (n - 1) + 1)
    <3>1. (n - 1) + 1 \in Item
      BY <2>5 DEF Item
    <3> QED
      BY <2>5, <2>6, <3>1, PackTurn, Zenon
  <2>8. PackState(PackItem(PackLoop[n - 1], n), n)
    BY <2>5, <2>7
  <2> QED
    BY <2>3, <2>5, <2>8, PackLoopDef, Zenon
<1>2. N \in 0..N
  BY Numbers
<1> QED
  BY <1>1, <1>2

\* PackBatchItems keeps the order, the limits and every item.
LEMMA PackBatchItemsByTheLimits ==
    ASSUME cost \in [Item -> Cost]
    PROVE  /\ PackBatchItems \in Seq(Batch) /\ InLimits(PackBatchItems)
           /\ UNION Range(PackBatchItems) = Item
<1>1. PICK acc : acc = PackLoop[N]
  OBVIOUS
<1>2. PackState(acc, N)
  BY <1>1, PackLoopState
<1>3. PICK r \in Seq(Batch) : r = acc.result
  BY <1>2 DEF PackState
<1>4. PICK c \in Batch : c = acc.current
  BY <1>2 DEF PackState
<1>5. /\ InLimits(r) /\ Follows(r, c) /\ (UNION Range(r)) \cup c = Item
      /\ c # {} => Fits(c)
  BY <1>2, <1>3, <1>4 DEF PackState, Item
<1>6. CASE c = {}
  <2>1. PackBatchItems = r
    BY <1>1, <1>3, <1>4, <1>6, Zenon DEF PackBatchItems
  <2> QED
    BY <1>5, <1>6, <2>1
<1>7. CASE c # {}
  <2>1. PackBatchItems = Append(r, c)
    BY <1>1, <1>3, <1>4, <1>7, Zenon DEF PackBatchItems
  <2> QED
    BY <1>5, <1>7, <2>1, OneBatchMore
<1> QED
  BY <1>6, <1>7

-----------------------------------------------------------------------------
(* Halving *)

\* The place of an item in its batch
PlaceOf(s, x) == Cardinality({y \in s : y <= x})

LEMMA PlaceIsPlace ==
    ASSUME NEW s \in Batch, NEW x \in s
    PROVE  PlaceOf(s, x) \in 1..Cardinality(s)
<1> DEFINE r == {y \in s : y <= x}
<1>0. \A y \in s : y \in Nat
  BY ItemIsFinite DEF Batch
<1>1. r \in SUBSET s /\ r \in Batch /\ x \in r
  BY <1>0 DEF Batch
<1> HIDE DEF r
<1>2. /\ IsFiniteSet(s) /\ Cardinality(s) \in Nat /\ Cardinality(r) \in Nat
      /\ Cardinality(r) # 0
  BY <1>1, BatchIsFinite
<1>3. Cardinality(r) <= Cardinality(s)
  BY <1>1, <1>2, FS_Subset
<1>4. PlaceOf(s, x) = Cardinality(r)
  BY DEF PlaceOf, r
<1> QED
  BY <1>2, <1>3, <1>4

LEMMA FirstPlace ==
    ASSUME NEW s \in Batch, s # {}
    PROVE  \E x \in s : PlaceOf(s, x) = 1
<1>1. PICK x \in s : \A y \in s : x <= y
  BY FirstItem
<1>2. {y \in s : y <= x} = {x}
  <2>1. \A y \in s : y \in Nat
    BY ItemIsFinite DEF Batch
  <2> QED
    BY <1>1, <2>1
<1>3. PlaceOf(s, x) = 1
  BY <1>2, FS_Singleton DEF PlaceOf
<1> QED
  BY <1>3

LEMMA LastPlace ==
    ASSUME NEW s \in Batch, s # {}
    PROVE  \E x \in s : PlaceOf(s, x) = Cardinality(s)
<1>1. PICK x \in s : \A y \in s : y <= x
  BY LastItem
<1>2. {y \in s : y <= x} = s
  BY <1>1
<1> QED
  BY <1>2 DEF PlaceOf

\* A batch of several items is halved: two batches with items share them out.
LEMMA TwoHalves ==
    ASSUME NEW s \in Batch, Cardinality(s) > 1
    PROVE  \E a \in Batch, b \in Batch :
             /\ Halves(s) = <<a, b>>
             /\ a # {} /\ b # {} /\ a \cap b = {} /\ a \cup b = s
<1>1. PICK n \in Nat : n = Cardinality(s) /\ n > 1
  BY BatchIsFinite
<1>2. PICK mid \in Nat : mid = (n + 1) \div 2 /\ 1 <= mid /\ mid < n
  BY <1>1
<1>3. PICK a : a = Places(s, 1, mid)
  OBVIOUS
<1>4. PICK b : b = Places(s, mid + 1, n)
  OBVIOUS
<1>5. a = {x \in s : PlaceOf(s, x) \in 1..mid} /\ b = {x \in s : PlaceOf(s, x) \in (mid + 1)..n}
  BY <1>3, <1>4, Zenon DEF Places, PlaceOf
<1>6. a \in Batch /\ b \in Batch
  BY <1>5 DEF Batch
<1>7. Halves(s) = <<a, b>>
  <2>1. n # 0 /\ n # 1 /\ n > 1
    BY <1>1
  <2> QED
    BY <1>1, <1>2, <1>3, <1>4, <2>1 DEF Halves
<1>8. \A x \in s : PlaceOf(s, x) \in 1..n
  BY <1>1, PlaceIsPlace
<1>9. a \cap b = {} /\ a \cup b = s
  BY <1>2, <1>5, <1>8
<1>10. a # {}
  <2>1. PICK x \in s : PlaceOf(s, x) = 1
    <3>1. s # {}
      BY <1>1, FS_EmptySet
    <3> QED
      BY <3>1, FirstPlace
  <2> QED
    BY <1>2, <1>5, <2>1
<1>11. b # {}
  <2>1. PICK x \in s : PlaceOf(s, x) = n
    BY <1>1, LastPlace, FS_EmptySet
  <2> QED
    BY <1>1, <1>2, <1>5, <2>1
<1> QED
  BY <1>6, <1>7, <1>9, <1>10, <1>11

-----------------------------------------------------------------------------
(* The stack of a goroutine: batches with items, no item in two of them *)

Filled(t) == \A k \in DOMAIN t : t[k] # {}
Apart(t)  == \A k, l \in DOMAIN t : t[k] \cap t[l] # {} => k = l
Stack(t)  == t \in Seq(Batch) /\ Filled(t) /\ Apart(t)

ItemsOn(t) == UNION Range(t)

LEMMA ItemsOnStack ==
    ASSUME NEW t \in Seq(Batch)
    PROVE  /\ ItemsOn(t) \in Batch
           /\ \A x : x \in ItemsOn(t) <=> \E k \in 1..Len(t) : x \in t[k]
<1>1. Range(t) = {t[k] : k \in 1..Len(t)} /\ \A k \in 1..Len(t) : t[k] \in Batch
  BY DEF Range
<1> QED
  BY <1>1 DEF ItemsOn, Batch

LEMMA EmptyStack == Stack(<<>>) /\ ItemsOn(<<>>) = {}
  BY DEF Stack, Filled, Apart, ItemsOn, Range

\* A batch of other items goes on top.
LEMMA OnTop ==
    ASSUME NEW t, Stack(t), NEW c \in Batch, c # {}, c \cap ItemsOn(t) = {}
    PROVE  /\ Stack(<<c>> \o t) /\ ItemsOn(<<c>> \o t) = c \cup ItemsOn(t)
           /\ Len(<<c>> \o t) = Len(t) + 1
<1>0. PICK q : q = <<c>> \o t
  OBVIOUS
<1>1. PICK n \in Nat : n = Len(t)
  BY DEF Stack
<1>2. t \in Seq(Batch) /\ DOMAIN t = 1..n
  BY <1>1 DEF Stack
<1>3. /\ q \in Seq(Batch) /\ Len(q) = n + 1 /\ DOMAIN q = 1..(n + 1)
      /\ q[1] = c /\ \A k \in 1..(n + 1) : k # 1 => k - 1 \in 1..n /\ q[k] = t[k - 1]
  BY <1>0, <1>1, <1>2
<1>4. \A k \in 1..n : k + 1 \in 1..(n + 1) /\ q[k + 1] = t[k]
  BY <1>3
<1>5. Filled(q)
  <2> SUFFICES ASSUME NEW k \in 1..(n + 1) PROVE q[k] # {}
    BY <1>3 DEF Filled
  <2>1. CASE k = 1
    BY <1>3, <2>1
  <2>2. CASE k # 1
    BY <1>2, <1>3, <2>2 DEF Stack, Filled
  <2> QED
    BY <2>1, <2>2
<1>6. \A k \in 1..n : c \cap t[k] = {}
  BY <1>1, <1>2, ItemsOnStack
<1>7. Apart(q)
  <2> SUFFICES ASSUME NEW k \in 1..(n + 1), NEW l \in 1..(n + 1), q[k] \cap q[l] # {}
               PROVE  k = l
    BY <1>3 DEF Apart
  <2>1. CASE k = 1 /\ l # 1
    BY <1>3, <1>6, <2>1
  <2>2. CASE k # 1 /\ l = 1
    <3>1. c \cap t[k - 1] = {} /\ q[k] = t[k - 1] /\ q[l] = c
      BY <1>3, <1>6, <2>2
    <3> QED
      BY <3>1
  <2>3. CASE k # 1 /\ l # 1
    <3>1. /\ k - 1 \in 1..n /\ l - 1 \in 1..n
          /\ q[k] = t[k - 1] /\ q[l] = t[l - 1]
      BY <1>3, <2>3
    <3>2. k - 1 = l - 1
      BY <1>2, <3>1 DEF Stack, Apart
    <3> QED
      BY <3>2
  <2> QED
    BY <2>1, <2>2, <2>3
<1>8. ItemsOn(q) = c \cup ItemsOn(t)
  <2>1. \A x : x \in ItemsOn(q) <=> \E k \in 1..(n + 1) : x \in q[k]
    BY <1>3, ItemsOnStack
  <2>2. \A x : x \in ItemsOn(t) <=> \E k \in 1..n : x \in t[k]
    BY <1>1, <1>2, ItemsOnStack
  <2>3. \A x : (\E k \in 1..(n + 1) : x \in q[k]) => x \in c \/ \E k \in 1..n : x \in t[k]
    BY <1>3
  <2>4. 1 \in 1..(n + 1)
    OBVIOUS
  <2>5. \A x : x \in c \/ (\E k \in 1..n : x \in t[k]) => \E k \in 1..(n + 1) : x \in q[k]
    BY <1>3, <1>4, <2>4, Zenon
  <2>6. \A x : x \in ItemsOn(q) <=> x \in c \/ x \in ItemsOn(t)
    BY <2>1, <2>2, <2>3, <2>5, Zenon
  <2> QED
    BY <2>6
<1>9. Stack(q)
  BY <1>3, <1>5, <1>7 DEF Stack
<1> QED
  BY <1>0, <1>1, <1>3, <1>8, <1>9

\* The batch on top is taken off.
LEMMA TopOff ==
    ASSUME NEW t, Stack(t), t # <<>>
    PROVE  /\ Head(t) \in Batch /\ Head(t) # {} /\ Head(t) \subseteq ItemsOn(t)
           /\ Stack(Tail(t)) /\ ItemsOn(Tail(t)) = ItemsOn(t) \ Head(t)
           /\ Len(t) \in Nat \ {0} /\ Len(Tail(t)) = Len(t) - 1
<1>0. PICK q : q = Tail(t)
  OBVIOUS
<1>1. PICK n \in Nat : n = Len(t) /\ n # 0
  BY DEF Stack
<1>2. t \in Seq(Batch) /\ DOMAIN t = 1..n /\ 1 \in 1..n
  BY <1>1 DEF Stack
<1>3. /\ q \in Seq(Batch) /\ Len(q) = n - 1 /\ DOMAIN q = 1..(n - 1)
      /\ \A k \in 1..(n - 1) : k + 1 \in 1..n /\ q[k] = t[k + 1]
  BY <1>0, <1>1, <1>2, HeadTailProperties
<1>4. Head(t) = t[1]
  BY <1>1, <1>2
<1>5. \A k \in 1..n : t[k] # {} /\ t[k] \in Batch
  BY <1>2 DEF Stack, Filled
<1>6. \A k, l \in 1..n : t[k] \cap t[l] # {} => k = l
  BY <1>2, Zenon DEF Stack, Apart
<1>7. Filled(q)
  BY <1>3, <1>5 DEF Filled
<1>8. Apart(q)
  <2> SUFFICES ASSUME NEW k \in 1..(n - 1), NEW l \in 1..(n - 1), q[k] \cap q[l] # {}
               PROVE  k = l
    BY <1>3 DEF Apart
  <2>1. k + 1 = l + 1
    BY <1>3, <1>6
  <2> QED
    BY <2>1
<1>9. \A x : x \in ItemsOn(t) <=> \E k \in 1..n : x \in t[k]
  BY <1>1, <1>2, ItemsOnStack
<1>10. \A x : x \in ItemsOn(q) <=> \E k \in 1..(n - 1) : x \in q[k]
  BY <1>3, ItemsOnStack
<1>11. ASSUME NEW x PROVE x \in ItemsOn(q) <=> x \in ItemsOn(t) /\ x \notin t[1]
  <2>1. ASSUME NEW k \in 1..(n - 1), x \in q[k] PROVE x \in ItemsOn(t) /\ x \notin t[1]
    <3>1. k + 1 \in 1..n /\ x \in t[k + 1] /\ k + 1 # 1
      BY <1>3, <2>1
    <3>2. x \notin t[1]
      BY <1>2, <1>6, <3>1
    <3> QED
      BY <1>9, <3>1, <3>2
  <2>2. ASSUME NEW k \in 1..n, x \in t[k], x \notin t[1] PROVE \E l \in 1..(n - 1) : x \in q[l]
    <3>1. k # 1
      BY <2>2
    <3>2. k - 1 \in 1..(n - 1) /\ (k - 1) + 1 = k
      BY <3>1
    <3> QED
      BY <1>3, <2>2, <3>2
  <2> QED
    BY <1>9, <1>10, <2>1, <2>2
<1>12. ItemsOn(q) = ItemsOn(t) \ Head(t)
  BY <1>4, <1>11
<1>13. Head(t) \in Batch /\ Head(t) # {} /\ Head(t) \subseteq ItemsOn(t)
  BY <1>2, <1>4, <1>5, <1>9
<1> QED
  BY <1>0, <1>1, <1>3, <1>7, <1>8, <1>12, <1>13 DEF Stack

\* The unresolved items of a batch go back on top, as none, one or two batches.
LEMMA HalvesOnTop ==
    ASSUME NEW t, Stack(t), NEW r \in Batch, r \cap ItemsOn(t) = {}
    PROVE  /\ Stack(Halves(r) \o t) /\ ItemsOn(Halves(r) \o t) = r \cup ItemsOn(t)
           /\ Len(Halves(r) \o t) = Len(t) + (IF Cardinality(r) = 0 THEN 0
                                              ELSE IF Cardinality(r) = 1 THEN 1 ELSE 2)
<1>1. PICK n \in Nat : n = Cardinality(r)
  BY BatchIsFinite
<1>2. t \in Seq(Batch) /\ Len(t) \in Nat
  BY DEF Stack
<1>3. CASE n = 0
  <2>1. Halves(r) = <<>>
    BY <1>1, <1>3 DEF Halves
  <2>2. Halves(r) \o t = t
    BY <1>2, <2>1
  <2>3. r = {}
    BY <1>1, <1>3, BatchIsFinite
  <2> QED
    BY <1>1, <1>2, <1>3, <2>2, <2>3
<1>4. CASE n = 1
  <2>1. Halves(r) = <<r>>
    BY <1>1, <1>4 DEF Halves
  <2>2. r # {}
    <3>1. Cardinality(r) = 0 <=> r = {}
      BY BatchIsFinite
    <3> QED
      BY <1>1, <1>4, <3>1
  <2>3. /\ Stack(<<r>> \o t) /\ ItemsOn(<<r>> \o t) = r \cup ItemsOn(t)
        /\ Len(<<r>> \o t) = Len(t) + 1
    BY <2>2, OnTop
  <2> QED
    BY <1>1, <1>4, <2>1, <2>3
<1>5. CASE n > 1
  <2>1. PICK a \in Batch, b \in Batch :
          /\ Halves(r) = <<a, b>>
          /\ a # {} /\ b # {} /\ a \cap b = {} /\ a \cup b = r
    BY <1>1, <1>5, TwoHalves
  <2>2. PICK q : q = <<b>> \o t
    OBVIOUS
  <2>3. b \cap ItemsOn(t) = {}
    BY <2>1
  <2>4. Stack(q) /\ ItemsOn(q) = b \cup ItemsOn(t) /\ Len(q) = Len(t) + 1
    BY <2>1, <2>2, <2>3, OnTop
  <2>5. a \cap ItemsOn(q) = {}
    BY <2>1, <2>4
  <2>6. /\ Stack(<<a>> \o q) /\ ItemsOn(<<a>> \o q) = a \cup ItemsOn(q)
        /\ Len(<<a>> \o q) = Len(q) + 1
    BY <2>1, <2>4, <2>5, OnTop
  <2>7. <<a, b>> \o t = <<a>> \o q
    <3>1. <<a>> \in Seq(Batch) /\ <<b>> \in Seq(Batch) /\ <<a, b>> = <<a>> \o <<b>>
      <4>1. <<a>> \in Seq(Batch) /\ <<b>> \in Seq(Batch)
        OBVIOUS
      <4>2. PICK s \in Seq(Batch) : s = <<a>> \o <<b>>
        BY <4>1, ConcatProperties
      <4>3. Len(s) = 2 /\ s[1] = a /\ s[2] = b
        BY <4>1, <4>2
      <4>4. s = <<a, b>>
        BY <4>3
      <4> QED
        BY <4>1, <4>2, <4>4
    <3>2. (<<a>> \o <<b>>) \o t = <<a>> \o (<<b>> \o t)
      BY <1>2, <3>1, ConcatAssociative
    <3> QED
      BY <2>2, <3>1, <3>2
  <2>8. a \cup ItemsOn(q) = r \cup ItemsOn(t)
    BY <2>1, <2>4
  <2>9. Len(<<a>> \o q) = Len(t) + 2
    BY <1>2, <2>4, <2>6
  <2>10. Cardinality(r) # 0 /\ Cardinality(r) # 1
    BY <1>1, <1>5
  <2> QED
    BY <2>1, <2>6, <2>7, <2>8, <2>9, <2>10
<1> QED
  BY <1>3, <1>4, <1>5

\* No more batches than items: each batch has an item of its own.
LEMMA StackSize ==
    ASSUME NEW t, Stack(t)
    PROVE  Len(t) \in Nat /\ Len(t) <= Cardinality(ItemsOn(t))
<1>1. PICK n \in Nat : n = Len(t)
  BY DEF Stack
<1>2. t \in Seq(Batch) /\ DOMAIN t = 1..n
  BY <1>1 DEF Stack
<1> DEFINE own == [k \in 1..n |-> CHOOSE x \in t[k] : TRUE]
<1>3. \A k \in 1..n : own[k] \in t[k]
  BY <1>2 DEF Stack, Filled
<1>4. \A k \in 1..n : own[k] \in ItemsOn(t)
  BY <1>1, <1>2, <1>3, ItemsOnStack
<1>5. \A k, l \in 1..n : own[k] = own[l] => k = l
  BY <1>2, <1>3 DEF Stack, Apart
<1>6. own \in Injection(1..n, ItemsOn(t))
  <2>1. own \in [1..n -> ItemsOn(t)]
    BY <1>4
  <2> HIDE DEF own
  <2> QED
    BY <1>5, <2>1 DEF Injection, IsInjective
<1> HIDE DEF own
<1>7. IsFiniteSet(ItemsOn(t))
  BY <1>2, ItemsOnStack, BatchIsFinite
<1>8. Cardinality(1..n) <= Cardinality(ItemsOn(t))
  BY <1>6, <1>7, FS_Injection
<1> QED
  BY <1>1, <1>8, CountUpTo

-----------------------------------------------------------------------------
(* The inductive invariant *)

\* How many batches the stack may still become at most: halving n items makes 2n - 1
\* batches, and the stack has one such tree for each of its batches.
Pending(g) == 2 * Cardinality(Asked(g)) - Len(g.todo)

\* A goroutine that was given the batch b
GoroutineOf(g, b) ==
    /\ Stack(g.todo)
    /\ b = Asked(g) \cup g.outputs \cup g.errors
    /\ Asked(g) \cap (g.outputs \cup g.errors) = {} /\ g.outputs \cap g.errors = {}
    /\ g.todo = <<>> => g.attempt = 0
    /\ ~g.busy /\ ~g.failed => g.attempt < MaxAttempts
    /\ g.requests + MaxAttempts * Pending(g)
         <= MaxAttempts * (2 * Cardinality(b) - 1) + g.attempt

Goroutines == \A i \in DOMAIN wave : GoroutineOf(wave[i], packed[offset + i])

\* Where the call is
Place ==
    /\ offset + Len(wave) <= Len(packed)
    /\ phase # "running" => wave = <<>>
    /\ phase = "done" => offset = Len(packed)

\* The items of the waves that ended are decided, the others are not.
Decided ==
    phase # "failed" =>
        /\ outputs \cup errors = UNION {packed[k] : k \in 1..offset}
        /\ outputs \cap errors = {}

CallInv == TypeOK /\ PackedByTheLimits /\ Place /\ Goroutines /\ Decided

-----------------------------------------------------------------------------
(* One goroutine *)

LEMMA AskedIsOnStack ==
    ASSUME NEW g, Stack(g.todo)
    PROVE  /\ Asked(g) = ItemsOn(g.todo) /\ Asked(g) \in Batch
           /\ IsFiniteSet(Asked(g)) /\ Cardinality(Asked(g)) \in Nat
           /\ Len(g.todo) \in Nat /\ Len(g.todo) <= Cardinality(Asked(g))
           /\ Pending(g) \in Nat
<1>1. Asked(g) = ItemsOn(g.todo)
  BY DEF Asked, ItemsOn
<1>2. Asked(g) \in Batch
  BY <1>1, ItemsOnStack DEF Stack
<1>3. IsFiniteSet(Asked(g)) /\ Cardinality(Asked(g)) \in Nat
  BY <1>2, BatchIsFinite
<1>4. Len(g.todo) \in Nat /\ Len(g.todo) <= Cardinality(Asked(g))
  BY <1>1, StackSize
<1>5. Pending(g) \in Nat
  BY <1>3, <1>4 DEF Pending
<1> QED
  BY <1>1, <1>2, <1>3, <1>4, <1>5

\* A batch less that is pending pays for the attempts of one batch.
LEMMA OneLessPays ==
    ASSUME NEW m \in Nat, NEW p \in Nat, NEW q \in Nat, q < p
    PROVE  m * q \in Nat /\ m * p \in Nat /\ m * q + m <= m * p
<1>1. PICK d \in Nat : p = q + 1 + d
  <2>1. p - q - 1 \in Nat /\ p = q + 1 + (p - q - 1)
    OBVIOUS
  <2> QED
    BY <2>1
<1>2. m * (q + 1 + d) = m * q + m + m * d
  OBVIOUS
<1>3. m * q \in Nat /\ m * d \in Nat /\ m * p \in Nat
  OBVIOUS
<1> QED
  BY <1>1, <1>2, <1>3

\* The batch on top is replaced by the halves of what is left of it (nothing is left of a
\* single item): the items left are still asked for, and a pending batch less.
LEMMA TopReplaced ==
    ASSUME NEW g, Stack(g.todo), g.todo # <<>>, NEW rest, rest \subseteq Head(g.todo),
           Cardinality(Head(g.todo)) = 1 => rest = {},
           NEW h, h.todo = Halves(rest) \o Tail(g.todo)
    PROVE  /\ Stack(h.todo) /\ Asked(h) = rest \cup (Asked(g) \ Head(g.todo))
           /\ Head(g.todo) \subseteq Asked(g)
           /\ Pending(h) \in Nat /\ Pending(g) \in Nat /\ Pending(h) < Pending(g)
<1>1. PICK t : t = g.todo
  OBVIOUS
<1>2. PICK top : top = Head(t)
  OBVIOUS
<1>3. PICK q : q = Tail(t)
  OBVIOUS
<1>4. /\ top \in Batch /\ top # {} /\ top \subseteq ItemsOn(t)
      /\ Stack(q) /\ ItemsOn(q) = ItemsOn(t) \ top
      /\ Len(t) \in Nat \ {0} /\ Len(q) = Len(t) - 1
  BY <1>1, <1>2, <1>3, TopOff
<1>5. rest \in Batch /\ rest \subseteq top /\ rest \cap ItemsOn(q) = {}
  BY <1>1, <1>2, <1>4 DEF Batch
<1>6. /\ Stack(h.todo) /\ ItemsOn(h.todo) = rest \cup ItemsOn(q)
      /\ Len(h.todo) = Len(q) + (IF Cardinality(rest) = 0 THEN 0
                                 ELSE IF Cardinality(rest) = 1 THEN 1 ELSE 2)
  <2>1. h.todo = Halves(rest) \o q
    BY <1>1, <1>3
  <2> QED
    BY <1>4, <1>5, <2>1, HalvesOnTop, Zenon
<1>7. /\ Asked(g) = ItemsOn(t) /\ Asked(h) = ItemsOn(h.todo)
      /\ Pending(g) \in Nat /\ Pending(h) \in Nat
  BY <1>1, <1>6, AskedIsOnStack
<1>8. ItemsOn(q) \in Batch /\ top \cap ItemsOn(q) = {} /\ top \cup ItemsOn(q) = ItemsOn(t)
  BY <1>4, ItemsOnStack DEF Stack
<1>9. /\ Cardinality(ItemsOn(t)) = Cardinality(top) + Cardinality(ItemsOn(q))
      /\ Cardinality(ItemsOn(h.todo)) = Cardinality(rest) + Cardinality(ItemsOn(q))
  BY <1>4, <1>5, <1>6, <1>8, CountDisjoint
<1>10. PICK a \in Nat, b \in Nat, c \in Nat :
         a = Cardinality(top) /\ b = Cardinality(rest) /\ c = Cardinality(ItemsOn(q))
  BY <1>4, <1>5, <1>8, BatchIsFinite
<1>11. a # 0 /\ b <= a /\ (a = 1 => b = 0)
  <2>1. a # 0
    BY <1>4, <1>10, BatchIsFinite
  <2>2. b <= a
    BY <1>4, <1>5, <1>10, BatchIsFinite, FS_Subset
  <2>3. a = 1 => b = 0
    BY <1>1, <1>2, <1>10, FS_EmptySet
  <2> QED
    BY <2>1, <2>2, <2>3
<1>12. PICK l \in Nat : l = Len(t) /\ l # 0
  BY <1>4
<1>13. /\ Pending(g) = 2 * (a + c) - l
       /\ Pending(h) = 2 * (b + c) - (l - 1 + (IF b = 0 THEN 0 ELSE IF b = 1 THEN 1 ELSE 2))
  BY <1>1, <1>4, <1>6, <1>7, <1>9, <1>10, <1>12 DEF Pending
<1>14. Pending(h) < Pending(g)
  BY <1>11, <1>13
<1> QED
  BY <1>1, <1>2, <1>4, <1>6, <1>7, <1>14

\* Batches of the answers: what was given to a goroutine, and the costs it is bounded by
LEMMA GivenBatch ==
    ASSUME NEW g \in Goroutine, NEW b, GoroutineOf(g, b)
    PROVE  /\ b \in Batch /\ MaxAttempts * (2 * Cardinality(b) - 1) \in Int
           /\ g.attempt \in Nat /\ g.attempt <= MaxAttempts /\ g.requests \in Nat
           /\ g.outputs \subseteq Item /\ g.errors \subseteq Item
<1>1. Asked(g) \in Batch
  BY AskedIsOnStack DEF GoroutineOf
<1>2. g.outputs \subseteq Item /\ g.errors \subseteq Item
  BY DEF Goroutine
<1>3. b \in Batch
  BY <1>1, <1>2 DEF GoroutineOf, Batch
<1>4. Cardinality(b) \in Nat /\ MaxAttempts \in Nat
  BY <1>3, BatchIsFinite, Numbers
<1>5. g.attempt \in Nat /\ g.attempt <= MaxAttempts /\ g.requests \in Nat
  <2>1. g.attempt \in 0..MaxAttempts /\ g.requests \in Nat
    BY DEF Goroutine
  <2> QED
    BY <1>4, <2>1
<1>6. MaxAttempts * (2 * Cardinality(b) - 1) \in Int
  BY <1>4
<1> QED
  BY <1>2, <1>3, <1>5, <1>6

\* The batch on top is done with: some of its items are decided, the rest is halved.
LEMMA TopDone ==
    ASSUME NEW g \in Goroutine, NEW b, GoroutineOf(g, b), g.todo # <<>>,
           NEW rest, rest \subseteq Head(g.todo), Cardinality(Head(g.todo)) = 1 => rest = {},
           NEW h, h.todo = Halves(rest) \o Tail(g.todo), h.attempt = 0, h.requests = g.requests,
           h.outputs \cup h.errors = (g.outputs \cup g.errors) \cup (Head(g.todo) \ rest),
           h.outputs \cap h.errors = {}
    PROVE  GoroutineOf(h, b)
<1>1. Stack(g.todo)
  BY DEF GoroutineOf
<1>2. /\ Stack(h.todo) /\ Asked(h) = rest \cup (Asked(g) \ Head(g.todo))
      /\ Head(g.todo) \subseteq Asked(g)
      /\ Pending(h) \in Nat /\ Pending(g) \in Nat /\ Pending(h) < Pending(g)
  BY <1>1, TopReplaced
<1>3. PICK top : top = Head(g.todo)
  OBVIOUS
<1>4. PICK a : a = Asked(g)
  OBVIOUS
<1>5. PICK d : d = g.outputs \cup g.errors
  OBVIOUS
<1>6. b = a \cup d /\ a \cap d = {}
  BY <1>4, <1>5 DEF GoroutineOf
<1>7. /\ Asked(h) = rest \cup (a \ top) /\ top \subseteq a /\ rest \subseteq top
      /\ h.outputs \cup h.errors = d \cup (top \ rest)
  BY <1>2, <1>3, <1>4, <1>5
<1>8. b = Asked(h) \cup (h.outputs \cup h.errors) /\ Asked(h) \cap (h.outputs \cup h.errors) = {}
  BY <1>6, <1>7
<1>9. h.requests + MaxAttempts * Pending(h) <= MaxAttempts * (2 * Cardinality(b) - 1) + h.attempt
  <2>1. PICK c \in Int : c = MaxAttempts * (2 * Cardinality(b) - 1)
    BY GivenBatch
  <2>2. PICK p \in Nat : p = MaxAttempts * Pending(g)
    BY <1>2, Numbers
  <2>3. PICK q \in Nat : q = MaxAttempts * Pending(h) /\ q + MaxAttempts <= p
    BY <1>2, <2>2, OneLessPays, Numbers
  <2>4. g.requests + p <= c + g.attempt
    BY <2>1, <2>2 DEF GoroutineOf
  <2>5. g.requests + q <= c
    BY <2>3, <2>4, GivenBatch, Numbers
  <2> QED
    BY <2>1, <2>3, <2>5
<1>10. h.attempt < MaxAttempts
  BY Numbers
<1>11. b = Asked(h) \cup h.outputs \cup h.errors
  BY <1>8
<1> QED
  BY <1>2, <1>8, <1>9, <1>10, <1>11 DEF GoroutineOf

\* Nothing but the attempt, the request count and how the goroutine waits changes.
LEMMA TopKept ==
    ASSUME NEW g \in Goroutine, NEW b, GoroutineOf(g, b), g.todo # <<>>,
           NEW h, h.todo = g.todo, h.outputs = g.outputs, h.errors = g.errors,
           NEW k \in Nat, h.attempt = g.attempt + k, h.requests = g.requests + k,
           ~h.busy /\ ~h.failed => h.attempt < MaxAttempts
    PROVE  GoroutineOf(h, b)
<1>1. Asked(h) = Asked(g) /\ Pending(h) = Pending(g)
  BY DEF Asked, Pending
<1>2. Stack(g.todo)
  BY DEF GoroutineOf
<1>3. h.requests + MaxAttempts * Pending(h) <= MaxAttempts * (2 * Cardinality(b) - 1) + h.attempt
  <2>1. PICK c \in Int : c = MaxAttempts * (2 * Cardinality(b) - 1)
    BY GivenBatch
  <2>2. PICK p \in Nat : p = MaxAttempts * Pending(g)
    BY <1>2, AskedIsOnStack, Numbers
  <2>3. g.requests + p <= c + g.attempt
    BY <2>1, <2>2 DEF GoroutineOf
  <2>4. (g.requests + k) + p <= c + (g.attempt + k)
    BY <2>3, GivenBatch, SMTT(30)
  <2> QED
    BY <1>1, <2>1, <2>2, <2>4
<1> QED
  BY <1>1, <1>3 DEF GoroutineOf

-----------------------------------------------------------------------------
(* The steps of the goroutines *)

\* PackedByTheLimits, as a statement about any batches and costs
FitsWith(c, s) ==
    /\ Cardinality(s) <= MaxBatchSize
    /\ Cardinality(s) = 1 \/ Cardinality(UNION {{x} \X (1..c[x]) : x \in s}) <= InputTokenBudget

PackedWith(p, c) ==
    /\ UNION Range(p) = Item
    /\ \A k, l \in DOMAIN p : k < l => \A x \in p[k], y \in p[l] : x < y
    /\ \A k \in DOMAIN p : p[k] # {} /\ FitsWith(c, p[k])
    /\ \A k \in 1..(Len(p) - 1) : \A x \in p[k + 1] :
           (\A y \in p[k + 1] : x <= y) => ~FitsWith(c, p[k] \cup {x})

LEMMA PackedStays ==
    ASSUME PackedByTheLimits, UNCHANGED <<packed, cost>>
    PROVE  PackedByTheLimits'
<1>1. PackedByTheLimits <=> PackedWith(packed, cost)
  BY Zenon DEF PackedByTheLimits, Fits, Tokens, PackedWith, FitsWith
<1>2. PackedByTheLimits' <=> PackedWith(packed', cost')
  BY Zenon DEF PackedByTheLimits, Fits, Tokens, PackedWith, FitsWith
<1> QED
  BY <1>1, <1>2, Zenon

LEMMA WaveAndPacked ==
    ASSUME CallInv, NEW i \in DOMAIN wave
    PROVE  /\ DOMAIN wave = 1..Len(wave) /\ wave[i] \in Goroutine
           /\ offset + i \in 1..Len(packed) /\ packed[offset + i] \in Batch
           /\ GoroutineOf(wave[i], packed[offset + i])
<1>1. /\ wave \in Seq(Goroutine) /\ packed \in Seq(Batch) /\ offset \in Nat
      /\ offset + Len(wave) <= Len(packed)
  BY DEF CallInv, TypeOK, Place
<1>2. DOMAIN wave = 1..Len(wave) /\ wave[i] \in Goroutine
  BY <1>1
<1>3. offset + i \in 1..Len(packed)
  BY <1>1, <1>2
<1>4. packed[offset + i] \in Batch
  BY <1>1, <1>3
<1> QED
  BY <1>2, <1>3, <1>4 DEF CallInv, Goroutines

LEMMA BecomeKeeps ==
    ASSUME CallInv, NEW i \in DOMAIN wave, NEW h \in Goroutine,
           GoroutineOf(h, packed[offset + i]), Become(i, h)
    PROVE  CallInv'
<1>1. /\ wave' = [wave EXCEPT ![i] = h]
      /\ UNCHANGED <<packed, cost, offset, concurrency, successfulWaves, outputs, errors,
                     canceled, phase>>
  BY DEF Become
<1>2. wave \in Seq(Goroutine) /\ DOMAIN wave = 1..Len(wave)
  BY DEF CallInv, TypeOK
<1>3. /\ wave' \in Seq(Goroutine) /\ Len(wave') = Len(wave) /\ DOMAIN wave' = DOMAIN wave
      /\ \A j \in DOMAIN wave : wave'[j] = IF j = i THEN h ELSE wave[j]
  BY <1>1, <1>2
<1>4. TypeOK'
  BY <1>1, <1>3 DEF CallInv, TypeOK
<1>5. PackedByTheLimits'
  BY <1>1, PackedStays DEF CallInv
<1>6. Place'
  <2>1. wave # <<>>
    BY <1>2
  <2> QED
    BY <1>1, <1>3, <2>1 DEF CallInv, Place
<1>7. Goroutines'
  <2> SUFFICES ASSUME NEW j \in DOMAIN wave
               PROVE  GoroutineOf(wave'[j], packed[offset + j])
    BY <1>1, <1>3 DEF Goroutines
  <2>1. GoroutineOf(wave[j], packed[offset + j])
    BY DEF CallInv, Goroutines
  <2> QED
    BY <1>3, <2>1
<1>8. Decided'
  BY <1>1 DEF CallInv, Decided
<1> QED
  BY <1>4, <1>5, <1>6, <1>7, <1>8 DEF CallInv

LEMMA SendKeeps ==
    ASSUME CallInv, NEW i \in DOMAIN wave, Send(i)
    PROVE  CallInv'
<1>1. PICK g \in Goroutine : g = wave[i]
  BY WaveAndPacked
<1>2. PICK b : b = packed[offset + i]
  OBVIOUS
<1>3. GoroutineOf(g, b) /\ ~g.failed /\ g.todo # <<>> /\ ~g.busy
  BY <1>1, <1>2, WaveAndPacked DEF Send, Finished
<1>4. g.attempt < MaxAttempts /\ g.attempt \in Nat /\ g.requests \in Nat
  BY <1>3, GivenBatch DEF GoroutineOf
<1>5. CASE canceled
  <2>1. PICK h : h = [g EXCEPT !.failed = TRUE]
    OBVIOUS
  <2>2. /\ h \in Goroutine /\ h.todo = g.todo /\ h.outputs = g.outputs /\ h.errors = g.errors
        /\ h.attempt = g.attempt + 0 /\ h.requests = g.requests + 0 /\ h.failed
    <3>1. h \in Goroutine
      BY <2>1 DEF Goroutine
    <3>2. /\ h.todo = g.todo /\ h.outputs = g.outputs /\ h.errors = g.errors
          /\ h.attempt = g.attempt /\ h.requests = g.requests
      BY <2>1 DEF Goroutine
    <3>3. h.failed
      BY <2>1 DEF Goroutine
    <3> QED
      BY <1>4, <3>1, <3>2, <3>3
  <2>3. GoroutineOf(h, b)
    BY <1>3, <2>2, TopKept
  <2>4. Become(i, h)
    BY <1>1, <1>5, <2>1 DEF Send
  <2> QED
    BY <1>2, <2>2, <2>3, <2>4, BecomeKeeps
<1>6. CASE ~canceled
  <2>1. PICK h : h = [g EXCEPT !.busy = TRUE, !.attempt = @ + 1, !.requests = @ + 1]
    OBVIOUS
  <2>2. g.attempt + 1 \in 0..MaxAttempts /\ g.requests + 1 \in Nat
    BY <1>4, Numbers
  <2>3. /\ h \in Goroutine /\ h.todo = g.todo /\ h.outputs = g.outputs /\ h.errors = g.errors
        /\ h.attempt = g.attempt + 1 /\ h.requests = g.requests + 1 /\ h.busy
    BY <2>1, <2>2 DEF Goroutine
  <2>4. GoroutineOf(h, b)
    BY <1>3, <2>3, TopKept
  <2>5. Become(i, h)
    BY <1>1, <1>6, <2>1 DEF Send
  <2> QED
    BY <1>2, <2>3, <2>4, <2>5, BecomeKeeps
<1> QED
  BY <1>5, <1>6

\* The batch on top of a stack has items.
LEMMA TopHasItems ==
    ASSUME NEW g \in Goroutine, NEW b, GoroutineOf(g, b), g.todo # <<>>
    PROVE  /\ Head(g.todo) \in Batch /\ Head(g.todo) # {} /\ Head(g.todo) \subseteq Asked(g)
           /\ Cardinality(Head(g.todo)) \in Nat \ {0}
<1>1. /\ Head(g.todo) \in Batch /\ Head(g.todo) # {} /\ Head(g.todo) \subseteq Asked(g)
  BY TopOff, AskedIsOnStack DEF GoroutineOf
<1>2. Cardinality(Head(g.todo)) \in Nat \ {0}
  BY <1>1, BatchIsFinite
<1> QED
  BY <1>1, <1>2

LEMMA StackIsSeq == \A t : Stack(t) => t \in Seq(Batch)
  BY DEF Stack

LEMMA AnswerKeeps ==
    ASSUME CallInv, NEW i \in DOMAIN wave, NEW decided \in SUBSET Item, Answer(i, decided)
    PROVE  CallInv'
<1>1. PICK g \in Goroutine : g = wave[i]
  BY WaveAndPacked
<1>2. PICK b : b = packed[offset + i]
  OBVIOUS
<1>3. PICK top : top = Head(g.todo)
  OBVIOUS
<1>4. PICK rest : rest = top \ decided
  OBVIOUS
<1>5. /\ GoroutineOf(g, b) /\ g.todo # <<>>
      /\ decided \subseteq top
      /\ Cardinality(top) = 1 => decided # {}
  BY <1>1, <1>2, <1>3, WaveAndPacked DEF Answer, Finished
<1>6. PICK f \in BOOLEAN : f = (canceled /\ rest # {})
  BY DEF CallInv, TypeOK
<1>7. PICK h : h = [g EXCEPT !.busy = FALSE, !.attempt = 0, !.outputs = @ \cup decided,
                             !.failed = f, !.todo = Halves(rest) \o Tail(@)]
  OBVIOUS
<1>8. /\ h.todo = Halves(rest) \o Tail(g.todo) /\ h.attempt = 0 /\ h.requests = g.requests
      /\ h.outputs = g.outputs \cup decided /\ h.errors = g.errors
  BY <1>7 DEF Goroutine
<1>9. /\ rest \subseteq Head(g.todo)
      /\ Cardinality(Head(g.todo)) = 1 => rest = {}
  <2>1. rest \subseteq Head(g.todo)
    BY <1>3, <1>4
  <2>2. ASSUME Cardinality(top) = 1 PROVE rest = {}
    <3>1. PICK x : top = {x}
      <4>1. top \in Batch /\ IsFiniteSet(top)
        BY <1>3, <1>5, TopHasItems, BatchIsFinite
      <4> QED
        BY <2>2, <4>1, FS_Singleton
    <3> QED
      BY <1>4, <1>5, <2>2, <3>1
  <2> QED
    BY <1>3, <2>1, <2>2
<1>10. h.todo \in Seq(Batch)
  <2>1. Stack(g.todo)
    BY <1>5 DEF GoroutineOf
  <2>2. Stack(h.todo)
    BY <1>5, <1>8, <1>9, <2>1, TopReplaced
  <2> QED
    BY <2>2, StackIsSeq
<1>11. h \in Goroutine
  <2>1. PICK t \in Seq(Batch) : t = Halves(rest) \o Tail(g.todo)
    BY <1>8, <1>10
  <2>2. PICK o \in SUBSET Item : o = g.outputs \cup decided
    BY DEF Goroutine
  <2>3. 0 \in 0..MaxAttempts
    BY Numbers
  <2>4. h = [g EXCEPT !.busy = FALSE, !.attempt = 0, !.outputs = o, !.failed = f, !.todo = t]
    BY <1>7, <2>1, <2>2, Zenon
  <2> QED
    BY <2>3, <2>4 DEF Goroutine
<1>12. GoroutineOf(h, b)
  <2>1. top \subseteq Asked(g) /\ Asked(g) \cap g.errors = {} /\ g.outputs \cap g.errors = {}
    BY <1>3, <1>5, TopHasItems DEF GoroutineOf
  <2>2. h.outputs \cup h.errors = (g.outputs \cup g.errors) \cup (Head(g.todo) \ rest)
    BY <1>3, <1>4, <1>5, <1>8
  <2>3. h.outputs \cap h.errors = {}
    BY <1>5, <1>8, <2>1
  <2> QED
    BY <1>5, <1>8, <1>9, <2>2, <2>3, TopDone
<1>13. Become(i, h)
  <2>1. Become(i, [g EXCEPT !.busy = FALSE, !.attempt = 0, !.outputs = @ \cup decided,
                            !.failed = canceled /\ rest # {},
                            !.todo = Halves(rest) \o Tail(@)])
    BY <1>1, <1>3, <1>4, Zenon DEF Answer
  <2> QED
    BY <1>6, <1>7, <2>1, Zenon
<1> QED
  BY <1>2, <1>11, <1>12, <1>13, BecomeKeeps

LEMMA ErrorKeeps ==
    ASSUME CallInv, NEW i \in DOMAIN wave, NEW c \in Category, Error(i, c)
    PROVE  CallInv'
<1>1. PICK g \in Goroutine : g = wave[i]
  BY WaveAndPacked
<1>2. PICK b : b = packed[offset + i]
  OBVIOUS
<1>3. PICK s : s = Head(g.todo)
  OBVIOUS
<1>4. GoroutineOf(g, b) /\ g.todo # <<>>
  BY <1>1, <1>2, WaveAndPacked DEF Error, Finished
<1>5. PICK e : e = [g EXCEPT !.busy = FALSE, !.category = c]
  OBVIOUS
<1>6. /\ e \in Goroutine /\ e.todo = g.todo /\ e.outputs = g.outputs /\ e.errors = g.errors
      /\ e.attempt = g.attempt /\ e.requests = g.requests /\ e.failed = g.failed
  BY <1>5 DEF Goroutine
<1>7. /\ s \in Batch /\ s # {} /\ s \subseteq Asked(g)
      /\ Cardinality(s) \in Nat \ {0}
  BY <1>3, <1>4, TopHasItems
<1>8. g.attempt \in Nat /\ g.requests \in Nat
  BY <1>4, GivenBatch
<1>9. Become(i, CASE canceled             -> [e EXCEPT !.failed = TRUE]
                  [] ~canceled /\ Again(c, g.attempt) -> e
                  [] ~canceled /\ ~Again(c, g.attempt) /\ Cardinality(s) = 1 ->
                       [e EXCEPT !.attempt = 0, !.errors = @ \cup s, !.todo = Tail(@)]
                  [] ~canceled /\ ~Again(c, g.attempt) /\ Cardinality(s) > 1 ->
                       [e EXCEPT !.attempt = 0, !.todo = Halves(s) \o Tail(@)])
  BY <1>1, <1>3, <1>5, Zenon DEF Error
<1>10. 0 \in 0..MaxAttempts
  BY Numbers
<1>11. CASE canceled
  <2>1. PICK h : h = [e EXCEPT !.failed = TRUE]
    OBVIOUS
  <2>2. Become(i, h)
    BY <1>9, <1>11, <2>1, Zenon
  <2>3. h \in Goroutine
    BY <1>6, <2>1 DEF Goroutine
  <2>4. /\ h.todo = g.todo /\ h.outputs = g.outputs /\ h.errors = g.errors
        /\ h.attempt = g.attempt /\ h.requests = g.requests
    BY <1>6, <2>1 DEF Goroutine
  <2>5. h.failed
    BY <1>6, <2>1 DEF Goroutine
  <2>6. h.attempt = g.attempt + 0 /\ h.requests = g.requests + 0
    BY <1>8, <2>4
  <2>7. GoroutineOf(h, b)
    BY <1>4, <2>4, <2>5, <2>6, TopKept
  <2> QED
    BY <1>2, <2>2, <2>3, <2>7, BecomeKeeps
<1>12. CASE ~canceled /\ Again(c, g.attempt)
  <2>1. Become(i, e)
    BY <1>9, <1>12, Zenon
  <2>2. e.attempt < MaxAttempts
    BY <1>6, <1>12 DEF Again
  <2>3. e.attempt = g.attempt + 0 /\ e.requests = g.requests + 0
    BY <1>6, <1>8
  <2>4. GoroutineOf(e, b)
    BY <1>4, <1>6, <2>2, <2>3, TopKept
  <2> QED
    BY <1>2, <1>6, <2>1, <2>4, BecomeKeeps
<1>13. CASE ~canceled /\ ~Again(c, g.attempt) /\ Cardinality(s) = 1
  <2>1. PICK h : h = [e EXCEPT !.attempt = 0, !.errors = @ \cup s, !.todo = Tail(@)]
    OBVIOUS
  <2>2. Become(i, h)
    BY <1>7, <1>9, <1>13, <2>1
  <2>3. /\ h.todo = Tail(g.todo) /\ h.attempt = 0 /\ h.requests = g.requests
        /\ h.outputs = g.outputs /\ h.errors = g.errors \cup s
    BY <1>6, <2>1 DEF Goroutine
  <2>4. Stack(g.todo) /\ Stack(h.todo)
    BY <1>4, <2>3, TopOff DEF GoroutineOf
  <2>5. h.todo = Halves({}) \o Tail(g.todo)
    <3>1. Halves({}) = <<>>
      BY FS_EmptySet DEF Halves
    <3>2. h.todo \in Seq(Batch)
      BY <2>4, StackIsSeq
    <3> QED
      BY <2>3, <3>1, <3>2
  <2>6. h \in Goroutine
    <3>1. PICK t \in Seq(Batch) : t = Tail(g.todo)
      BY <2>3, <2>4, StackIsSeq
    <3>2. PICK o \in SUBSET Item : o = g.errors \cup s
      BY <1>7 DEF Goroutine, Batch
    <3>3. h = [e EXCEPT !.attempt = 0, !.errors = o, !.todo = t]
      BY <1>6, <2>1, <3>1, <3>2
    <3> QED
      BY <1>6, <1>10, <3>3 DEF Goroutine
  <2>7. GoroutineOf(h, b)
    <3>1. h.outputs \cup h.errors = (g.outputs \cup g.errors) \cup (Head(g.todo) \ {})
      BY <1>3, <2>3
    <3>2. h.outputs \cap h.errors = {}
      BY <1>4, <1>7, <2>3 DEF GoroutineOf
    <3>3. {} \subseteq Head(g.todo)
      OBVIOUS
    <3> QED
      BY <1>4, <2>3, <2>5, <3>1, <3>2, <3>3, TopDone
  <2> QED
    BY <1>2, <2>2, <2>6, <2>7, BecomeKeeps
<1>14. CASE ~canceled /\ ~Again(c, g.attempt) /\ Cardinality(s) > 1
  <2>1. PICK h : h = [e EXCEPT !.attempt = 0, !.todo = Halves(s) \o Tail(@)]
    OBVIOUS
  <2>2. Become(i, h)
    BY <1>7, <1>9, <1>14, <2>1
  <2>3. /\ h.todo = Halves(s) \o Tail(g.todo) /\ h.attempt = 0 /\ h.requests = g.requests
        /\ h.outputs = g.outputs /\ h.errors = g.errors
    BY <1>6, <2>1 DEF Goroutine
  <2>4. s \subseteq Head(g.todo) /\ Cardinality(Head(g.todo)) # 1
    BY <1>3, <1>7, <1>14
  <2>5. Stack(g.todo)
    BY <1>4 DEF GoroutineOf
  <2>6. Stack(h.todo)
    BY <1>4, <2>3, <2>4, <2>5, TopReplaced
  <2>7. h \in Goroutine
    <3>1. PICK t \in Seq(Batch) : t = Halves(s) \o Tail(g.todo)
      BY <2>3, <2>6, StackIsSeq
    <3>2. h = [e EXCEPT !.attempt = 0, !.todo = t]
      BY <1>6, <2>1, <3>1
    <3> QED
      BY <1>6, <1>10, <3>2 DEF Goroutine
  <2>8. GoroutineOf(h, b)
    <3>1. h.outputs \cup h.errors = (g.outputs \cup g.errors) \cup (Head(g.todo) \ s)
      BY <1>3, <2>3
    <3>2. h.outputs \cap h.errors = {}
      BY <1>4, <2>3 DEF GoroutineOf
    <3> QED
      BY <1>4, <2>3, <2>4, <3>1, <3>2, TopDone
  <2> QED
    BY <1>2, <2>2, <2>7, <2>8, BecomeKeeps
<1>15. Cardinality(s) = 1 \/ Cardinality(s) > 1
  BY <1>7
<1> QED
  BY <1>11, <1>12, <1>13, <1>14, <1>15

-----------------------------------------------------------------------------
(* The steps of the call *)

LEMMA CallInvInit ==
    ASSUME Init
    PROVE  CallInv
<1>1. cost \in [Item -> Cost] /\ packed = PackBatchItems
  BY DEF Init
<1>2. packed \in Seq(Batch) /\ InLimits(packed) /\ UNION Range(packed) = Item
  BY <1>1, PackBatchItemsByTheLimits
<1>3. wave = <<>> /\ offset = 0 /\ concurrency = MaxConcurrency /\ successfulWaves = 0
  BY DEF Init
<1>4. outputs = {} /\ errors = {} /\ canceled = FALSE /\ phase = "running"
  BY DEF Init
<1>5. TypeOK
  <2>1. offset \in 0..Len(packed) /\ concurrency \in 1..MaxConcurrency /\ successfulWaves \in Nat
    BY <1>2, <1>3, Numbers
  <2>2. wave \in Seq(Goroutine) /\ Len(wave) <= concurrency
    BY <1>3, Numbers
  <2> QED
    BY <1>1, <1>2, <1>4, <2>1, <2>2 DEF TypeOK
<1>6. PackedByTheLimits
  BY <1>2, BatchesByTheLimits
<1>7. Place
  BY <1>2, <1>3, <1>4 DEF Place
<1>8. Goroutines
  BY <1>3 DEF Goroutines
<1>9. Decided
  BY <1>3, <1>4 DEF Decided
<1> QED
  BY <1>5, <1>6, <1>7, <1>8, <1>9 DEF CallInv

\* A goroutine starts with its request on the stack.
NewGoroutine(b) ==
    [todo |-> <<b>>, attempt |-> 0, busy |-> FALSE, outputs |-> {},
     errors |-> {}, category |-> "none", failed |-> FALSE, requests |-> 0]

LEMMA NewGoroutineStarts ==
    ASSUME NEW b \in Batch, b # {}
    PROVE  NewGoroutine(b) \in Goroutine /\ GoroutineOf(NewGoroutine(b), b)
<1>1. PICK g : g = NewGoroutine(b)
  OBVIOUS
<1>2. /\ g.todo = <<b>> /\ g.attempt = 0 /\ g.outputs = {} /\ g.errors = {} /\ g.requests = 0
  BY <1>1 DEF NewGoroutine
<1>3. g \in Goroutine
  <2>1. <<b>> \in Seq(Batch) /\ 0 \in 0..MaxAttempts /\ {} \in SUBSET Item
    BY Numbers
  <2> QED
    BY <1>1, <2>1 DEF NewGoroutine, Goroutine
<1>4. Stack(<<b>>)
  BY DEF Stack, Filled, Apart
<1>5. Asked(g) = b
  BY <1>2 DEF Asked, Range
<1>6. Cardinality(b) \in Nat /\ Pending(g) = 2 * Cardinality(b) - 1
  BY <1>2, <1>5, BatchIsFinite DEF Pending
<1>7. g.requests + MaxAttempts * Pending(g) <= MaxAttempts * (2 * Cardinality(b) - 1) + g.attempt
  <2>1. PICK c \in Int : c = MaxAttempts * (2 * Cardinality(b) - 1)
    BY <1>6, Numbers
  <2> QED
    BY <1>2, <1>6, <2>1
<1>8. g.attempt < MaxAttempts
  BY <1>2, Numbers
<1> QED
  BY <1>1, <1>2, <1>3, <1>4, <1>5, <1>7, <1>8 DEF GoroutineOf

LEMMA StartWaveKeeps ==
    ASSUME CallInv, StartWave
    PROVE  CallInv'
<1>1. /\ packed \in Seq(Batch) /\ offset \in 0..Len(packed) /\ concurrency \in 1..MaxConcurrency
      /\ Len(packed) \in Nat /\ PackedByTheLimits
  BY DEF CallInv, TypeOK
<1>2. /\ phase = "running" /\ wave = <<>> /\ offset < Len(packed)
      /\ UNCHANGED <<packed, cost, offset, concurrency, successfulWaves, outputs, errors, canceled>>
  BY DEF StartWave
<1>3. PackedByTheLimits'
  BY <1>1, <1>2, PackedStays
<1>4. CASE canceled
  <2>1. phase' = "failed" /\ wave' = <<>>
    BY <1>2, <1>4 DEF StartWave
  <2>2. TypeOK'
    BY <1>2, <2>1 DEF CallInv, TypeOK
  <2>3. Place' /\ Goroutines' /\ Decided'
    BY <1>1, <1>2, <2>1 DEF Place, Goroutines, Decided
  <2> QED
    BY <1>3, <2>2, <2>3 DEF CallInv
<1>5. CASE ~canceled
  <2>0. concurrency \in Nat /\ offset \in Nat /\ Len(packed) - offset \in Nat
    BY <1>1, <1>2, Numbers
  <2>1. PICK size \in Nat :
          size = IF concurrency < Len(packed) - offset THEN concurrency ELSE Len(packed) - offset
    BY <2>0, Zenon
  <2>2. size <= concurrency /\ offset + size <= Len(packed)
    BY <1>1, <2>0, <2>1
  <2>3. wave' = [i \in 1..size |-> NewGoroutine(packed[offset + i])] /\ phase' = "running"
    BY <1>2, <1>5, <2>1 DEF StartWave, NewGoroutine
  <2>4. ASSUME NEW i \in 1..size
        PROVE  /\ NewGoroutine(packed[offset + i]) \in Goroutine
               /\ GoroutineOf(NewGoroutine(packed[offset + i]), packed[offset + i])
    <3>1. offset + i \in 1..Len(packed)
      BY <1>1, <2>2
    <3>2. packed[offset + i] \in Batch /\ packed[offset + i] # {}
      BY <1>1, <3>1 DEF PackedByTheLimits
    <3> QED
      BY <3>2, NewGoroutineStarts
  <2>5. wave' \in Seq(Goroutine) /\ Len(wave') = size /\ DOMAIN wave' = 1..size
    BY <2>3, <2>4
  <2>6. TypeOK'
    BY <1>2, <2>2, <2>3, <2>5 DEF CallInv, TypeOK
  <2>7. Place'
    BY <1>2, <2>2, <2>3, <2>5 DEF Place
  <2>8. Goroutines'
    BY <1>2, <2>3, <2>4, <2>5 DEF Goroutines
  <2>9. Decided'
    BY <1>2, <2>3 DEF CallInv, Decided
  <2> QED
    BY <1>3, <2>6, <2>7, <2>8, <2>9 DEF CallInv
<1> QED
  BY <1>4, <1>5

\* The order of the items keeps the batches apart.
LEMMA PackedApart ==
    ASSUME TypeOK, PackedByTheLimits, NEW k \in 1..Len(packed), NEW l \in 1..Len(packed),
           NEW x, x \in packed[k], x \in packed[l]
    PROVE  k = l
<1>1. packed \in Seq(Batch) /\ DOMAIN packed = 1..Len(packed)
  BY DEF TypeOK
<1>2. packed[k] \in Batch
  BY <1>1
<1>3. x \in Nat
  BY <1>2, ItemIsFinite DEF Batch
<1>4. \A m, n \in 1..Len(packed) : m < n => \A y \in packed[m], z \in packed[n] : y < z
  BY <1>1 DEF PackedByTheLimits
<1>5. ~(k < l) /\ ~(l < k)
  BY <1>3, <1>4
<1>6. k \in Int /\ l \in Int
  OBVIOUS
<1> QED
  BY <1>5, <1>6

\* A goroutine that finished without failing has decided its batch.
LEMMA FinishedDecided ==
    ASSUME CallInv, NEW i \in DOMAIN wave, Finished(wave[i]), ~wave[i].failed
    PROVE  /\ packed[offset + i] = wave[i].outputs \cup wave[i].errors
           /\ wave[i].outputs \cap wave[i].errors = {}
<1>1. PICK g : g = wave[i]
  OBVIOUS
<1>2. GoroutineOf(g, packed[offset + i]) /\ g.todo = <<>>
  BY <1>1, WaveAndPacked DEF Finished
<1>3. Asked(g) = {}
  BY <1>2, EmptyStack DEF Asked, ItemsOn
<1> QED
  BY <1>1, <1>2, <1>3 DEF GoroutineOf

ItemsBefore == UNION {packed[k] : k \in 1..offset}
ItemsNow    == UNION {packed[offset + i] : i \in DOMAIN wave}
OutputsNow  == UNION {wave[i].outputs : i \in DOMAIN wave}
ErrorsNow   == UNION {wave[i].errors : i \in DOMAIN wave}

\* The items of a wave and of the waves before it are different ones.
LEMMA WaveDecides ==
    ASSUME CallInv, \A i \in DOMAIN wave : Finished(wave[i]) /\ ~wave[i].failed
    PROVE  /\ OutputsNow \cup ErrorsNow = ItemsNow /\ OutputsNow \cap ErrorsNow = {}
           /\ ItemsBefore \cap ItemsNow = {}
           /\ UNION {packed[k] : k \in 1..(offset + Len(wave))} = ItemsBefore \cup ItemsNow
<1>0. PICK done, now, o, e :
        /\ done = ItemsBefore /\ done = UNION {packed[k] : k \in 1..offset}
        /\ now = ItemsNow /\ now = UNION {packed[offset + i] : i \in DOMAIN wave}
        /\ o = OutputsNow /\ o = UNION {wave[i].outputs : i \in DOMAIN wave}
        /\ e = ErrorsNow /\ e = UNION {wave[i].errors : i \in DOMAIN wave}
  BY Zenon DEF ItemsBefore, ItemsNow, OutputsNow, ErrorsNow
<1>1. /\ TypeOK /\ PackedByTheLimits /\ offset \in Nat /\ Len(packed) \in Nat
      /\ Len(wave) \in Nat /\ DOMAIN wave = 1..Len(wave) /\ offset + Len(wave) <= Len(packed)
      /\ packed \in Seq(Batch)
  BY DEF CallInv, TypeOK, Place
<1>2. \A i \in DOMAIN wave : /\ packed[offset + i] = wave[i].outputs \cup wave[i].errors
                             /\ wave[i].outputs \cap wave[i].errors = {}
  BY FinishedDecided
<1>3. \A i \in DOMAIN wave : offset + i \in 1..Len(packed)
  BY <1>1
<1>4. o \cup e = now
  BY <1>0, <1>2
<1>5. o \cap e = {}
  <2> SUFFICES ASSUME NEW i \in DOMAIN wave, NEW j \in DOMAIN wave,
                      NEW x, x \in wave[i].outputs, x \in wave[j].errors
               PROVE  FALSE
    BY <1>0
  <2>1. x \in packed[offset + i] /\ x \in packed[offset + j]
    BY <1>2
  <2>2. offset + i = offset + j
    BY <1>1, <1>3, <2>1, PackedApart
  <2>3. i = j
    BY <1>1, <2>2
  <2> QED
    BY <1>2, <2>3
<1>6. done \cap now = {}
  <2> SUFFICES ASSUME NEW k \in 1..offset, NEW i \in DOMAIN wave,
                      NEW x, x \in packed[k], x \in packed[offset + i]
               PROVE  FALSE
    BY <1>0
  <2>1. k \in 1..Len(packed)
    BY <1>1
  <2>2. k = offset + i
    BY <1>1, <1>3, <2>1, PackedApart
  <2> QED
    BY <1>1, <2>2
<1>7. UNION {packed[k] : k \in 1..(offset + Len(wave))} = done \cup now
  <2>1. {packed[k] : k \in 1..(offset + Len(wave))}
          = {packed[k] : k \in 1..offset} \cup {packed[offset + i] : i \in DOMAIN wave}
    <3>1. \A k \in 1..(offset + Len(wave)) :
            k \in 1..offset \/ \E i \in DOMAIN wave : k = offset + i
      <4> SUFFICES ASSUME NEW k \in 1..(offset + Len(wave)), k \notin 1..offset
                   PROVE  \E i \in DOMAIN wave : k = offset + i
        OBVIOUS
      <4>1. k - offset \in DOMAIN wave /\ k = offset + (k - offset)
        BY <1>1
      <4> QED
        BY <4>1
    <3>2. /\ \A k \in 1..offset : k \in 1..(offset + Len(wave))
          /\ \A i \in DOMAIN wave : offset + i \in 1..(offset + Len(wave))
      BY <1>1
    <3> QED
      BY <3>1, <3>2
  <2> QED
    BY <1>0, <2>1
<1> QED
  BY <1>0, <1>4, <1>5, <1>6, <1>7

LEMMA EndWaveKeeps ==
    ASSUME CallInv, EndWave
    PROVE  CallInv'
<1> DEFINE bad    == {i \in DOMAIN wave : wave[i].failed}
           merged == {i \in DOMAIN wave : \A j \in bad : i < j}
           faster == successfulWaves + 1 >= 3 /\ concurrency < MaxConcurrency
<1>1. /\ wave # <<>> /\ \A i \in DOMAIN wave : Finished(wave[i])
      /\ outputs' = outputs \cup UNION {wave[i].outputs : i \in merged}
      /\ errors' = errors \cup UNION {wave[i].errors : i \in merged}
      /\ wave' = <<>> /\ UNCHANGED <<packed, cost, canceled>>
  BY Zenon DEF EndWave
<1>2. \/ /\ bad # {} /\ phase' = "failed"
         /\ UNCHANGED <<offset, concurrency, successfulWaves>>
      \/ /\ bad = {} /\ offset' = offset + Len(wave)
         /\ concurrency' = IF Adverse THEN Slower
                           ELSE IF faster THEN concurrency + 1 ELSE concurrency
         /\ successfulWaves' = IF Adverse \/ faster THEN 0 ELSE successfulWaves + 1
         /\ phase' = phase
  BY Zenon DEF EndWave
<1>3. /\ TypeOK /\ wave \in Seq(Goroutine) /\ DOMAIN wave = 1..Len(wave) /\ Len(wave) \in Nat
      /\ Len(packed) \in Nat /\ offset \in 0..Len(packed) /\ offset + Len(wave) <= Len(packed)
      /\ concurrency \in 1..MaxConcurrency /\ successfulWaves \in Nat
      /\ phase = "running"
  BY <1>1 DEF CallInv, TypeOK, Place
<1>4. outputs' \subseteq Item /\ errors' \subseteq Item
  <2>1. \A i \in DOMAIN wave : wave[i].outputs \subseteq Item /\ wave[i].errors \subseteq Item
    <3>1. \A i \in DOMAIN wave : wave[i] \in Goroutine
      BY <1>3
    <3> QED
      BY <3>1 DEF Goroutine
  <2>2. merged \subseteq DOMAIN wave
    OBVIOUS
  <2> HIDE DEF merged
  <2> QED
    BY <1>1, <1>3, <2>1, <2>2 DEF TypeOK
<1>5. PackedByTheLimits'
  BY <1>1, PackedStays DEF CallInv
<1>6. Goroutines'
  BY <1>1 DEF Goroutines
<1>7. CASE bad # {}
  <2>1. phase' = "failed" /\ UNCHANGED <<offset, concurrency, successfulWaves>>
    BY <1>2, <1>7
  <2>2. TypeOK'
    <3> HIDE DEF bad, merged, faster
    <3> QED
      BY <1>1, <1>3, <1>4, <2>1 DEF TypeOK
  <2>3. Place' /\ Decided'
    BY <1>1, <1>3, <2>1 DEF Place, Decided
  <2> QED
    BY <1>5, <1>6, <2>2, <2>3 DEF CallInv
<1>8. CASE bad = {}
  <2>1. /\ offset' = offset + Len(wave) /\ phase' = "running"
        /\ concurrency' = IF Adverse THEN Slower
                          ELSE IF faster THEN concurrency + 1 ELSE concurrency
        /\ successfulWaves' = IF Adverse \/ faster THEN 0 ELSE successfulWaves + 1
    BY <1>2, <1>3, <1>8, Zenon
  <2>2. concurrency' \in 1..MaxConcurrency
    <3>1. Slower \in 1..MaxConcurrency
      BY <1>3, Numbers DEF Slower
    <3>2. faster => concurrency + 1 \in 1..MaxConcurrency
      BY <1>3, Numbers
    <3> HIDE DEF faster
    <3> QED
      BY <1>3, <2>1, <3>1, <3>2, Zenon
  <2>3. successfulWaves' \in Nat
    <3>1. successfulWaves + 1 \in Nat /\ 0 \in Nat
      BY <1>3
    <3> QED
      BY <2>1, <3>1, Zenon
  <2>4. TypeOK'
    <3>1. offset' \in 0..Len(packed)
      BY <1>3, <2>1
    <3>2. wave' \in Seq(Goroutine) /\ Len(wave') <= concurrency'
      BY <1>1, <2>2, Numbers
    <3> HIDE DEF bad, merged, faster
    <3> QED
      BY <1>1, <1>3, <1>4, <2>1, <2>2, <2>3, <3>1, <3>2 DEF TypeOK
  <2>5. Place'
    BY <1>1, <1>3, <2>1 DEF Place
  <2>6. Decided'
    <3>1. merged = DOMAIN wave /\ \A i \in DOMAIN wave : Finished(wave[i]) /\ ~wave[i].failed
      BY <1>1, <1>8
    <3>2. outputs' = outputs \cup OutputsNow /\ errors' = errors \cup ErrorsNow
      BY <1>1, <3>1 DEF OutputsNow, ErrorsNow
    <3>3. outputs \cup errors = ItemsBefore /\ outputs \cap errors = {}
      BY <1>3 DEF CallInv, Decided, ItemsBefore
    <3>4. /\ OutputsNow \cup ErrorsNow = ItemsNow /\ OutputsNow \cap ErrorsNow = {}
          /\ ItemsBefore \cap ItemsNow = {}
          /\ UNION {packed[k] : k \in 1..(offset + Len(wave))} = ItemsBefore \cup ItemsNow
      BY <3>1, WaveDecides
    <3>5. UNION {packed'[k] : k \in 1..offset'} = ItemsBefore \cup ItemsNow
      BY <1>1, <2>1, <3>4
    <3>6. outputs' \cup errors' = ItemsBefore \cup ItemsNow /\ outputs' \cap errors' = {}
      <4> HIDE DEF bad, merged, faster
      <4> QED
        BY <3>2, <3>3, <3>4
    <3> QED
      BY <3>5, <3>6 DEF Decided
  <2> QED
    BY <1>5, <1>6, <2>4, <2>5, <2>6 DEF CallInv
<1> QED
  BY <1>7, <1>8

LEMMA ReturnKeeps ==
    ASSUME CallInv, Return
    PROVE  CallInv'
<1>1. /\ phase = "running" /\ wave = <<>> /\ offset = Len(packed) /\ phase' = "done"
      /\ UNCHANGED <<packed, cost, offset, concurrency, successfulWaves, wave, outputs, errors,
                     canceled>>
  BY DEF Return
<1>2. TypeOK'
  BY <1>1 DEF CallInv, TypeOK
<1>3. PackedByTheLimits'
  BY <1>1, PackedStays DEF CallInv
<1>4. Place' /\ Goroutines' /\ Decided'
  BY <1>1 DEF CallInv, Place, Goroutines, Decided
<1> QED
  BY <1>2, <1>3, <1>4 DEF CallInv

LEMMA CancelKeeps ==
    ASSUME CallInv, Cancel
    PROVE  CallInv'
<1>1. /\ canceled' = TRUE
      /\ UNCHANGED <<packed, cost, offset, concurrency, successfulWaves, wave, outputs, errors,
                     phase>>
  BY DEF Cancel
<1>2. TypeOK'
  BY <1>1 DEF CallInv, TypeOK
<1>3. PackedByTheLimits'
  BY <1>1, PackedStays DEF CallInv
<1>4. Place' /\ Goroutines' /\ Decided'
  BY <1>1 DEF CallInv, Place, Goroutines, Decided
<1> QED
  BY <1>2, <1>3, <1>4 DEF CallInv

LEMMA StutterKeeps ==
    ASSUME CallInv, UNCHANGED vars
    PROVE  CallInv'
<1>1. UNCHANGED <<packed, cost, offset, concurrency, successfulWaves, wave, outputs, errors,
                  canceled, phase>>
  BY DEF vars
<1>2. TypeOK'
  BY <1>1 DEF CallInv, TypeOK
<1>3. PackedByTheLimits'
  BY <1>1, PackedStays DEF CallInv
<1>4. Place' /\ Goroutines' /\ Decided'
  BY <1>1 DEF CallInv, Place, Goroutines, Decided
<1> QED
  BY <1>2, <1>3, <1>4 DEF CallInv

LEMMA CallInvStep ==
    ASSUME CallInv, [Next]_vars
    PROVE  CallInv'
<1>1. CASE Cancel
  BY <1>1, CancelKeeps
<1>2. CASE StartWave
  BY <1>2, StartWaveKeeps
<1>3. CASE EndWave
  BY <1>3, EndWaveKeeps
<1>4. CASE Return
  BY <1>4, ReturnKeeps
<1>5. ASSUME NEW i \in 1..MaxConcurrency, GoroutineStep(i)
      PROVE  CallInv'
  <2>1. i \in DOMAIN wave
    BY <1>5 DEF GoroutineStep
  <2>2. CASE Send(i)
    BY <2>1, <2>2, SendKeeps
  <2>3. ASSUME NEW decided \in SUBSET Item, Answer(i, decided) PROVE CallInv'
    BY <2>1, <2>3, AnswerKeeps
  <2>4. ASSUME NEW c \in Category, Error(i, c) PROVE CallInv'
    BY <2>1, <2>4, ErrorKeeps
  <2> QED
    BY <1>5, <2>2, <2>3, <2>4 DEF GoroutineStep
<1>6. CASE UNCHANGED vars
  BY <1>6, StutterKeeps
<1> QED
  BY <1>1, <1>2, <1>3, <1>4, <1>5, <1>6 DEF Next, CallStep

-----------------------------------------------------------------------------
(* Theorems *)

\* The inductive invariant holds of every call of CompleteBatchDetailed.
THEOREM CallInvariant == Spec => []CallInv
<1>1. Init => CallInv
  BY CallInvInit
<1>2. CallInv /\ [Next]_vars => CallInv'
  BY CallInvStep
<1> QED
  BY <1>1, <1>2, PTL DEF Spec

\* The variables of a call keep their types: the offset stays within the requests, the
\* concurrency between one and its configured limit, and no wave is larger than it.
THEOREM TypeCorrect == Spec => []TypeOK
<1>1. CallInv => TypeOK
  BY DEF CallInv
<1> QED
  BY <1>1, CallInvariant, PTL

\* PackBatchItems keeps every item and their order, exceeds a limit only with a single
\* item, and closes a batch only when the next item does not fit.
THEOREM Packing == Spec => []PackedByTheLimits
<1>1. CallInv => PackedByTheLimits
  BY DEF CallInv
<1> QED
  BY <1>1, CallInvariant, PTL

\* Whatever is answered, retried and halved, each item of a request is answered, given up
\* or still to be asked for, exactly once.
THEOREM OnePlace == Spec => []EachItemInOnePlace
<1>1. CallInv => EachItemInOnePlace
  BY DEF CallInv, Goroutines, GoroutineOf, Stack, Apart, EachItemInOnePlace
<1> QED
  BY <1>1, CallInvariant, PTL

\* A call that returns without an error has an output or an error for every item, and
\* not both.
THEOREM AllDecided == Spec => []EveryItemDecided
<1>1. ASSUME CallInv, phase = "done"
      PROVE  outputs \cup errors = Item /\ outputs \cap errors = {}
  <2>1. /\ outputs \cup errors = UNION {packed[k] : k \in 1..offset}
        /\ outputs \cap errors = {} /\ offset = Len(packed)
    BY <1>1 DEF CallInv, Decided, Place
  <2>2. DOMAIN packed = 1..Len(packed) /\ UNION Range(packed) = Item
    BY <1>1 DEF CallInv, TypeOK, PackedByTheLimits
  <2> QED
    BY <2>1, <2>2 DEF Range
<1>2. CallInv => EveryItemDecided
  BY <1>1 DEF EveryItemDecided
<1> QED
  BY <1>2, CallInvariant, PTL

\* A provider that only fails is asked at most MaxAttempts times for each of the 2n - 1
\* batches that halving n items can make.
THEOREM Requests == Spec => []RequestsBounded
<1>1. ASSUME CallInv, NEW i \in DOMAIN wave
      PROVE  wave[i].requests <= MaxAttempts * (2 * Cardinality(packed[offset + i]) - 1)
  <2>1. PICK g \in Goroutine : g = wave[i]
    BY <1>1, WaveAndPacked
  <2>2. PICK b : b = packed[offset + i]
    OBVIOUS
  <2>3. GoroutineOf(g, b)
    BY <1>1, <2>1, <2>2, WaveAndPacked
  <2>4. PICK c \in Int : c = MaxAttempts * (2 * Cardinality(b) - 1)
    BY <2>3, GivenBatch
  <2>5. /\ Pending(g) \in Nat /\ Len(g.todo) \in Nat /\ Len(g.todo) <= Cardinality(Asked(g))
        /\ Cardinality(Asked(g)) \in Nat
    BY <2>3, AskedIsOnStack DEF GoroutineOf
  <2>6. PICK p \in Nat : p = MaxAttempts * Pending(g)
    BY <2>5, Numbers
  <2>7. g.requests + p <= c + g.attempt
    BY <2>3, <2>4, <2>6 DEF GoroutineOf
  <2>8. g.attempt \in Nat /\ g.attempt <= MaxAttempts /\ g.requests \in Nat
    BY <2>3, GivenBatch
  <2>9. g.attempt <= p
    <3>1. CASE g.todo = <<>>
      BY <2>3, <2>8, <3>1 DEF GoroutineOf
    <3>2. CASE g.todo # <<>>
      <4>1. Len(g.todo) # 0
        BY <2>3, <3>2 DEF GoroutineOf, Stack
      <4>2. 0 < Pending(g)
        BY <2>5, <4>1 DEF Pending
      <4>3. MaxAttempts * 0 + MaxAttempts <= p
        BY <2>5, <2>6, <4>2, OneLessPays, Numbers
      <4> QED
        BY <2>6, <2>8, <4>3, Numbers
    <3> QED
      BY <3>1, <3>2
  <2> QED
    BY <2>1, <2>2, <2>4, <2>6, <2>7, <2>8, <2>9
<1>2. CallInv => RequestsBounded
  BY <1>1 DEF RequestsBounded
<1> QED
  BY <1>2, CallInvariant, PTL

=============================================================================
