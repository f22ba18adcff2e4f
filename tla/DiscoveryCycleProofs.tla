------------------------ MODULE DiscoveryCycleProofs ------------------------
(***************************************************************************)
(* Theorems about DiscoveryCycle, for any number of processes, partitions, *)
(* pages and days, any retention, and any number of changes of the page    *)
(* counts and the plan, of faults and of lost lock sessions.               *)
(***************************************************************************)
EXTENDS DiscoveryCycle, FiniteSetTheorems, WellFoundedInduction, TLAPS

-----------------------------------------------------------------------------
(* Sums: SumFunctionOnSet is a recursive function over the subsets of its set, and *)
(* every fact follows from a smallest counterexample. *)

\* A non-empty set of natural numbers has a smallest element.
LEMMA SmallestNumber ==
    ASSUME NEW S \in SUBSET Nat, S # {}
    PROVE  \E x \in S : \A y \in S : x <= y
<1>1. PICK x \in S : \A y \in S : <<y, x>> \notin OpToRel(<, Nat)
  BY WFMin, NatLessThanWellFounded
<1>2. \A y \in S : ~(y < x)
  BY <1>1 DEF OpToRel
<1> QED
  BY <1>2

\* Of a non-empty set of subsets of a finite set, one has the fewest elements.
LEMMA SmallestSubset ==
    ASSUME NEW S, IsFiniteSet(S), NEW Bad \in SUBSET SUBSET S, Bad # {}
    PROVE  \E s \in Bad : \A r \in Bad : Cardinality(s) <= Cardinality(r)
<1> DEFINE N == {Cardinality(s) : s \in Bad}
<1>1. \A s \in Bad : IsFiniteSet(s) /\ Cardinality(s) \in Nat
  BY FS_Subset, FS_CardinalityType
<1>2. N \in SUBSET Nat /\ N # {}
  BY <1>1
<1>3. PICK n \in N : \A m \in N : n <= m
  <2> HIDE DEF N
  <2> QED
    BY <1>2, SmallestNumber
<1>4. PICK s \in Bad : n = Cardinality(s)
  OBVIOUS
<1> QED
  BY <1>3, <1>4

\* Removing an element makes a finite set smaller.
LEMMA SmallerSet ==
    ASSUME NEW S, IsFiniteSet(S), NEW s \in SUBSET S, NEW x \in s
    PROVE  /\ IsFiniteSet(s) /\ IsFiniteSet(s \ {x}) /\ s \ {x} \in SUBSET S
           /\ Cardinality(s) \in Nat /\ Cardinality(s \ {x}) \in Nat
           /\ Cardinality(s \ {x}) = Cardinality(s) - 1
<1>1. IsFiniteSet(s)
  BY FS_Subset
<1> QED
  BY <1>1, FS_RemoveElement, FS_CardinalityType

-----------------------------------------------------------------------------
(* The recursive function *)

Chosen(s) == CHOOSE x \in s : TRUE

\* g sums f over the sets of D, a family closed under removing the chosen element.
Sums(g, f, D) ==
    g = [s \in D |-> IF s = {} THEN 0 ELSE f[Chosen(s)] + g[s \ {Chosen(s)}]]

LEMMA ChosenIsElement == \A s : s # {} => Chosen(s) \in s
  BY DEF Chosen

LEMMA SumsExist ==
    ASSUME NEW S, IsFiniteSet(S), NEW f
    PROVE  \E g : Sums(g, f, SUBSET S)
<1> DEFINE D(n) == {s \in SUBSET S : Cardinality(s) <= n}
           Bad == {n \in Nat : ~ \E g : Sums(g, f, D(n))}
<1>1. \A s \in SUBSET S : IsFiniteSet(s) /\ Cardinality(s) \in Nat
  BY FS_Subset, FS_CardinalityType
<1>2. 0 \notin Bad
  <2>1. \A s \in D(0) : s = {}
    BY <1>1, FS_EmptySet
  <2>2. Sums([s \in D(0) |-> 0], f, D(0))
    <3> DEFINE g == [s \in D(0) |-> 0]
               h == [s \in D(0) |-> IF s = {} THEN 0 ELSE f[Chosen(s)] + g[s \ {Chosen(s)}]]
    <3>1. \A s \in D(0) : h[s] = 0
      BY <2>1
    <3> QED
      BY <3>1 DEF Sums
  <2> QED
    BY <2>2
<1>3. ASSUME NEW n \in Nat, n \notin Bad PROVE n + 1 \notin Bad
  <2>1. PICK g : Sums(g, f, D(n))
    BY <1>3
  <2> DEFINE h == [s \in D(n + 1) |-> IF s = {} THEN 0 ELSE f[Chosen(s)] + g[s \ {Chosen(s)}]]
             k == [s \in D(n + 1) |-> IF s = {} THEN 0 ELSE f[Chosen(s)] + h[s \ {Chosen(s)}]]
  <2>2. \A s \in D(n) : s \in D(n + 1) /\ h[s] = g[s]
    <3> SUFFICES ASSUME NEW s \in D(n) PROVE s \in D(n + 1) /\ h[s] = g[s]
      OBVIOUS
    <3>1. s \in D(n + 1)
      BY <1>1
    <3>2. h[s] = IF s = {} THEN 0 ELSE f[Chosen(s)] + g[s \ {Chosen(s)}]
      BY <3>1
    <3>3. g[s] = IF s = {} THEN 0 ELSE f[Chosen(s)] + g[s \ {Chosen(s)}]
      <4> HIDE DEF D
      <4>1. g = [r \in D(n) |-> IF r = {} THEN 0 ELSE f[Chosen(r)] + g[r \ {Chosen(r)}]]
        BY <2>1 DEF Sums
      <4> QED
        BY <4>1
    <3> HIDE DEF D, h
    <3> QED
      BY <3>1, <3>2, <3>3
  <2>3. \A s \in D(n + 1) : s # {} => s \ {Chosen(s)} \in D(n)
    <3> SUFFICES ASSUME NEW s \in D(n + 1), s # {} PROVE s \ {Chosen(s)} \in D(n)
      OBVIOUS
    <3>1. Chosen(s) \in s /\ s \in SUBSET S /\ Cardinality(s) <= n + 1
      BY ChosenIsElement
    <3>2. /\ s \ {Chosen(s)} \in SUBSET S
          /\ Cardinality(s) \in Nat /\ Cardinality(s \ {Chosen(s)}) \in Nat
          /\ Cardinality(s \ {Chosen(s)}) = Cardinality(s) - 1
      BY <3>1, SmallerSet
    <3>3. Cardinality(s \ {Chosen(s)}) <= n
      BY <3>1, <3>2
    <3> QED
      BY <3>2, <3>3
  <2>4. \A s \in D(n + 1) : h[s] = k[s]
    <3> SUFFICES ASSUME NEW s \in D(n + 1) PROVE h[s] = k[s]
      OBVIOUS
    <3>1. h[s] = IF s = {} THEN 0 ELSE f[Chosen(s)] + g[s \ {Chosen(s)}]
      OBVIOUS
    <3>2. k[s] = IF s = {} THEN 0 ELSE f[Chosen(s)] + h[s \ {Chosen(s)}]
      OBVIOUS
    <3> HIDE DEF D, h, k
    <3> QED
      BY <2>2, <2>3, <3>1, <3>2
  <2>5. h = k
    <3>1. h = [s \in D(n + 1) |-> h[s]] /\ k = [s \in D(n + 1) |-> k[s]]
      OBVIOUS
    <3> HIDE DEF D, h, k
    <3> QED
      BY <2>4, <3>1
  <2>6. Sums(h, f, D(n + 1))
    <3> HIDE DEF h
    <3> QED
      BY <2>5 DEF Sums
  <2> QED
    BY <2>6
<1>4. Bad = {}
  <2> SUFFICES ASSUME Bad # {} PROVE FALSE
    OBVIOUS
  <2>1. Bad \in SUBSET Nat
    OBVIOUS
  <2> HIDE DEF Bad
  <2>2. PICK n \in Bad : \A m \in Bad : n <= m
    BY <2>1, SmallestNumber
  <2>3. n - 1 \in Nat /\ n - 1 \notin Bad /\ (n - 1) + 1 = n
    BY <1>2, <2>1, <2>2
  <2> QED
    BY <1>3, <2>2, <2>3
<1>5. D(Cardinality(S)) = SUBSET S
  BY <1>1, FS_Subset
<1>6. Cardinality(S) \in Nat
  BY FS_CardinalityType
<1>7. \E g : Sums(g, f, D(Cardinality(S)))
  BY <1>4, <1>6
<1> QED
  BY <1>5, <1>7

LEMMA SumsUnique ==
    ASSUME NEW S, IsFiniteSet(S), NEW f, NEW g, NEW h,
           Sums(g, f, SUBSET S), Sums(h, f, SUBSET S)
    PROVE  g = h
<1> DEFINE Bad == {s \in SUBSET S : g[s] # h[s]}
<1>1. Bad = {}
  <2> SUFFICES ASSUME Bad # {} PROVE FALSE
    OBVIOUS
  <2>1. Bad \in SUBSET SUBSET S
    OBVIOUS
  <2>2. PICK s \in Bad : \A r \in Bad : Cardinality(s) <= Cardinality(r)
    <3> HIDE DEF Bad
    <3> QED
      BY <2>1, SmallestSubset
  <2>3. s \in SUBSET S /\ g[s] # h[s]
    OBVIOUS
  <2>4. /\ g[s] = IF s = {} THEN 0 ELSE f[Chosen(s)] + g[s \ {Chosen(s)}]
        /\ h[s] = IF s = {} THEN 0 ELSE f[Chosen(s)] + h[s \ {Chosen(s)}]
    BY <2>3 DEF Sums
  <2>5. s # {}
    BY <2>3, <2>4
  <2>6. Chosen(s) \in s
    BY <2>5, ChosenIsElement
  <2>7. s \ {Chosen(s)} \in SUBSET S /\ g[s \ {Chosen(s)}] # h[s \ {Chosen(s)}]
    BY <2>3, <2>4
  <2>8. Cardinality(s) <= Cardinality(s \ {Chosen(s)})
    BY <2>2, <2>7
  <2>9. /\ Cardinality(s) \in Nat /\ Cardinality(s \ {Chosen(s)}) \in Nat
        /\ Cardinality(s \ {Chosen(s)}) = Cardinality(s) - 1
    BY <2>3, <2>6, SmallerSet, ZenonT(30)
  <2> QED
    BY <2>8, <2>9
<1>2. g = [s \in SUBSET S |-> g[s]] /\ h = [s \in SUBSET S |-> h[s]]
  BY DEF Sums
<1> QED
  BY <1>1, <1>2

LEMMA SumsRestrict ==
    ASSUME NEW S, NEW f, NEW g, Sums(g, f, SUBSET S), NEW R \in SUBSET S,
           NEW h, h = [s \in SUBSET R |-> g[s]]
    PROVE  Sums(h, f, SUBSET R)
<1> DEFINE k == [s \in SUBSET R |-> IF s = {} THEN 0 ELSE f[Chosen(s)] + h[s \ {Chosen(s)}]]
<1>1. \A s \in SUBSET R : h[s] = k[s]
  <2> SUFFICES ASSUME NEW s \in SUBSET R PROVE h[s] = k[s]
    OBVIOUS
  <2>1. h[s] = g[s] /\ h[s \ {Chosen(s)}] = g[s \ {Chosen(s)}] /\ s \in SUBSET S
    OBVIOUS
  <2>2. g[s] = IF s = {} THEN 0 ELSE f[Chosen(s)] + g[s \ {Chosen(s)}]
    BY <2>1 DEF Sums
  <2>3. k[s] = IF s = {} THEN 0 ELSE f[Chosen(s)] + h[s \ {Chosen(s)}]
    OBVIOUS
  <2> HIDE DEF k
  <2> QED
    BY <2>1, <2>2, <2>3
<1>2. h = k
  <2>1. h = [s \in SUBSET R |-> h[s]] /\ k = [s \in SUBSET R |-> k[s]]
    OBVIOUS
  <2> HIDE DEF k
  <2> QED
    BY <1>1, <2>1
<1> QED
  BY <1>2 DEF Sums

-----------------------------------------------------------------------------
(* The sum over a finite set *)

LEMMA SumIsValue ==
    ASSUME NEW S, IsFiniteSet(S), NEW f, NEW g, Sums(g, f, SUBSET S)
    PROVE  SumFunctionOnSet(f, S) = g[S]
<1> DEFINE h == CHOOSE h : h = [s \in SUBSET S |->
                   IF s = {} THEN 0
                   ELSE f[CHOOSE x \in s : TRUE] + h[s \ {CHOOSE x \in s : TRUE}]]
<1>1. SumFunctionOnSet(f, S) = h[S]
  BY Zenon DEF SumFunctionOnSet, FoldFunctionOnSet, MapThenFoldSet
<1>2. Sums(h, f, SUBSET S)
  BY Zenon DEF Sums, Chosen
<1> HIDE DEF h
<1>3. h = g
  BY <1>2, SumsUnique
<1> QED
  BY <1>1, <1>3

LEMMA SumEmpty == \A f : SumFunctionOnSet(f, {}) = 0
<1> SUFFICES ASSUME NEW f PROVE SumFunctionOnSet(f, {}) = 0
  OBVIOUS
<1>1. IsFiniteSet({})
  BY FS_EmptySet
<1>2. PICK g : Sums(g, f, SUBSET {})
  BY <1>1, SumsExist
<1>3. g[{}] = 0
  <2>1. {} \in SUBSET {}
    OBVIOUS
  <2> QED
    BY <1>2, <2>1 DEF Sums
<1> QED
  BY <1>1, <1>2, <1>3, SumIsValue

LEMMA SumChosen ==
    ASSUME NEW S, IsFiniteSet(S), S # {}, NEW f
    PROVE  SumFunctionOnSet(f, S) = f[Chosen(S)] + SumFunctionOnSet(f, S \ {Chosen(S)})
<1> DEFINE R == S \ {Chosen(S)}
<1>1. PICK g : Sums(g, f, SUBSET S)
  BY SumsExist
<1>2. IsFiniteSet(R) /\ R \in SUBSET S /\ R \in SUBSET R
  BY FS_RemoveElement
<1> DEFINE h == [s \in SUBSET R |-> g[s]]
<1>3. Sums(h, f, SUBSET R) /\ h[R] = g[R]
  <2>1. h = [s \in SUBSET R |-> g[s]] /\ h[R] = g[R]
    OBVIOUS
  <2> HIDE DEF R, h
  <2> QED
    BY <1>1, <1>2, <2>1, SumsRestrict
<1>4. SumFunctionOnSet(f, R) = g[R]
  <2> HIDE DEF R, h
  <2> QED
    BY <1>2, <1>3, SumIsValue
<1>5. g[S] = f[Chosen(S)] + g[R]
  <2>1. S \in SUBSET S
    OBVIOUS
  <2> QED
    BY <1>1, <2>1 DEF Sums
<1>6. SumFunctionOnSet(f, S) = g[S]
  BY <1>1, SumIsValue
<1> QED
  BY <1>4, <1>5, <1>6

\* A sum of integers is an integer.
LEMMA SumType ==
    ASSUME NEW S, IsFiniteSet(S), NEW f, \A x \in S : f[x] \in Int
    PROVE  SumFunctionOnSet(f, S) \in Int
<1> DEFINE Bad == {s \in SUBSET S : SumFunctionOnSet(f, s) \notin Int}
<1>1. Bad = {}
  <2> SUFFICES ASSUME Bad # {} PROVE FALSE
    OBVIOUS
  <2>1. Bad \in SUBSET SUBSET S
    OBVIOUS
  <2>2. PICK s \in Bad : \A r \in Bad : Cardinality(s) <= Cardinality(r)
    <3> HIDE DEF Bad
    <3> QED
      BY <2>1, SmallestSubset
  <2>3. s \in SUBSET S /\ SumFunctionOnSet(f, s) \notin Int
    OBVIOUS
  <2>4. s # {}
    BY <2>3, SumEmpty
  <2>5. Chosen(s) \in s
    BY <2>4, ChosenIsElement
  <2>6. /\ IsFiniteSet(s) /\ s \ {Chosen(s)} \in SUBSET S
        /\ Cardinality(s) \in Nat /\ Cardinality(s \ {Chosen(s)}) \in Nat
        /\ Cardinality(s \ {Chosen(s)}) = Cardinality(s) - 1
    BY <2>3, <2>5, SmallerSet
  <2>7. s \ {Chosen(s)} \notin Bad
    <3> HIDE DEF Bad
    <3> QED
      BY <2>2, <2>6
  <2>8. SumFunctionOnSet(f, s \ {Chosen(s)}) \in Int
    BY <2>6, <2>7
  <2>9. SumFunctionOnSet(f, s) = f[Chosen(s)] + SumFunctionOnSet(f, s \ {Chosen(s)})
    BY <2>4, <2>6, SumChosen
  <2>10. f[Chosen(s)] \in Int
    BY <2>3, <2>5
  <2> QED
    BY <2>3, <2>8, <2>9, <2>10
<1> QED
  BY <1>1

\* A sum of natural numbers is a natural number.
LEMMA SumNat ==
    ASSUME NEW S, IsFiniteSet(S), NEW f, \A x \in S : f[x] \in Nat
    PROVE  SumFunctionOnSet(f, S) \in Nat
<1> DEFINE Bad == {s \in SUBSET S : SumFunctionOnSet(f, s) \notin Nat}
<1>1. Bad = {}
  <2> SUFFICES ASSUME Bad # {} PROVE FALSE
    OBVIOUS
  <2>1. Bad \in SUBSET SUBSET S
    OBVIOUS
  <2>2. PICK s \in Bad : \A r \in Bad : Cardinality(s) <= Cardinality(r)
    <3> HIDE DEF Bad
    <3> QED
      BY <2>1, SmallestSubset
  <2>3. s \in SUBSET S /\ SumFunctionOnSet(f, s) \notin Nat
    OBVIOUS
  <2>4. s # {}
    BY <2>3, SumEmpty
  <2>5. Chosen(s) \in s
    BY <2>4, ChosenIsElement
  <2>6. /\ IsFiniteSet(s) /\ s \ {Chosen(s)} \in SUBSET S
        /\ Cardinality(s) \in Nat /\ Cardinality(s \ {Chosen(s)}) \in Nat
        /\ Cardinality(s \ {Chosen(s)}) = Cardinality(s) - 1
    BY <2>3, <2>5, SmallerSet
  <2>7. s \ {Chosen(s)} \notin Bad
    <3> HIDE DEF Bad
    <3> QED
      BY <2>2, <2>6
  <2>8. SumFunctionOnSet(f, s \ {Chosen(s)}) \in Nat
    BY <2>6, <2>7
  <2>9. SumFunctionOnSet(f, s) = f[Chosen(s)] + SumFunctionOnSet(f, s \ {Chosen(s)})
    BY <2>4, <2>6, SumChosen
  <2>10. f[Chosen(s)] \in Nat
    BY <2>3, <2>5
  <2> QED
    BY <2>3, <2>8, <2>9, <2>10
<1> QED
  BY <1>1

\* Any element can be taken out of a sum first.
LEMMA SumRemove ==
    ASSUME NEW S, IsFiniteSet(S), NEW f, \A x \in S : f[x] \in Int, NEW x \in S
    PROVE  SumFunctionOnSet(f, S) = f[x] + SumFunctionOnSet(f, S \ {x})
<1> DEFINE Splits(s) == \A y \in s : SumFunctionOnSet(f, s) = f[y] + SumFunctionOnSet(f, s \ {y})
           Bad == {s \in SUBSET S : ~Splits(s)}
<1>1. Bad = {}
  <2> SUFFICES ASSUME Bad # {} PROVE FALSE
    OBVIOUS
  <2>1. Bad \in SUBSET SUBSET S
    OBVIOUS
  <2>2. PICK s \in Bad : \A r \in Bad : Cardinality(s) <= Cardinality(r)
    <3> HIDE DEF Bad
    <3> QED
      BY <2>1, SmallestSubset
  <2>3. PICK y \in s : SumFunctionOnSet(f, s) # f[y] + SumFunctionOnSet(f, s \ {y})
    OBVIOUS
  <2> DEFINE c == Chosen(s)
  <2>4. s \in SUBSET S /\ s # {} /\ c \in s
    BY ChosenIsElement
  <2>5. /\ IsFiniteSet(s) /\ IsFiniteSet(s \ {c}) /\ IsFiniteSet(s \ {y})
        /\ s \ {c} \in SUBSET S /\ s \ {y} \in SUBSET S
        /\ Cardinality(s) \in Nat
        /\ Cardinality(s \ {c}) = Cardinality(s) - 1
        /\ Cardinality(s \ {y}) = Cardinality(s) - 1
    <3> HIDE DEF c
    <3> QED
      BY <2>4, SmallerSet
  <2>6. s \ {c} \notin Bad /\ s \ {y} \notin Bad
    <3> HIDE DEF Bad, c
    <3> QED
      BY <2>2, <2>5
  <2>7. SumFunctionOnSet(f, s) = f[c] + SumFunctionOnSet(f, s \ {c})
    BY <2>4, <2>5, SumChosen
  <2> HIDE DEF c
  <2>8. y # c
    BY <2>3, <2>7
  <2>9. SumFunctionOnSet(f, s \ {c}) = f[y] + SumFunctionOnSet(f, (s \ {c}) \ {y})
    BY <2>5, <2>6, <2>8
  <2>10. SumFunctionOnSet(f, s \ {y}) = f[c] + SumFunctionOnSet(f, (s \ {y}) \ {c})
    BY <2>4, <2>5, <2>6, <2>8
  <2>11. (s \ {c}) \ {y} = (s \ {y}) \ {c}
    OBVIOUS
  <2>12. SumFunctionOnSet(f, (s \ {y}) \ {c}) \in Int
    <3>1. IsFiniteSet((s \ {y}) \ {c})
      BY <2>5, FS_RemoveElement
    <3>2. \A z \in (s \ {y}) \ {c} : f[z] \in Int
      BY <2>4
    <3> QED
      BY <3>1, <3>2, SumType
  <2>13. f[c] \in Int /\ f[y] \in Int
    BY <2>4
  <2>14. SumFunctionOnSet(f, s \ {c}) = f[y] + SumFunctionOnSet(f, (s \ {y}) \ {c})
    BY <2>9, <2>11
  <2>15. ASSUME NEW a \in Int, NEW b \in Int, NEW e \in Int PROVE a + (b + e) = b + (a + e)
    OBVIOUS
  <2>16. f[c] + (f[y] + SumFunctionOnSet(f, (s \ {y}) \ {c}))
           = f[y] + (f[c] + SumFunctionOnSet(f, (s \ {y}) \ {c}))
    BY <2>12, <2>13, <2>15
  <2> QED
    BY <2>3, <2>7, <2>10, <2>14, <2>16
<1>2. Splits(S)
  BY <1>1
<1> QED
  BY <1>2

\* Functions that agree on the set have the same sum.
LEMMA SumSame ==
    ASSUME NEW S, IsFiniteSet(S), NEW f, NEW g, \A x \in S : f[x] = g[x]
    PROVE  SumFunctionOnSet(f, S) = SumFunctionOnSet(g, S)
<1> DEFINE Bad == {s \in SUBSET S : SumFunctionOnSet(f, s) # SumFunctionOnSet(g, s)}
<1>1. Bad = {}
  <2> SUFFICES ASSUME Bad # {} PROVE FALSE
    OBVIOUS
  <2>1. Bad \in SUBSET SUBSET S
    OBVIOUS
  <2>2. PICK s \in Bad : \A r \in Bad : Cardinality(s) <= Cardinality(r)
    <3> HIDE DEF Bad
    <3> QED
      BY <2>1, SmallestSubset
  <2>3. s \in SUBSET S /\ SumFunctionOnSet(f, s) # SumFunctionOnSet(g, s)
    OBVIOUS
  <2>4. s # {}
    BY <2>3, SumEmpty
  <2>5. Chosen(s) \in s
    BY <2>4, ChosenIsElement
  <2>6. /\ IsFiniteSet(s) /\ s \ {Chosen(s)} \in SUBSET S
        /\ Cardinality(s) \in Nat /\ Cardinality(s \ {Chosen(s)}) \in Nat
        /\ Cardinality(s \ {Chosen(s)}) = Cardinality(s) - 1
    BY <2>3, <2>5, SmallerSet, ZenonT(30)
  <2>7. s \ {Chosen(s)} \notin Bad
    <3> HIDE DEF Bad
    <3> QED
      BY <2>2, <2>6
  <2>8. SumFunctionOnSet(f, s \ {Chosen(s)}) = SumFunctionOnSet(g, s \ {Chosen(s)})
    BY <2>6, <2>7
  <2>9. /\ SumFunctionOnSet(f, s) = f[Chosen(s)] + SumFunctionOnSet(f, s \ {Chosen(s)})
        /\ SumFunctionOnSet(g, s) = g[Chosen(s)] + SumFunctionOnSet(g, s \ {Chosen(s)})
    BY <2>4, <2>6, SumChosen
  <2>10. f[Chosen(s)] = g[Chosen(s)]
    BY <2>3, <2>5
  <2> QED
    BY <2>3, <2>8, <2>9, <2>10
<1> QED
  BY <1>1

\* A change of one value changes the sum by the difference.
LEMMA SumUpdate ==
    ASSUME NEW S, IsFiniteSet(S), NEW f, NEW g,
           \A x \in S : f[x] \in Int /\ g[x] \in Int,
           NEW y \in S, \A x \in S \ {y} : f[x] = g[x]
    PROVE  SumFunctionOnSet(g, S) = SumFunctionOnSet(f, S) + (g[y] - f[y])
<1>1. IsFiniteSet(S \ {y})
  BY FS_RemoveElement
<1>2. SumFunctionOnSet(f, S \ {y}) = SumFunctionOnSet(g, S \ {y})
  BY <1>1, SumSame
<1>3. SumFunctionOnSet(f, S) = f[y] + SumFunctionOnSet(f, S \ {y})
  BY SumRemove
<1>4. SumFunctionOnSet(g, S) = g[y] + SumFunctionOnSet(g, S \ {y})
  BY SumRemove
<1>5. SumFunctionOnSet(f, S \ {y}) \in Int
  BY <1>1, SumType
<1>6. f[y] \in Int /\ g[y] \in Int
  OBVIOUS
<1> QED
  BY <1>2, <1>3, <1>4, <1>5, <1>6

\* A sum of zeros is zero.
LEMMA SumZero ==
    ASSUME NEW S, IsFiniteSet(S), NEW f, \A x \in S : f[x] = 0
    PROVE  SumFunctionOnSet(f, S) = 0
<1> DEFINE Bad == {s \in SUBSET S : SumFunctionOnSet(f, s) # 0}
<1>1. Bad = {}
  <2> SUFFICES ASSUME Bad # {} PROVE FALSE
    OBVIOUS
  <2>1. Bad \in SUBSET SUBSET S
    OBVIOUS
  <2>2. PICK s \in Bad : \A r \in Bad : Cardinality(s) <= Cardinality(r)
    <3> HIDE DEF Bad
    <3> QED
      BY <2>1, SmallestSubset
  <2>3. s \in SUBSET S /\ SumFunctionOnSet(f, s) # 0
    OBVIOUS
  <2>4. s # {}
    BY <2>3, SumEmpty
  <2>5. Chosen(s) \in s
    BY <2>4, ChosenIsElement
  <2>6. /\ IsFiniteSet(s) /\ s \ {Chosen(s)} \in SUBSET S
        /\ Cardinality(s) \in Nat /\ Cardinality(s \ {Chosen(s)}) \in Nat
        /\ Cardinality(s \ {Chosen(s)}) = Cardinality(s) - 1
    BY <2>3, <2>5, SmallerSet, ZenonT(30)
  <2>7. s \ {Chosen(s)} \notin Bad
    <3> HIDE DEF Bad
    <3> QED
      BY <2>2, <2>6
  <2>8. SumFunctionOnSet(f, s \ {Chosen(s)}) = 0
    BY <2>6, <2>7
  <2>9. SumFunctionOnSet(f, s) = f[Chosen(s)] + SumFunctionOnSet(f, s \ {Chosen(s)})
    BY <2>4, <2>6, SumChosen
  <2>10. f[Chosen(s)] = 0
    BY <2>3, <2>5
  <2> QED
    BY <2>3, <2>8, <2>9, <2>10
<1> QED
  BY <1>1

-----------------------------------------------------------------------------
(* The inductive invariant *)

Working     == PC \ {"idle", "locked"}
Begun       == Working \ {"planning", "starting"}
InPartition == {"searching", "resizing", "saving"}

Started(d) == cycle[d].status # "none"

\* Every committed page of the day is still observed.
Intact(d) == \A k \in Keys(d) : \A i \in 0..(part[d][k].next - 1) : <<k, i>> \in observed[d]

\* What one day's rows say of each other, whoever wrote them
RowsOfDay(d) ==
    /\ ~Started(d) => Keys(d) = {}
    /\ Started(d) => d <= today
    /\ d \in snapshots => cycle[d].status = "complete"
    /\ \A k \in Key : /\ part[d][k].next <= part[d][k].expected
                      /\ part[d][k].status = "complete" => part[d][k].next = part[d][k].expected
    /\ Intact(d) \/ (d \in snapshots /\ d < today - Retention)

Rows == /\ \A d \in Day : RowsOfDay(d)
        /\ applied # 0 => Started(applied)

\* What a process remembers of the rows, with or without the lock
Remembers(p) ==
    /\ proc[p].pc \in Working => proc[p].day \in Day /\ proc[p].day <= today
    /\ proc[p].pc \in Begun => Started(proc[p].day)
    /\ proc[p].pc \in InPartition =>
          /\ proc[p].key \in Keys(proc[p].day)
          /\ proc[p].next <= part[proc[p].day][proc[p].key].next

Memory == \A p \in Process : Remembers(p)

\* What the lock gives its holder
HoldsDay(p) ==
    /\ proc[p].pc # "idle" => lock = p
    /\ proc[p].pc \in Working => Intact(proc[p].day)
    /\ proc[p].pc \in InPartition => proc[p].key \in Incomplete(proc[p].day)
    /\ proc[p].pc = "reconciling" => Incomplete(proc[p].day) = {}

\* The day a process works on is the last one started.
LatestDay(p) ==
    /\ proc[p].pc \in Working => \A e \in Day : Started(e) => e <= proc[p].day
    /\ proc[p].pc \in {"planning", "starting"} /\ ~Started(proc[p].day) =>
          \A e \in Day : cycle[e].status # "running"

OnlyLatestRuns == \A d, e \in Day : cycle[d].status = "running" /\ Started(e) => e <= d

Locked == lockLosses = 0 => /\ \A p \in Process : HoldsDay(p)
                            /\ \A p \in Process : LatestDay(p)
                            /\ OnlyLatestRuns

\* As long as PlanIT finds the same partitions
PlanKept ==
    replans = 0 => /\ \A d \in Day : Started(d) => Keys(d) = catalog
                   /\ \A p \in Process : proc[p].pc = "starting" => proc[p].plan = catalog

CompleteStays ==
    replans = 0 /\ lockLosses = 0 =>
        \A d \in Day : cycle[d].status = "complete" => Incomplete(d) = {}

\* As long as HH reports the same page counts: only a partition without results has no
\* pages, and a process that resizes one does so to the count all the others see.
PagesKept ==
    drifts = 0 =>
        /\ \A d \in Day : \A k \in Keys(d) : part[d][k].expected = 0 => hhPages[k] = 0
        /\ \A p \in Process :
              /\ proc[p].pc = "starting" =>
                    \A k \in proc[p].plan : proc[p].found[k] = 0 => hhPages[k] = 0
              /\ proc[p].pc = "resizing" => proc[p].expected = hhPages[proc[p].key]

-----------------------------------------------------------------------------
(* Types *)

LEMMA Numbers ==
    /\ MaxKeys \in Nat /\ MaxPages \in Nat /\ MaxDays \in Nat /\ Retention \in Nat
    /\ 0 \in 0..MaxKeys /\ 0 \in 0..MaxPages /\ 0 \in 0..MaxDays /\ 1 \in Day
    /\ \A k \in Key : k \in 0..MaxKeys
    /\ \A d \in Day : d \in 0..MaxDays /\ d \in Nat /\ d # 0
    /\ IsFiniteSet(Key)
<1>1. MaxKeys \in Nat /\ MaxPages \in Nat /\ MaxDays \in Nat \ {0} /\ Retention \in Nat
  BY DiscoveryBounds
<1>2. IsFiniteSet(1..MaxKeys)
  BY <1>1, FS_Interval
<1> QED
  BY <1>1, <1>2 DEF Key, Day

LEMMA IdleType == Idle \in Run /\ Idle.pc = "idle"
  BY Numbers DEF Idle, Run, PC

LEMMA RunFields ==
    ASSUME TypeOK, NEW p \in Process
    PROVE  /\ proc[p] \in Run /\ proc[p].pc \in PC /\ proc[p].day \in 0..MaxDays
           /\ proc[p].plan \in SUBSET Key /\ proc[p].found \in [Key -> 0..MaxPages]
           /\ proc[p].key \in 0..MaxKeys /\ proc[p].next \in 0..MaxPages
           /\ proc[p].expected \in 0..MaxPages
  BY DEF TypeOK, Run

LEMMA PartFields ==
    ASSUME TypeOK, NEW d \in Day, NEW k \in Key
    PROVE  /\ part[d][k] \in Partition
           /\ part[d][k].status \in {"absent", "pending", "running", "complete"}
           /\ part[d][k].expected \in 0..MaxPages /\ part[d][k].next \in 0..MaxPages
           /\ part[d][k].expected \in Nat /\ part[d][k].next \in Nat
           /\ part[d][k].expected <= MaxPages /\ part[d][k].next <= MaxPages
<1>1. part[d][k] \in Partition
  BY DEF TypeOK
<1>2. /\ part[d][k].status \in {"absent", "pending", "running", "complete"}
      /\ part[d][k].expected \in 0..MaxPages /\ part[d][k].next \in 0..MaxPages
  BY <1>1 DEF Partition
<1> QED
  BY <1>1, <1>2, Numbers

LEMMA CycleFields ==
    ASSUME TypeOK, NEW d \in Day
    PROVE  /\ cycle[d] \in Cycle /\ cycle[d].status \in {"none", "running", "complete"}
           /\ cycle[d].partitions \in Nat /\ cycle[d].completedPartitions \in Int
           /\ cycle[d].expectedPages \in Int /\ cycle[d].completedPages \in Nat
  BY DEF TypeOK, Cycle

-----------------------------------------------------------------------------
(* The effect of each piece of an action *)

Others(p) == \A q \in Process \ {p} : proc'[q] = proc[q]

Keeps(p) ==
    /\ proc'[p].day = proc[p].day /\ proc'[p].plan = proc[p].plan
    /\ proc'[p].found = proc[p].found /\ proc'[p].key = proc[p].key
    /\ proc'[p].next = proc[p].next /\ proc'[p].expected = proc[p].expected

LEMMA BecomeEffect ==
    ASSUME TypeOK, NEW p \in Process, NEW c \in PC, Become(p, c)
    PROVE  /\ proc' \in [Process -> Run] /\ proc'[p].pc = c
           /\ Keeps(p) /\ Others(p)
  BY DEF TypeOK, Become, Run, Keeps, Others

LEMMA LeaveEffect ==
    ASSUME TypeOK, NEW p \in Process, Leave(p)
    PROVE  /\ proc' \in [Process -> Run] /\ proc'[p].pc = "idle" /\ Others(p)
           /\ lock' \in Process \cup {NoProcess, Assistant}
           /\ lock' = IF lock = p THEN NoProcess ELSE lock
<1>1. proc' \in [Process -> Run] /\ proc'[p] = Idle /\ Others(p)
  BY IdleType DEF TypeOK, Leave, Others
<1> QED
  BY <1>1, IdleType DEF TypeOK, Leave

\* The counters of a running cycle move by the given amounts.
LEMMA AdvanceEffect ==
    ASSUME NEW c \in Cycle, NEW a \in Int, NEW b \in Nat, NEW e \in Int
    PROVE  /\ Advance(c, a, b, e) \in Cycle
           /\ Advance(c, a, b, e).status = c.status
           /\ Advance(c, a, b, e).partitions = c.partitions
           /\ c.status = "running" =>
                 /\ Advance(c, a, b, e).expectedPages = c.expectedPages + a
                 /\ Advance(c, a, b, e).completedPages = c.completedPages + b
                 /\ Advance(c, a, b, e).completedPartitions = c.completedPartitions + e
<1>1. CASE c.status # "running"
  BY <1>1 DEF Advance
<1>2. CASE c.status = "running"
  <2>1. /\ c.status \in {"none", "running", "complete"} /\ c.partitions \in Nat
        /\ c.completedPartitions + e \in Int /\ c.expectedPages + a \in Int
        /\ c.completedPages + b \in Nat
    BY DEF Cycle
  <2> DEFINE r == Advance(c, a, b, e)
  <2>2. r = [c EXCEPT !.expectedPages = c.expectedPages + a,
                      !.completedPages = c.completedPages + b,
                      !.completedPartitions = c.completedPartitions + e]
    BY <1>2 DEF Advance
  <2>3. r = [status |-> c.status, partitions |-> c.partitions,
             completedPartitions |-> c.completedPartitions + e,
             expectedPages |-> c.expectedPages + a, completedPages |-> c.completedPages + b]
    BY <2>2 DEF Cycle
  <2> QED
    BY <2>1, <2>3 DEF Cycle
<1> QED
  BY <1>1, <1>2

LEMMA CycleUpdate ==
    ASSUME TypeOK, NEW d \in Day, NEW c \in Cycle, cycle' = [cycle EXCEPT ![d] = c]
    PROVE  /\ cycle' \in [Day -> Cycle] /\ cycle'[d] = c
           /\ \A e \in Day \ {d} : cycle'[e] = cycle[e]
  BY DEF TypeOK

-----------------------------------------------------------------------------
(* The effect of each action of run() *)

LEMMA LockEffect ==
    ASSUME TypeOK, NEW p \in Process, TryDiscoveryLock(p)
    PROVE  /\ proc' \in [Process -> Run] /\ Others(p)
           /\ proc[p].pc = "idle" /\ proc'[p].pc = "locked"
           /\ lock = NoProcess /\ lock' = p
<1>1. "locked" \in PC /\ Become(p, "locked")
  BY DEF PC, TryDiscoveryLock
<1> QED
  BY <1>1, BecomeEffect DEF TryDiscoveryLock

\* The day chosen is the oldest unfinished one or, without any, the one due.
LEMMA PendingEffect ==
    ASSUME TypeOK, Rows, NEW p \in Process, PendingDiscoveryCycle(p)
    PROVE  /\ proc' \in [Process -> Run] /\ Others(p)
           /\ proc[p].pc = "locked" /\ proc'[p].pc = "planning"
           /\ proc'[p].day \in Day /\ proc'[p].day <= today
           /\ \/ proc'[p].day = today /\ \A e \in Day : cycle[e].status # "running"
              \/ cycle[proc'[p].day].status = "running"
<1>1. PICK d \in IF Pending = {} THEN {today} ELSE Pending :
          proc' = [proc EXCEPT ![p] = [Idle EXCEPT !.pc = "planning", !.day = d]]
  BY DEF PendingDiscoveryCycle
<1>2. today \in Day /\ today \in Nat
  BY Numbers DEF TypeOK
<1>3. d \in Day /\ d <= today
  <2>1. CASE Pending = {}
    BY <1>2, <2>1
  <2>2. CASE Pending # {}
    <3>1. d \in Day /\ cycle[d].status = "running"
      BY <2>2 DEF Pending
    <3> QED
      BY <3>1 DEF Rows, RowsOfDay, Started
  <2> QED
    BY <2>1, <2>2
<1>4. Pending = {} => \A e \in Day : cycle[e].status # "running"
  <2> SUFFICES ASSUME NEW e \in Day, cycle[e].status = "running" PROVE Pending # {}
    OBVIOUS
  <2> DEFINE R == {x \in Day : cycle[x].status = "running"}
  <2>1. R \in SUBSET Nat /\ R # {}
    BY Numbers
  <2>2. PICK x \in R : \A y \in R : x <= y
    <3> HIDE DEF R
    <3> QED
      BY <2>1, SmallestNumber
  <2>3. x \in Pending
    BY <2>2 DEF Pending
  <2> QED
    BY <2>3
<1>5. Pending # {} => cycle[d].status = "running"
  BY DEF Pending
<1> DEFINE r == [Idle EXCEPT !.pc = "planning", !.day = d]
<1>6. r \in Run /\ r.pc = "planning" /\ r.day = d
  <2>1. d \in 0..MaxDays /\ "planning" \in PC
    BY <1>3, Numbers DEF PC
  <2> QED
    BY <2>1, IdleType DEF Run
<1>7. proc' \in [Process -> Run] /\ proc'[p] = r /\ Others(p)
  <2> HIDE DEF r
  <2>1. proc' = [proc EXCEPT ![p] = r]
    BY <1>1 DEF r
  <2> QED
    BY <1>6, <2>1 DEF TypeOK, Others
<1> HIDE DEF r
<1>8. proc[p].pc = "locked"
  BY DEF PendingDiscoveryCycle
<1> QED
  BY <1>1, <1>3, <1>4, <1>5, <1>6, <1>7, <1>8

LEMMA PlanEffect ==
    ASSUME TypeOK, NEW p \in Process, PlanIT(p)
    PROVE  /\ proc' \in [Process -> Run] /\ Others(p)
           /\ proc[p].pc = "planning" /\ proc'[p].pc = "starting"
           /\ proc'[p].day = proc[p].day
           /\ proc'[p].plan = catalog
           /\ \A k \in catalog : proc'[p].found[k] = 0 => hhPages[k] = 0
<1>1. "starting" \in PC /\ catalog \in SUBSET Key /\ hhPages \in [Key -> 0..MaxPages]
      /\ MaxPages \in Nat
  BY DiscoveryBounds DEF PC, TypeOK
<1>2. PICK pages \in [catalog -> 0..MaxPages] :
          /\ \A k \in catalog : hhPages[k] <= pages[k]
          /\ proc' = [proc EXCEPT ![p] =
                [@ EXCEPT !.pc = "starting", !.plan = catalog,
                          !.found = [k \in Key |-> IF k \in catalog THEN pages[k] ELSE 0]]]
  BY DEF PlanIT
<1>3. PICK found : found = [k \in Key |-> IF k \in catalog THEN pages[k] ELSE 0]
  OBVIOUS
<1>4. found \in [Key -> 0..MaxPages]
  BY <1>1, <1>3
<1>5. \A k \in catalog : found[k] = 0 => hhPages[k] = 0
  BY <1>1, <1>2, <1>3
<1>6. proc' = [proc EXCEPT ![p] = [@ EXCEPT !.pc = "starting", !.plan = catalog, !.found = found]]
  BY <1>2, <1>3
<1>7. proc[p].pc = "planning"
  BY DEF PlanIT
<1>8. /\ proc' \in [Process -> Run] /\ Others(p) /\ proc'[p].pc = "starting"
      /\ proc'[p].day = proc[p].day /\ proc'[p].plan = catalog /\ proc'[p].found = found
  BY <1>1, <1>4, <1>6 DEF TypeOK, Run, Others
<1> QED
  BY <1>5, <1>7, <1>8

\* What StartDiscoveryCycle makes of a partition of the plan
Planned(p, k) ==
    [status |-> IF proc[p].found[k] = 0 THEN "complete" ELSE "pending",
     expected |-> proc[p].found[k], next |-> 0]

LEMMA PlannedType ==
    ASSUME TypeOK, NEW p \in Process, NEW k \in Key
    PROVE  /\ Planned(p, k) \in Partition /\ Planned(p, k).next = 0
           /\ Planned(p, k).expected = proc[p].found[k]
           /\ Planned(p, k).status = IF proc[p].found[k] = 0 THEN "complete" ELSE "pending"
  BY RunFields, Numbers DEF Planned, Partition

\* The partitions of the plan that a day lacks are added, and its counters
\* initialised if it is new.
Starts(p, d) ==
    /\ part' \in [Day -> [Key -> Partition]]
    /\ \A e \in Day \ {d} : part'[e] = part[e]
    /\ \A k \in Key : part'[d][k] = IF k \in proc[p].plan /\ part[d][k].status = "absent"
                                    THEN Planned(p, k) ELSE part[d][k]
    /\ cycle' \in [Day -> Cycle]
    /\ \A e \in Day \ {d} : cycle'[e] = cycle[e]
    /\ Started(d) => cycle'[d] = cycle[d]

Initialises(p, d) ==
    /\ cycle'[d].status = "running"
    /\ cycle'[d].partitions = Cardinality(proc[p].plan)
    /\ cycle'[d].completedPartitions = Cardinality({k \in proc[p].plan : proc[p].found[k] = 0})
    /\ cycle'[d].expectedPages = SumFunctionOnSet(proc[p].found, proc[p].plan)
    /\ cycle'[d].completedPages = 0

LEMMA StartEffect ==
    ASSUME TypeOK, Memory, NEW p \in Process, StartDiscoveryCycle(p), NEW d, d = proc[p].day
    PROVE  /\ proc' \in [Process -> Run] /\ proc'[p].day = d /\ Others(p)
           /\ proc[p].pc = "starting" /\ proc'[p].pc = "picking"
           /\ d \in Day
           /\ Starts(p, d)
           /\ ~Started(d) => Initialises(p, d)
<1>1. proc[p].pc = "starting"
  BY DEF StartDiscoveryCycle
<1>2. d \in Day
  BY <1>1 DEF Memory, Remembers, Working, PC
<1>3. /\ "picking" \in PC /\ Idle \in Run /\ d \in 0..MaxDays
      /\ proc' = [proc EXCEPT ![p] = [Idle EXCEPT !.pc = "picking", !.day = d]]
  BY IdleType, RunFields DEF PC, StartDiscoveryCycle
<1> DEFINE plan == proc[p].plan
           found == proc[p].found
           row == [k \in Key |-> IF k \in plan /\ part[d][k].status = "absent"
                                 THEN Planned(p, k) ELSE part[d][k]]
           new == [status |-> "running", partitions |-> Cardinality(plan),
                   completedPartitions |-> Cardinality({k \in plan : found[k] = 0}),
                   expectedPages |-> SumFunctionOnSet(found, plan), completedPages |-> 0]
           c == IF Started(d) THEN cycle[d] ELSE new
<1>4. row \in [Key -> Partition]
  BY <1>2, PlannedType, PartFields
<1>5. part' = [part EXCEPT ![d] = row]
  BY DEF StartDiscoveryCycle, Planned
<1>6. new \in Cycle
  <2>1. IsFiniteSet(plan) /\ IsFiniteSet({k \in plan : found[k] = 0})
    BY RunFields, Numbers, FS_Subset
  <2>2. Cardinality(plan) \in Nat /\ Cardinality({k \in plan : found[k] = 0}) \in Int
    BY <2>1, FS_CardinalityType
  <2>3. \A k \in plan : found[k] \in Int
    BY RunFields, Numbers
  <2>4. SumFunctionOnSet(found, plan) \in Int
    BY <2>1, <2>3, SumType
  <2> QED
    BY <2>2, <2>4 DEF Cycle
<1>7. cycle' = [cycle EXCEPT ![d] = c]
  BY DEF StartDiscoveryCycle, Started
<1>8. c \in Cycle
  <2> HIDE DEF new
  <2> QED
    BY <1>2, <1>6, CycleFields
<1>9. cycle' \in [Day -> Cycle] /\ cycle'[d] = c /\ \A e \in Day \ {d} : cycle'[e] = cycle[e]
  <2> HIDE DEF c
  <2> QED
    BY <1>2, <1>7, <1>8, CycleUpdate
<1>10. /\ part' \in [Day -> [Key -> Partition]] /\ part'[d] = row
       /\ \A e \in Day \ {d} : part'[e] = part[e]
  <2> HIDE DEF row
  <2> QED
    BY <1>2, <1>4, <1>5 DEF TypeOK
<1>11. /\ proc' \in [Process -> Run] /\ proc'[p].day = d /\ Others(p) /\ proc'[p].pc = "picking"
  BY <1>3 DEF TypeOK, Run, Others
<1>12. \A k \in Key : part'[d][k] = IF k \in proc[p].plan /\ part[d][k].status = "absent"
                                    THEN Planned(p, k) ELSE part[d][k]
  BY <1>10
<1>13. Started(d) => cycle'[d] = cycle[d]
  BY <1>9
<1>14. ~Started(d) => cycle'[d] = new
  BY <1>9
<1>15. Starts(p, d)
  <2> HIDE DEF row, c, new
  <2> QED
    BY <1>9, <1>10, <1>12, <1>13 DEF Starts
<1>16. ~Started(d) => Initialises(p, d)
  BY <1>14 DEF Initialises
<1> QED
  BY <1>1, <1>2, <1>11, <1>15, <1>16

LEMMA StartStarts ==
    ASSUME TypeOK, Memory, NEW p \in Process, StartDiscoveryCycle(p), NEW d, d = proc[p].day
    PROVE  Started(d)' /\ (Started(d) => cycle'[d] = cycle[d])
<1>1. Starts(p, d) /\ (~Started(d) => Initialises(p, d))
  BY StartEffect
<1>2. Started(d) => cycle'[d] = cycle[d]
  BY <1>1 DEF Starts
<1>3. ~Started(d) => cycle'[d].status = "running"
  BY <1>1 DEF Initialises
<1> QED
  BY <1>2, <1>3 DEF Started

LEMMA PickEffect ==
    ASSUME TypeOK, Memory, NEW p \in Process, NextDiscoveryPartition(p), NEW d, d = proc[p].day
    PROVE  /\ proc' \in [Process -> Run] /\ Others(p)
           /\ proc[p].pc = "picking" /\ proc'[p].day = d /\ d \in Day
           /\ \/ proc'[p].pc = "completing"
              \/ /\ proc'[p].pc = "searching"
                 /\ proc'[p].key \in Incomplete(d)
                 /\ proc'[p].next = part[d][proc'[p].key].next
                 /\ proc'[p].expected = part[d][proc'[p].key].expected
<1>1. proc[p].pc = "picking"
  BY DEF NextDiscoveryPartition
<1>2. d \in Day
  BY <1>1 DEF Memory, Remembers, Working, PC
<1>3. "completing" \in PC /\ "searching" \in PC
  BY DEF PC
<1>4. CASE Become(p, "completing")
  BY <1>1, <1>2, <1>3, <1>4, BecomeEffect DEF Keeps
<1>5. ASSUME NEW k \in Incomplete(d),
             proc' = [proc EXCEPT ![p] =
                        [@ EXCEPT !.pc = "searching", !.key = k, !.next = part[d][k].next,
                                  !.expected = part[d][k].expected]]
      PROVE  /\ proc' \in [Process -> Run] /\ Others(p)
             /\ proc'[p].day = d /\ proc'[p].pc = "searching" /\ proc'[p].key = k
             /\ proc'[p].next = part[d][k].next /\ proc'[p].expected = part[d][k].expected
  <2>1. k \in Key /\ k \in 0..MaxKeys
    BY Numbers DEF Incomplete, Keys
  <2>2. part[d][k].next \in 0..MaxPages /\ part[d][k].expected \in 0..MaxPages
    BY <1>2, <2>1, PartFields
  <2> DEFINE r == [proc[p] EXCEPT !.pc = "searching", !.key = k, !.next = part[d][k].next,
                                  !.expected = part[d][k].expected]
  <2>3. /\ r \in Run /\ r.pc = "searching" /\ r.day = proc[p].day /\ r.key = k
        /\ r.next = part[d][k].next /\ r.expected = part[d][k].expected
    BY <1>3, <2>1, <2>2, RunFields DEF Run
  <2>4. proc' = [proc EXCEPT ![p] = r]
    BY <1>5
  <2> HIDE DEF r
  <2>5. proc' \in [Process -> Run] /\ proc'[p] = r /\ Others(p)
    BY <2>3, <2>4 DEF TypeOK, Others
  <2> QED
    BY <2>3, <2>5
<1> QED
  BY <1>1, <1>2, <1>4, <1>5 DEF NextDiscoveryPartition

LEMMA SearchEffect ==
    ASSUME TypeOK, Memory, NEW p \in Process, SearchVacancies(p)
    PROVE  /\ proc' \in [Process -> Run] /\ Others(p)
           /\ proc[p].pc = "searching" /\ lock' \in Process \cup {NoProcess, Assistant}
           /\ \/ /\ proc'[p].pc = "saving" /\ Keeps(p) /\ lock' = lock
                 /\ hhPages[proc[p].key] = proc[p].expected
              \/ /\ proc'[p].pc = "resizing" /\ lock' = lock
                 /\ proc'[p].day = proc[p].day /\ proc'[p].key = proc[p].key
                 /\ proc'[p].next = proc[p].next
                 /\ proc'[p].expected = hhPages[proc[p].key]
                 /\ hhPages[proc[p].key] # proc[p].expected
              \/ Leave(p) /\ proc'[p].pc = "idle"
<1>1. proc[p].pc = "searching"
  BY DEF SearchVacancies
<1>2. "saving" \in PC /\ "resizing" \in PC
  BY DEF PC
<1>3. proc[p].key \in Key
  BY <1>1 DEF Memory, Remembers, InPartition, Keys
<1>4. hhPages[proc[p].key] \in 0..MaxPages /\ lock \in Process \cup {NoProcess, Assistant}
  BY <1>3 DEF TypeOK
<1>5. CASE hhPages[proc[p].key] = proc[p].expected /\ Become(p, "saving") /\ lock' = lock
  BY <1>1, <1>2, <1>4, <1>5, BecomeEffect
<1>6. CASE /\ hhPages[proc[p].key] # proc[p].expected
           /\ proc' = [proc EXCEPT ![p] =
                 [@ EXCEPT !.pc = "resizing", !.expected = hhPages[proc[p].key]]]
           /\ lock' = lock
  <2> DEFINE n == [proc[p] EXCEPT !.pc = "resizing", !.expected = hhPages[proc[p].key]]
  <2>1. /\ n \in Run /\ n.pc = "resizing" /\ n.expected = hhPages[proc[p].key]
        /\ n.day = proc[p].day /\ n.key = proc[p].key /\ n.next = proc[p].next
    BY <1>2, <1>4, RunFields DEF Run
  <2>2. proc' = [proc EXCEPT ![p] = n]
    BY <1>6, Zenon
  <2> HIDE DEF n
  <2>3. proc \in [Process -> Run]
    BY Zenon DEF TypeOK
  <2>4. proc' \in [Process -> Run] /\ proc'[p] = n /\ Others(p)
    BY <2>1, <2>2, <2>3 DEF Others
  <2> QED
    BY <1>1, <1>4, <1>6, <2>1, <2>4, Zenon
<1>7. CASE Leave(p)
  BY <1>1, <1>7, LeaveEffect
<1> QED
  BY <1>5, <1>6, <1>7 DEF SearchVacancies

\* The page count of one partition is replaced before its first page.
Resizes(d, k, n) ==
    /\ part[d][k].next = 0 /\ part[d][k].expected # n
    /\ part' \in [Day -> [Key -> Partition]]
    /\ part'[d][k].expected = n /\ part'[d][k].next = 0
    /\ part'[d][k].status = IF n = 0 THEN "complete" ELSE "pending"
    /\ \A j \in Key \ {k} : part'[d][j] = part[d][j]
    /\ \A e \in Day \ {d} : part'[e] = part[e]
    /\ cycle' \in [Day -> Cycle]
    /\ cycle'[d] = Advance(cycle[d], n - part[d][k].expected, 0, IF n = 0 THEN 1 ELSE 0)
    /\ \A e \in Day \ {d} : cycle'[e] = cycle[e]

LEMMA ResizeEffect ==
    ASSUME TypeOK, Memory, NEW p \in Process, SetDiscoveryExpectedPages(p),
           NEW d, d = proc[p].day, NEW k, k = proc[p].key, NEW n, n = proc[p].expected
    PROVE  /\ proc' \in [Process -> Run] /\ Others(p)
           /\ proc[p].pc = "resizing"
           /\ d \in Day /\ k \in Keys(d) /\ k \in Key /\ n \in 0..MaxPages
           /\ lock' \in Process \cup {NoProcess, Assistant}
           /\ (part' = part /\ cycle' = cycle) \/ Resizes(d, k, n)
           /\ \/ /\ Keeps(p) /\ lock' = lock
                 /\ proc'[p].pc = IF n = 0 THEN "picking" ELSE "saving"
              \/ Leave(p) /\ proc'[p].pc = "idle" /\ part' = part /\ cycle' = cycle
<1>1. proc[p].pc = "resizing" /\ lock \in Process \cup {NoProcess, Assistant}
  BY DEF SetDiscoveryExpectedPages, TypeOK
<1>2. d \in Day /\ k \in Keys(d) /\ k \in Key /\ n \in 0..MaxPages
  <2>1. d \in Day /\ k \in Keys(d)
    BY <1>1 DEF Memory, Remembers, Working, PC, InPartition
  <2> QED
    BY <2>1, RunFields DEF Keys
<1>3. (IF n = 0 THEN "picking" ELSE "saving") \in PC
  BY DEF PC
<1>4. ASSUME Become(p, IF n = 0 THEN "picking" ELSE "saving")
      PROVE  /\ proc' \in [Process -> Run] /\ Keeps(p) /\ Others(p)
             /\ proc'[p].pc = IF n = 0 THEN "picking" ELSE "saving"
  BY <1>3, <1>4, BecomeEffect
<1>5. ASSUME ~(part[d][k].next # 0 \/ part[d][k].expected = n),
             cycle' = Resized(d, k, n),
             part' = [part EXCEPT ![d][k] =
                [@ EXCEPT !.expected = n, !.status = IF n = 0 THEN "complete" ELSE "pending"]]
      PROVE  Resizes(d, k, n)
  <2> DEFINE x == [part[d][k] EXCEPT !.expected = n,
                                     !.status = IF n = 0 THEN "complete" ELSE "pending"]
             c == Advance(cycle[d], n - part[d][k].expected, 0, IF n = 0 THEN 1 ELSE 0)
  <2>1. /\ x \in Partition /\ x.expected = n /\ x.next = part[d][k].next
        /\ x.status = IF n = 0 THEN "complete" ELSE "pending"
    BY <1>2, PartFields, ZenonT(30) DEF Partition
  <2>2. part' = [part EXCEPT ![d][k] = x] /\ cycle' = [cycle EXCEPT ![d] = c]
    BY <1>5 DEF Resized
  <2>3. n - part[d][k].expected \in Int /\ 0 \in Nat /\ (IF n = 0 THEN 1 ELSE 0) \in Int
    BY <1>2, PartFields, Numbers
  <2>4. c \in Cycle
    BY <1>2, <2>3, AdvanceEffect, CycleFields
  <2> HIDE DEF x, c
  <2>5. /\ part' \in [Day -> [Key -> Partition]] /\ part'[d][k] = x
        /\ \A j \in Key \ {k} : part'[d][j] = part[d][j]
        /\ \A e \in Day \ {d} : part'[e] = part[e]
    BY <1>2, <2>1, <2>2 DEF TypeOK
  <2>6. /\ cycle' \in [Day -> Cycle] /\ cycle'[d] = c
        /\ \A e \in Day \ {d} : cycle'[e] = cycle[e]
    BY <1>2, <2>2, <2>4, CycleUpdate
  <2> QED
    BY <1>5, <2>1, <2>5, <2>6 DEF Resizes, c
<1>6. CASE Leave(p) /\ UNCHANGED <<cycle, part>>
  BY <1>1, <1>2, <1>6, LeaveEffect
<1>7. CASE /\ Become(p, IF n = 0 THEN "picking" ELSE "saving")
           /\ UNCHANGED <<cycle, part, lock>>
  BY <1>1, <1>2, <1>4, <1>7
<1>8. CASE /\ ~(part[d][k].next # 0 \/ part[d][k].expected = n)
           /\ cycle' = Resized(d, k, n)
           /\ part' = [part EXCEPT ![d][k] =
                 [@ EXCEPT !.expected = n, !.status = IF n = 0 THEN "complete" ELSE "pending"]]
           /\ Become(p, IF n = 0 THEN "picking" ELSE "saving") /\ lock' = lock
  BY <1>1, <1>2, <1>4, <1>5, <1>8
<1> QED
  BY <1>6, <1>7, <1>8, Zenon DEF SetDiscoveryExpectedPages

\* The page fetched is recorded.
Records(p, d, k) ==
    /\ observed' \in [Day -> SUBSET (Key \X Page)]
    /\ observed'[d] = observed[d] \cup {<<k, proc[p].next>>}
    /\ \A e \in Day \ {d} : observed'[e] = observed[e]

\* The next page of a partition is committed.
Commits(p, d, k) ==
    /\ part[d][k].next = proc[p].next /\ proc[p].next + 1 <= part[d][k].expected
    /\ part[d][k].status # "complete"
    /\ part' \in [Day -> [Key -> Partition]]
    /\ part'[d][k].expected = part[d][k].expected
    /\ part'[d][k].next = proc[p].next + 1
    /\ part'[d][k].status = IF proc[p].next + 1 = part[d][k].expected
                            THEN "complete" ELSE "running"
    /\ \A j \in Key \ {k} : part'[d][j] = part[d][j]
    /\ \A e \in Day \ {d} : part'[e] = part[e]
    /\ cycle' \in [Day -> Cycle]
    /\ cycle'[d] = Advance(cycle[d], 0, 1, IF proc[p].next + 1 = part[d][k].expected
                                           THEN 1 ELSE 0)
    /\ \A e \in Day \ {d} : cycle'[e] = cycle[e]

LEMMA SaveEffect ==
    ASSUME TypeOK, Rows, Memory, NEW p \in Process, SaveDiscoveryPage(p),
           NEW d, d = proc[p].day, NEW k, k = proc[p].key
    PROVE  /\ proc' \in [Process -> Run] /\ Others(p)
           /\ proc[p].pc = "saving" /\ d \in Day /\ k \in Keys(d) /\ k \in Key
           /\ lock' \in Process \cup {NoProcess, Assistant}
           /\ \/ /\ Records(p, d, k) /\ proc'[p].pc = "picking" /\ Keeps(p) /\ lock' = lock
                 /\ part' = part /\ cycle' = cycle
              \/ /\ Leave(p) /\ proc'[p].pc = "idle"
                 /\ UNCHANGED <<cycle, part, observed>>
              \/ /\ Records(p, d, k) /\ proc'[p].pc = "picking" /\ Keeps(p) /\ lock' = lock
                 /\ Commits(p, d, k)
<1>1. proc[p].pc = "saving" /\ "picking" \in PC /\ lock \in Process \cup {NoProcess, Assistant}
  BY DEF SaveDiscoveryPage, PC, TypeOK
<1>2. /\ d \in Day /\ k \in Keys(d) /\ k \in Key
      /\ proc[p].next \in Nat /\ proc[p].next <= part[d][k].next
  <2>1. d \in Day /\ k \in Keys(d) /\ proc[p].next <= part[d][k].next
    BY <1>1 DEF Memory, Remembers, Working, PC, InPartition
  <2>2. proc[p].next \in Nat
    BY RunFields, Numbers
  <2> QED
    BY <2>1, <2>2 DEF Keys
<1>3. ASSUME proc[p].next + 1 <= MaxPages,
             observed' = [observed EXCEPT ![d] = @ \cup {<<k, FetchedPage(p)>>}]
      PROVE  Records(p, d, k)
  <2>1. proc[p].next \in Page
    BY <1>2, <1>3, Numbers DEF Page
  <2> QED
    BY <1>2, <1>3, <2>1 DEF Records, FetchedPage, TypeOK
<1>4. /\ part[d][k].next \in Nat /\ part[d][k].expected \in Nat
      /\ part[d][k].next <= MaxPages /\ part[d][k].expected <= MaxPages
  BY <1>2, PartFields
<1>5. AlreadyCommitted(p) <=> proc[p].next + 1 <= part[d][k].next
  BY DEF AlreadyCommitted
<1>6. Become(p, "picking") => /\ proc' \in [Process -> Run] /\ proc'[p].pc = "picking"
                              /\ Keeps(p) /\ Others(p)
  BY <1>1, BecomeEffect
<1>7. CASE /\ AlreadyCommitted(p) /\ Become(p, "picking") /\ UNCHANGED <<cycle, part, lock>>
           /\ observed' = [observed EXCEPT ![d] = @ \cup {<<k, FetchedPage(p)>>}]
  <2>1. proc[p].next + 1 <= MaxPages
    BY <1>2, <1>4, <1>5, <1>7, Numbers
  <2> QED
    BY <1>1, <1>2, <1>3, <1>6, <1>7, <2>1
<1>8. CASE Leave(p) /\ UNCHANGED <<cycle, part, observed>>
  BY <1>1, <1>2, <1>8, LeaveEffect
<1>8a. ~AlreadyCommitted(p) => part[d][k].next = proc[p].next
  BY <1>2, <1>4, <1>5
<1>8b. ASSUME part[d][k].next = proc[p].next, proc[p].next + 1 <= part[d][k].expected
       PROVE  part[d][k].status # "complete" /\ proc[p].next + 1 <= MaxPages
  <2>1. part[d][k].status = "complete" => part[d][k].next = part[d][k].expected
    BY <1>2 DEF Rows, RowsOfDay
  <2> QED
    BY <1>2, <1>4, <1>8b, <2>1, Numbers
<1>9. ASSUME ~AlreadyCommitted(p), proc[p].next + 1 <= part[d][k].expected,
             observed' = [observed EXCEPT ![d] = @ \cup {<<k, FetchedPage(p)>>}],
             part' = [part EXCEPT ![d][k] =
                [@ EXCEPT !.next = proc[p].next + 1,
                          !.status = IF proc[p].next + 1 = part[d][k].expected
                                     THEN "complete" ELSE "running"]],
             cycle' = [cycle EXCEPT ![d] =
                Advance(@, 0, 1, IF proc[p].next + 1 = part[d][k].expected THEN 1 ELSE 0)]
      PROVE  Records(p, d, k) /\ Commits(p, d, k)
  <2>1. part[d][k].next = proc[p].next
    BY <1>8a, <1>9, Zenon
  <2>2. part[d][k].status # "complete"
    BY <1>8b, <1>9, <2>1, Zenon
  <2>3. proc[p].next + 1 <= MaxPages
    BY <1>8b, <1>9, <2>1, Zenon
  <2> DEFINE x == [part[d][k] EXCEPT !.next = proc[p].next + 1,
                                     !.status = IF proc[p].next + 1 = part[d][k].expected
                                                THEN "complete" ELSE "running"]
             c == Advance(cycle[d], 0, 1, IF proc[p].next + 1 = part[d][k].expected
                                          THEN 1 ELSE 0)
  <2>4. proc[p].next + 1 \in 0..MaxPages
    BY <1>2, <2>3, Numbers
  <2>5. /\ x \in Partition /\ x.expected = part[d][k].expected /\ x.next = proc[p].next + 1
        /\ x.status = IF proc[p].next + 1 = part[d][k].expected THEN "complete" ELSE "running"
    BY <1>2, <2>4, PartFields, ZenonT(30) DEF Partition
  <2>6. c \in Cycle
    <3>1. cycle[d] \in Cycle
      BY <1>2, CycleFields, Zenon
    <3>2. 0 \in Int /\ 1 \in Nat /\ 1 \in Int
      OBVIOUS
    <3>3. /\ Advance(cycle[d], 0, 1, 1) \in Cycle
          /\ Advance(cycle[d], 0, 1, 0) \in Cycle
      BY <3>1, <3>2, AdvanceEffect, Zenon
    <3> QED
      BY <3>3, Zenon
  <2>7. part' = [part EXCEPT ![d][k] = x] /\ cycle' = [cycle EXCEPT ![d] = c]
    BY <1>9
  <2> HIDE DEF x, c
  <2>8. /\ part' \in [Day -> [Key -> Partition]] /\ part'[d][k] = x
        /\ \A j \in Key \ {k} : part'[d][j] = part[d][j]
        /\ \A e \in Day \ {d} : part'[e] = part[e]
    BY <1>2, <2>5, <2>7 DEF TypeOK
  <2>9. /\ cycle' \in [Day -> Cycle] /\ cycle'[d] = c
        /\ \A e \in Day \ {d} : cycle'[e] = cycle[e]
    BY <1>2, <2>6, <2>7, CycleUpdate
  <2>10. Commits(p, d, k)
    BY <1>9, <2>1, <2>2, <2>5, <2>8, <2>9 DEF Commits, c
  <2> QED
    BY <1>3, <1>9, <2>3, <2>10
<1>10. ASSUME ~AlreadyCommitted(p), ~(proc[p].next + 1 > part[d][k].expected),
              Become(p, "picking"), lock' = lock,
              observed' = [observed EXCEPT ![d] = @ \cup {<<k, FetchedPage(p)>>}],
              part' = [part EXCEPT ![d][k] =
                 [@ EXCEPT !.next = proc[p].next + 1,
                           !.status = IF proc[p].next + 1 = part[d][k].expected
                                      THEN "complete" ELSE "running"]],
              cycle' = [cycle EXCEPT ![d] =
                 Advance(cycle[d], 0, 1, IF proc[p].next + 1 = part[d][k].expected THEN 1 ELSE 0)]
       PROVE  /\ Records(p, d, k) /\ proc'[p].pc = "picking" /\ Keeps(p) /\ Others(p)
              /\ proc' \in [Process -> Run] /\ Commits(p, d, k)
  <2>1. proc[p].next + 1 <= part[d][k].expected
    <3>1. ~(proc[p].next + 1 > part[d][k].expected)
      BY <1>10, Zenon
    <3>2. proc[p].next \in Nat /\ part[d][k].expected \in Nat
      BY <1>2, <1>4
    <3> QED
      BY <3>1, <3>2
  <2>2. Records(p, d, k) /\ Commits(p, d, k)
    BY <1>9, <1>10, <2>1
  <2> QED
    BY <1>6, <1>10, <2>2
<1> QED
  BY <1>1, <1>2, <1>6, <1>7, <1>8, <1>10 DEF SaveDiscoveryPage

LEMMA CompleteEffect ==
    ASSUME TypeOK, Memory, NEW p \in Process, CompleteDiscoveryCycle(p), NEW d, d = proc[p].day
    PROVE  /\ proc' \in [Process -> Run] /\ Others(p)
           /\ proc[p].pc = "completing" /\ d \in Day /\ Started(d)
           /\ lock' \in Process \cup {NoProcess, Assistant} /\ cycle' \in [Day -> Cycle]
           /\ \/ /\ Incomplete(d) = {} /\ cycle'[d].status = "complete"
                 /\ \A e \in Day \ {d} : cycle'[e] = cycle[e]
                 /\ proc'[p].pc = "reconciling" /\ Keeps(p) /\ lock' = lock
              \/ Leave(p) /\ proc'[p].pc = "idle" /\ cycle' = cycle
<1>1. /\ proc[p].pc = "completing" /\ "reconciling" \in PC /\ lock \in Process \cup {NoProcess, Assistant}
      /\ cycle \in [Day -> Cycle]
  BY DEF CompleteDiscoveryCycle, PC, TypeOK
<1>2. d \in Day /\ Started(d)
  BY <1>1 DEF Memory, Remembers, Working, Begun, PC
<1>3. CASE /\ Completable(d) /\ cycle' = [cycle EXCEPT ![d].status = "complete"]
           /\ Become(p, "reconciling") /\ lock' = lock
  <2>1. /\ cycle' \in [Day -> Cycle] /\ cycle'[d].status = "complete"
        /\ \A e \in Day \ {d} : cycle'[e] = cycle[e]
    BY <1>1, <1>2, <1>3 DEF Cycle
  <2> QED
    BY <1>1, <1>2, <1>3, <2>1, BecomeEffect DEF Completable
<1>4. CASE Leave(p) /\ cycle' = cycle
  BY <1>1, <1>2, <1>4, LeaveEffect
<1> QED
  BY <1>3, <1>4 DEF CompleteDiscoveryCycle

LEMMA ReconcileEffect ==
    ASSUME TypeOK, Memory, NEW p \in Process, ReconcileDiscoveryStatuses(p)
    PROVE  /\ proc' \in [Process -> Run] /\ Keeps(p) /\ Others(p)
           /\ proc[p].pc = "reconciling" /\ proc'[p].pc = "snapshotting"
           /\ applied' \in {applied, proc[p].day} /\ applied' \in 0..MaxDays
           /\ proc[p].day \in Day /\ Started(proc[p].day)
<1>1. "snapshotting" \in PC /\ Become(p, "snapshotting") /\ proc[p].pc = "reconciling"
  BY DEF PC, ReconcileDiscoveryStatuses
<1>2. proc[p].day \in Day /\ Started(proc[p].day)
  BY <1>1 DEF Memory, Remembers, Working, Begun, PC
<1>3. applied' \in {applied, proc[p].day}
  BY DEF ReconcileDiscoveryStatuses
<1>4. applied \in 0..MaxDays /\ proc[p].day \in 0..MaxDays
  BY RunFields DEF TypeOK
<1> QED
  BY <1>1, <1>2, <1>3, <1>4, BecomeEffect

LEMMA DailyEffect ==
    ASSUME TypeOK, Memory, NEW p \in Process, RunDaily(p)
    PROVE  /\ proc' \in [Process -> Run] /\ Keeps(p) /\ Others(p)
           /\ proc[p].pc = "snapshotting" /\ proc'[p].pc = "cleaning"
           /\ snapshots \subseteq snapshots' /\ snapshots' \subseteq Day
           /\ \A d \in snapshots' \ snapshots : cycle[d].status = "complete"
<1>1. "cleaning" \in PC /\ Become(p, "cleaning") /\ proc[p].pc = "snapshotting"
  BY DEF PC, RunDaily
<1>2. proc[p].day \in Day
  BY <1>1 DEF Memory, Remembers, Working, PC
<1>3. /\ snapshots \subseteq snapshots' /\ snapshots' \subseteq Day
      /\ \A d \in snapshots' \ snapshots : cycle[d].status = "complete"
  BY <1>2 DEF RunDaily, TypeOK
<1> QED
  BY <1>1, <1>3, BecomeEffect

LEMMA CleanupEffect ==
    ASSUME TypeOK, Memory, NEW p \in Process, CleanupDiscoveryObservations(p)
    PROVE  /\ proc' \in [Process -> Run] /\ proc'[p].pc = "idle" /\ Others(p) /\ Leave(p)
           /\ lock' \in Process \cup {NoProcess, Assistant}
           /\ observed' \in [Day -> SUBSET (Key \X Page)]
           /\ \A d \in Day : observed'[d] = observed[d] \/ (d \in snapshots /\ d < today - Retention)
<1>1. proc[p].pc = "cleaning" /\ Leave(p)
  BY DEF CleanupDiscoveryObservations
<1>2. proc[p].day \in Day /\ proc[p].day <= today
  BY <1>1 DEF Memory, Remembers, Working, PC
<1>3. today \in Nat /\ proc[p].day \in Nat /\ Retention \in Nat
  BY <1>2, Numbers DEF TypeOK
<1>4. observed' \in [Day -> SUBSET (Key \X Page)]
  BY DEF CleanupDiscoveryObservations, TypeOK
<1>5. ASSUME NEW d \in Day PROVE observed'[d] = observed[d] \/ (d \in snapshots /\ d < today - Retention)
  <2>1. d \in Nat
    BY Numbers
  <2>2. CASE d < proc[p].day - Retention /\ d \in snapshots
    BY <1>2, <1>3, <2>1, <2>2
  <2>3. CASE ~(d < proc[p].day - Retention /\ d \in snapshots)
    BY <2>3 DEF CleanupDiscoveryObservations
  <2> QED
    BY <2>2, <2>3
<1> QED
  BY <1>1, <1>4, <1>5, LeaveEffect

-----------------------------------------------------------------------------
(* Type correctness *)

LEMMA TypeStep ==
    ASSUME TypeOK, Rows, Memory, [Next]_vars
    PROVE  TypeOK'
<1> USE DEF envVars, dbVars
<1>1. CASE NextDay
  <2>1. today' \in Day
    BY <1>1, Numbers DEF TypeOK, NextDay, Day
  <2> QED
    BY <1>1, <2>1 DEF TypeOK, NextDay
<1>2. ASSUME NEW k \in Key, NEW n \in 0..MaxPages, Drift(k, n) PROVE TypeOK'
  <2>1. drifts' \in 0..MaxDrifts /\ hhPages' \in [Key -> 0..MaxPages]
    BY <1>2, DiscoveryBounds DEF TypeOK, Drift
  <2> QED
    BY <1>2, <2>1 DEF TypeOK, Drift
<1>3. ASSUME NEW S \in SUBSET Key, Replan(S) PROVE TypeOK'
  <2>1. replans' \in 0..MaxReplans
    BY <1>3, DiscoveryBounds DEF TypeOK, Replan
  <2> QED
    BY <1>3, <2>1 DEF TypeOK, Replan
<1>4. ASSUME NEW p \in Process, \/ TryDiscoveryLock(p) \/ RunStep(p) \/ Abort(p) \/ LoseLock(p)
      PROVE  TypeOK'
  <2>1. CASE TryDiscoveryLock(p)
    BY <2>1, LockEffect DEF TypeOK, TryDiscoveryLock
  <2>2. CASE PendingDiscoveryCycle(p)
    BY <2>2, PendingEffect DEF TypeOK, PendingDiscoveryCycle
  <2>3. CASE PlanIT(p)
    BY <2>3, PlanEffect DEF TypeOK, PlanIT
  <2>4. CASE StartDiscoveryCycle(p)
    BY <2>4, StartEffect DEF TypeOK, StartDiscoveryCycle, Starts
  <2>5. CASE NextDiscoveryPartition(p)
    BY <2>5, PickEffect DEF TypeOK, NextDiscoveryPartition
  <2>6. CASE SearchVacancies(p)
    BY <2>6, SearchEffect DEF TypeOK, SearchVacancies
  <2>7. CASE SetDiscoveryExpectedPages(p)
    BY <2>7, ResizeEffect DEF TypeOK, SetDiscoveryExpectedPages, Resizes
  <2>8. CASE SaveDiscoveryPage(p)
    BY <2>8, SaveEffect DEF TypeOK, SaveDiscoveryPage, Records, Commits
  <2>9. CASE CompleteDiscoveryCycle(p)
    BY <2>9, CompleteEffect DEF TypeOK, CompleteDiscoveryCycle
  <2>10. CASE ReconcileDiscoveryStatuses(p)
    BY <2>10, ReconcileEffect DEF TypeOK, ReconcileDiscoveryStatuses
  <2>11. CASE RunDaily(p)
    BY <2>11, DailyEffect DEF TypeOK, RunDaily
  <2>12. CASE CleanupDiscoveryObservations(p)
    BY <2>12, CleanupEffect DEF TypeOK, CleanupDiscoveryObservations
  <2>13. CASE Abort(p)
    <3>1. faults' \in 0..MaxFaults /\ Leave(p)
      BY <2>13, DiscoveryBounds DEF TypeOK, Abort
    <3> QED
      BY <2>13, <3>1, LeaveEffect DEF TypeOK, Abort
  <2>14. CASE LoseLock(p)
    <3>1. lockLosses' \in 0..MaxLockLosses
      BY <2>14, DiscoveryBounds DEF TypeOK, LoseLock
    <3> QED
      BY <2>14, <3>1 DEF TypeOK, LoseLock
  <2> QED
    BY <1>4, <2>1, <2>2, <2>3, <2>4, <2>5, <2>6, <2>7, <2>8, <2>9, <2>10, <2>11, <2>12, <2>13, <2>14 DEF RunStep
<1>5. ASSUME NEW d \in Day, AnalyticsTick(d) PROVE TypeOK'
  BY <1>5 DEF TypeOK, AnalyticsTick
<1>6. CASE TryProcessLock \/ ReleaseProcessLock
  BY <1>6 DEF TypeOK, TryProcessLock, ReleaseProcessLock
<1>7. CASE UNCHANGED vars
  BY <1>7 DEF TypeOK, vars
<1> QED
  BY <1>1, <1>2, <1>3, <1>4, <1>5, <1>6, <1>7 DEF Next

-----------------------------------------------------------------------------
(* The rows *)

\* Days are never undone, partitions never removed, pages never uncommitted.
RowsGrow ==
    /\ today' >= today
    /\ \A d \in Day :
          /\ Started(d) => Started(d)'
          /\ \A k \in Keys(d) : k \in Keys(d)' /\ part'[d][k].next >= part[d][k].next

LEMMA RowsSame ==
    ASSUME TypeOK, UNCHANGED <<today, dbVars>>
    PROVE  RowsGrow /\ (Rows => Rows')
<1>1. today \in Nat /\ today' = today
  BY Numbers DEF TypeOK
<1>2. UNCHANGED <<cycle, part, observed, applied, snapshots>>
  BY DEF dbVars
<1>3. RowsGrow
  <2>1. \A d \in Day : \A k \in Keys(d) : part[d][k].next >= part[d][k].next
    BY PartFields DEF Keys
  <2> QED
    BY <1>1, <1>2, <2>1 DEF RowsGrow, Started, Keys
<1>4. Rows => Rows'
  BY <1>1, <1>2 DEF Rows, RowsOfDay, Started, Intact, Keys
<1> QED
  BY <1>3, <1>4

\* A day none of whose rows changes
LEMMA RowsOfOtherDay ==
    ASSUME NEW d \in Day, RowsOfDay(d), TypeOK, TypeOK', today' >= today,
           cycle'[d] = cycle[d], part'[d] = part[d], observed'[d] = observed[d],
           d \in snapshots' <=> d \in snapshots
    PROVE  /\ RowsOfDay(d)'
           /\ Started(d) => Started(d)'
           /\ \A k \in Keys(d) : k \in Keys(d)' /\ part'[d][k].next >= part[d][k].next
<1>1. Keys(d)' = Keys(d) /\ (Started(d)' <=> Started(d)) /\ (Intact(d)' <=> Intact(d))
  BY DEF Keys, Started, Intact
<1>2. d \in Nat /\ today \in Nat /\ today' \in Nat /\ Retention \in Nat
  BY Numbers DEF TypeOK
<1>3. \A k \in Keys(d) : part'[d][k].next >= part[d][k].next
  BY PartFields DEF Keys
<1>4. Intact(d)' \/ (d \in snapshots' /\ d < today' - Retention)
  BY <1>1, <1>2 DEF RowsOfDay
<1>5. Started(d) => d <= today'
  BY <1>2 DEF RowsOfDay
<1> QED
  BY <1>1, <1>3, <1>4, <1>5 DEF RowsOfDay

LEMMA StartRows ==
    ASSUME TypeOK, TypeOK', Rows, Memory, NEW p \in Process, StartDiscoveryCycle(p),
           NEW d, d = proc[p].day
    PROVE  RowsGrow /\ Rows' /\ (Intact(d) => Intact(d)')
<1>0a. today \in Nat /\ today' \in Nat /\ Retention \in Nat
  BY Numbers DEF TypeOK
<1> USE DEF envVars, dbVars
<1>1. UNCHANGED <<today, observed, applied, snapshots>> /\ today' >= today
  BY <1>0a DEF StartDiscoveryCycle
<1>2. d \in Day /\ d <= today /\ RowsOfDay(d)
  BY DEF StartDiscoveryCycle, Memory, Remembers, Working, PC, Rows
<1>3. /\ \A e \in Day \ {d} : part'[e] = part[e] /\ cycle'[e] = cycle[e]
      /\ \A k \in Key : part'[d][k] = IF k \in proc[p].plan /\ part[d][k].status = "absent"
                                      THEN Planned(p, k) ELSE part[d][k]
  <2>1. Starts(p, d)
    BY StartEffect
  <2> QED
    BY <2>1 DEF Starts
<1>4. Started(d)' /\ (Started(d) => cycle'[d] = cycle[d])
  BY StartStarts
<1>5. ASSUME NEW e \in Day \ {d}
      PROVE  /\ RowsOfDay(e)'
             /\ Started(e) => Started(e)'
             /\ \A k \in Keys(e) : k \in Keys(e)' /\ part'[e][k].next >= part[e][k].next
  <2>1. RowsOfDay(e)
    BY DEF Rows
  <2> QED
    BY <1>1, <1>3, <2>1, RowsOfOtherDay
<1>6. ASSUME NEW k \in Key
      PROVE  /\ part'[d][k].next <= part'[d][k].expected
             /\ part'[d][k].status = "complete" => part'[d][k].next = part'[d][k].expected
             /\ part[d][k].status # "absent" => part'[d][k] = part[d][k]
             /\ part[d][k].status = "absent" => part'[d][k].next = 0 \/ part'[d][k] = part[d][k]
  <2>1. CASE k \in proc[p].plan /\ part[d][k].status = "absent"
    <3>1. proc[p].found[k] \in Nat
      BY RunFields, Numbers
    <3> QED
      BY <1>3, <2>1, <3>1, PlannedType
  <2>2. CASE ~(k \in proc[p].plan /\ part[d][k].status = "absent")
    BY <1>2, <1>3, <2>2 DEF RowsOfDay
  <2> QED
    BY <2>1, <2>2
<1>7. \A k \in Keys(d) : k \in Keys(d)' /\ part'[d][k] = part[d][k]
  BY <1>6 DEF Keys
<1>8. Intact(d) => Intact(d)'
  <2> SUFFICES ASSUME Intact(d), NEW k \in Keys(d)', NEW i \in 0..(part'[d][k].next - 1)
               PROVE  <<k, i>> \in observed'[d]
    BY DEF Intact
  <2>1. k \in Key
    BY DEF Keys
  <2>2. CASE k \in Keys(d)
    BY <1>1, <1>7, <2>2 DEF Intact
  <2>3. CASE k \notin Keys(d)
    <3>1. part[d][k].status = "absent" /\ part'[d][k].status # "absent"
      BY <2>1, <2>3 DEF Keys
    <3>2. part'[d][k].next = 0
      BY <1>6, <2>1, <3>1
    <3> QED
      BY <3>2
  <2> QED
    BY <2>2, <2>3
<1>9. d \in snapshots => cycle'[d].status = "complete"
  BY <1>2, <1>4 DEF RowsOfDay, Started
<1>10. RowsOfDay(d)'
  <2>1. Intact(d)' \/ (d \in snapshots' /\ d < today' - Retention)
    BY <1>1, <1>2, <1>8 DEF RowsOfDay
  <2> QED
    BY <1>1, <1>2, <1>4, <1>6, <1>9, <2>1 DEF RowsOfDay
<1>11. \A k \in Keys(d) : part'[d][k].next >= part[d][k].next
  BY <1>2, <1>7, PartFields DEF Keys
<1>12. \A e \in Day : Started(e) => Started(e)'
  BY <1>4, <1>5
<1>13. \A e \in Day : RowsOfDay(e)'
  BY <1>5, <1>10
<1>14. \A e \in Day : \A k \in Keys(e) : k \in Keys(e)' /\ part'[e][k].next >= part[e][k].next
  BY <1>5, <1>7, <1>11
<1> QED
  BY <1>1, <1>8, <1>12, <1>13, <1>14 DEF Rows, RowsGrow, TypeOK, Day

LEMMA ResizeRows ==
    ASSUME TypeOK, TypeOK', Rows, Memory, NEW p \in Process, SetDiscoveryExpectedPages(p),
           NEW d, d = proc[p].day
    PROVE  /\ RowsGrow /\ Rows' /\ (Intact(d) => Intact(d)')
           /\ \A e \in Day : cycle'[e].status = cycle[e].status
<1>0a. today \in Nat /\ today' \in Nat /\ Retention \in Nat
  BY Numbers DEF TypeOK
<1> USE DEF envVars, dbVars
<1>0. PICK k, n : k = proc[p].key /\ n = proc[p].expected
  OBVIOUS
<1>1. UNCHANGED <<today, observed, applied, snapshots>> /\ today' >= today
  <2>1. UNCHANGED <<today, observed, applied, snapshots>>
    BY ZenonT(30) DEF SetDiscoveryExpectedPages
  <2> QED
    BY <1>0a, <2>1
<1>2. d \in Day /\ k \in Keys(d) /\ k \in Key /\ n \in 0..MaxPages
  BY <1>0, ResizeEffect
<1>3. (part' = part /\ cycle' = cycle) \/ Resizes(d, k, n)
  BY <1>0, ResizeEffect
<1>4. CASE part' = part /\ cycle' = cycle
  BY <1>1, <1>4, RowsSame DEF Intact, Keys
<1>5. CASE Resizes(d, k, n)
  <2>1. RowsOfDay(d) /\ n \in Nat
    BY <1>2, Numbers DEF Rows
  <2>2. /\ part[d][k].next = 0 /\ part'[d][k].expected = n /\ part'[d][k].next = 0
        /\ part'[d][k].status = IF n = 0 THEN "complete" ELSE "pending"
        /\ \A j \in Key \ {k} : part'[d][j] = part[d][j]
        /\ \A e \in Day \ {d} : part'[e] = part[e] /\ cycle'[e] = cycle[e]
    BY <1>5 DEF Resizes
  <2>3. cycle'[d].status = cycle[d].status
    <3>1. cycle'[d] = Advance(cycle[d], n - part[d][k].expected, 0, IF n = 0 THEN 1 ELSE 0)
      BY <1>5 DEF Resizes
    <3> QED
      BY <1>2, <3>1, CycleFields DEF Advance, Cycle
  <2>4. Keys(d)' = Keys(d) /\ (Started(d)' <=> Started(d))
    BY <1>2, <2>2, <2>3 DEF Keys, Started
  <2>5. \A j \in Key : part'[d][j].next = part[d][j].next
    BY <1>2, <2>2
  <2>6. Intact(d)' <=> Intact(d)
    <3>1. \A j \in Keys(d) : j \in Key
      BY DEF Keys
    <3> QED
      BY <1>1, <2>4, <2>5, <3>1 DEF Intact
  <2>7. \A j \in Key : /\ part'[d][j].next <= part'[d][j].expected
                       /\ part'[d][j].status = "complete" => part'[d][j].next = part'[d][j].expected
    BY <2>1, <2>2 DEF RowsOfDay
  <2>8. RowsOfDay(d)'
    BY <1>1, <2>1, <2>3, <2>4, <2>6, <2>7 DEF RowsOfDay
  <2>9. \A j \in Keys(d) : part'[d][j].next >= part[d][j].next
    BY <1>2, <2>5, PartFields DEF Keys
  <2>10. ASSUME NEW e \in Day \ {d}
         PROVE  /\ RowsOfDay(e)'
                /\ Started(e) => Started(e)'
                /\ \A j \in Keys(e) : j \in Keys(e)' /\ part'[e][j].next >= part[e][j].next
    <3>1. RowsOfDay(e)
      BY DEF Rows
    <3> QED
      BY <1>1, <2>2, <3>1, RowsOfOtherDay
  <2>11. \A e \in Day : Started(e) => Started(e)'
    BY <2>4, <2>10
  <2>12. \A e \in Day : cycle'[e].status = cycle[e].status
    BY <2>2, <2>3
  <2>13. \A e \in Day : RowsOfDay(e)'
    BY <2>8, <2>10
  <2>14. \A e \in Day : \A j \in Keys(e) : j \in Keys(e)' /\ part'[e][j].next >= part[e][j].next
    BY <2>4, <2>9, <2>10
  <2>15. RowsGrow /\ Rows'
    BY <1>1, <2>11, <2>13, <2>14 DEF Rows, RowsGrow, TypeOK, Day
  <2> QED
    BY <2>6, <2>12, <2>15
<1> QED
  BY <1>3, <1>4, <1>5

LEMMA SaveRows ==
    ASSUME TypeOK, TypeOK', Rows, Memory, NEW p \in Process, SaveDiscoveryPage(p),
           NEW d, d = proc[p].day
    PROVE  /\ RowsGrow /\ Rows' /\ (Intact(d) => Intact(d)')
           /\ \A e \in Day : cycle'[e].status = cycle[e].status
<1>0a. today \in Nat /\ today' \in Nat /\ Retention \in Nat
  BY Numbers DEF TypeOK
<1> USE DEF envVars, dbVars
<1>0. PICK k : k = proc[p].key
  OBVIOUS
<1>1. UNCHANGED <<today, applied, snapshots>> /\ today' >= today
  <2>1. UNCHANGED <<envVars, applied, snapshots, faults, lockLosses>>
    BY Zenon DEF SaveDiscoveryPage
  <2>2. UNCHANGED <<today, applied, snapshots>>
    BY <2>1, Zenon
  <2> QED
    BY <1>0a, <2>2
<1>2. d \in Day /\ k \in Keys(d) /\ k \in Key
  BY <1>0, SaveEffect
<1>3. \/ Records(p, d, k) /\ part' = part /\ cycle' = cycle
      \/ UNCHANGED <<cycle, part, observed>>
      \/ Records(p, d, k) /\ Commits(p, d, k)
  BY <1>0, SaveEffect
<1>4. proc[p].next \in Nat
  BY RunFields, Numbers
<1>5. CASE UNCHANGED <<cycle, part, observed>>
  BY <1>1, <1>5, RowsSame DEF Intact, Keys
<1>6. ASSUME Records(p, d, k), \/ part' = part /\ cycle' = cycle
                               \/ Commits(p, d, k)
      PROVE  /\ RowsGrow /\ Rows' /\ (Intact(d) => Intact(d)')
             /\ \A e \in Day : cycle'[e].status = cycle[e].status
  <2>1. RowsOfDay(d)
    BY <1>2 DEF Rows
  <2>2. /\ \A e \in Day \ {d} : part'[e] = part[e] /\ cycle'[e] = cycle[e] /\ observed'[e] = observed[e]
        /\ \A j \in Key \ {k} : part'[d][j] = part[d][j]
        /\ observed'[d] = observed[d] \cup {<<k, proc[p].next>>}
    BY <1>6 DEF Records, Commits
  <2>3. cycle'[d].status = cycle[d].status
    <3>1. CASE Commits(p, d, k)
      <4>1. cycle'[d] = Advance(cycle[d], 0, 1, IF proc[p].next + 1 = part[d][k].expected
                                                THEN 1 ELSE 0)
        BY <3>1 DEF Commits
      <4> QED
        BY <1>2, <4>1, CycleFields DEF Advance, Cycle
    <3> QED
      BY <1>6, <3>1
  <2>4. /\ part'[d][k].next <= part'[d][k].expected
        /\ part'[d][k].status = "complete" => part'[d][k].next = part'[d][k].expected
        /\ part'[d][k].status # "absent"
        /\ \/ part'[d][k].next = part[d][k].next
           \/ part[d][k].next = proc[p].next /\ part'[d][k].next = proc[p].next + 1
    <3>1. CASE part' = part
      BY <1>2, <2>1, <3>1 DEF RowsOfDay, Keys
    <3>2. CASE Commits(p, d, k)
      BY <3>2 DEF Commits
    <3> QED
      BY <1>6, <3>1, <3>2
  <2>5. Keys(d)' = Keys(d) /\ (Started(d)' <=> Started(d))
    <3>1. Started(d)' <=> Started(d)
      BY <2>3, Zenon DEF Started
    <3>2. \A j \in Key : part'[d][j].status # "absent" <=> part[d][j].status # "absent"
      <4>1. part[d][k].status # "absent" /\ part'[d][k].status # "absent"
        BY <1>2, <2>4, Zenon DEF Keys
      <4>2. \A j \in Key \ {k} : part'[d][j] = part[d][j]
        BY <2>2
      <4> QED
        BY <4>1, <4>2, Zenon
    <3>3. Keys(d)' = Keys(d)
      BY <3>2, Zenon DEF Keys
    <3> QED
      BY <3>1, <3>3, Zenon
  <2>6. Intact(d) => Intact(d)'
    <3> SUFFICES ASSUME Intact(d), NEW j \in Keys(d), NEW i \in 0..(part'[d][j].next - 1)
                 PROVE  <<j, i>> \in observed'[d]
      BY <2>5 DEF Intact
    <3>1. j \in Key
      BY DEF Keys
    <3>2. CASE j # k
      BY <2>2, <3>1, <3>2 DEF Intact
    <3>3. CASE j = k
      <4>1. part[d][k].next \in Nat
        BY <1>2, PartFields
      <4>2. CASE i \in 0..(part[d][k].next - 1)
        BY <2>2, <3>3, <4>2 DEF Intact
      <4>3. CASE i \notin 0..(part[d][k].next - 1)
        <5>1. i = proc[p].next
          BY <1>4, <2>4, <3>3, <4>1, <4>3
        <5> QED
          BY <2>2, <3>3, <5>1
      <4> QED
        BY <4>2, <4>3
    <3> QED
      BY <3>2, <3>3
  <2>7. \A j \in Key : /\ part'[d][j].next <= part'[d][j].expected
                       /\ part'[d][j].status = "complete" => part'[d][j].next = part'[d][j].expected
    <3>1. \A j \in Key \ {k} : part'[d][j] = part[d][j]
      BY <2>2
    <3>2. \A j \in Key : /\ part[d][j].next <= part[d][j].expected
                         /\ part[d][j].status = "complete" => part[d][j].next = part[d][j].expected
      BY <2>1, Zenon DEF RowsOfDay
    <3> QED
      BY <2>4, <3>1, <3>2, Zenon
  <2>8. RowsOfDay(d)'
    BY <1>1, <2>1, <2>3, <2>5, <2>6, <2>7 DEF RowsOfDay
  <2>9. \A j \in Keys(d) : part'[d][j].next >= part[d][j].next
    <3> SUFFICES ASSUME NEW j \in Keys(d) PROVE part'[d][j].next >= part[d][j].next
      OBVIOUS
    <3>1. j \in Key /\ part[d][j].next \in Nat
      BY <1>2, PartFields DEF Keys
    <3> QED
      BY <1>4, <2>2, <2>4, <3>1
  <2>10. ASSUME NEW e \in Day \ {d}
         PROVE  /\ RowsOfDay(e)'
                /\ Started(e) => Started(e)'
                /\ \A j \in Keys(e) : j \in Keys(e)' /\ part'[e][j].next >= part[e][j].next
    <3>1. RowsOfDay(e)
      BY DEF Rows
    <3> QED
      BY <1>1, <2>2, <3>1, RowsOfOtherDay
  <2>11. \A e \in Day : Started(e) => Started(e)'
    BY <2>5, <2>10
  <2>12. \A e \in Day : cycle'[e].status = cycle[e].status
    BY <2>2, <2>3
  <2>13. \A e \in Day : RowsOfDay(e)'
    BY <2>8, <2>10
  <2>14. \A e \in Day : \A j \in Keys(e) : j \in Keys(e)' /\ part'[e][j].next >= part[e][j].next
    BY <2>5, <2>9, <2>10
  <2>15. RowsGrow /\ Rows'
    BY <1>1, <2>11, <2>13, <2>14 DEF Rows, RowsGrow, TypeOK, Day
  <2> QED
    BY <2>6, <2>12, <2>15
<1> QED
  BY <1>3, <1>5, <1>6

LEMMA RowsStep ==
    ASSUME TypeOK, TypeOK', Rows, Memory, [Next]_vars
    PROVE  RowsGrow /\ Rows'
<1> USE DEF envVars, dbVars
<1>1. today \in Nat /\ today' \in Nat /\ Retention \in Nat
  BY Numbers DEF TypeOK
<1>2. CASE NextDay
  <2>1. today' >= today /\ UNCHANGED <<cycle, part, observed, applied, snapshots>>
    BY <1>1, <1>2 DEF NextDay
  <2>2. \A d \in Day : RowsOfDay(d)
    BY DEF Rows
  <2> QED
    BY <2>1, <2>2, RowsOfOtherDay DEF Rows, RowsGrow, Started
<1>3. ASSUME NEW p \in Process, StartDiscoveryCycle(p) PROVE RowsGrow /\ Rows'
  BY <1>3, StartRows
<1>4. ASSUME NEW p \in Process, SetDiscoveryExpectedPages(p) PROVE RowsGrow /\ Rows'
  BY <1>4, ResizeRows
<1>5. ASSUME NEW p \in Process, SaveDiscoveryPage(p) PROVE RowsGrow /\ Rows'
  BY <1>5, SaveRows
<1>6. ASSUME NEW p \in Process, CompleteDiscoveryCycle(p) PROVE RowsGrow /\ Rows'
  <2>0. PICK d : d = proc[p].day
    OBVIOUS
  <2>1. UNCHANGED <<today, part, observed, applied, snapshots>> /\ today' >= today
    BY <1>1, <1>6 DEF CompleteDiscoveryCycle
  <2>2. d \in Day /\ Started(d)
    BY <1>6, <2>0, CompleteEffect
  <2>3. \/ cycle' = cycle
        \/ /\ cycle'[d].status = "complete"
           /\ \A e \in Day \ {d} : cycle'[e] = cycle[e]
    BY <1>6, <2>0, CompleteEffect
  <2>4. \A e \in Day : /\ Started(e)' <=> Started(e)
                       /\ cycle[e].status = "complete" => cycle'[e].status = "complete"
                       /\ Keys(e)' = Keys(e) /\ (Intact(e)' <=> Intact(e))
    BY <2>1, <2>2, <2>3 DEF Started, Keys, Intact
  <2>5. \A e \in Day : RowsOfDay(e)'
    BY <2>1, <2>4 DEF Rows, RowsOfDay
  <2>6. \A e \in Day : \A k \in Keys(e) : part'[e][k].next >= part[e][k].next
    BY <2>1, PartFields DEF Keys
  <2> QED
    BY <2>1, <2>4, <2>5, <2>6 DEF Rows, RowsGrow, TypeOK, Day
<1>7. ASSUME NEW p \in Process, ReconcileDiscoveryStatuses(p) PROVE RowsGrow /\ Rows'
  <2>1. /\ UNCHANGED <<today, cycle, part, observed, snapshots>>
        /\ applied' \in {applied, proc[p].day} /\ Started(proc[p].day)
    BY <1>7, ReconcileEffect DEF ReconcileDiscoveryStatuses
  <2>2. today' >= today
    BY <1>1, <2>1
  <2>3. ASSUME NEW e \in Day
        PROVE  /\ RowsOfDay(e)'
               /\ Started(e) => Started(e)'
               /\ \A j \in Keys(e) : j \in Keys(e)' /\ part'[e][j].next >= part[e][j].next
    <3>1. RowsOfDay(e)
      BY DEF Rows
    <3> QED
      BY <2>1, <2>2, <3>1, RowsOfOtherDay
  <2> QED
    BY <2>1, <2>2, <2>3 DEF Rows, RowsGrow, Started
<1>8. ASSUME UNCHANGED <<today, cycle, part, observed, applied>>, snapshots \subseteq snapshots',
             \A d \in snapshots' \ snapshots : cycle[d].status = "complete"
      PROVE  RowsGrow /\ Rows'
  <2>1. \A d \in Day : /\ Keys(d)' = Keys(d) /\ (Started(d)' <=> Started(d))
                       /\ Intact(d)' <=> Intact(d)
    BY <1>8 DEF Keys, Started, Intact
  <2>2. \A d \in Day : RowsOfDay(d)'
    BY <1>8, <2>1 DEF Rows, RowsOfDay
  <2>3. \A e \in Day : \A k \in Keys(e) : part'[e][k].next >= part[e][k].next
    BY <1>8, PartFields DEF Keys
  <2> QED
    BY <1>1, <1>8, <2>1, <2>2, <2>3 DEF Rows, RowsGrow, TypeOK, Day
<1>9. ASSUME NEW p \in Process, CleanupDiscoveryObservations(p) PROVE RowsGrow /\ Rows'
  <2>1. UNCHANGED <<today, cycle, part, applied, snapshots>> /\ today' >= today
    BY <1>1, <1>9 DEF CleanupDiscoveryObservations
  <2>2. \A d \in Day : observed'[d] = observed[d] \/ (d \in snapshots /\ d < today - Retention)
    BY <1>9, CleanupEffect
  <2>3. \A d \in Day : Keys(d)' = Keys(d) /\ (Started(d)' <=> Started(d))
    BY <2>1 DEF Keys, Started
  <2>4. \A d \in Day : Intact(d)' \/ (d \in snapshots' /\ d < today' - Retention)
    <3> SUFFICES ASSUME NEW d \in Day PROVE Intact(d)' \/ (d \in snapshots' /\ d < today' - Retention)
      OBVIOUS
    <3>1. CASE observed'[d] = observed[d]
      <4>1. Intact(d)' <=> Intact(d)
        BY <2>1, <2>3, <3>1 DEF Intact
      <4> QED
        BY <2>1, <4>1 DEF Rows, RowsOfDay
    <3>2. CASE d \in snapshots /\ d < today - Retention
      BY <2>1, <3>2
    <3> QED
      BY <2>2, <3>1, <3>2
  <2>5. \A d \in Day : RowsOfDay(d)'
    BY <2>1, <2>3, <2>4 DEF Rows, RowsOfDay
  <2>6. \A e \in Day : \A k \in Keys(e) : part'[e][k].next >= part[e][k].next
    BY <2>1, PartFields DEF Keys
  <2> QED
    BY <2>1, <2>3, <2>5, <2>6 DEF Rows, RowsGrow, TypeOK, Day
<1>10. ASSUME NEW p \in Process, \/ TryDiscoveryLock(p) \/ RunStep(p) \/ Abort(p) \/ LoseLock(p)
       PROVE  RowsGrow /\ Rows'
  <2>1. CASE RunDaily(p)
    BY <1>8, <2>1, DailyEffect DEF RunDaily
  <2>2. CASE \/ TryDiscoveryLock(p) \/ PendingDiscoveryCycle(p) \/ PlanIT(p)
             \/ NextDiscoveryPartition(p) \/ SearchVacancies(p) \/ Abort(p) \/ LoseLock(p)
    <3>1. UNCHANGED <<today, dbVars>>
      BY <2>2 DEF TryDiscoveryLock, PendingDiscoveryCycle, PlanIT, NextDiscoveryPartition,
                  SearchVacancies, Abort, LoseLock
    <3> QED
      BY <3>1, RowsSame
  <2> QED
    BY <1>3, <1>4, <1>5, <1>6, <1>7, <1>9, <1>10, <2>1, <2>2 DEF RunStep
<1>11. ASSUME NEW d \in Day, AnalyticsTick(d) PROVE RowsGrow /\ Rows'
  <2>1. /\ UNCHANGED <<today, cycle, part, observed, applied>>
        /\ snapshots' = snapshots \cup {d} /\ cycle[d].status = "complete"
    BY <1>11 DEF AnalyticsTick
  <2> QED
    BY <1>8, <2>1
<1>12. ASSUME \/ \E k \in Key, n \in 0..MaxPages : Drift(k, n)
              \/ TryProcessLock \/ ReleaseProcessLock
              \/ \E S \in SUBSET Key : Replan(S)
              \/ UNCHANGED vars
       PROVE  RowsGrow /\ Rows'
  <2>1. UNCHANGED <<today, dbVars>>
    BY <1>12 DEF Drift, Replan, TryProcessLock, ReleaseProcessLock, vars
  <2> QED
    BY <2>1, RowsSame
<1> QED
  BY <1>2, <1>10, <1>11, <1>12 DEF Next

-----------------------------------------------------------------------------
(* What processes remember *)

LEMMA PCSets ==
    /\ Working = {"planning", "starting", "picking", "searching", "resizing", "saving",
                  "completing", "reconciling", "snapshotting", "cleaning"}
    /\ Begun = {"picking", "searching", "resizing", "saving", "completing", "reconciling",
                "snapshotting", "cleaning"}
    /\ InPartition = {"searching", "resizing", "saving"}
  BY DEF Working, Begun, InPartition, PC

LEMMA RememberKept ==
    ASSUME TypeOK, TypeOK', RowsGrow, NEW q \in Process, Remembers(q),
           proc'[q].day = proc[q].day, proc'[q].key = proc[q].key, proc'[q].next = proc[q].next,
           proc'[q].pc \in Working => proc[q].pc \in Working,
           proc'[q].pc \in Begun => proc[q].pc \in Begun,
           proc'[q].pc \in InPartition => proc[q].pc \in InPartition
    PROVE  Remembers(q)'
<1>1. PICK d, k : d = proc[q].day /\ k = proc[q].key
  OBVIOUS
<1>2. proc'[q].pc \in Working => d \in Day /\ d <= today'
  <2> SUFFICES ASSUME proc'[q].pc \in Working PROVE d \in Day /\ d <= today'
    OBVIOUS
  <2>1. d \in Day /\ d <= today /\ today' >= today
    BY <1>1 DEF Remembers, RowsGrow
  <2>2. d \in Nat /\ today \in Nat /\ today' \in Nat
    BY <2>1, Numbers DEF TypeOK
  <2> QED
    BY <2>1, <2>2
<1>3. proc'[q].pc \in Begun => Started(d)'
  <2>1. proc[q].pc \in Begun => d \in Day /\ Started(d)
    BY <1>1, PCSets DEF Remembers
  <2> QED
    BY <2>1 DEF RowsGrow
<1>4. proc'[q].pc \in InPartition => k \in Keys(d)' /\ proc'[q].next <= part'[d][k].next
  <2> SUFFICES ASSUME proc'[q].pc \in InPartition
               PROVE  k \in Keys(d)' /\ proc'[q].next <= part'[d][k].next
    OBVIOUS
  <2>1. d \in Day /\ k \in Keys(d) /\ proc[q].next <= part[d][k].next
    BY <1>1, PCSets DEF Remembers
  <2>2. k \in Keys(d)' /\ part'[d][k].next >= part[d][k].next
    BY <2>1 DEF RowsGrow
  <2>3. k \in Key /\ part[d][k].next \in Nat /\ proc[q].next \in Nat
    BY <2>1, PartFields, RunFields, Numbers DEF Keys
  <2>4. part'[d][k].next \in Nat
    <3>1. part'[d][k] \in Partition
      BY <2>1, <2>3 DEF TypeOK
    <3> QED
      BY <3>1, Numbers DEF Partition
  <2> QED
    BY <2>1, <2>2, <2>3, <2>4
<1> QED
  BY <1>1, <1>2, <1>3, <1>4 DEF Remembers

LEMMA MemoryStep ==
    ASSUME TypeOK, TypeOK', Rows, Memory, RowsGrow, [Next]_vars
    PROVE  Memory'
<1> USE DEF envVars, dbVars
<1>1. ASSUME proc' = proc PROVE Memory'
  BY <1>1, RememberKept DEF Memory
<1>2. ASSUME NEW p \in Process, Others(p), Remembers(p)' PROVE Memory'
  <2>1. ASSUME NEW q \in Process \ {p} PROVE Remembers(q)'
    <3>1. proc'[q] = proc[q] /\ Remembers(q)
      BY <1>2 DEF Others, Memory
    <3> QED
      BY <3>1, RememberKept
  <2> QED
    BY <1>2, <2>1 DEF Memory
<1>3. ASSUME NEW p \in Process, \/ TryDiscoveryLock(p) \/ RunStep(p) \/ Abort(p) \/ LoseLock(p)
      PROVE  Memory'
  <2> USE PCSets
  <2>1. Remembers(p)
    BY DEF Memory
  <2>2. CASE TryDiscoveryLock(p)
    <3>1. Others(p) /\ proc'[p].pc = "locked"
      BY <2>2, LockEffect
    <3> QED
      BY <1>2, <3>1 DEF Remembers
  <2>3. CASE PendingDiscoveryCycle(p)
    <3>1. /\ Others(p) /\ proc'[p].pc = "planning" /\ proc'[p].day \in Day
          /\ proc'[p].day <= today /\ today' = today
      BY <2>3, PendingEffect DEF PendingDiscoveryCycle
    <3> QED
      BY <1>2, <3>1 DEF Remembers
  <2>4. CASE PlanIT(p)
    <3>1. /\ Others(p) /\ proc[p].pc = "planning" /\ proc'[p].pc = "starting"
          /\ proc'[p].day = proc[p].day /\ today' = today
      BY <2>4, PlanEffect DEF PlanIT
    <3> QED
      BY <1>2, <2>1, <3>1 DEF Remembers
  <2>5. CASE StartDiscoveryCycle(p)
    <3>1. PICK d : d = proc[p].day
      OBVIOUS
    <3>2. /\ Others(p) /\ proc[p].pc = "starting" /\ proc'[p].pc = "picking"
          /\ proc'[p].day = d /\ today' = today
      BY <2>5, <3>1, StartEffect DEF StartDiscoveryCycle, Keeps
    <3>3. Started(d)'
      BY <2>5, <3>1, StartStarts
    <3> QED
      BY <1>2, <2>1, <3>1, <3>2, <3>3 DEF Remembers
  <2>6. CASE NextDiscoveryPartition(p)
    <3>1. PICK d : d = proc[p].day
      OBVIOUS
    <3>2. /\ Others(p) /\ proc[p].pc = "picking" /\ proc'[p].day = d /\ d \in Day
          /\ UNCHANGED <<today, cycle, part>>
      BY <2>6, <3>1, PickEffect DEF NextDiscoveryPartition
    <3>3. Started(d)' /\ d <= today'
      BY <2>1, <3>1, <3>2 DEF Remembers, Started
    <3>4. \/ proc'[p].pc = "completing"
          \/ /\ proc'[p].pc = "searching" /\ proc'[p].key \in Incomplete(d)
             /\ proc'[p].next = part[d][proc'[p].key].next
      BY <2>6, <3>1, PickEffect
    <3>5. PICK k : k = proc'[p].key
      OBVIOUS
    <3>6. k \in Incomplete(d) => k \in Keys(d)' /\ k \in Key
      BY <3>2 DEF Incomplete, Keys
    <3>7. k \in Key => part[d][k].next <= part[d][k].next
      BY <3>2, PartFields
    <3> QED
      BY <1>2, <3>2, <3>3, <3>4, <3>5, <3>6, <3>7 DEF Remembers
  <2>7. CASE SearchVacancies(p)
    <3>1. Others(p) /\ proc[p].pc = "searching"
      BY <2>7, SearchEffect
    <3>2. \/ proc'[p].pc = "idle"
          \/ /\ proc'[p].pc \in {"saving", "resizing"}
             /\ proc'[p].day = proc[p].day /\ proc'[p].key = proc[p].key
             /\ proc'[p].next = proc[p].next
      BY <2>7, SearchEffect DEF Keeps
    <3>3. CASE proc'[p].pc = "idle"
      BY <1>2, <3>1, <3>3 DEF Remembers
    <3> QED
      BY <1>2, <2>1, <3>1, <3>2, <3>3, RememberKept
  <2>8. CASE SetDiscoveryExpectedPages(p)
    <3>1. /\ Others(p) /\ proc[p].pc = "resizing"
          /\ proc'[p].pc = "idle" \/ (proc'[p].pc \in {"picking", "saving"} /\ Keeps(p))
      BY <2>8, ResizeEffect
    <3>2. CASE proc'[p].pc = "idle"
      BY <1>2, <3>1, <3>2 DEF Remembers
    <3> QED
      BY <1>2, <2>1, <3>1, <3>2, RememberKept DEF Keeps
  <2>9. CASE SaveDiscoveryPage(p)
    <3>1. /\ Others(p) /\ proc[p].pc = "saving"
          /\ proc'[p].pc = "idle" \/ (proc'[p].pc = "picking" /\ Keeps(p))
      BY <2>9, SaveEffect
    <3>2. CASE proc'[p].pc = "idle"
      BY <1>2, <3>1, <3>2 DEF Remembers
    <3> QED
      BY <1>2, <2>1, <3>1, <3>2, RememberKept DEF Keeps
  <2>10. CASE CompleteDiscoveryCycle(p)
    <3>1. /\ Others(p) /\ proc[p].pc = "completing"
          /\ proc'[p].pc = "idle" \/ (proc'[p].pc = "reconciling" /\ Keeps(p))
      BY <2>10, CompleteEffect
    <3>2. CASE proc'[p].pc = "idle"
      BY <1>2, <3>1, <3>2 DEF Remembers
    <3> QED
      BY <1>2, <2>1, <3>1, <3>2, RememberKept DEF Keeps
  <2>11. CASE ReconcileDiscoveryStatuses(p)
    <3>1. Others(p) /\ Keeps(p) /\ proc[p].pc = "reconciling" /\ proc'[p].pc = "snapshotting"
      BY <2>11, ReconcileEffect
    <3> QED
      BY <1>2, <2>1, <3>1, RememberKept DEF Keeps
  <2>12. CASE RunDaily(p)
    <3>1. Others(p) /\ Keeps(p) /\ proc[p].pc = "snapshotting" /\ proc'[p].pc = "cleaning"
      BY <2>12, DailyEffect
    <3> QED
      BY <1>2, <2>1, <3>1, RememberKept DEF Keeps
  <2>13. CASE CleanupDiscoveryObservations(p) \/ Abort(p)
    <3>1. Others(p) /\ proc'[p].pc = "idle"
      BY <2>13, LeaveEffect DEF CleanupDiscoveryObservations, Abort
    <3> QED
      BY <1>2, <3>1 DEF Remembers
  <2>14. CASE LoseLock(p)
    BY <1>1, <2>14 DEF LoseLock
  <2> QED
    BY <1>3, <2>2, <2>3, <2>4, <2>5, <2>6, <2>7, <2>8, <2>9, <2>10, <2>11, <2>12, <2>13, <2>14
       DEF RunStep
<1> QED
  BY <1>1, <1>3 DEF Next, TryProcessLock, ReleaseProcessLock, NextDay, Drift, Replan, AnalyticsTick, vars

-----------------------------------------------------------------------------
(* What the lock gives *)

\* The rows that HoldsDay, LatestDay and OnlyLatestRuns speak of are unchanged.
LEMMA LockedFrame ==
    ASSUME NEW p \in Process, HoldsDay(p), LatestDay(p), OnlyLatestRuns,
           UNCHANGED <<cycle, part, observed>>, lock' = lock,
           proc'[p].day = proc[p].day, proc'[p].key = proc[p].key,
           proc[p].pc # "idle",
           proc'[p].pc \in Working => proc[p].pc \in Working,
           proc'[p].pc \in InPartition => proc[p].pc \in InPartition,
           proc'[p].pc = "reconciling" => proc[p].pc = "reconciling",
           proc'[p].pc \in {"planning", "starting"} => proc[p].pc \in {"planning", "starting"}
    PROVE  HoldsDay(p)' /\ LatestDay(p)' /\ OnlyLatestRuns'
<1>1. PICK d, k : d = proc[p].day /\ k = proc[p].key
  OBVIOUS
<1>2. /\ Intact(d)' <=> Intact(d)
      /\ Incomplete(d)' = Incomplete(d) /\ \A e \in Day : Started(e)' <=> Started(e)
      /\ Started(d)' <=> Started(d)
  BY DEF Intact, Incomplete, Keys, Started
<1>3. HoldsDay(p)'
  BY <1>1, <1>2 DEF HoldsDay
<1>4. LatestDay(p)'
  BY <1>1, <1>2 DEF LatestDay
<1> QED
  BY <1>2, <1>3, <1>4 DEF OnlyLatestRuns

LEMMA LockedStep ==
    ASSUME TypeOK, TypeOK', Rows, Memory, Locked, [Next]_vars
    PROVE  Locked'
<1> USE DEF envVars, dbVars
<1> SUFFICES ASSUME lockLosses' = 0
             PROVE  /\ \A p \in Process : HoldsDay(p)' /\ LatestDay(p)'
                    /\ OnlyLatestRuns'
  BY DEF Locked
<1>1. lockLosses = 0 /\ ~ \E p \in Process : LoseLock(p)
  <2>1. lockLosses \in Nat
    BY DiscoveryBounds DEF TypeOK
  <2>2. ~ \E p \in Process : LoseLock(p)
    BY <2>1 DEF LoseLock
  <2>3. lockLosses' = lockLosses
    BY <2>2, ZenonT(30) DEF Next, RunStep, TryProcessLock, ReleaseProcessLock, NextDay, Drift, Replan, TryDiscoveryLock, PendingDiscoveryCycle,
       PlanIT, StartDiscoveryCycle, NextDiscoveryPartition, SearchVacancies,
       SetDiscoveryExpectedPages, SaveDiscoveryPage, CompleteDiscoveryCycle,
       ReconcileDiscoveryStatuses, RunDaily, CleanupDiscoveryObservations, Abort,
       AnalyticsTick, vars
  <2> QED
    BY <2>2, <2>3
<1>2. /\ \A p \in Process : HoldsDay(p) /\ LatestDay(p)
      /\ OnlyLatestRuns
  BY <1>1 DEF Locked
<1>3. ASSUME UNCHANGED <<cycle, part, observed, lock, proc>>
      PROVE  /\ \A p \in Process : HoldsDay(p)' /\ LatestDay(p)'
             /\ OnlyLatestRuns'
  BY <1>2, <1>3 DEF HoldsDay, LatestDay, OnlyLatestRuns, Intact, Incomplete, Keys, Started
<1>4. ASSUME NEW p \in Process, proc[p].pc # "idle" \/ lock = NoProcess,
             NEW q \in Process \ {p}, Others(p)
      PROVE  HoldsDay(q)' /\ LatestDay(q)'
  <2>1. proc[q].pc = "idle"
    BY <1>2, <1>4, NoProcessAssumption DEF HoldsDay
  <2>2. proc'[q].pc = "idle"
    BY <1>4, <2>1 DEF Others
  <2> QED
    BY <2>2, PCSets DEF HoldsDay, LatestDay
<1>5. ASSUME NEW p \in Process, TryDiscoveryLock(p) \/ RunStep(p) \/ Abort(p)
      PROVE  /\ proc[p].pc # "idle" \/ lock = NoProcess
             /\ Others(p) /\ HoldsDay(p)' /\ LatestDay(p)' /\ OnlyLatestRuns'
  <2>1. HoldsDay(p) /\ LatestDay(p) /\ OnlyLatestRuns
    BY <1>2
  <2>2. ASSUME proc'[p].pc = "idle" PROVE HoldsDay(p)' /\ LatestDay(p)'
    BY <2>2, PCSets DEF HoldsDay, LatestDay
  <2>3. cycle' = cycle => OnlyLatestRuns'
    BY <2>1 DEF OnlyLatestRuns, Started
  <2>4. CASE TryDiscoveryLock(p)
    <3>1. Others(p) /\ proc'[p].pc = "locked" /\ lock = NoProcess /\ lock' = p /\ cycle' = cycle
      BY <2>4, LockEffect DEF TryDiscoveryLock
    <3> QED
      BY <2>3, <3>1, PCSets DEF HoldsDay, LatestDay
  <2>5. CASE PendingDiscoveryCycle(p)
    <3>1. PICK d : d = proc'[p].day
      OBVIOUS
    <3>2. /\ Others(p) /\ proc[p].pc = "locked" /\ proc'[p].pc = "planning"
          /\ d \in Day /\ d <= today
          /\ \/ d = today /\ \A e \in Day : cycle[e].status # "running"
             \/ cycle[d].status = "running"
      BY <2>5, <3>1, PendingEffect
    <3>3. UNCHANGED <<today, cycle, part, observed, lock, snapshots>>
      BY <2>5 DEF PendingDiscoveryCycle
    <3>4. RowsOfDay(d) /\ d \in Nat /\ today \in Nat /\ Retention \in Nat
      BY <3>2, Numbers DEF Rows, TypeOK
    <3>5. Intact(d)
      BY <3>2, <3>4 DEF RowsOfDay
    <3>6. \A e \in Day : Started(e) => e <= d
      BY <2>1, <3>2 DEF Rows, RowsOfDay, OnlyLatestRuns
    <3>7. Intact(d)' /\ \A e \in Day : Started(e)' <=> Started(e)
      BY <3>3, <3>5 DEF Intact, Keys, Started
    <3>8. HoldsDay(p)'
      BY <2>1, <3>1, <3>2, <3>3, <3>7, PCSets DEF HoldsDay
    <3>9. ~Started(d)' => \A e \in Day : cycle'[e].status # "running"
      BY <3>2, <3>3 DEF Started
    <3>10. LatestDay(p)'
      BY <3>1, <3>6, <3>7, <3>9 DEF LatestDay
    <3> QED
      BY <2>3, <3>2, <3>3, <3>8, <3>10
  <2>6. CASE PlanIT(p)
    <3>1. /\ Others(p) /\ proc[p].pc = "planning" /\ proc'[p].pc = "starting"
          /\ proc'[p].day = proc[p].day
      BY <2>6, PlanEffect
    <3>2. UNCHANGED <<cycle, part, observed, lock>>
      BY <2>6 DEF PlanIT
    <3>3. PICK d : d = proc[p].day
      OBVIOUS
    <3>4. /\ Intact(d)' <=> Intact(d)
          /\ \A e \in Day : Started(e)' <=> Started(e)
          /\ Started(d)' <=> Started(d)
      BY <3>2 DEF Intact, Keys, Started
    <3>5. HoldsDay(p)'
      BY <2>1, <3>1, <3>2, <3>3, <3>4, PCSets DEF HoldsDay
    <3>6. LatestDay(p)'
      BY <2>1, <3>1, <3>2, <3>3, <3>4, PCSets DEF LatestDay
    <3> QED
      BY <2>3, <3>1, <3>2, <3>5, <3>6
  <2>7. CASE StartDiscoveryCycle(p)
    <3>1. PICK d : d = proc[p].day
      OBVIOUS
    <3>2. /\ Others(p) /\ proc[p].pc = "starting" /\ proc'[p].pc = "picking"
          /\ proc'[p].day = d /\ d \in Day /\ lock' = lock
      BY <2>7, <3>1, StartEffect DEF Keeps, StartDiscoveryCycle
    <3>3. Intact(d)'
      <4>1. Intact(d)
        BY <2>1, <3>1, <3>2, PCSets DEF HoldsDay
      <4> QED
        BY <2>7, <3>1, <4>1, StartRows
    <3>4. HoldsDay(p)'
      BY <2>1, <3>2, <3>3, PCSets DEF HoldsDay
    <3>5. \A e \in Day : Started(e) => e <= d
      BY <2>1, <3>1, <3>2, PCSets DEF LatestDay
    <3>6. /\ \A e \in Day \ {d} : cycle'[e] = cycle[e]
          /\ Started(d) => cycle'[d] = cycle[d]
          /\ ~Started(d) => cycle'[d].status = "running"
      <4>1. Starts(p, d) /\ (~Started(d) => Initialises(p, d))
        BY <2>7, <3>1, StartEffect
      <4> QED
        BY <4>1, SMTT(30) DEF Starts, Initialises
    <3>7. d <= d
      BY <3>2, Numbers
    <3>8. \A e \in Day : Started(e)' => e <= d
      BY <3>5, <3>6, <3>7 DEF Started
    <3>9. LatestDay(p)'
      BY <3>2, <3>8 DEF LatestDay
    <3>10. OnlyLatestRuns'
      <4>1. CASE Started(d)
        BY <2>1, <3>6, <4>1 DEF OnlyLatestRuns, Started
      <4>2. CASE ~Started(d)
        <5>1. \A e \in Day : cycle[e].status # "running"
          BY <2>1, <3>1, <3>2, <4>2 DEF LatestDay
        <5> QED
          BY <3>6, <3>8, <5>1 DEF OnlyLatestRuns
      <4> QED
        BY <4>1, <4>2
    <3> QED
      BY <3>2, <3>4, <3>9, <3>10
  <2>8. CASE NextDiscoveryPartition(p)
    <3>1. PICK d : d = proc[p].day
      OBVIOUS
    <3>2. /\ Others(p) /\ proc[p].pc = "picking" /\ proc'[p].day = d
          /\ \/ proc'[p].pc = "completing"
             \/ proc'[p].pc = "searching" /\ proc'[p].key \in Incomplete(d)
      BY <2>8, <3>1, PickEffect
    <3>3. UNCHANGED <<cycle, part, observed, lock>>
      BY <2>8 DEF NextDiscoveryPartition
    <3>4. /\ Intact(d)' <=> Intact(d)
          /\ Incomplete(d)' = Incomplete(d) /\ \A e \in Day : Started(e)' <=> Started(e)
      BY <3>3 DEF Intact, Incomplete, Keys, Started
    <3>5. HoldsDay(p)'
      BY <2>1, <3>1, <3>2, <3>3, <3>4, PCSets DEF HoldsDay
    <3>6. LatestDay(p)'
      BY <2>1, <3>1, <3>2, <3>4, PCSets DEF LatestDay
    <3> QED
      BY <2>3, <3>2, <3>3, <3>5, <3>6
  <2>9. CASE SearchVacancies(p)
    <3>1. Others(p) /\ proc[p].pc = "searching" /\ UNCHANGED <<cycle, part, observed>>
      BY <2>9, SearchEffect DEF SearchVacancies
    <3>2. \/ proc'[p].pc = "idle"
          \/ /\ proc'[p].pc \in {"saving", "resizing"} /\ lock' = lock
             /\ proc'[p].day = proc[p].day /\ proc'[p].key = proc[p].key
      BY <2>9, SearchEffect DEF Keeps
    <3>3. CASE proc'[p].pc = "idle"
      BY <2>2, <2>3, <3>1, <3>3
    <3>4. CASE proc'[p].pc # "idle"
      <4>1. HoldsDay(p)' /\ LatestDay(p)' /\ OnlyLatestRuns'
        BY <2>1, <3>1, <3>2, <3>4, LockedFrame, PCSets
      <4> QED
        BY <3>1, <4>1
    <3> QED
      BY <3>3, <3>4
  <2>10. CASE SetDiscoveryExpectedPages(p)
    <3>1. PICK d, k, n : d = proc[p].day /\ k = proc[p].key /\ n = proc[p].expected
      OBVIOUS
    <3>2. /\ Others(p) /\ proc[p].pc = "resizing" /\ d \in Day /\ k \in Key
          /\ (part' = part /\ cycle' = cycle) \/ Resizes(d, k, n)
      BY <2>10, <3>1, ResizeEffect
    <3>2a. \/ /\ proc'[p].pc = IF n = 0 THEN "picking" ELSE "saving"
              /\ proc'[p].day = d /\ proc'[p].key = k /\ lock' = lock
           \/ proc'[p].pc = "idle"
      BY <2>10, <3>1, ResizeEffect DEF Keeps
    <3>3. Intact(d)' /\ \A e \in Day : cycle'[e].status = cycle[e].status
      <4>1. Intact(d)
        BY <2>1, <3>1, <3>2, PCSets DEF HoldsDay
      <4> QED
        BY <2>10, <3>1, <4>1, ResizeRows
    <3>4. k \in Incomplete(d)
      BY <2>1, <3>1, <3>2, PCSets DEF HoldsDay
    <3>5. n # 0 => k \in Incomplete(d)'
      BY <3>2, <3>4 DEF Incomplete, Keys, Resizes
    <3>6. HoldsDay(p)'
      BY <2>1, <2>2, <3>2, <3>2a, <3>3, <3>5, PCSets DEF HoldsDay
    <3>7. LatestDay(p)' /\ OnlyLatestRuns'
      BY <2>1, <2>2, <3>1, <3>2, <3>2a, <3>3, PCSets DEF LatestDay, OnlyLatestRuns, Started
    <3> QED
      BY <3>2, <3>6, <3>7
  <2>11. CASE SaveDiscoveryPage(p)
    <3>1. PICK d : d = proc[p].day
      OBVIOUS
    <3>2. Others(p) /\ proc[p].pc = "saving"
      BY <2>11, SaveEffect
    <3>3. \/ proc'[p].pc = "idle"
          \/ proc'[p].pc = "picking" /\ lock' = lock /\ proc'[p].day = d
      BY <2>11, <3>1, SaveEffect DEF Keeps
    <3>4. Intact(d)' /\ \A e \in Day : cycle'[e].status = cycle[e].status
      <4>1. Intact(d)
        BY <2>1, <3>1, <3>2, PCSets DEF HoldsDay
      <4> QED
        BY <2>11, <3>1, <4>1, SaveRows
    <3>5. OnlyLatestRuns'
      BY <2>1, <3>4 DEF OnlyLatestRuns, Started
    <3>6. CASE proc'[p].pc = "idle"
      BY <2>2, <3>2, <3>5, <3>6
    <3>7. CASE proc'[p].pc # "idle"
      <4>1. HoldsDay(p)'
        BY <2>1, <3>2, <3>3, <3>4, <3>7, PCSets DEF HoldsDay
      <4>2. LatestDay(p)'
        BY <2>1, <3>1, <3>2, <3>3, <3>4, <3>7, PCSets DEF LatestDay, Started
      <4> QED
        BY <3>2, <3>5, <4>1, <4>2
    <3> QED
      BY <3>6, <3>7
  <2>12. CASE CompleteDiscoveryCycle(p)
    <3>1. PICK d : d = proc[p].day
      OBVIOUS
    <3>2. Others(p) /\ proc[p].pc = "completing" /\ d \in Day /\ Started(d)
      BY <2>12, <3>1, CompleteEffect
    <3>3. \/ proc'[p].pc = "idle" /\ cycle' = cycle
          \/ /\ Incomplete(d) = {} /\ cycle'[d].status = "complete"
             /\ \A e \in Day \ {d} : cycle'[e] = cycle[e]
             /\ proc'[p].pc = "reconciling" /\ proc'[p].day = d /\ lock' = lock
      BY <2>12, <3>1, CompleteEffect DEF Keeps
    <3>4. CASE proc'[p].pc = "idle" /\ cycle' = cycle
      BY <2>2, <2>3, <3>2, <3>4
    <3>5. CASE proc'[p].pc # "idle"
      <4>1. UNCHANGED <<part, observed>>
        BY <2>12 DEF CompleteDiscoveryCycle
      <4>2. (Intact(d)' <=> Intact(d)) /\ Incomplete(d)' = Incomplete(d)
        BY <4>1 DEF Intact, Incomplete, Keys
      <4>3. HoldsDay(p)'
        BY <2>1, <3>1, <3>2, <3>3, <3>5, <4>2, PCSets DEF HoldsDay
      <4>4. \A e \in Day : /\ Started(e)' <=> Started(e)
                           /\ cycle'[e].status = "running" => cycle[e].status = "running"
        BY <3>2, <3>3, <3>5 DEF Started
      <4>5. LatestDay(p)'
        BY <2>1, <3>1, <3>2, <3>3, <3>5, <4>4, PCSets DEF LatestDay
      <4>6. OnlyLatestRuns'
        BY <2>1, <4>4 DEF OnlyLatestRuns
      <4> QED
        BY <3>2, <4>3, <4>5, <4>6
    <3> QED
      BY <3>3, <3>4, <3>5
  <2>13. CASE ReconcileDiscoveryStatuses(p)
    <3>1. /\ Others(p) /\ Keeps(p) /\ proc[p].pc = "reconciling" /\ proc'[p].pc = "snapshotting"
          /\ UNCHANGED <<cycle, part, observed, lock>>
      BY <2>13, ReconcileEffect DEF ReconcileDiscoveryStatuses
    <3>2. HoldsDay(p)' /\ LatestDay(p)' /\ OnlyLatestRuns'
      BY <2>1, <3>1, LockedFrame, PCSets DEF Keeps
    <3> QED
      BY <3>1, <3>2
  <2>14. CASE RunDaily(p)
    <3>1. /\ Others(p) /\ Keeps(p) /\ proc[p].pc = "snapshotting" /\ proc'[p].pc = "cleaning"
          /\ UNCHANGED <<cycle, part, observed, lock>>
      BY <2>14, DailyEffect DEF RunDaily
    <3>2. HoldsDay(p)' /\ LatestDay(p)' /\ OnlyLatestRuns'
      BY <2>1, <3>1, LockedFrame, PCSets DEF Keeps
    <3> QED
      BY <3>1, <3>2
  <2>15. CASE CleanupDiscoveryObservations(p) \/ Abort(p)
    <3>1. Others(p) /\ proc'[p].pc = "idle" /\ cycle' = cycle /\ proc[p].pc # "idle"
      BY <2>15, LeaveEffect DEF CleanupDiscoveryObservations, Abort
    <3> QED
      BY <2>2, <2>3, <3>1
  <2> QED
    BY <1>5, <2>4, <2>5, <2>6, <2>7, <2>8, <2>9, <2>10, <2>11, <2>12, <2>13, <2>14, <2>15
       DEF RunStep
<1>6. ASSUME NEW p \in Process, TryDiscoveryLock(p) \/ RunStep(p) \/ Abort(p)
      PROVE  /\ \A q \in Process : HoldsDay(q)' /\ LatestDay(q)'
             /\ OnlyLatestRuns'
  BY <1>4, <1>5, <1>6
<1>7. CASE TryProcessLock \/ ReleaseProcessLock
  <2>1. \A q \in Process : proc[q].pc = "idle"
    BY <1>2, <1>7, NoProcessAssumption DEF HoldsDay, TryProcessLock, ReleaseProcessLock
  <2>2. UNCHANGED <<cycle, proc>>
    BY <1>7 DEF TryProcessLock, ReleaseProcessLock
  <2>3. \A q \in Process : HoldsDay(q)' /\ LatestDay(q)'
    BY <2>1, <2>2, PCSets DEF HoldsDay, LatestDay
  <2> QED
    BY <1>2, <2>2, <2>3 DEF OnlyLatestRuns, Started
<1> QED
  BY <1>1, <1>3, <1>6, <1>7 DEF Next, NextDay, Drift, Replan, AnalyticsTick, vars

-----------------------------------------------------------------------------
(* The plan and the page counts while they do not change *)

LEMMA KeysStep ==
    ASSUME TypeOK, Rows, Memory, [Next]_vars, ~ \E p \in Process : StartDiscoveryCycle(p)
    PROVE  \A d \in Day : Keys(d)' = Keys(d) /\ (Started(d)' <=> Started(d))
<1> USE DEF envVars, dbVars
<1>1. ASSUME part' = part, \A d \in Day : cycle'[d].status = "none" <=> cycle[d].status = "none"
      PROVE  \A d \in Day : Keys(d)' = Keys(d) /\ (Started(d)' <=> Started(d))
  BY <1>1 DEF Keys, Started
<1>2. ASSUME NEW p \in Process, SetDiscoveryExpectedPages(p)
      PROVE  \A d \in Day : Keys(d)' = Keys(d) /\ (Started(d)' <=> Started(d))
  <2>1. PICK d, k, n : d = proc[p].day /\ k = proc[p].key /\ n = proc[p].expected
    OBVIOUS
  <2>2. /\ d \in Day /\ k \in Keys(d) /\ k \in Key
        /\ (part' = part /\ cycle' = cycle) \/ Resizes(d, k, n)
    BY <1>2, <2>1, ResizeEffect
  <2>3. CASE Resizes(d, k, n)
    <3>1. cycle'[d].status = cycle[d].status
      BY <2>2, <2>3, CycleFields DEF Resizes, Advance, Cycle
    <3>2. Keys(d)' = Keys(d)
      BY <2>2, <2>3 DEF Keys, Resizes
    <3> QED
      BY <2>3, <3>1, <3>2 DEF Keys, Started, Resizes
  <2> QED
    BY <1>1, <2>2, <2>3
<1>3. ASSUME NEW p \in Process, SaveDiscoveryPage(p)
      PROVE  \A d \in Day : Keys(d)' = Keys(d) /\ (Started(d)' <=> Started(d))
  <2>1. PICK d, k : d = proc[p].day /\ k = proc[p].key
    OBVIOUS
  <2>2. /\ d \in Day /\ k \in Keys(d) /\ k \in Key
        /\ (part' = part /\ cycle' = cycle) \/ Commits(p, d, k)
    BY <1>3, <2>1, SaveEffect
  <2>3. CASE Commits(p, d, k)
    <3>1. cycle'[d].status = cycle[d].status
      BY <2>2, <2>3, CycleFields DEF Commits, Advance, Cycle
    <3>2. Keys(d)' = Keys(d)
      BY <2>2, <2>3 DEF Keys, Commits
    <3> QED
      BY <2>3, <3>1, <3>2 DEF Keys, Started, Commits
  <2> QED
    BY <1>1, <2>2, <2>3
<1>4. ASSUME NEW p \in Process, CompleteDiscoveryCycle(p)
      PROVE  \A d \in Day : Keys(d)' = Keys(d) /\ (Started(d)' <=> Started(d))
  <2>1. PICK d : d = proc[p].day
    OBVIOUS
  <2>2. /\ d \in Day /\ Started(d) /\ part' = part
        /\ \/ cycle' = cycle
           \/ cycle'[d].status = "complete" /\ \A e \in Day \ {d} : cycle'[e] = cycle[e]
    BY <1>4, <2>1, CompleteEffect DEF CompleteDiscoveryCycle
  <2> QED
    BY <1>1, <2>2 DEF Started
<1>5. CASE part' = part /\ cycle' = cycle
  BY <1>1, <1>5
<1> QED
  BY <1>2, <1>3, <1>4, <1>5 DEF Next, RunStep, TryProcessLock, ReleaseProcessLock, NextDay, Drift, Replan, TryDiscoveryLock,
     PendingDiscoveryCycle, PlanIT, NextDiscoveryPartition, SearchVacancies,
     ReconcileDiscoveryStatuses, RunDaily, CleanupDiscoveryObservations, Abort, LoseLock,
     AnalyticsTick, vars

\* With an unchanged plan a day is created whole, and resumed as it was.
LEMMA StartKeys ==
    ASSUME TypeOK, TypeOK', Rows, Memory, PlanKept, replans = 0, NEW p \in Process,
           StartDiscoveryCycle(p), NEW d, d = proc[p].day
    PROVE  /\ d \in Day /\ proc[p].plan = catalog /\ Keys(d)' = catalog /\ Started(d)'
           /\ \A e \in Day \ {d} : part'[e] = part[e] /\ cycle'[e] = cycle[e]
           /\ Started(d) => part'[d] = part[d] /\ cycle'[d] = cycle[d]
           /\ ~Started(d) => \A k \in catalog : part'[d][k] = Planned(p, k)
<1>1. proc[p].pc = "starting" /\ d \in Day /\ Starts(p, d)
  BY StartEffect
<1>2. proc[p].plan = catalog /\ catalog \in SUBSET Key
  BY <1>1 DEF PlanKept, TypeOK
<1>3. \A k \in Key : part'[d][k] = IF k \in catalog /\ part[d][k].status = "absent"
                                   THEN Planned(p, k) ELSE part[d][k]
  BY <1>1, <1>2 DEF Starts
<1>4. /\ \A e \in Day \ {d} : part'[e] = part[e] /\ cycle'[e] = cycle[e]
      /\ Started(d) => cycle'[d] = cycle[d]
  BY <1>1 DEF Starts
<1>5. \A k \in Key : Planned(p, k).status # "absent"
  BY PlannedType
<1>6. Started(d)'
  BY StartStarts
<1>7. CASE Started(d)
  <2>1. Keys(d) = catalog
    BY <1>1, <1>7 DEF PlanKept
  <2>2. \A k \in Key : part'[d][k] = part[d][k]
    BY <1>3, <2>1 DEF Keys
  <2>3. part'[d] \in [Key -> Partition] /\ part[d] \in [Key -> Partition]
    BY <1>1 DEF TypeOK
  <2>4. part'[d] = part[d]
    BY <2>2, <2>3
  <2>5. Keys(d)' = Keys(d)
    BY <2>4 DEF Keys
  <2> QED
    BY <1>1, <1>2, <1>4, <1>6, <1>7, <2>1, <2>4, <2>5
<1>8. CASE ~Started(d)
  <2>1. Keys(d) = {}
    BY <1>1, <1>8 DEF Rows, RowsOfDay
  <2>2. \A k \in catalog : part'[d][k] = Planned(p, k)
    BY <1>2, <1>3, <2>1 DEF Keys
  <2>3. \A k \in Key \ catalog : part'[d][k].status = "absent"
    BY <1>3, <2>1 DEF Keys
  <2>4. Keys(d)' = catalog
    BY <1>2, <1>5, <2>2, <2>3 DEF Keys
  <2> QED
    BY <1>1, <1>2, <1>4, <1>6, <1>8, <2>2, <2>4
<1> QED
  BY <1>7, <1>8

LEMMA PlanKeptStep ==
    ASSUME TypeOK, TypeOK', Rows, Memory, PlanKept, [Next]_vars
    PROVE  PlanKept'
<1> USE DEF envVars, dbVars
<1> SUFFICES ASSUME replans' = 0
             PROVE  /\ \A d \in Day : Started(d)' => Keys(d)' = catalog'
                    /\ \A p \in Process : proc'[p].pc = "starting" => proc'[p].plan = catalog'
  BY DEF PlanKept
<1>1. replans = 0 /\ catalog' = catalog
  <2>1. replans \in Nat
    BY DiscoveryBounds DEF TypeOK
  <2>2. ~ \E S \in SUBSET Key : Replan(S)
    BY <2>1 DEF Replan
  <2>3. replans' = replans /\ catalog' = catalog
    BY <2>2, ZenonT(30) DEF Next, RunStep, TryProcessLock, ReleaseProcessLock, NextDay, Drift, TryDiscoveryLock, PendingDiscoveryCycle,
       PlanIT, StartDiscoveryCycle, NextDiscoveryPartition, SearchVacancies,
       SetDiscoveryExpectedPages, SaveDiscoveryPage, CompleteDiscoveryCycle,
       ReconcileDiscoveryStatuses, RunDaily, CleanupDiscoveryObservations, Abort, LoseLock,
       AnalyticsTick, vars
  <2> QED
    BY <2>3
<1>2. /\ \A d \in Day : Started(d) => Keys(d) = catalog
      /\ \A p \in Process : proc[p].pc = "starting" => proc[p].plan = catalog
  BY <1>1 DEF PlanKept
<1>3. \A d \in Day : Started(d)' => Keys(d)' = catalog
  <2>1. CASE \E p \in Process : StartDiscoveryCycle(p)
    <3>1. PICK p \in Process : StartDiscoveryCycle(p)
      BY <2>1
    <3>2. PICK d : d = proc[p].day
      OBVIOUS
    <3>3. /\ Keys(d)' = catalog
          /\ \A e \in Day \ {d} : part'[e] = part[e] /\ cycle'[e] = cycle[e]
      BY <1>1, <3>1, <3>2, StartKeys
    <3> QED
      BY <1>2, <3>3 DEF Keys, Started
  <2>2. CASE ~ \E p \in Process : StartDiscoveryCycle(p)
    BY <1>2, <2>2, KeysStep
  <2> QED
    BY <2>1, <2>2
<1>4. ASSUME NEW p \in Process, proc'[p].pc = "starting" PROVE proc'[p].plan = catalog
  <2>1. CASE PlanIT(p)
    BY <2>1, PlanEffect
  <2>2. CASE proc'[p] = proc[p]
    BY <1>2, <1>4, <2>2
  <2>3. ASSUME NEW q \in Process, \/ TryDiscoveryLock(q) \/ RunStep(q) \/ Abort(q) \/ LoseLock(q)
        PROVE  proc'[p] = proc[p] \/ PlanIT(p)
    <3>1. LoseLock(q) => proc' = proc
      BY DEF LoseLock
    <3>2. ~LoseLock(q) => Others(q) /\ (PlanIT(q) \/ proc'[q].pc # "starting")
      BY <2>3, LockEffect, PendingEffect, PlanEffect, StartEffect, PickEffect, SearchEffect,
         ResizeEffect, SaveEffect, CompleteEffect, ReconcileEffect, DailyEffect, CleanupEffect,
         LeaveEffect DEF RunStep, Abort
    <3> QED
      BY <1>4, <3>1, <3>2 DEF Others
  <2> QED
    BY <2>1, <2>2, <2>3 DEF Next, TryProcessLock, ReleaseProcessLock, NextDay, Drift, Replan, AnalyticsTick, vars
<1> QED
  BY <1>1, <1>3, <1>4

\* What the guards of the invariants say of a step
LEMMA GuardsStep ==
    ASSUME TypeOK, [Next]_vars
    PROVE  /\ replans' = 0 => replans = 0
           /\ lockLosses' = 0 => lockLosses = 0
           /\ drifts' = 0 => drifts = 0 /\ hhPages' = hhPages
<1> USE DEF envVars, dbVars
<1>1. replans \in Nat /\ lockLosses \in Nat /\ drifts \in Nat
  BY DiscoveryBounds DEF TypeOK
<1>2. \A k \in Key, n \in 0..MaxPages : Drift(k, n) =>
          drifts' # 0 /\ UNCHANGED <<replans, lockLosses>>
  BY <1>1 DEF Drift
<1>3. \A S \in SUBSET Key : Replan(S) =>
          replans' # 0 /\ UNCHANGED <<drifts, hhPages, lockLosses>>
  BY <1>1 DEF Replan
<1>4. \A p \in Process : LoseLock(p) =>
          lockLosses' # 0 /\ UNCHANGED <<drifts, hhPages, replans>>
  BY <1>1 DEF LoseLock
<1>5. \/ \E k \in Key, n \in 0..MaxPages : Drift(k, n)
      \/ \E S \in SUBSET Key : Replan(S)
      \/ \E p \in Process : LoseLock(p)
      \/ UNCHANGED <<drifts, hhPages, replans, lockLosses>>
  <2>1. \A p \in Process : TryDiscoveryLock(p) \/ RunStep(p) \/ Abort(p) =>
            UNCHANGED <<drifts, hhPages, replans, lockLosses>>
    BY ZenonT(30) DEF RunStep, TryDiscoveryLock, PendingDiscoveryCycle, PlanIT, StartDiscoveryCycle,
       NextDiscoveryPartition, SearchVacancies, SetDiscoveryExpectedPages, SaveDiscoveryPage,
       CompleteDiscoveryCycle, ReconcileDiscoveryStatuses, RunDaily,
       CleanupDiscoveryObservations, Abort
  <2>2. NextDay \/ TryProcessLock \/ ReleaseProcessLock
        \/ (\E d \in Day : AnalyticsTick(d)) \/ UNCHANGED vars =>
            UNCHANGED <<drifts, hhPages, replans, lockLosses>>
    BY DEF NextDay, TryProcessLock, ReleaseProcessLock, AnalyticsTick, vars
  <2> QED
    BY <2>1, <2>2 DEF Next
<1> QED
  BY <1>2, <1>3, <1>4, <1>5

LEMMA CompleteStaysStep ==
    ASSUME TypeOK, TypeOK', Rows, Memory, Locked, PlanKept, CompleteStays, [Next]_vars
    PROVE  CompleteStays'
<1> USE DEF envVars, dbVars
<1> SUFFICES ASSUME replans' = 0, lockLosses' = 0, NEW e \in Day, cycle'[e].status = "complete"
             PROVE  Incomplete(e)' = {}
  BY DEF CompleteStays
<1>1. replans = 0 /\ lockLosses = 0
  BY GuardsStep
<1>2. \A d \in Day : cycle[d].status = "complete" => Incomplete(d) = {}
  BY <1>1 DEF CompleteStays
<1>3. ASSUME part'[e] = part[e], cycle'[e].status = cycle[e].status PROVE Incomplete(e)' = {}
  <2>1. Incomplete(e)' = Incomplete(e)
    BY <1>3 DEF Incomplete, Keys
  <2> QED
    BY <1>2, <1>3, <2>1
<1>4. ASSUME NEW p \in Process, StartDiscoveryCycle(p) PROVE Incomplete(e)' = {}
  <2>1. PICK d : d = proc[p].day
    OBVIOUS
  <2>2. /\ \A x \in Day \ {d} : part'[x] = part[x] /\ cycle'[x] = cycle[x]
        /\ Started(d) => part'[d] = part[d] /\ cycle'[d] = cycle[d]
    BY <1>1, <1>4, <2>1, StartKeys
  <2>3. ~Started(d) => cycle'[d].status = "running"
    BY <1>4, <2>1, StartEffect DEF Initialises
  <2> QED
    BY <1>3, <2>2, <2>3
<1>5. ASSUME NEW p \in Process, SetDiscoveryExpectedPages(p) PROVE Incomplete(e)' = {}
  <2>1. PICK d, k, n : d = proc[p].day /\ k = proc[p].key /\ n = proc[p].expected
    OBVIOUS
  <2>2. /\ proc[p].pc = "resizing"
        /\ (part' = part /\ cycle' = cycle) \/ Resizes(d, k, n)
    BY <1>5, <2>1, ResizeEffect
  <2>3. k \in Incomplete(d)
    BY <1>1, <2>1, <2>2, PCSets DEF Locked, HoldsDay
  <2>4. cycle'[e].status = cycle[e].status
    BY <1>5, ResizeRows
  <2>5. e # d
    BY <1>2, <2>3, <2>4
  <2> QED
    BY <1>3, <2>2, <2>4, <2>5 DEF Resizes
<1>6. ASSUME NEW p \in Process, SaveDiscoveryPage(p) PROVE Incomplete(e)' = {}
  <2>1. PICK d, k : d = proc[p].day /\ k = proc[p].key
    OBVIOUS
  <2>2. k \in Keys(d) /\ ((part' = part /\ cycle' = cycle) \/ Commits(p, d, k))
    BY <1>6, <2>1, SaveEffect
  <2>3. cycle'[e].status = cycle[e].status
    BY <1>6, SaveRows
  <2>4. CASE Commits(p, d, k)
    <3>1. k \in Incomplete(d)
      BY <2>2, <2>4 DEF Incomplete, Commits
    <3>2. e # d
      BY <1>2, <2>3, <3>1
    <3> QED
      BY <1>3, <2>3, <2>4, <3>2 DEF Commits
  <2> QED
    BY <1>3, <2>2, <2>3, <2>4
<1>7. ASSUME NEW p \in Process, CompleteDiscoveryCycle(p) PROVE Incomplete(e)' = {}
  <2>1. PICK d : d = proc[p].day
    OBVIOUS
  <2>2. /\ part' = part
        /\ \/ cycle' = cycle
           \/ Incomplete(d) = {} /\ \A x \in Day \ {d} : cycle'[x] = cycle[x]
    BY <1>7, <2>1, CompleteEffect DEF CompleteDiscoveryCycle
  <2>3. Incomplete(d)' = Incomplete(d)
    BY <2>2 DEF Incomplete, Keys
  <2> QED
    BY <1>3, <2>2, <2>3
<1>8. CASE part' = part /\ cycle' = cycle
  BY <1>3, <1>8
<1> QED
  BY <1>4, <1>5, <1>6, <1>7, <1>8 DEF Next, RunStep, TryProcessLock, ReleaseProcessLock, NextDay, Drift, Replan, TryDiscoveryLock,
     PendingDiscoveryCycle, PlanIT, NextDiscoveryPartition, SearchVacancies,
     ReconcileDiscoveryStatuses, RunDaily, CleanupDiscoveryObservations, Abort, LoseLock,
     AnalyticsTick, vars

\* What PagesKept asks of one process
Agrees(p) ==
    /\ proc[p].pc = "starting" =>
          \A k \in proc[p].plan : proc[p].found[k] = 0 => hhPages[k] = 0
    /\ proc[p].pc = "resizing" => proc[p].expected = hhPages[proc[p].key]

LEMMA PagesKeptStep ==
    ASSUME TypeOK, TypeOK', Rows, Memory, PagesKept, [Next]_vars
    PROVE  PagesKept'
<1> USE DEF envVars, dbVars
<1> SUFFICES ASSUME drifts' = 0
             PROVE  /\ \A d \in Day : \A k \in Keys(d)' :
                          part'[d][k].expected = 0 => hhPages'[k] = 0
                    /\ \A p \in Process : Agrees(p)'
  BY DEF PagesKept, Agrees
<1>1. drifts = 0 /\ hhPages' = hhPages
  BY GuardsStep
<1>2. /\ \A d \in Day : \A k \in Keys(d) : part[d][k].expected = 0 => hhPages[k] = 0
      /\ \A p \in Process : Agrees(p)
  BY <1>1 DEF PagesKept, Agrees
<1>3. ASSUME NEW d \in Day, NEW k \in Keys(d)', part'[d][k].expected = 0 PROVE hhPages[k] = 0
  <2>1. k \in Key
    BY DEF Keys
  <2>2. CASE part'[d][k] = part[d][k]
    BY <1>2, <1>3, <2>1, <2>2 DEF Keys
  <2>3. ASSUME NEW p \in Process, StartDiscoveryCycle(p)
        PROVE  part'[d][k] = part[d][k] \/ hhPages[k] = 0
    <3>1. PICK x : x = proc[p].day
      OBVIOUS
    <3>2. proc[p].pc = "starting" /\ Starts(p, x)
      BY <2>3, <3>1, StartEffect
    <3>3. \A j \in proc[p].plan : proc[p].found[j] = 0 => hhPages[j] = 0
      BY <1>2, <3>2 DEF Agrees
    <3>4. Planned(p, k).expected = proc[p].found[k]
      BY <2>1, PlannedType
    <3>5. \/ part'[d][k] = part[d][k]
          \/ part'[d][k] = Planned(p, k) /\ k \in proc[p].plan
      <4>1. CASE d = x
        BY <2>1, <3>2, <4>1 DEF Starts
      <4>2. CASE d # x
        BY <3>2, <4>2 DEF Starts
      <4> QED
        BY <4>1, <4>2
    <3> QED
      BY <1>3, <3>3, <3>4, <3>5
  <2>4. ASSUME NEW p \in Process, SetDiscoveryExpectedPages(p)
        PROVE  part'[d][k] = part[d][k] \/ hhPages[k] = 0
    <3>1. PICK x, y, n : x = proc[p].day /\ y = proc[p].key /\ n = proc[p].expected
      OBVIOUS
    <3>2. proc[p].pc = "resizing" /\ (part' = part \/ Resizes(x, y, n))
      BY <2>4, <3>1, ResizeEffect
    <3>3. n = hhPages[y]
      BY <1>2, <3>1, <3>2 DEF Agrees
    <3>4. part'[d][k] = part[d][k] \/ (d = x /\ k = y /\ part'[d][k].expected = n)
      BY <2>1, <3>2 DEF Resizes
    <3> QED
      BY <1>3, <3>3, <3>4
  <2>5. ASSUME NEW p \in Process, SaveDiscoveryPage(p), part'[d][k] # part[d][k]
        PROVE  hhPages[k] = 0
    <3>1. PICK x, y : x = proc[p].day /\ y = proc[p].key
      OBVIOUS
    <3>2. y \in Keys(x) /\ y \in Key /\ x \in Day /\ (part' = part \/ Commits(p, x, y))
      BY <2>5, <3>1, SaveEffect
    <3>3. x = d /\ y = k /\ part'[x][y].expected = part[x][y].expected
      BY <2>1, <2>5, <3>2 DEF Commits
    <3> QED
      BY <1>2, <1>3, <3>2, <3>3
  <2> QED
    BY <2>2, <2>3, <2>4, <2>5 DEF Next, RunStep, TryProcessLock, ReleaseProcessLock, NextDay,
       Drift, Replan, TryDiscoveryLock, PendingDiscoveryCycle, PlanIT, NextDiscoveryPartition,
       SearchVacancies, CompleteDiscoveryCycle, ReconcileDiscoveryStatuses, RunDaily,
       CleanupDiscoveryObservations, Abort, LoseLock, AnalyticsTick, vars
<1>4. ASSUME NEW p \in Process, proc'[p] = proc[p] PROVE Agrees(p)'
  BY <1>1, <1>2, <1>4 DEF Agrees
<1>5. ASSUME NEW p \in Process, \/ TryDiscoveryLock(p) \/ RunStep(p) \/ Abort(p) \/ LoseLock(p)
      PROVE  (Others(p) /\ Agrees(p)') \/ proc' = proc
  <2>1. ASSUME Others(p), proc'[p].pc \notin {"starting", "resizing"}
        PROVE  Others(p) /\ Agrees(p)'
    BY <2>1 DEF Agrees
  <2>2. CASE PlanIT(p)
    BY <1>1, <2>2, PlanEffect DEF Agrees
  <2>3. CASE SearchVacancies(p)
    <3>1. Others(p) /\ proc'[p].pc # "starting"
      BY <2>3, SearchEffect
    <3>2. proc'[p].pc = "resizing" =>
             proc'[p].expected = hhPages[proc[p].key] /\ proc'[p].key = proc[p].key
      BY <2>3, SearchEffect DEF Keeps
    <3> QED
      BY <1>1, <3>1, <3>2 DEF Agrees
  <2>4. CASE \/ TryDiscoveryLock(p) \/ PendingDiscoveryCycle(p) \/ StartDiscoveryCycle(p)
             \/ NextDiscoveryPartition(p) \/ SetDiscoveryExpectedPages(p)
             \/ SaveDiscoveryPage(p) \/ CompleteDiscoveryCycle(p) \/ ReconcileDiscoveryStatuses(p)
             \/ RunDaily(p) \/ CleanupDiscoveryObservations(p) \/ Abort(p)
    <3>1. Others(p) /\ proc'[p].pc \in {"locked", "planning", "picking", "searching", "saving",
                             "completing", "idle", "reconciling", "snapshotting", "cleaning"}
      BY <2>4, LockEffect, PendingEffect, StartEffect, PickEffect, ResizeEffect, SaveEffect,
         CompleteEffect, ReconcileEffect, DailyEffect, CleanupEffect, LeaveEffect DEF Abort
    <3> QED
      BY <2>1, <3>1
  <2>5. CASE LoseLock(p)
    BY <2>5 DEF LoseLock
  <2> QED
    BY <1>5, <2>2, <2>3, <2>4, <2>5 DEF RunStep
<1>6. \A p \in Process : Agrees(p)'
  <2>1. ASSUME NEW p \in Process, Others(p), Agrees(p)' PROVE \A q \in Process : Agrees(q)'
    BY <1>4, <2>1 DEF Others
  <2>2. CASE proc' = proc
    BY <1>4, <2>2
  <2> QED
    BY <1>5, <2>1, <2>2 DEF Next, TryProcessLock, ReleaseProcessLock, NextDay, Drift, Replan,
       AnalyticsTick, vars
<1> QED
  BY <1>1, <1>3, <1>6

-----------------------------------------------------------------------------
(* The counters of a cycle *)

Expected(d)  == [k \in Key |-> part[d][k].expected]
Committed(d) == [k \in Key |-> part[d][k].next]

\* What CountersExact asks of one day
CountersOf(d) ==
    /\ cycle[d].partitions = Cardinality(Keys(d))
    /\ cycle[d].completedPartitions = Cardinality(Keys(d) \ Incomplete(d))
    /\ cycle[d].expectedPages = SumFunctionOnSet(Expected(d), Keys(d))
    /\ cycle[d].completedPages = SumFunctionOnSet(Committed(d), Keys(d))

LEMMA CountersSame ==
    ASSUME NEW d \in Day, CountersOf(d), cycle'[d] = cycle[d], part'[d] = part[d]
    PROVE  CountersOf(d)'
<1>1. /\ Keys(d)' = Keys(d) /\ Incomplete(d)' = Incomplete(d)
      /\ Expected(d)' = Expected(d) /\ Committed(d)' = Committed(d)
  BY DEF Keys, Incomplete, Expected, Committed
<1> QED
  BY <1>1 DEF CountersOf

\* One incomplete partition changes and the counters move with it.
LEMMA CountersMove ==
    ASSUME TypeOK, TypeOK', NEW d \in Day, NEW k \in Incomplete(d), CountersOf(d),
           part'[d][k].status # "absent",
           \A j \in Key \ {k} : part'[d][j] = part[d][j],
           cycle'[d].partitions = cycle[d].partitions,
           cycle'[d].completedPartitions = cycle[d].completedPartitions +
                 (IF part'[d][k].status = "complete" THEN 1 ELSE 0),
           cycle'[d].expectedPages = cycle[d].expectedPages + (part'[d][k].expected - part[d][k].expected),
           cycle'[d].completedPages = cycle[d].completedPages + (part'[d][k].next - part[d][k].next)
    PROVE  CountersOf(d)'
<1>1. k \in Keys(d) /\ k \in Key /\ part[d][k].status # "complete" /\ Keys(d) \subseteq Key
  BY DEF Incomplete, Keys
<1>2. Keys(d)' = Keys(d)
  BY <1>1 DEF Keys
<1>3. IsFiniteSet(Keys(d)) /\ IsFiniteSet(Keys(d) \ Incomplete(d))
  BY <1>1, Numbers, FS_Subset
<1>4. /\ \A j \in Key : part[d][j] \in Partition /\ part'[d][j] \in Partition
  BY DEF TypeOK
<1>5. \A j \in Key : /\ part[d][j].expected \in Int /\ part[d][j].next \in Int
                     /\ part'[d][j].expected \in Int /\ part'[d][j].next \in Int
  BY <1>4, Numbers DEF Partition
<1>6. /\ \A j \in Key : Expected(d)[j] = part[d][j].expected /\ Committed(d)[j] = part[d][j].next
      /\ \A j \in Key : /\ Expected(d)'[j] = part'[d][j].expected
                        /\ Committed(d)'[j] = part'[d][j].next
  BY DEF Expected, Committed
<1>7. PICK f, g : f = Expected(d) /\ g = Expected(d)'
  OBVIOUS
<1>8. PICK u, v : u = Committed(d) /\ v = Committed(d)'
  OBVIOUS
<1>9. /\ \A j \in Keys(d) : f[j] \in Int /\ g[j] \in Int /\ u[j] \in Int /\ v[j] \in Int
      /\ \A j \in Keys(d) \ {k} : f[j] = g[j] /\ u[j] = v[j]
      /\ g[k] - f[k] = part'[d][k].expected - part[d][k].expected
      /\ v[k] - u[k] = part'[d][k].next - part[d][k].next
  BY <1>1, <1>5, <1>6, <1>7, <1>8
<1>10. SumFunctionOnSet(g, Keys(d)) = SumFunctionOnSet(f, Keys(d)) + (g[k] - f[k])
  BY <1>1, <1>3, <1>9, SumUpdate
<1>11. SumFunctionOnSet(v, Keys(d)) = SumFunctionOnSet(u, Keys(d)) + (v[k] - u[k])
  BY <1>1, <1>3, <1>9, SumUpdate
<1>12. cycle'[d].expectedPages = SumFunctionOnSet(Expected(d)', Keys(d)')
  BY <1>2, <1>7, <1>9, <1>10 DEF CountersOf
<1>13. cycle'[d].completedPages = SumFunctionOnSet(Committed(d)', Keys(d)')
  BY <1>2, <1>8, <1>9, <1>11 DEF CountersOf
<1>14. cycle'[d].completedPartitions = Cardinality(Keys(d)' \ Incomplete(d)')
  <2>1. CASE part'[d][k].status = "complete"
    <3>1. Keys(d)' \ Incomplete(d)' = (Keys(d) \ Incomplete(d)) \cup {k}
      BY <1>1, <1>2, <2>1 DEF Incomplete, Keys
    <3>2. k \notin Keys(d) \ Incomplete(d)
      OBVIOUS
    <3>3. Cardinality((Keys(d) \ Incomplete(d)) \cup {k}) = Cardinality(Keys(d) \ Incomplete(d)) + 1
      BY <1>3, <3>2, FS_AddElement
    <3> QED
      BY <2>1, <3>1, <3>3 DEF CountersOf
  <2>2. CASE part'[d][k].status # "complete"
    <3>1. Keys(d)' \ Incomplete(d)' = Keys(d) \ Incomplete(d)
      BY <1>1, <1>2, <2>2 DEF Incomplete, Keys
    <3>2. Cardinality(Keys(d) \ Incomplete(d)) \in Nat
      BY <1>3, FS_CardinalityType
    <3>3. cycle'[d].completedPartitions = Cardinality(Keys(d) \ Incomplete(d)) + 0
      BY <2>2 DEF CountersOf
    <3>4. PICK c : c = Cardinality(Keys(d) \ Incomplete(d))
      OBVIOUS
    <3>5. Cardinality(Keys(d)' \ Incomplete(d)') = c
      BY <3>1, <3>4
    <3>6. c \in Nat /\ cycle'[d].completedPartitions = c + 0
      BY <3>2, <3>3, <3>4
    <3>7. cycle'[d].completedPartitions = c
      BY <3>6
    <3> QED
      BY <3>5, <3>7
  <2> QED
    BY <2>1, <2>2
<1>15. cycle'[d].partitions = Cardinality(Keys(d)')
  BY <1>2 DEF CountersOf
<1> QED
  BY <1>12, <1>13, <1>14, <1>15 DEF CountersOf

\* A new cycle starts with the counters of its plan.
LEMMA CountersStart ==
    ASSUME TypeOK, TypeOK', Rows, Memory, PlanKept, replans = 0, NEW p \in Process,
           StartDiscoveryCycle(p), NEW d, d = proc[p].day, ~Started(d)
    PROVE  CountersOf(d)'
<1>1. /\ d \in Day /\ proc[p].plan = catalog /\ Keys(d)' = catalog
      /\ \A k \in catalog : part'[d][k] = Planned(p, k)
  BY StartKeys
<1>2. Initialises(p, d)
  BY StartEffect
<1>3. catalog \subseteq Key /\ IsFiniteSet(catalog)
  BY Numbers, FS_Subset DEF TypeOK
<1>4. PICK found : found = proc[p].found
  OBVIOUS
<1>5. \A k \in catalog : /\ part'[d][k].next = 0 /\ part'[d][k].expected = found[k]
                         /\ part'[d][k].status = IF found[k] = 0 THEN "complete" ELSE "pending"
  BY <1>1, <1>3, <1>4, PlannedType
<1>6. Keys(d)' \ Incomplete(d)' = {k \in catalog : found[k] = 0}
  BY <1>1, <1>5 DEF Incomplete
<1>7. PICK f, g : f = Expected(d)' /\ g = Committed(d)'
  OBVIOUS
<1>8. \A k \in catalog : f[k] = found[k] /\ g[k] = 0
  BY <1>3, <1>5, <1>7 DEF Expected, Committed
<1>9. SumFunctionOnSet(f, catalog) = SumFunctionOnSet(found, catalog)
  BY <1>3, <1>8, SumSame
<1>10. SumFunctionOnSet(g, catalog) = 0
  BY <1>3, <1>8, SumZero
<1>11. /\ cycle'[d].partitions = Cardinality(catalog)
       /\ cycle'[d].completedPartitions = Cardinality({k \in catalog : found[k] = 0})
       /\ cycle'[d].expectedPages = SumFunctionOnSet(found, catalog)
       /\ cycle'[d].completedPages = 0
  BY <1>1, <1>2, <1>4 DEF Initialises
<1> QED
  BY <1>1, <1>6, <1>7, <1>9, <1>10, <1>11 DEF CountersOf

LEMMA CountersStep ==
    ASSUME TypeOK, TypeOK', Rows, Memory, Locked, PlanKept, PagesKept, CountersExact, [Next]_vars
    PROVE  CountersExact'
<1> USE DEF envVars, dbVars
<1> SUFFICES ASSUME replans' = 0, lockLosses' = 0 \/ drifts' = 0, NEW e \in Day,
                    cycle'[e].status = "running"
             PROVE  CountersOf(e)'
  BY DEF CountersExact, CountersOf, Expected, Committed
<1>1. replans = 0 /\ (lockLosses = 0 \/ drifts = 0)
  BY GuardsStep
<1>2. \A d \in Day : cycle[d].status = "running" => CountersOf(d)
  BY <1>1 DEF CountersExact, CountersOf, Expected, Committed
<1>3. ASSUME part'[e] = part[e], cycle'[e] = cycle[e] PROVE CountersOf(e)'
  BY <1>2, <1>3, CountersSame
<1>4. ASSUME NEW p \in Process, StartDiscoveryCycle(p) PROVE CountersOf(e)'
  <2>1. PICK d : d = proc[p].day
    OBVIOUS
  <2>2. /\ \A x \in Day \ {d} : part'[x] = part[x] /\ cycle'[x] = cycle[x]
        /\ Started(d) => part'[d] = part[d] /\ cycle'[d] = cycle[d]
    BY <1>1, <1>4, <2>1, StartKeys
  <2>3. ~Started(d) => CountersOf(d)'
    BY <1>1, <1>4, <2>1, CountersStart
  <2> QED
    BY <1>3, <2>2, <2>3
<1>5. ASSUME NEW p \in Process, SetDiscoveryExpectedPages(p) PROVE CountersOf(e)'
  <2>1. PICK d, k, n : d = proc[p].day /\ k = proc[p].key /\ n = proc[p].expected
    OBVIOUS
  <2>2. /\ proc[p].pc = "resizing" /\ d \in Day /\ n \in 0..MaxPages
        /\ (part' = part /\ cycle' = cycle) \/ Resizes(d, k, n)
    BY <1>5, <2>1, ResizeEffect
  <2>3. CASE Resizes(d, k, n) /\ e = d
    <3>1. k \in Incomplete(d)
      <4>1. CASE lockLosses = 0
        BY <2>1, <2>2, <4>1, PCSets DEF Locked, HoldsDay
      <4>2. CASE drifts = 0
        <5>1. k \in Keys(d) /\ k \in Key
          BY <1>5, <2>1, ResizeEffect
        <5>2. n = hhPages[k] /\ (part[d][k].expected = 0 => hhPages[k] = 0)
          BY <2>1, <2>2, <4>2, <5>1 DEF PagesKept
        <5>3. part[d][k].next = 0 /\ part[d][k].expected # n
          BY <2>3 DEF Resizes
        <5>4. part[d][k].status = "complete" => part[d][k].next = part[d][k].expected
          BY <2>2, <5>1 DEF Rows, RowsOfDay
        <5> QED
          BY <5>1, <5>2, <5>3, <5>4 DEF Incomplete
      <4> QED
        BY <1>1, <4>1, <4>2
    <3>2. k \in Key /\ part[d][k].expected \in Nat /\ n \in Nat
      BY <2>2, <3>1, PartFields, Numbers DEF Incomplete, Keys
    <3>3. cycle'[d].status = cycle[d].status
      BY <1>5, <2>2, ResizeRows
    <3>4. /\ cycle[d] \in Cycle /\ n - part[d][k].expected \in Int
          /\ (IF n = 0 THEN 1 ELSE 0) \in Int /\ 0 \in Nat
      BY <2>2, <3>2, CycleFields
    <3>5. cycle'[d] = Advance(cycle[d], n - part[d][k].expected, 0, IF n = 0 THEN 1 ELSE 0)
      BY <2>3 DEF Resizes
    <3>6. /\ cycle'[d].partitions = cycle[d].partitions
          /\ cycle'[d].expectedPages = cycle[d].expectedPages + (n - part[d][k].expected)
          /\ cycle'[d].completedPages = cycle[d].completedPages + 0
          /\ cycle'[d].completedPartitions = cycle[d].completedPartitions + (IF n = 0 THEN 1 ELSE 0)
      <4>1. cycle[d].status = "running"
        BY <2>3, <3>3
      <4>2. cycle'[d] = [cycle[d] EXCEPT !.expectedPages = @ + (n - part[d][k].expected),
                                         !.completedPages = @ + 0,
                                         !.completedPartitions = @ + (IF n = 0 THEN 1 ELSE 0)]
        BY <3>5, <4>1 DEF Advance
      <4> QED
        BY <3>4, <4>2 DEF Cycle
    <3>7. /\ part'[d][k].expected = n /\ part'[d][k].next = 0 /\ part[d][k].next = 0
          /\ part'[d][k].status = IF n = 0 THEN "complete" ELSE "pending"
          /\ \A j \in Key \ {k} : part'[d][j] = part[d][j]
      BY <2>3 DEF Resizes
    <3>8. CountersOf(d)
      BY <1>2, <2>2, <2>3, <3>3
    <3>9. /\ cycle'[d].completedPartitions = cycle[d].completedPartitions +
                (IF part'[d][k].status = "complete" THEN 1 ELSE 0)
          /\ cycle'[d].completedPages = cycle[d].completedPages + (part'[d][k].next - part[d][k].next)
      BY <3>6, <3>7
    <3> QED
      BY <2>2, <2>3, <3>1, <3>6, <3>7, <3>8, <3>9, CountersMove
  <2>4. CASE Resizes(d, k, n) /\ e # d
    BY <1>3, <2>4 DEF Resizes
  <2> QED
    BY <1>3, <2>2, <2>3, <2>4
<1>6. ASSUME NEW p \in Process, SaveDiscoveryPage(p) PROVE CountersOf(e)'
  <2>1. PICK d, k : d = proc[p].day /\ k = proc[p].key
    OBVIOUS
  <2>2. /\ d \in Day /\ k \in Keys(d) /\ k \in Key
        /\ (part' = part /\ cycle' = cycle) \/ Commits(p, d, k)
    BY <1>6, <2>1, SaveEffect
  <2>3. CASE Commits(p, d, k) /\ e = d
    <3>1. k \in Incomplete(d)
      BY <2>2, <2>3 DEF Incomplete, Commits
    <3>2. part[d][k].next \in Nat /\ part[d][k].expected \in Nat
      BY <2>2, PartFields
    <3>3. cycle'[d].status = cycle[d].status
      BY <1>6, <2>2, SaveRows
    <3>4. PICK one : one = IF proc[p].next + 1 = part[d][k].expected THEN 1 ELSE 0
      OBVIOUS
    <3>5. cycle[d] \in Cycle /\ one \in Int /\ 0 \in Int /\ 1 \in Nat
      BY <2>2, <3>4, CycleFields
    <3>6. cycle'[d] = Advance(cycle[d], 0, 1, one)
      BY <2>3, <3>4 DEF Commits
    <3>7. /\ cycle'[d].partitions = cycle[d].partitions
          /\ cycle'[d].expectedPages = cycle[d].expectedPages + 0
          /\ cycle'[d].completedPages = cycle[d].completedPages + 1
          /\ cycle'[d].completedPartitions = cycle[d].completedPartitions + one
      <4>1. cycle[d].status = "running"
        BY <2>3, <3>3
      <4>2. cycle'[d] = [cycle[d] EXCEPT !.expectedPages = @ + 0, !.completedPages = @ + 1,
                                         !.completedPartitions = @ + one]
        BY <3>6, <4>1 DEF Advance
      <4> QED
        BY <3>5, <4>2 DEF Cycle
    <3>8. /\ part'[d][k].expected = part[d][k].expected
          /\ part'[d][k].next = part[d][k].next + 1
          /\ part'[d][k].status = IF one = 1 THEN "complete" ELSE "running"
          /\ \A j \in Key \ {k} : part'[d][j] = part[d][j]
      BY <2>3, <3>4 DEF Commits
    <3>9. CountersOf(d)
      BY <1>2, <2>2, <2>3, <3>3
    <3>10. /\ cycle'[d].completedPartitions = cycle[d].completedPartitions +
                (IF part'[d][k].status = "complete" THEN 1 ELSE 0)
           /\ cycle'[d].completedPages = cycle[d].completedPages + (part'[d][k].next - part[d][k].next)
           /\ cycle'[d].expectedPages =
                 cycle[d].expectedPages + (part'[d][k].expected - part[d][k].expected)
           /\ part'[d][k].status # "absent"
      BY <3>2, <3>4, <3>7, <3>8
    <3> QED
      BY <2>2, <2>3, <3>1, <3>7, <3>8, <3>9, <3>10, CountersMove
  <2>4. CASE Commits(p, d, k) /\ e # d
    BY <1>3, <2>4 DEF Commits
  <2> QED
    BY <1>3, <2>2, <2>3, <2>4
<1>7. ASSUME NEW p \in Process, CompleteDiscoveryCycle(p) PROVE CountersOf(e)'
  <2>1. PICK d : d = proc[p].day
    OBVIOUS
  <2>2. /\ part' = part
        /\ \/ cycle' = cycle
           \/ cycle'[d].status = "complete" /\ \A x \in Day \ {d} : cycle'[x] = cycle[x]
    BY <1>7, <2>1, CompleteEffect DEF CompleteDiscoveryCycle
  <2> QED
    BY <1>3, <2>2
<1>8. CASE part' = part /\ cycle' = cycle
  BY <1>3, <1>8
<1> QED
  BY <1>4, <1>5, <1>6, <1>7, <1>8 DEF Next, RunStep, TryProcessLock, ReleaseProcessLock, NextDay, Drift, Replan, TryDiscoveryLock,
     PendingDiscoveryCycle, PlanIT, NextDiscoveryPartition, SearchVacancies,
     ReconcileDiscoveryStatuses, RunDaily, CleanupDiscoveryObservations, Abort, LoseLock,
     AnalyticsTick, vars

-----------------------------------------------------------------------------
(* The theorems *)

DiscoveryInv ==
    /\ TypeOK /\ Rows /\ Memory
    /\ Locked /\ PlanKept /\ CompleteStays /\ PagesKept /\ CountersExact

LEMMA InitInv == Init => DiscoveryInv
<1> SUFFICES ASSUME Init PROVE DiscoveryInv
  OBVIOUS
<1>1. TypeOK
  <2>1. NoCycle \in Cycle /\ NoPartition \in Partition /\ Idle \in Run
    BY Numbers, IdleType DEF NoCycle, Cycle, NoPartition, Partition
  <2>2. 0 \in 0..MaxDrifts /\ 0 \in 0..MaxReplans /\ 0 \in 0..MaxFaults /\ 0 \in 0..MaxLockLosses
    BY DiscoveryBounds
  <2> QED
    BY <2>1, <2>2, Numbers DEF Init, TypeOK
<1>2. /\ \A p \in Process : proc[p].pc = "idle"
      /\ \A d \in Day : cycle[d].status = "none"
      /\ \A d \in Day : \A k \in Key : /\ part[d][k].status = "absent"
                                       /\ part[d][k].next = 0 /\ part[d][k].expected = 0
  BY IdleType DEF Init, NoCycle, NoPartition
<1>3. \A d \in Day : Keys(d) = {} /\ ~Started(d) /\ Intact(d)
  BY <1>2 DEF Keys, Started, Intact
<1>4. Rows
  BY <1>2, <1>3 DEF Rows, RowsOfDay, Init
<1>5. Memory
  BY <1>2, PCSets DEF Memory, Remembers
<1>6. Locked
  BY <1>2, <1>3, PCSets DEF Locked, HoldsDay, LatestDay, OnlyLatestRuns
<1>7. PlanKept /\ CompleteStays /\ PagesKept /\ CountersExact
  BY <1>2, <1>3, PCSets DEF PlanKept, CompleteStays, PagesKept, CountersExact
<1> QED
  BY <1>1, <1>4, <1>5, <1>6, <1>7 DEF DiscoveryInv

LEMMA NextInv == DiscoveryInv /\ [Next]_vars => DiscoveryInv'
<1> SUFFICES ASSUME DiscoveryInv, [Next]_vars PROVE DiscoveryInv'
  OBVIOUS
<1>1. TypeOK /\ Rows /\ Memory /\ Locked /\ PlanKept /\ CompleteStays /\ PagesKept /\ CountersExact
  BY DEF DiscoveryInv
<1>2. TypeOK'
  BY <1>1, TypeStep
<1>3. RowsGrow /\ Rows'
  BY <1>1, <1>2, RowsStep
<1>4. Memory'
  BY <1>1, <1>2, <1>3, MemoryStep
<1>5. Locked'
  BY <1>1, <1>2, LockedStep
<1>6. PlanKept'
  BY <1>1, <1>2, PlanKeptStep
<1>7. CompleteStays'
  BY <1>1, <1>2, CompleteStaysStep
<1>8. PagesKept'
  BY <1>1, <1>2, PagesKeptStep
<1>9. CountersExact'
  BY <1>1, <1>2, CountersStep
<1> QED
  BY <1>2, <1>3, <1>4, <1>5, <1>6, <1>7, <1>8, <1>9 DEF DiscoveryInv

\* The inductive invariant of the discovery: rows that agree with each other,
\* what a process remembers of them, what the lock, an unchanged plan and
\* unchanged page counts add to it.
THEOREM DiscoveryInvariant == Spec => []DiscoveryInv
<1>1. Init => DiscoveryInv
  BY InitInv
<1>2. DiscoveryInv /\ [Next]_vars => DiscoveryInv'
  BY NextInv
<1> QED
  BY <1>1, <1>2, PTL DEF Spec

\* Every variable keeps its type: page cursors and page counts stay within what
\* HH serves, whatever is interleaved.
THEOREM TypeCorrect == Spec => []TypeOK
<1>1. DiscoveryInv => TypeOK
  BY DEF DiscoveryInv
<1> QED
  BY <1>1, DiscoveryInvariant, PTL

\* The counters CompleteDiscoveryCycle compares always agree with the partition
\* rows, for overlapping processes too as long as HH reports the same pages.
THEOREM Counters == Spec => []CountersExact
<1>1. DiscoveryInv => CountersExact
  BY DEF DiscoveryInv
<1> QED
  BY <1>1, DiscoveryInvariant, PTL

LEMMA CoveredIfIntact ==
    ASSUME TypeOK, Rows, NEW d \in Day, Intact(d), Incomplete(d) = {}
    PROVE  Covered(d)
<1> SUFFICES ASSUME NEW k \in Keys(d)
             PROVE  /\ part[d][k].status = "complete"
                    /\ {k} \X (0..(part[d][k].expected - 1)) \subseteq observed[d]
  BY DEF Covered
<1>1. k \in Key /\ part[d][k].status = "complete"
  BY DEF Incomplete, Keys
<1>2. part[d][k].next = part[d][k].expected
  BY <1>1 DEF Rows, RowsOfDay
<1>3. \A i \in 0..(part[d][k].expected - 1) : <<k, i>> \in observed[d]
  BY <1>2 DEF Intact
<1> QED
  BY <1>1, <1>3

\* ReconcileDiscoveryStatuses deactivates what a cycle did not see only when
\* every page of the cycle was committed and is still observed.
THEOREM Reconciliation == Spec => []ReconcilesCovered
<1>1. DiscoveryInv => ReconcilesCovered
  <2> SUFFICES ASSUME DiscoveryInv, lockLosses = 0, NEW p \in Process,
                      proc[p].pc = "reconciling"
               PROVE  Covered(proc[p].day)
    BY DEF ReconcilesCovered
  <2>1. HoldsDay(p) /\ Remembers(p) /\ TypeOK /\ Rows
    BY DEF DiscoveryInv, Locked, Memory
  <2>2. /\ proc[p].day \in Day /\ Intact(proc[p].day) /\ Incomplete(proc[p].day) = {}
    BY <2>1, PCSets DEF HoldsDay, Remembers
  <2> QED
    BY <2>1, <2>2, CoveredIfIntact
<1> QED
  BY <1>1, DiscoveryInvariant, PTL

\* With an unchanged plan a complete day has all its pages, until it is
\* published and older than the retention.
THEOREM Completeness == Spec => []CompleteIsCovered
<1>1. DiscoveryInv => CompleteIsCovered
  <2> SUFFICES ASSUME DiscoveryInv, replans = 0, lockLosses = 0, NEW d \in Day,
                      cycle[d].status = "complete"
               PROVE  Covered(d) \/ (d < today - Retention /\ d \in snapshots)
    BY DEF CompleteIsCovered
  <2>1. TypeOK /\ Rows /\ Incomplete(d) = {}
    BY DEF DiscoveryInv, CompleteStays
  <2>2. Intact(d) \/ (d \in snapshots /\ d < today - Retention)
    BY <2>1 DEF Rows, RowsOfDay
  <2> QED
    BY <2>1, <2>2, CoveredIfIntact
<1> QED
  BY <1>1, DiscoveryInvariant, PTL

\* The lock lets statuses only move forward: the day a process reconciles is
\* the last one started, so no later day has decided them before.
THEOREM StatusOrder == Spec => StatusesNeverGoBack
<1>1. DiscoveryInv /\ [Next]_vars => [lockLosses = 0 => applied' >= applied]_vars
  <2> USE DEF envVars, dbVars
  <2> SUFFICES ASSUME DiscoveryInv, Next, lockLosses = 0 PROVE applied' >= applied
    OBVIOUS
  <2>1. TypeOK /\ Rows /\ Memory /\ applied \in Nat
    BY Numbers DEF DiscoveryInv, TypeOK
  <2>2. ASSUME applied' = applied PROVE applied' >= applied
    BY <2>1, <2>2
  <2>3. ASSUME NEW p \in Process, ReconcileDiscoveryStatuses(p) PROVE applied' >= applied
    <3>1. /\ proc[p].pc = "reconciling" /\ proc[p].day \in Day
          /\ applied' \in {applied, proc[p].day}
      BY <2>1, <2>3, ReconcileEffect
    <3>2. \A e \in Day : Started(e) => e <= proc[p].day
      BY <3>1, PCSets DEF DiscoveryInv, Locked, LatestDay
    <3>3. applied = 0 \/ (applied \in Day /\ Started(applied))
      BY <2>1, Numbers DEF Rows, TypeOK, Day
    <3>4. proc[p].day \in Nat
      BY <3>1, Numbers
    <3> QED
      BY <2>1, <3>1, <3>2, <3>3, <3>4
  <2>4. (\E p \in Process : ReconcileDiscoveryStatuses(p)) \/ applied' = applied
    BY ZenonT(30) DEF Next, RunStep, TryProcessLock, ReleaseProcessLock, NextDay, Drift, Replan, TryDiscoveryLock,
       PendingDiscoveryCycle, PlanIT, StartDiscoveryCycle, NextDiscoveryPartition,
       SearchVacancies, SetDiscoveryExpectedPages, SaveDiscoveryPage, CompleteDiscoveryCycle,
       RunDaily, CleanupDiscoveryObservations, Abort, LoseLock, AnalyticsTick
  <2> QED
    BY <2>2, <2>3, <2>4, Zenon
<1> QED
  BY <1>1, DiscoveryInvariant, PTL DEF Spec, StatusesNeverGoBack
=============================================================================
