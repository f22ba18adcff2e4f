--------------------------- MODULE WorkItemsProofs ---------------------------
(***************************************************************************)
(* Theorems about WorkItems, for any number of vacancies, revisions, users *)
(* and workers, any batch size and limit of attempts, any outcomes of the  *)
(* gates, and any number of changes of settings, cut passes and lost locks.*)
(* Among them: WorkItems implements Outbox.                                *)
(***************************************************************************)
EXTENDS WorkItems, FiniteSetTheorems, SequenceTheorems, TLAPS

-----------------------------------------------------------------------------
(* The inductive invariant *)

Storing == {"storejob", "storeresult"}
Holding == Storing \cup {"announce"}

\* A row exists from the publication of its revision; an open one has tries left.
RowOf(i) ==
    /\ item[i].status = "absent" <=> i[2] > revision[i[1]]
    /\ item[i].status = "absent" => item[i].attempts = 0
    /\ item[i].status \in {"pending", "processing", "failed"} => item[i].attempts < AttemptLimit

Rows ==
    /\ \A i \in Item : RowOf(i)
    /\ Range(order) \subseteq Published /\ IsInjective(order)
    /\ \A p \in Pair : result[p] # "none" \/ p \in matched => p[2] \in Published

\* A pass: what its step says of its loops, and that its pairs are of published rows.
ShapeOf(w) ==
    LET me == work[w] IN
    /\ me.back \in {"screen", "finish"}
    /\ me.back = "finish" => me.todo = <<>>
    /\ me.pc = "screen" => me.todo # <<>>
    /\ me.pc \in {"ask", "finish"} => me.jobs # <<>> /\ me.todo = <<>>
    /\ me.pc = "finish" => me.answer[Head(me.jobs)] # "none"
    /\ me.pc \in Holding => \E p \in Pair : me.cur = <<p>> /\ p[2] \in Published
    /\ me.pc # "idle" => me.batch # <<>> /\ User # {}
    /\ me.pc = "settle" => me.todo = <<>> /\ me.jobs = <<>>
    /\ Range(me.batch) \subseteq Published
    /\ \A p \in Range(me.todo) \cup Range(me.jobs) : p[2] \in Published

Shape == \A w \in Worker : ShapeOf(w)

\* A pass meets every row and every pair once.
OnceOf(w) ==
    LET me == work[w] IN
    /\ IsInjective(me.batch) /\ IsInjective(me.todo) /\ IsInjective(me.jobs)
    /\ Range(me.todo) \cap Range(me.jobs) = {}
    /\ me.pc \in Storing => Head(me.cur) \notin Range(me.todo) \cup Range(me.jobs)

Once == \A w \in Worker : OnceOf(w)

\* Every user of a row in the batch is cleared, ahead in a loop, in hand, or the
\* provider failed for the row.
AheadOf(w) ==
    Range(work[w].todo) \cup Range(work[w].jobs) \cup
        (IF work[w].pc \in Storing THEN {Head(work[w].cur)} ELSE {})

CoversOf(w) ==
    \A i \in Range(work[w].batch), u \in User :
        <<u, i>> \in cleared \/ <<u, i>> \in AheadOf(w) \/ i \in work[w].failed

Covers == \A w \in Worker : CoversOf(w)

\* A match is stored for the pair.
Backed(p) == result[p] = "match" \/ (p \in matched /\ Match(gates[p]) = "match")

\* While no session drops, only the holder of the lock is in a pass, and no pair that
\* it is still to store has a result.
UnstoredOf(w) ==
    LET me == work[w] IN
    /\ me.pc # "idle" => lock = w /\ \A p \in Range(me.jobs) : result[p] = "none"
    /\ me.pc \in Storing => result[Head(me.cur)] = "none"
    /\ me.pc = "announce" => Backed(Head(me.cur))

Locked == ~lockLost => /\ \A w \in Worker : UnstoredOf(w)
                       /\ DeliveryBacked

\* The failures saved for a row cover its attempts and those that passes in progress
\* will still count.
Uncounted(i) == {w \in Worker : i \in work[w].failed /\ i \in Range(work[w].batch)}

Failures ==
    \A i \in Item : \/ failures[i] >= AttemptLimit
                    \/ item[i].attempts + Cardinality(Uncounted(i)) <= failures[i]

WorkInv == TypeOK /\ Rows /\ Shape /\ Once /\ Covers /\ Locked /\ Failures /\ MatchAnnounced

-----------------------------------------------------------------------------
(* Sequences *)

\* Every number of positions up to the size of a set of numbers is the rank of one.
LEMMA NthFacts ==
  ASSUME NEW P \in SUBSET Nat, IsFiniteSet(P)
  PROVE  /\ Cardinality(P) \in Nat
         /\ \A k \in 1..Cardinality(P) :
              /\ Nth(P, k) \in P
              /\ Cardinality({m \in P : m <= Nth(P, k)}) = k
         /\ \A n \in P : \E k \in 1..Cardinality(P) : Nth(P, k) = n
<1> DEFINE Below(n) == {m \in P : m <= n}
           rank     == [n \in P |-> Cardinality(Below(n))]
<1>1. Cardinality(P) \in Nat
  BY FS_CardinalityType
<1>2. ASSUME NEW n \in P
      PROVE  IsFiniteSet(Below(n)) /\ Cardinality(Below(n)) \in 1..Cardinality(P)
  <2>1. Below(n) \in SUBSET P /\ n \in Below(n)
    OBVIOUS
  <2>2. IsFiniteSet(Below(n)) /\ Cardinality(Below(n)) <= Cardinality(P)
    BY <2>1, FS_Subset
  <2>3. Cardinality(Below(n)) \in Nat /\ Cardinality(Below(n)) # 0
    BY <2>1, <2>2, FS_CardinalityType, FS_EmptySet
  <2> QED
    BY <1>1, <2>2, <2>3
<1>3. ASSUME NEW m \in P, NEW n \in P, m < n
      PROVE  Cardinality(Below(m)) < Cardinality(Below(n))
  <2>1. Below(m) \in SUBSET Below(n) /\ n \in Below(n) /\ n \notin Below(m)
    <3>1. m \in Nat /\ n \in Nat /\ \A x \in P : x \in Nat
      OBVIOUS
    <3>2. \A x \in P : x <= m => x <= n
      BY <1>3, <3>1
    <3>3. n <= n /\ ~(n <= m)
      BY <1>3, <3>1
    <3> QED
      BY <3>2, <3>3
  <2>2. /\ Cardinality(Below(m)) <= Cardinality(Below(n))
        /\ Cardinality(Below(m)) # Cardinality(Below(n))
    BY <1>2, <2>1, FS_Subset
  <2> QED
    BY <1>2, <2>2
<1>4. \A m, n \in P : rank[m] = rank[n] => m = n
  <2> SUFFICES ASSUME NEW m \in P, NEW n \in P, m # n
               PROVE  Cardinality(Below(m)) # Cardinality(Below(n))
    OBVIOUS
  <2>1. m < n \/ n < m
    OBVIOUS
  <2> QED
    BY <1>2, <1>3, <2>1
<1>5. ASSUME NEW k \in 1..Cardinality(P) PROVE \E n \in P : rank[n] = k
  <2> SUFFICES ASSUME \A n \in P : rank[n] # k PROVE FALSE
    OBVIOUS
  <2> DEFINE T == (1..Cardinality(P)) \ {k}
  <2>1. rank \in [P -> T]
    BY <1>2
  <2>2. IsFiniteSet(1..Cardinality(P)) /\ Cardinality(1..Cardinality(P)) = Cardinality(P)
    BY <1>1, FS_Interval
  <2>3. IsFiniteSet(T) /\ Cardinality(T) = Cardinality(P) - 1
    BY <2>2, FS_RemoveElement, ZenonT(30)
  <2>4. Cardinality(T) < Cardinality(P)
    BY <1>1, <2>3
  <2> HIDE DEF T, rank
  <2>5. \E x, y \in P : x # y /\ rank[x] = rank[y]
    BY <2>1, <2>3, <2>4, FS_PigeonHole
  <2> QED
    BY <1>4, <2>5
<1>6. \A k \in 1..Cardinality(P) : Nth(P, k) \in P /\ rank[Nth(P, k)] = k
  BY <1>5 DEF Nth
<1>7. \A n \in P : rank[n] \in 1..Cardinality(P)
  BY <1>2
<1>8. ASSUME NEW n \in P PROVE \E k \in 1..Cardinality(P) : Nth(P, k) = n
  BY <1>4, <1>6, <1>7
<1> QED
  BY <1>1, <1>6, <1>8

\* What Within keeps of a sequence: its elements in S, each as often as before.
LEMMA WithinFacts ==
  ASSUME NEW A, NEW s \in Seq(A), NEW S
  PROVE  /\ Within(s, S) \in Seq(A)
         /\ Within(s, S) \in Seq(A \cap S)
         /\ Range(Within(s, S)) = Range(s) \cap S
         /\ IsInjective(s) => IsInjective(Within(s, S))
<1> DEFINE P == {n \in DOMAIN s : s[n] \in S}
           t == [k \in 1..Cardinality(P) |-> s[Nth(P, k)]]
<1>1. Within(s, S) = t
  BY DEF Within
<1>2. DOMAIN s = 1..Len(s) /\ Len(s) \in Nat /\ \A n \in 1..Len(s) : s[n] \in A
  BY ElementOfSeq, LenProperties
<1>3. IsFiniteSet(1..Len(s))
  BY <1>2, FS_Interval
<1>4. P \in SUBSET (1..Len(s)) /\ P \in SUBSET Nat
  BY <1>2
<1>5. IsFiniteSet(P)
  BY <1>3, <1>4, FS_Subset
<1>6. /\ Cardinality(P) \in Nat
      /\ \A k \in 1..Cardinality(P) :
           /\ Nth(P, k) \in P
           /\ Cardinality({m \in P : m <= Nth(P, k)}) = k
      /\ \A n \in P : \E k \in 1..Cardinality(P) : Nth(P, k) = n
  <2> HIDE DEF P
  <2> QED
    BY <1>4, <1>5, NthFacts
<1>7. \A n \in P : n \in DOMAIN s /\ s[n] \in A \cap S
  BY <1>2
<1>8. t \in [1..Cardinality(P) -> A \cap S]
  <2> HIDE DEF P
  <2> QED
    BY <1>6, <1>7
<1>9. t \in Seq(A \cap S)
  <2> HIDE DEF t, P
  <2>1. Seq(A \cap S) = UNION {[1..n -> A \cap S] : n \in Nat}
    BY SeqDef
  <2>2. [1..Cardinality(P) -> A \cap S] \in {[1..n -> A \cap S] : n \in Nat}
    BY <1>6
  <2> QED
    BY <1>8, <2>1, <2>2
<1>10. t \in Seq(A)
  BY <1>9, SeqMonotonic
<1>11. Range(t) = Range(s) \cap S
  <2>1. ASSUME NEW x \in Range(t) PROVE x \in Range(s) \cap S
    <3> HIDE DEF P
    <3> QED
      BY <1>6, <1>7 DEF Range
  <2>2. ASSUME NEW x \in Range(s) \cap S PROVE x \in Range(t)
    <3>1. PICK n \in DOMAIN s : s[n] = x
      BY DEF Range
    <3>2. n \in P
      BY <3>1
    <3>3. PICK k \in 1..Cardinality(P) : Nth(P, k) = n
      BY <1>6, <3>2
    <3>4. t[k] = x /\ k \in DOMAIN t
      BY <3>1, <3>3
    <3> QED
      BY <3>4 DEF Range
  <2> QED
    BY <2>1, <2>2
<1>12. IsInjective(s) => IsInjective(t)
  <2> SUFFICES ASSUME IsInjective(s), NEW j \in 1..Cardinality(P), NEW k \in 1..Cardinality(P),
                      t[j] = t[k]
               PROVE  j = k
    BY DEF IsInjective
  <2>1. s[Nth(P, j)] = s[Nth(P, k)]
    OBVIOUS
  <2> HIDE DEF P
  <2>2. Nth(P, j) = Nth(P, k)
    BY <1>6, <1>7, <2>1 DEF IsInjective
  <2> QED
    BY <1>6, <2>2
<1> QED
  BY <1>1, <1>9, <1>10, <1>11, <1>12

\* The first n elements
LEMMA FirstNFacts ==
  ASSUME NEW A, NEW s \in Seq(A), NEW n \in Nat
  PROVE  /\ FirstN(s, n) \in Seq(A)
         /\ Range(FirstN(s, n)) \subseteq Range(s)
         /\ IsInjective(s) => IsInjective(FirstN(s, n))
<1>1. PICK m : m = IF Len(s) < n THEN Len(s) ELSE n
  OBVIOUS
<1>2. Len(s) \in Nat /\ DOMAIN s = 1..Len(s)
  BY LenProperties
<1>3. m \in Nat /\ m <= Len(s)
  BY <1>1, <1>2
<1>4. FirstN(s, n) = SubSeq(s, 1, m)
  BY <1>1 DEF FirstN
<1>5. \A i \in 1..m : s[i] \in A
  BY <1>2, <1>3, ElementOfSeq
<1>6. /\ SubSeq(s, 1, m) \in Seq(A)
      /\ Len(SubSeq(s, 1, m)) = m
      /\ \A i \in 1..m : SubSeq(s, 1, m)[i] = s[i]
  <2>1. /\ SubSeq(s, 1, m) \in Seq(A)
        /\ Len(SubSeq(s, 1, m)) = IF 1 <= m THEN m - 1 + 1 ELSE 0
        /\ \A i \in 1..(m - 1 + 1) : SubSeq(s, 1, m)[i] = s[1 + i - 1]
    BY <1>3, <1>5, SubSeqProperties
  <2> QED
    BY <1>3, <2>1
<1>7. DOMAIN SubSeq(s, 1, m) = 1..m
  BY <1>6, LenProperties
<1> QED
  BY <1>2, <1>3, <1>4, <1>6, <1>7 DEF Range, IsInjective

\* The first element and the others
LEMMA HeadTailFacts ==
  ASSUME NEW A, NEW s \in Seq(A), s # <<>>
  PROVE  /\ Head(s) \in A /\ Tail(s) \in Seq(A) /\ Head(s) \in Range(s)
         /\ Range(s) = {Head(s)} \cup Range(Tail(s))
         /\ IsInjective(s) => IsInjective(Tail(s)) /\ Head(s) \notin Range(Tail(s))
         /\ Len(s) = 1 <=> Tail(s) = <<>>
<1>1. /\ Len(s) \in Nat \ {0} /\ DOMAIN s = 1..Len(s)
  BY EmptySeq, LenProperties
<1>2. /\ Head(s) \in A /\ Tail(s) \in Seq(A) /\ Len(Tail(s)) = Len(s) - 1
      /\ \A i \in 1..Len(Tail(s)) : Tail(s)[i] = s[i + 1]
  BY HeadTailProperties
<1>3. DOMAIN Tail(s) = 1..(Len(s) - 1)
  BY <1>2, LenProperties
<1>4. Head(s) = s[1]
  OBVIOUS
<1>5. Range(s) = {Head(s)} \cup Range(Tail(s))
  <2>1. ASSUME NEW x \in Range(s) PROVE x \in {Head(s)} \cup Range(Tail(s))
    <3>1. PICK i \in 1..Len(s) : s[i] = x
      BY <1>1 DEF Range
    <3>2. CASE i = 1
      BY <1>4, <3>1, <3>2
    <3>3. CASE i # 1
      <4>1. i - 1 \in 1..(Len(s) - 1) /\ (i - 1) + 1 = i
        BY <1>1, <3>1, <3>3
      <4>2. Tail(s)[i - 1] = x
        BY <1>2, <3>1, <4>1
      <4> QED
        BY <1>3, <4>1, <4>2 DEF Range
    <3> QED
      BY <3>2, <3>3
  <2>2. ASSUME NEW x \in Range(Tail(s)) PROVE x \in Range(s)
    <3>1. PICK i \in 1..(Len(s) - 1) : Tail(s)[i] = x
      BY <1>3 DEF Range
    <3>2. i + 1 \in 1..Len(s) /\ s[i + 1] = x
      BY <1>1, <1>2, <3>1
    <3> QED
      BY <1>1, <3>2 DEF Range
  <2>3. Head(s) \in Range(s)
    BY <1>1, <1>4 DEF Range
  <2> QED
    BY <2>1, <2>2, <2>3
<1>6. ASSUME IsInjective(s)
      PROVE  IsInjective(Tail(s)) /\ Head(s) \notin Range(Tail(s))
  <2>1. \A i \in 1..(Len(s) - 1) : i + 1 \in 1..Len(s) /\ i + 1 # 1 /\ Tail(s)[i] = s[i + 1]
    BY <1>1, <1>2
  <2>2. ASSUME NEW i \in 1..(Len(s) - 1), NEW j \in 1..(Len(s) - 1), Tail(s)[i] = Tail(s)[j]
        PROVE  i = j
    <3>1. i + 1 = j + 1
      BY <1>1, <1>6, <2>1, <2>2 DEF IsInjective
    <3> QED
      BY <1>1, <3>1
  <2>3. \A i \in 1..(Len(s) - 1) : Tail(s)[i] # s[1]
    <3>1. 1 \in 1..Len(s)
      BY <1>1
    <3> QED
      BY <1>1, <1>6, <2>1, <3>1 DEF IsInjective
  <2>4. IsInjective(Tail(s))
    BY <1>3, <2>2 DEF IsInjective
  <2> QED
    BY <1>3, <1>4, <2>3, <2>4 DEF Range
<1>7. Len(s) = 1 <=> Tail(s) = <<>>
  <2>1. Tail(s) = <<>> <=> Len(Tail(s)) = 0
    BY <1>2, EmptySeq
  <2> QED
    BY <1>1, <1>2, <2>1
<1>8. Head(s) \in Range(s)
  BY <1>5
<1> QED
  BY <1>2, <1>5, <1>6, <1>7, <1>8

\* One element more
LEMMA AppendFacts ==
  ASSUME NEW A, NEW s \in Seq(A), NEW e \in A
  PROVE  /\ Append(s, e) \in Seq(A) /\ Append(s, e) # <<>>
         /\ Range(Append(s, e)) = Range(s) \cup {e}
         /\ IsInjective(s) /\ e \notin Range(s) => IsInjective(Append(s, e))
<1>1. Len(s) \in Nat /\ DOMAIN s = 1..Len(s)
  BY LenProperties
<1>2. /\ Append(s, e) \in Seq(A) /\ Append(s, e) # <<>> /\ Len(Append(s, e)) = Len(s) + 1
      /\ \A i \in 1..Len(s) : Append(s, e)[i] = s[i]
      /\ Append(s, e)[Len(s) + 1] = e
  BY AppendProperties
<1>3. DOMAIN Append(s, e) = 1..(Len(s) + 1)
  BY <1>2, LenProperties
<1>4. \A i \in 1..(Len(s) + 1) : i \in 1..Len(s) \/ i = Len(s) + 1
  BY <1>1
<1>5. Range(Append(s, e)) = Range(s) \cup {e}
  BY <1>1, <1>2, <1>3, <1>4 DEF Range
<1>6. IsInjective(s) /\ e \notin Range(s) => IsInjective(Append(s, e))
  <2> SUFFICES ASSUME IsInjective(s), e \notin Range(s),
                      NEW i \in 1..(Len(s) + 1), NEW j \in 1..(Len(s) + 1),
                      Append(s, e)[i] = Append(s, e)[j]
               PROVE  i = j
    BY <1>3 DEF IsInjective
  <2>1. \A k \in 1..Len(s) : s[k] # e
    BY <1>1 DEF Range
  <2>2. CASE i \in 1..Len(s) /\ j \in 1..Len(s)
    BY <1>1, <1>2, <2>2 DEF IsInjective
  <2>3. CASE i = Len(s) + 1 \/ j = Len(s) + 1
    BY <1>2, <1>4, <2>1, <2>3
  <2> QED
    BY <1>4, <2>2, <2>3
<1> QED
  BY <1>2, <1>5, <1>6

\* One sequence after another
LEMMA ConcatFacts ==
  ASSUME NEW A, NEW s \in Seq(A), NEW t \in Seq(A)
  PROVE  /\ s \o t \in Seq(A)
         /\ Range(s \o t) = Range(s) \cup Range(t)
         /\ s # <<>> => s \o t # <<>> /\ Head(s \o t) = Head(s)
         /\ IsInjective(s) /\ IsInjective(t) /\ Range(s) \cap Range(t) = {} => IsInjective(s \o t)
<1>1. /\ Len(s) \in Nat /\ DOMAIN s = 1..Len(s)
      /\ Len(t) \in Nat /\ DOMAIN t = 1..Len(t)
  BY LenProperties
<1>2. /\ s \o t \in Seq(A) /\ Len(s \o t) = Len(s) + Len(t)
      /\ \A i \in 1..(Len(s) + Len(t)) :
            (s \o t)[i] = IF i <= Len(s) THEN s[i] ELSE t[i - Len(s)]
  BY ConcatProperties
<1>3. DOMAIN (s \o t) = 1..(Len(s) + Len(t))
  BY <1>2, LenProperties
<1>4. Range(s \o t) = Range(s) \cup Range(t)
  BY RangeConcatenation
<1>5. ASSUME s # <<>> PROVE s \o t # <<>> /\ Head(s \o t) = Head(s)
  <2>1. Len(s) # 0 /\ 1 \in 1..(Len(s) + Len(t)) /\ 1 <= Len(s)
    BY <1>1, <1>5, EmptySeq
  <2>2. (s \o t)[1] = s[1]
    BY <1>2, <2>1
  <2>3. s \o t # <<>>
    BY <1>1, <1>2, <2>1, EmptySeq
  <2> QED
    BY <1>2, <1>5, <2>2, <2>3
<1>6. ASSUME IsInjective(s), IsInjective(t), Range(s) \cap Range(t) = {}
      PROVE  IsInjective(s \o t)
  <2> SUFFICES ASSUME NEW i \in 1..(Len(s) + Len(t)), NEW j \in 1..(Len(s) + Len(t)),
                      (s \o t)[i] = (s \o t)[j]
               PROVE  i = j
    BY <1>3 DEF IsInjective
  <2>1. ASSUME NEW k \in 1..(Len(s) + Len(t))
        PROVE  \/ k \in 1..Len(s) /\ (s \o t)[k] = s[k] /\ (s \o t)[k] \in Range(s)
               \/ /\ k > Len(s) /\ k - Len(s) \in 1..Len(t)
                  /\ (s \o t)[k] = t[k - Len(s)] /\ (s \o t)[k] \in Range(t)
    <3>1. CASE k <= Len(s)
      BY <1>1, <1>2, <3>1 DEF Range
    <3>2. CASE k > Len(s)
      <4>1. k - Len(s) \in 1..Len(t) /\ ~(k <= Len(s))
        BY <1>1, <3>2
      <4> QED
        BY <1>1, <1>2, <3>2, <4>1 DEF Range
    <3> QED
      BY <1>1, <3>1, <3>2
  <2>2. CASE i \in 1..Len(s) /\ j \in 1..Len(s) /\ s[i] = s[j]
    BY <1>1, <1>6, <2>2 DEF IsInjective
  <2>3. CASE /\ i > Len(s) /\ j > Len(s) /\ i - Len(s) \in 1..Len(t) /\ j - Len(s) \in 1..Len(t)
             /\ t[i - Len(s)] = t[j - Len(s)]
    <3>1. i - Len(s) = j - Len(s)
      BY <1>1, <1>6, <2>3 DEF IsInjective
    <3> QED
      BY <1>1, <3>1
  <2> QED
    BY <1>6, <2>1, <2>2, <2>3
<1> QED
  BY <1>2, <1>4, <1>5, <1>6

\* The two loops over candidates and users as positions of one sequence
LEMMA Quotient ==
  ASSUME NEW a \in Nat, NEW n \in Nat \ {0}
  PROVE  a \div n \in Nat /\ a % n \in 0..(n - 1) /\ a = n * (a \div n) + (a % n)
  OBVIOUS

LEMMA QuotientBelow ==
  ASSUME NEW a \in Nat, NEW b \in Nat, NEW n \in Nat \ {0}, NEW r \in 0..(n - 1), NEW c \in 0..(n - 1)
  PROVE  /\ n * a + r < n * b => a < b
         /\ n * a + r = n * b + c => a = b /\ r = c
<1>1. ASSUME NEW x \in Nat, NEW y \in Nat, x < y PROVE n * x + n <= n * y
  <2>1. x + 1 <= y /\ n * (x + 1) = n * x + n
    BY <1>1
  <2>2. n * (x + 1) <= n * y
    BY <2>1
  <2> QED
    BY <2>1, <2>2
<1>2. n * a \in Nat /\ n * b \in Nat /\ r \in Nat /\ c \in Nat /\ r < n /\ c < n
  OBVIOUS
<1>3. a < b \/ a = b \/ b < a
  OBVIOUS
<1>4. b < a => n * b + n <= n * a
  BY <1>1
<1>5. a < b => n * a + n <= n * b
  BY <1>1
<1> QED
  BY <1>2, <1>3, <1>4, <1>5

LEMMA UsersFacts ==
  LET users == SetToSeq(User)
  IN  users \in Seq(User) /\ Range(users) = User /\ IsInjective(users)
<1> DEFINE n == Cardinality(User)
<1> PICK users : users = SetToSeq(User)
  OBVIOUS
<1>1. IsFiniteSet(User)
  BY WorkItemConstants
<1>2. n \in Nat /\ ExistsBijection(1..n, User)
  BY <1>1, FS_CardinalityType
<1>3. \E f \in [1..n -> User] : IsInjective(f)
  BY <1>2 DEF ExistsBijection, Bijection, Injection
<1>4. users \in [1..n -> User] /\ IsInjective(users)
  BY <1>3 DEF SetToSeq
<1>5. users \in Seq(User)
  <2> HIDE DEF n
  <2>1. Seq(User) = UNION {[1..k -> User] : k \in Nat}
    BY SeqDef
  <2> QED
    BY <1>2, <1>4, <2>1
<1>6. ASSUME NEW u \in User PROVE \E k \in 1..n : users[k] = u
  <2> SUFFICES ASSUME \A k \in 1..n : users[k] # u PROVE FALSE
    OBVIOUS
  <2>1. IsFiniteSet(1..n) /\ Cardinality(1..n) = n
    BY <1>2, FS_Interval
  <2>2. IsFiniteSet(User \ {u}) /\ Cardinality(User \ {u}) = n - 1
    BY <1>1, FS_RemoveElement
  <2>3. users \in [1..n -> User \ {u}] /\ Cardinality(User \ {u}) < Cardinality(1..n)
    BY <1>2, <1>4, <2>1, <2>2
  <2>4. PICK D, T : D = 1..n /\ T = User \ {u}
    OBVIOUS
  <2>5. /\ users \in [D -> T] /\ IsFiniteSet(D) /\ IsFiniteSet(T)
        /\ Cardinality(T) < Cardinality(D)
    BY <2>1, <2>2, <2>3, <2>4
  <2>6. \E x, y \in D : x # y /\ users[x] = users[y]
    BY <2>5, FS_PigeonHole
  <2> QED
    BY <1>4, <2>4, <2>6 DEF IsInjective
<1>7. Range(users) = User
  BY <1>4, <1>6 DEF Range
<1> QED
  BY <1>4, <1>5, <1>7

LEMMA PairsFacts ==
  ASSUME NEW batch \in Seq(Item), NEW users \in Seq(User)
  PROVE  /\ Pairs(batch, users) \in Seq(Pair)
         /\ Range(Pairs(batch, users)) = Range(users) \X Range(batch)
         /\ IsInjective(batch) /\ IsInjective(users) => IsInjective(Pairs(batch, users))
<1> DEFINE m == Len(batch)
           n == Len(users)
           u(k) == ((k - 1) % n) + 1
           b(k) == ((k - 1) \div n) + 1
           t    == [k \in 1..(m * n) |-> <<users[u(k)], batch[b(k)]>>]
<1>1. /\ m \in Nat /\ DOMAIN batch = 1..m /\ \A k \in 1..m : batch[k] \in Item
      /\ n \in Nat /\ DOMAIN users = 1..n /\ \A k \in 1..n : users[k] \in User
  BY LenProperties, ElementOfSeq
<1>2. Pairs(batch, users) = t
  BY DEF Pairs
<1> HIDE DEF m, n
<1>3. m * n \in Nat
  BY <1>1
<1>4. ASSUME NEW k \in 1..(m * n)
      PROVE  /\ u(k) \in 1..n /\ b(k) \in 1..m
             /\ k = n * (b(k) - 1) + (u(k) - 1) + 1
  <2>1. n # 0
    BY <1>1
  <2>2. k - 1 \in Nat /\ k - 1 < n * m
    BY <1>1, <1>3
  <2>3. PICK q, r : q = (k - 1) \div n /\ r = (k - 1) % n
    OBVIOUS
  <2>4. q \in Nat /\ r \in 0..(n - 1) /\ k - 1 = n * q + r
    BY <1>1, <2>1, <2>2, <2>3, Quotient
  <2>5. q < m
    BY <1>1, <2>1, <2>2, <2>4, QuotientBelow
  <2>6. u(k) = r + 1 /\ b(k) = q + 1
    BY <2>3
  <2>7. r + 1 \in 1..n /\ q + 1 \in 1..m /\ (q + 1) - 1 = q /\ (r + 1) - 1 = r /\ k = (n * q + r) + 1
    BY <1>1, <2>2, <2>4, <2>5
  <2> QED
    BY <2>6, <2>7
<1>5. ASSUME NEW x \in 1..n, NEW y \in 1..m
      PROVE  \E k \in 1..(m * n) : u(k) = x /\ b(k) = y
  <2>1. PICK k : k = (n * (y - 1) + (x - 1)) + 1
    OBVIOUS
  <2>2. n \in Nat \ {0} /\ y - 1 \in Nat /\ x - 1 \in 0..(n - 1) /\ m \in Nat
    BY <1>1
  <2>3. k \in Nat /\ k >= 1 /\ k - 1 = n * (y - 1) + (x - 1)
    BY <2>1, <2>2
  <2>4. n * (y - 1) + n <= n * m
    <3>1. n * (y - 1) + n = n * y
      BY <2>2
    <3>2. y <= m
      BY <1>1
    <3>3. n * y <= n * m
      BY <2>2, <3>2
    <3> QED
      BY <3>1, <3>3
  <2>5. k \in 1..(m * n)
    <3>1. n * m = m * n /\ n * (y - 1) \in Nat
      BY <2>2
    <3> QED
      BY <1>3, <2>2, <2>3, <2>4, <3>1
  <2>6. PICK q, r : q = (k - 1) \div n /\ r = (k - 1) % n
    OBVIOUS
  <2>7. q \in Nat /\ r \in 0..(n - 1) /\ k - 1 = n * q + r
    <3>1. PICK a : a = k - 1
      OBVIOUS
    <3>2. a \in Nat /\ q = a \div n /\ r = a % n
      BY <2>3, <2>6, <3>1
    <3> QED
      BY <2>2, <3>1, <3>2, Quotient
  <2>8. q = y - 1 /\ r = x - 1
    <3>1. PICK a, c : a = y - 1 /\ c = x - 1
      OBVIOUS
    <3>2. a \in Nat /\ c \in 0..(n - 1) /\ n * q + r = n * a + c
      BY <2>2, <2>3, <2>7, <3>1
    <3>3. q = a /\ r = c
      BY <2>2, <2>7, <3>2, QuotientBelow
    <3> QED
      BY <3>1, <3>3
  <2>9. u(k) = r + 1 /\ b(k) = q + 1
    BY <2>6
  <2>10. u(k) = x /\ b(k) = y
    BY <2>8, <2>9
  <2> QED
    BY <2>5, <2>10
<1>6. \A k \in 1..(m * n) : t[k] = <<users[u(k)], batch[b(k)]>>
  OBVIOUS
<1>7. t \in [1..(m * n) -> Pair] /\ DOMAIN t = 1..(m * n)
  <2> HIDE DEF u, b
  <2> QED
    BY <1>1, <1>4 DEF Pair
<1> HIDE DEF t
<1>8. t \in Seq(Pair)
  <2>1. Seq(Pair) = UNION {[1..k -> Pair] : k \in Nat}
    BY SeqDef
  <2> QED
    BY <1>3, <1>7, <2>1
<1>9. Range(t) = Range(users) \X Range(batch)
  <2> HIDE DEF u, b
  <2>1. ASSUME NEW p \in Range(t) PROVE p \in Range(users) \X Range(batch)
    <3>1. PICK k \in 1..(m * n) : t[k] = p
      BY <1>7 DEF Range
    <3>2. u(k) \in 1..n /\ b(k) \in 1..m /\ p = <<users[u(k)], batch[b(k)]>>
      BY <1>4, <1>6, <3>1
    <3>3. users[u(k)] \in Range(users) /\ batch[b(k)] \in Range(batch)
      BY <1>1, <3>2 DEF Range
    <3> QED
      BY <3>2, <3>3
  <2>2. ASSUME NEW v \in Range(users), NEW i \in Range(batch) PROVE <<v, i>> \in Range(t)
    <3>1. PICK x \in 1..n, y \in 1..m : users[x] = v /\ batch[y] = i
      BY <1>1 DEF Range
    <3>2. PICK k \in 1..(m * n) : u(k) = x /\ b(k) = y
      BY <1>5
    <3>3. t[k] = <<v, i>>
      BY <1>6, <3>1, <3>2
    <3> QED
      BY <1>7, <3>3 DEF Range
  <2> QED
    BY <2>1, <2>2
<1>10. ASSUME IsInjective(batch), IsInjective(users) PROVE IsInjective(t)
  <2> SUFFICES ASSUME NEW j \in 1..(m * n), NEW k \in 1..(m * n), t[j] = t[k] PROVE j = k
    BY <1>7 DEF IsInjective
  <2> HIDE DEF u, b
  <2>1. users[u(j)] = users[u(k)] /\ batch[b(j)] = batch[b(k)]
    BY <1>6
  <2>2. u(j) = u(k) /\ b(j) = b(k)
    BY <1>1, <1>4, <1>10, <2>1 DEF IsInjective
  <2> QED
    BY <1>4, <2>2
<1> QED
  BY <1>2, <1>8, <1>9, <1>10

-----------------------------------------------------------------------------
(* What a step of a pass does to it *)

LEMMA Numbers ==
    /\ MaxRevision \in Nat \ {0} /\ BatchSize \in Nat \ {0} /\ AttemptLimit \in Nat \ {0}
    /\ MaxChanges \in Nat /\ MaxFaults \in Nat
    /\ NoWorker \notin Worker /\ IsFiniteSet(User) /\ IsFiniteSet(Worker) /\ Profile # {}
    /\ \A i \in Item : i[1] \in Vacancy /\ i[2] \in 1..MaxRevision /\ i = <<i[1], i[2]>>
    /\ \A p \in Pair : p[1] \in User /\ p[2] \in Item /\ p = <<p[1], p[2]>>
  BY WorkItemConstants DEF Item, Pair

LEMMA PassFields ==
  ASSUME NEW me \in Pass
  PROVE  /\ me.pc \in PC /\ me.batch \in Seq(Item) /\ me.old \in [User -> SUBSET Vacancy]
         /\ me.todo \in Seq(Pair) /\ me.jobs \in Seq(Pair)
         /\ me.answer \in [Pair -> Decision \cup {"none", "failed"}]
         /\ me.cur \in Seq(Pair) /\ me.verdict \in Decision /\ me.back \in PC
         /\ me.failed \in SUBSET Item
  BY DEF Pass

LEMMA IdlePass ==
    /\ Idle \in Pass /\ Idle.pc = "idle" /\ Idle.batch = <<>> /\ Idle.todo = <<>>
    /\ Idle.jobs = <<>> /\ Idle.back = "screen" /\ Idle.failed = {}
<1>1. /\ <<>> \in Seq(Item) /\ <<>> \in Seq(Pair)
      /\ [u \in User |-> {}] \in [User -> SUBSET Vacancy]
      /\ [p \in Pair |-> "none"] \in [Pair -> Decision \cup {"none", "failed"}]
  BY EmptySeq
<1>2. "idle" \in PC /\ "reject" \in Decision /\ "screen" \in PC
  BY DEF PC, Decision
<1> QED
  BY <1>1, <1>2 DEF Idle, Pass

\* What a pass carries along
Kept(me, new) ==
    new \in Pass /\ new.batch = me.batch /\ new.old = me.old /\ new.answer = me.answer

\* Back in a loop, or on to the next one
Resumes(me, new, todo, jobs) ==
    /\ Kept(me, new) /\ new.failed = me.failed
    /\ new.todo = todo /\ new.jobs = jobs /\ new.cur = <<>> /\ new.back = "screen"
    /\ new.pc \in {"screen", "ask", "finish", "settle"}
    /\ new.pc = "screen" => todo # <<>>
    /\ new.pc \in {"ask", "finish"} => jobs # <<>> /\ todo = <<>>
    /\ new.pc = "finish" => new.answer[Head(jobs)] # "none"
    /\ new.pc = "settle" => todo = <<>> /\ jobs = <<>>

Holds(me, new, pc, p, verdict, back, todo, jobs) ==
    /\ Kept(me, new) /\ new.failed = me.failed
    /\ new.todo = todo /\ new.jobs = jobs /\ new.cur = <<p>> /\ new.back = back
    /\ new.pc = pc /\ new.verdict = verdict

LEMMA ResumeEffect ==
  ASSUME NEW me \in Pass, NEW back \in {"screen", "finish"},
         NEW todo \in Seq(Pair), NEW jobs \in Seq(Pair),
         back = "finish" => todo = <<>>,
         NEW new, new = Resume(me, back, todo, jobs)
  PROVE  Resumes(me, new, todo, jobs)
<1>1. PICK pc : pc = NextPc(me, back, todo, jobs)
  OBVIOUS
<1>2. /\ pc \in {"screen", "ask", "finish", "settle"}
      /\ pc = "screen" => todo # <<>>
      /\ pc \in {"ask", "finish"} => jobs # <<>> /\ todo = <<>>
      /\ pc = "finish" => me.answer[Head(jobs)] # "none"
      /\ pc = "settle" => todo = <<>> /\ jobs = <<>>
  <2>1. CASE back = "screen" /\ todo # <<>>
    <3>1. pc = "screen"
      BY <1>1, <2>1 DEF NextPc
    <3> QED
      BY <2>1, <3>1
  <2>2. CASE ~(back = "screen" /\ todo # <<>>) /\ jobs = <<>>
    <3>1. pc = "settle"
      BY <1>1, <2>2 DEF NextPc
    <3> QED
      BY <2>2, <3>1
  <2>3. CASE ~(back = "screen" /\ todo # <<>>) /\ jobs # <<>>
    <3>1. pc = IF me.answer[Head(jobs)] = "none" THEN "ask" ELSE "finish"
      BY <1>1, <2>3 DEF NextPc
    <3> QED
      BY <2>3, <3>1
  <2> QED
    BY <2>1, <2>2, <2>3
<1>3. new = [me EXCEPT !.pc = pc, !.todo = todo, !.jobs = jobs, !.cur = <<>>,
                       !.verdict = "reject", !.back = "screen"]
  BY <1>1 DEF Resume
<1>4. pc \in PC /\ "screen" \in PC /\ "reject" \in Decision /\ <<>> \in Seq(Pair)
  BY <1>2, EmptySeq DEF PC, Decision
<1>5. /\ new \in Pass
      /\ new.pc = pc /\ new.batch = me.batch /\ new.old = me.old /\ new.todo = todo
      /\ new.jobs = jobs /\ new.answer = me.answer /\ new.cur = <<>> /\ new.back = "screen"
      /\ new.failed = me.failed
  BY <1>3, <1>4, ZenonT(30) DEF Pass
<1> QED
  BY <1>2, <1>5 DEF Resumes, Kept

LEMMA HoldEffect ==
  ASSUME NEW me \in Pass, NEW pc \in PC, NEW p \in Pair, NEW verdict \in Decision,
         NEW back \in PC, NEW todo \in Seq(Pair), NEW jobs \in Seq(Pair),
         NEW new, new = Hold(me, pc, p, verdict, back, todo, jobs)
  PROVE  Holds(me, new, pc, p, verdict, back, todo, jobs)
<1>1. <<p>> \in Seq(Pair)
  OBVIOUS
<1>2. new = [me EXCEPT !.pc = pc, !.todo = todo, !.jobs = jobs, !.cur = <<p>>,
                       !.verdict = verdict, !.back = back]
  BY DEF Hold
<1>3. /\ new.pc = pc /\ new.batch = me.batch /\ new.old = me.old /\ new.todo = todo
      /\ new.jobs = jobs /\ new.answer = me.answer /\ new.cur = <<p>> /\ new.back = back
      /\ new.failed = me.failed /\ new.verdict = verdict
  BY <1>2 DEF Pass
<1>4. new \in Pass
  <2> PICK cur : cur = <<p>>
    OBVIOUS
  <2>1. new = [me EXCEPT !.pc = pc, !.todo = todo, !.jobs = jobs, !.cur = cur,
                         !.verdict = verdict, !.back = back]
    BY <1>2
  <2>2. cur \in Seq(Pair)
    BY <1>1
  <2> QED
    BY <2>1, <2>2 DEF Pass
<1> QED
  BY <1>3, <1>4 DEF Holds, Kept

-----------------------------------------------------------------------------
(* What the actions do to the variables *)

outerVars == <<vacancyVars, item, order, settingsVars, lock, boundVars>>
OpenStatus == {"pending", "processing", "failed"}

Others(w) == \A x \in Worker \ {w} : work'[x] = work[x]

\* A pass in which at most the activation dates changed
SamePass(w) ==
    LET me == work[w]  new == work'[w] IN
    /\ new.pc = me.pc /\ new.batch = me.batch /\ new.todo = me.todo /\ new.jobs = me.jobs
    /\ new.answer = me.answer /\ new.cur = me.cur /\ new.back = me.back
    /\ new.failed = me.failed

Publishes(i) ==
    /\ i \in Item /\ i[2] = revision[i[1]] + 1
    /\ revision' = [revision EXCEPT ![i[1]] = i[2]]
    /\ item' = [item EXCEPT ![i] = [status |-> "pending", attempts |-> 0, expired |-> FALSE]]
    /\ order' = Append(order, i)
    /\ active' \in [Vacancy -> BOOLEAN] /\ before' \in [User -> SUBSET Vacancy]
    /\ gates' \in [Pair -> Profile] /\ \A p \in Pair : p[2] # i => gates'[p] = gates[p]
    /\ UNCHANGED <<ai, telegram, changes, resultVars, lock, work, boundVars>>

\* A vacancy is seen again or switched off; a user changes a setting.
Adjusts ==
    /\ active' \in [Vacancy -> BOOLEAN] /\ before' \in [User -> SUBSET Vacancy]
    /\ ai' \in [User -> BOOLEAN] /\ telegram' \in [User -> BOOLEAN]
    /\ changes' \in 0..MaxChanges /\ changes' >= changes
    /\ changes' = changes => telegram' = telegram
    /\ work' \in [Worker -> Pass] /\ \A w \in Worker : SamePass(w)
    /\ UNCHANGED <<revision, gates, item, order, resultVars, lock, boundVars>>

\* A lease expires or a backoff ends.
Ages ==
    /\ item' \in [Item -> WorkItem]
    /\ \A j \in Item : item'[j].status = item[j].status /\ item'[j].attempts = item[j].attempts
    /\ order' \in Seq(Item)
    /\ IsInjective(order) => IsInjective(order')
    /\ \A j \in Range(order') : j \in Range(order) \/ j \in Published
    /\ UNCHANGED <<vacancyVars, resultVars, settingsVars, lock, work, boundVars>>

\* Statuses after the statement of Candidates
Claims ==
    /\ item' \in [Item -> WorkItem]
    /\ \A j \in Item :
         /\ item'[j].attempts = item[j].attempts
         /\ \/ item'[j].status = item[j].status
            \/ item[j].status \in OpenStatus /\ item'[j].status \in OpenStatus
            \/ item[j].status \in OpenStatus /\ Stale(j) /\ item'[j].status = "done"

Begins(w) ==
    LET me == work[w]  new == work'[w] IN
    /\ me.pc = "idle" /\ lock = NoWorker /\ User # {}
    /\ Claims
    /\ order' \in Seq(Item) /\ Range(order') \subseteq Range(order)
    /\ IsInjective(order) => IsInjective(order')
    /\ \/ UNCHANGED <<lock, work>>
       \/ /\ lock' = w /\ Others(w) /\ work' \in [Worker -> Pass]
          /\ new.pc = "screen" /\ new.back = "screen" /\ new.jobs = <<>> /\ new.failed = {}
          /\ new.batch # <<>> /\ Range(new.batch) \subseteq Range(order)
          /\ IsInjective(order) => IsInjective(new.batch) /\ IsInjective(new.todo)
          /\ new.todo # <<>> /\ Range(new.todo) = User \X Range(new.batch)
    /\ UNCHANGED <<vacancyVars, resultVars, settingsVars, boundVars>>

Screens(w) ==
    LET me == work[w]  new == work'[w]  p == Head(me.todo)  todo == Tail(me.todo) IN
    /\ me.pc = "screen" /\ Others(w) /\ work' \in [Worker -> Pass]
    /\ matched \subseteq matched' /\ matched' \subseteq matched \cup {p}
    /\ \/ cleared' = cleared \cup {p} /\ Resumes(me, new, todo, me.jobs)
       \/ /\ cleared' = cleared \cup {p} /\ p \in matched' /\ Match(gates[p]) = "match"
          /\ Holds(me, new, "announce", p, "match", "screen", todo, me.jobs)
       \/ /\ cleared' = cleared /\ result[p] = "none"
          /\ Holds(me, new, "storejob", p, "reject", "screen", todo, me.jobs)
       \/ /\ cleared' = cleared /\ result[p] = "none"
          /\ Resumes(me, new, todo, Append(me.jobs, p))
    /\ UNCHANGED <<outerVars, job, failures, result, delivery>>

Asks(w) ==
    LET me == work[w]  new == work'[w] IN
    /\ me.pc = "ask" /\ Others(w) /\ work' \in [Worker -> Pass]
    /\ new.pc = "finish" /\ new.batch = me.batch /\ new.todo = me.todo /\ new.cur = me.cur
    /\ new.back = me.back /\ new.failed = me.failed
    /\ Range(new.jobs) = Range(me.jobs) /\ new.jobs # <<>>
    /\ IsInjective(me.jobs) => IsInjective(new.jobs)
    /\ new.answer[Head(new.jobs)] # "none"
    /\ UNCHANGED <<outerVars, resultVars>>

Finishes(w) ==
    LET me == work[w]  new == work'[w]  p == Head(me.jobs)  jobs == Tail(me.jobs) IN
    /\ me.pc = "finish" /\ Others(w) /\ work' \in [Worker -> Pass]
    /\ \E mid \in Pass :
         /\ mid.batch = me.batch
         /\ \/ /\ mid.failed = me.failed \cup {p[2]} /\ Resumes(mid, new, <<>>, jobs)
               /\ job' = [job EXCEPT ![p] = [status |-> "failed",
                                             attempts |-> Capped(job[p].attempts + 1)]]
               /\ failures' = [failures EXCEPT ![p[2]] = Capped(failures[p[2]] + 1)]
            \/ /\ mid.failed = me.failed
               /\ \E d \in Decision : Holds(mid, new, "storejob", p, d, "finish", <<>>, jobs)
               /\ UNCHANGED <<job, failures>>
    /\ UNCHANGED <<outerVars, result, matched, delivery, cleared>>

StoresJob(w) ==
    LET me == work[w]  new == work'[w]  p == Head(me.cur) IN
    /\ me.pc = "storejob" /\ Others(w) /\ work' \in [Worker -> Pass]
    /\ new = [me EXCEPT !.pc = "storeresult"]
    /\ job' = [job EXCEPT ![p] = [status |-> "complete", attempts |-> Capped(job[p].attempts + 1)]]
    /\ UNCHANGED <<outerVars, failures, result, matched, delivery, cleared>>

StoresResult(w) ==
    LET me == work[w]  new == work'[w]  p == Head(me.cur) IN
    /\ me.pc = "storeresult" /\ Others(w) /\ work' \in [Worker -> Pass]
    /\ result' = [result EXCEPT ![p] = me.verdict]
    /\ cleared' = cleared \cup {p}
    /\ IF me.verdict = "match" THEN new = [me EXCEPT !.pc = "announce"]
       ELSE Resumes(me, new, me.todo, me.jobs)
    /\ UNCHANGED <<outerVars, job, failures, matched, delivery>>

Delivers(w) ==
    LET me == work[w]  new == work'[w]  p == Head(me.cur) IN
    /\ me.pc = "announce" /\ Others(w) /\ work' \in [Worker -> Pass]
    /\ delivery' = IF telegram[p[1]] THEN delivery \cup {<<p[1], p[2][1]>>} ELSE delivery
    /\ Resumes(me, new, me.todo, me.jobs)
    /\ UNCHANGED <<outerVars, job, failures, result, matched, cleared>>

\* The end of a pass, or the pass without its first row
Drops(w) ==
    LET me == work[w]  new == work'[w] IN
    /\ Others(w) /\ work' \in [Worker -> Pass]
    /\ \/ new = Idle /\ lock' = Free(w)
       \/ /\ Tail(me.batch) # <<>> /\ new = [me EXCEPT !.batch = Tail(me.batch)] /\ lock' = lock

Settles(w) ==
    LET me == work[w]  i == Head(me.batch) IN
    /\ me.pc = "settle" /\ Drops(w)
    /\ item' = IF i \in me.failed THEN RetryWorkItem(i) ELSE CompleteWorkItem(i)
    /\ order' \in Seq(Item) /\ Range(order') \subseteq Range(order)
    /\ IsInjective(order) => IsInjective(order')
    /\ UNCHANGED <<vacancyVars, resultVars, settingsVars, boundVars>>

Aborts(w) ==
    /\ work[w].pc # "idle" /\ Others(w) /\ work' \in [Worker -> Pass]
    /\ work'[w] = Idle /\ lock' = Free(w)
    /\ faults' = faults + 1 /\ faults' \in 0..MaxFaults
    /\ UNCHANGED <<vacancyVars, item, order, resultVars, settingsVars, lockLost>>

Unlocks ==
    /\ lock' = NoWorker /\ lockLost' = TRUE
    /\ faults' = faults + 1 /\ faults' \in 0..MaxFaults
    /\ UNCHANGED <<vacancyVars, item, order, resultVars, settingsVars, work>>

Effect ==
    \/ \E i \in Item : Publishes(i)
    \/ Adjusts
    \/ Ages
    \/ \E w \in Worker : \/ Begins(w) \/ Screens(w) \/ Asks(w) \/ Finishes(w) \/ StoresJob(w)
                         \/ StoresResult(w) \/ Delivers(w) \/ Settles(w) \/ Aborts(w)
    \/ Unlocks
    \/ UNCHANGED vars

LEMMA EnvEffect ==
  ASSUME TypeOK, Rows
  PROVE  /\ \A v \in Vacancy, b \in BOOLEAN, g \in [User -> Profile] :
              SaveRevision(v, b, g) => \E i \in Item : Publishes(i)
         /\ \A v \in Vacancy, b \in BOOLEAN : TouchVacancy(v, b) \/ SwitchVacancy(v, b) => Adjusts
         /\ \A u \in User, b \in BOOLEAN : SetAI(u, b) \/ SetTelegram(u, b) => Adjusts
         /\ \A i \in Item : LeaseExpires(i) \/ BackoffEnds(i) => Ages
         /\ \A w \in Worker : LoseLock(w) => Unlocks
<1>1. ASSUME NEW v \in Vacancy, NEW b \in BOOLEAN, NEW g \in [User -> Profile], SaveRevision(v, b, g)
      PROVE  \E i \in Item : Publishes(i)
  <2>1. PICK i : i = <<v, revision[v] + 1>>
    OBVIOUS
  <2>2. revision[v] \in Nat /\ revision[v] < MaxRevision /\ revision[v] + 1 \in 1..MaxRevision
    BY <1>1, Numbers DEF TypeOK, SaveRevision
  <2>3. i \in Item /\ i[1] = v /\ i[2] = revision[v] + 1
    BY <2>1, <2>2 DEF Item
  <2>4. item' = [item EXCEPT ![i] = [status |-> "pending", attempts |-> 0, expired |-> FALSE]]
    <3>1. item' = [item EXCEPT ![i] = [Absent EXCEPT !.status = "pending"]]
      BY <1>1, <2>1 DEF SaveRevision
    <3>2. PICK a : a = [Absent EXCEPT !.status = "pending"]
      OBVIOUS
    <3>3. a \in WorkItem /\ a.status = "pending" /\ a.attempts = 0 /\ a.expired = FALSE
      <4>1. Absent \in WorkItem /\ Absent.attempts = 0 /\ Absent.expired = FALSE
        BY Numbers DEF Absent, WorkItem, Status
      <4> QED
        BY <3>2, <4>1 DEF WorkItem, Status
    <3>4. a = [status |-> "pending", attempts |-> 0, expired |-> FALSE]
      BY <3>3 DEF WorkItem
    <3> QED
      BY <3>1, <3>2, <3>4
  <2>5. revision' = [revision EXCEPT ![i[1]] = i[2]] /\ order' = Append(order, i)
    BY <1>1, <2>1, <2>3 DEF SaveRevision, TypeOK
  <2>6. active' \in [Vacancy -> BOOLEAN] /\ before' \in [User -> SUBSET Vacancy]
    BY <1>1 DEF SaveRevision, TypeOK
  <2>7. gates' = [p \in Pair |-> IF p[2] = i THEN g[p[1]] ELSE gates[p]]
    BY <1>1, <2>1 DEF SaveRevision
  <2>8. gates' \in [Pair -> Profile] /\ \A p \in Pair : p[2] # i => gates'[p] = gates[p]
    <3>1. \A p \in Pair : p[1] \in User
      BY DEF Pair
    <3> QED
      BY <2>7, <3>1 DEF TypeOK
  <2>9. UNCHANGED <<ai, telegram, changes, resultVars, lock, work, boundVars>>
    BY <1>1 DEF SaveRevision
  <2>10. Publishes(i)
    BY <2>3, <2>4, <2>5, <2>6, <2>8, <2>9 DEF Publishes
  <2> QED
    BY <2>3, <2>10
<1>2. ASSUME NEW v \in Vacancy, NEW b \in BOOLEAN, TouchVacancy(v, b) \/ SwitchVacancy(v, b)
      PROVE  Adjusts
  <2>1. CASE TouchVacancy(v, b)
    BY <2>1 DEF TouchVacancy, TypeOK, Adjusts, SamePass, resultVars, boundVars
  <2>2. CASE SwitchVacancy(v, b)
    BY <2>2 DEF SwitchVacancy, TypeOK, Adjusts, SamePass, resultVars, boundVars, settingsVars
  <2> QED
    BY <1>2, <2>1, <2>2
<1>3. ASSUME NEW u \in User, NEW b \in BOOLEAN, SetAI(u, b)
      PROVE  Adjusts
  <2>1. PICK S : S = IF b THEN Vacancy ELSE {}
    OBVIOUS
  <2>2. work' = [w \in Worker |-> [work[w] EXCEPT !.old[u] = S]]
    BY <1>3, <2>1 DEF SetAI
  <2>3. ASSUME NEW w \in Worker PROVE work'[w] \in Pass /\ SamePass(w)
    <3>1. PICK me : me = work[w]
      OBVIOUS
    <3>2. me \in Pass
      BY <3>1 DEF TypeOK
    <3>3. PICK old : old = [me.old EXCEPT ![u] = S]
      OBVIOUS
    <3>4. S \in SUBSET Vacancy
      BY <2>1
    <3>5. old \in [User -> SUBSET Vacancy]
      BY <3>2, <3>3, <3>4 DEF Pass
    <3>6. work'[w] = [me EXCEPT !.old = old]
      BY <2>2, <3>1, <3>3
    <3>7. [me EXCEPT !.old = old] \in Pass
      BY <3>2, <3>5 DEF Pass
    <3> QED
      BY <3>1, <3>2, <3>6, <3>7 DEF SamePass, Pass
  <2>4. work' \in [Worker -> Pass]
    BY <2>2, <2>3
  <2>5. changes' \in 0..MaxChanges /\ changes' > changes
    BY <1>3, Numbers DEF SetAI, TypeOK
  <2>6. ai' \in [User -> BOOLEAN] /\ before' \in [User -> SUBSET Vacancy]
    BY <1>3 DEF SetAI, TypeOK
  <2>7. /\ active' \in [Vacancy -> BOOLEAN] /\ telegram' \in [User -> BOOLEAN]
        /\ UNCHANGED <<telegram, revision, gates, item, order, resultVars, lock, boundVars>>
    BY <1>3 DEF SetAI, TypeOK, vacancyVars
  <2>8. changes' >= changes
    BY <2>5, Numbers DEF TypeOK
  <2> QED
    BY <2>3, <2>4, <2>5, <2>6, <2>7, <2>8 DEF Adjusts
<1>4. ASSUME NEW u \in User, NEW b \in BOOLEAN, SetTelegram(u, b)
      PROVE  Adjusts
  <2>1. changes' \in 0..MaxChanges /\ changes' > changes
    BY <1>4, Numbers DEF SetTelegram, TypeOK
  <2>2. telegram' \in [User -> BOOLEAN]
    BY <1>4 DEF SetTelegram, TypeOK
  <2> QED
    BY <1>4, <2>1, <2>2 DEF SetTelegram, Adjusts, TypeOK, SamePass, vacancyVars
<1>5. ASSUME NEW i \in Item, LeaseExpires(i)
      PROVE  Ages
  <2>1. item' = [item EXCEPT ![i].expired = TRUE]
    BY <1>5 DEF LeaseExpires
  <2>2. item \in [Item -> WorkItem]
    BY DEF TypeOK
  <2>3. [item[i] EXCEPT !.expired = TRUE] \in WorkItem
    BY <2>2 DEF WorkItem
  <2>4. item' \in [Item -> WorkItem]
    BY <2>1, <2>2, <2>3
  <2>5. \A j \in Item : item'[j].status = item[j].status /\ item'[j].attempts = item[j].attempts
    BY <2>1, <2>2 DEF WorkItem
  <2> QED
    BY <1>5, <2>4, <2>5 DEF LeaseExpires, Ages, TypeOK
<1>6. ASSUME NEW i \in Item, BackoffEnds(i)
      PROVE  Ages
  <2>1. order \in Seq(Item) /\ order' = Append(order, i) /\ i \notin Range(order)
    BY <1>6 DEF BackoffEnds, TypeOK
  <2>2. i \in Published
    BY <1>6 DEF BackoffEnds, Published
  <2>3. /\ order' \in Seq(Item) /\ Range(order') = Range(order) \cup {i}
        /\ IsInjective(order) => IsInjective(order')
    BY <2>1, AppendFacts
  <2> QED
    BY <1>6, <2>2, <2>3 DEF BackoffEnds, Ages, TypeOK
<1>7. ASSUME NEW w \in Worker, LoseLock(w)
      PROVE  Unlocks
  BY <1>7, Numbers DEF LoseLock, Unlocks, TypeOK
<1> QED
  BY <1>1, <1>2, <1>3, <1>4, <1>5, <1>6, <1>7

LEMMA ClaimEffect ==
  ASSUME TypeOK, NEW taken, NEW claimed, \A i \in claimed : i \in Item /\ Open(i),
         item' = CandidatesIn(taken, claimed)
  PROVE  Claims
<1>1. item \in [Item -> WorkItem]
  BY DEF TypeOK
<1>2. ASSUME NEW j \in Item
      PROVE  /\ item'[j] \in WorkItem
             /\ item'[j].attempts = item[j].attempts
             /\ \/ item'[j].status = item[j].status
                \/ item[j].status \in OpenStatus /\ item'[j].status \in OpenStatus
                \/ item[j].status \in OpenStatus /\ Stale(j) /\ item'[j].status = "done"
  <2> PICK r : r = item[j]
    OBVIOUS
  <2>1. r \in WorkItem
    BY <1>1
  <2>2. \/ j \in Recovered /\ item'[j] = [r EXCEPT !.status = "pending", !.expired = FALSE]
        \/ j \in claimed /\ item'[j] = [r EXCEPT !.status = "processing"]
        \/ j \in Superseded /\ item'[j] = [r EXCEPT !.status = "done"]
        \/ item'[j] = r
    <3>1. item' = [i \in Item |-> RowIn(i, taken, claimed)]
      BY DEF CandidatesIn
    <3>2. item'[j] = RowIn(j, taken, claimed)
      BY <3>1, Zenon
    <3>3. ~(j \in Recovered /\ j \in claimed) /\ ~(j \in Recovered /\ j \in Superseded)
      BY DEF Recovered, Superseded, Open
    <3>4. CASE j \in Recovered
      BY <3>2, <3>3, <3>4 DEF RowIn
    <3>5. CASE j \in claimed /\ (j \in taken \/ j \notin Superseded)
      BY <3>2, <3>3, <3>5 DEF RowIn
    <3>6. CASE j \in Superseded /\ ~(j \in claimed /\ j \in taken)
      BY <3>2, <3>3, <3>6 DEF RowIn
    <3>7. CASE /\ j \notin Recovered /\ ~(j \in claimed /\ (j \in taken \/ j \notin Superseded))
               /\ ~(j \in Superseded /\ ~(j \in claimed /\ j \in taken))
      BY <3>2, <3>7 DEF RowIn
    <3> QED
      BY <3>4, <3>5, <3>6, <3>7
  <2>3. j \in Recovered => r.status = "processing"
    BY DEF Recovered
  <2>4. j \in claimed => r.status \in {"pending", "failed"}
    BY DEF Open
  <2>5. j \in Superseded => r.status \in {"pending", "failed"} /\ Stale(j)
    BY DEF Superseded, Open
  <2>6. CASE j \in Recovered /\ item'[j] = [r EXCEPT !.status = "pending", !.expired = FALSE]
    BY <2>1, <2>3, <2>6 DEF WorkItem, Status, OpenStatus
  <2>7. CASE j \in claimed /\ item'[j] = [r EXCEPT !.status = "processing"]
    BY <2>1, <2>4, <2>7 DEF WorkItem, Status, OpenStatus
  <2>8. CASE j \in Superseded /\ item'[j] = [r EXCEPT !.status = "done"]
    BY <2>1, <2>5, <2>8 DEF WorkItem, Status, OpenStatus
  <2>9. CASE item'[j] = r
    BY <2>1, <2>9
  <2> QED
    BY <2>2, <2>6, <2>7, <2>8, <2>9
<1>3. item' \in [Item -> WorkItem]
  <2>1. item' = [i \in Item |-> RowIn(i, taken, claimed)]
    BY DEF CandidatesIn
  <2>2. \A i \in Item : item'[i] = RowIn(i, taken, claimed)
    BY <2>1, Zenon
  <2>3. \A i \in Item : RowIn(i, taken, claimed) \in WorkItem
    BY <1>2, <2>2
  <2> QED
    BY <2>1, <2>3
<1> QED
  BY <1>2, <1>3 DEF Claims

LEMMA BeginEffect == ASSUME TypeOK, NEW w \in Worker, Candidates(w) PROVE Begins(w)
<1>1. PICK claimedSeq, claimed, batch :
        /\ claimedSeq = FirstN(Claimable, BatchSize) /\ claimed = Range(claimedSeq)
        /\ batch = Within(claimedSeq, {i \in Item : Returned(i)})
  OBVIOUS
<1>2. order \in Seq(Item) /\ BatchSize \in Nat
  BY Numbers DEF TypeOK
<1>3. /\ Claimable \in Seq(Item)
      /\ Range(Claimable) = Range(order) \cap {i \in Item : Open(i)}
      /\ IsInjective(order) => IsInjective(Claimable)
  BY <1>2, WithinFacts DEF Claimable
<1>4. /\ claimedSeq \in Seq(Item) /\ claimed \subseteq Range(Claimable)
      /\ IsInjective(order) => IsInjective(claimedSeq)
  BY <1>1, <1>2, <1>3, FirstNFacts
<1>5. /\ batch \in Seq(Item) /\ Range(batch) \subseteq Range(order)
      /\ IsInjective(order) => IsInjective(batch)
  <2>1. PICK S : batch = Within(claimedSeq, S)
    BY <1>1
  <2>2. /\ batch \in Seq(Item) /\ Range(batch) = Range(claimedSeq) \cap S
        /\ IsInjective(claimedSeq) => IsInjective(batch)
    BY <1>4, <2>1, WithinFacts
  <2> QED
    BY <1>1, <1>3, <1>4, <2>2
<1>6. PICK taken : item' = CandidatesIn(taken, claimed)
  BY <1>1 DEF Candidates
<1>7. Claims
  BY <1>3, <1>4, <1>6, ClaimEffect
<1>8. /\ order' \in Seq(Item) /\ Range(order') \subseteq Range(order)
      /\ IsInjective(order) => IsInjective(order')
  <2>1. PICK S : order' = Within(order, S)
    BY DEF Candidates
  <2>2. /\ Within(order, S) \in Seq(Item) /\ Range(Within(order, S)) = Range(order) \cap S
        /\ IsInjective(order) => IsInjective(Within(order, S))
    BY <1>2, WithinFacts
  <2> QED
    BY <2>1, <2>2
<1>9. ASSUME batch # <<>>,
             lock' = w,
             work' = [work EXCEPT ![w] =
                        [Idle EXCEPT !.pc = "screen", !.batch = batch, !.old = before,
                                     !.todo = Pairs(batch, SetToSeq(User))]],
             User # {}
      PROVE  LET new == work'[w] IN
             /\ lock' = w /\ Others(w) /\ work' \in [Worker -> Pass]
             /\ new.pc = "screen" /\ new.back = "screen" /\ new.jobs = <<>> /\ new.failed = {}
             /\ new.batch # <<>> /\ Range(new.batch) \subseteq Range(order)
             /\ IsInjective(order) => IsInjective(new.batch) /\ IsInjective(new.todo)
             /\ new.todo # <<>> /\ Range(new.todo) = User \X Range(new.batch)
  <2>1. PICK users, todo : users = SetToSeq(User) /\ todo = Pairs(batch, users)
    OBVIOUS
  <2>2. users \in Seq(User) /\ Range(users) = User /\ IsInjective(users)
    BY <2>1, UsersFacts
  <2>3. /\ todo \in Seq(Pair) /\ Range(todo) = User \X Range(batch)
        /\ IsInjective(batch) => IsInjective(todo)
    BY <1>5, <2>1, <2>2, PairsFacts
  <2>4. todo # <<>>
    <3>1. Head(batch) \in Range(batch)
      BY <1>5, <1>9, HeadTailFacts
    <3>2. Range(todo) # {}
      <4>1. PICK u \in User : TRUE
        BY <1>9
      <4>2. <<u, Head(batch)>> \in Range(todo)
        BY <2>3, <3>1, <4>1
      <4> QED
        BY <4>2
    <3>3. Range(<<>>) = {}
      BY DEF Range
    <3> QED
      BY <3>2, <3>3
  <2>5. PICK new : new = [Idle EXCEPT !.pc = "screen", !.batch = batch, !.old = before,
                                      !.todo = todo]
    OBVIOUS
  <2>6. /\ new.pc = "screen" /\ new.back = "screen" /\ new.jobs = <<>> /\ new.failed = {}
        /\ new.batch = batch /\ new.todo = todo
    BY <2>5 DEF Idle
  <2>7. new \in Pass
    <3>1. before \in [User -> SUBSET Vacancy] /\ "screen" \in PC
      BY DEF TypeOK, PC
    <3>2. Idle \in Pass
      BY IdlePass
    <3> QED
      BY <1>5, <2>3, <2>5, <3>1, <3>2 DEF Pass
  <2>8. work' = [work EXCEPT ![w] = new]
    BY <1>9, <2>1, <2>5
  <2>9. work' \in [Worker -> Pass] /\ work'[w] = new /\ Others(w)
    BY <2>7, <2>8 DEF TypeOK, Others
  <2> QED
    BY <1>5, <1>9, <2>3, <2>4, <2>6, <2>9
<1>10. /\ work[w].pc = "idle" /\ lock = NoWorker /\ User # {}
       /\ UNCHANGED <<vacancyVars, resultVars, settingsVars, boundVars>>
       /\ \/ batch = <<>> /\ UNCHANGED <<lock, work>>
          \/ /\ batch # <<>> /\ lock' = w
             /\ work' = [work EXCEPT ![w] =
                        [Idle EXCEPT !.pc = "screen", !.batch = batch, !.old = before,
                                     !.todo = Pairs(batch, SetToSeq(User))]]
  BY <1>1 DEF Candidates
<1> QED
  BY <1>7, <1>8, <1>9, <1>10 DEF Begins

\* The decisions are decisions.
LEMMA MatchType == \A g : Match(g) \in Decision
  BY DEF Match, Decision

LEMMA PrecedenceType ==
  \A g, proven : \A a \in Decision : ApplyHardGatePrecedence(g, a, proven) \in Decision
<1> SUFFICES ASSUME NEW g, NEW proven, NEW a \in Decision
             PROVE  ApplyHardGatePrecedence(g, a, proven) \in Decision
  OBVIOUS
<1>1. Match(g) = "reject" \/ Match(g) = "match" \/ Match(g) = "review"
  BY DEF Match
<1>2. CASE Match(g) = "reject"
  BY <1>2 DEF ApplyHardGatePrecedence, Decision
<1>3. CASE Match(g) = "match"
  BY <1>3 DEF ApplyHardGatePrecedence, Decision
<1>4. CASE Match(g) = "review" /\ a # "match"
  BY <1>4 DEF ApplyHardGatePrecedence, Decision
<1>5. CASE Match(g) = "review" /\ a = "match"
  BY <1>5 DEF ApplyHardGatePrecedence, Decision
<1> QED
  BY <1>1, <1>2, <1>3, <1>4, <1>5

\* One worker's record is replaced.
LEMMA WorkUpdate ==
  ASSUME TypeOK, NEW w \in Worker, NEW new, work' = [work EXCEPT ![w] = new]
  PROVE  /\ work'[w] = new /\ Others(w)
         /\ new \in Pass => work' \in [Worker -> Pass]
  BY DEF TypeOK, Others

LEMMA ScreenEffect ==
  ASSUME TypeOK, Shape, NEW w \in Worker, Screen(w) PROVE Screens(w)
<1>1. PICK me, p, todo, d, new :
        /\ me = work[w] /\ p = Head(me.todo) /\ todo = Tail(me.todo)
        /\ d = Match(gates[p]) /\ new = work'[w]
  OBVIOUS
<1> DEFINE skip == p[2][1] \in me.old[p[1]]
<1>2. me \in Pass /\ me.pc = "screen"
  BY <1>1 DEF TypeOK, Screen
<1>3. me.todo \in Seq(Pair) /\ me.jobs \in Seq(Pair) /\ me.todo # <<>>
  BY <1>1, <1>2, PassFields DEF Shape, ShapeOf
<1>4. p \in Pair /\ todo \in Seq(Pair)
  BY <1>1, <1>3, HeadTailFacts
<1>5. PICK rec : work' = [work EXCEPT ![w] = rec]
  BY DEF Screen
<1>6. new = rec /\ Others(w) /\ (rec \in Pass => work' \in [Worker -> Pass])
  BY <1>1, <1>5, WorkUpdate
<1>7. matched' = IF skip THEN matched ELSE matched \cup {p}
  BY <1>1 DEF Screen, SaveMatch
<1>8. UNCHANGED <<outerVars, job, failures, result, delivery>>
  BY DEF Screen, outerVars
<1>9. "announce" \in PC /\ "storejob" \in PC /\ "screen" \in PC /\ d \in Decision
  BY <1>1, MatchType DEF PC
<1> DEFINE Goal ==
      \/ cleared' = cleared \cup {p} /\ Resumes(me, new, todo, me.jobs)
      \/ /\ cleared' = cleared \cup {p} /\ p \in matched' /\ Match(gates[p]) = "match"
         /\ Holds(me, new, "announce", p, "match", "screen", todo, me.jobs)
      \/ /\ cleared' = cleared /\ result[p] = "none"
         /\ Holds(me, new, "storejob", p, "reject", "screen", todo, me.jobs)
      \/ /\ cleared' = cleared /\ result[p] = "none"
         /\ Resumes(me, new, todo, Append(me.jobs, p))
<1>10. ASSUME skip \/ ~ai[p[1]] \/ AIResultExists(p)
       PROVE  new \in Pass /\ Goal
  <2>1. /\ cleared' = cleared \cup {p}
        /\ rec = IF ~skip /\ ~ai[p[1]] /\ d = "match" /\ Created(p)
                 THEN Hold(me, "announce", p, d, "screen", todo, me.jobs)
                 ELSE Resume(me, "screen", todo, me.jobs)
    BY <1>1, <1>5, <1>6, <1>10 DEF Screen, TypeOK
  <2>2. CASE rec = Resume(me, "screen", todo, me.jobs)
    <3>1. Resumes(me, new, todo, me.jobs)
      BY <1>2, <1>3, <1>4, <1>6, <2>2, ResumeEffect
    <3>2. new \in Pass
      BY <3>1 DEF Resumes, Kept
    <3> QED
      BY <2>1, <3>1, <3>2
  <2>3. CASE ~skip /\ d = "match" /\ rec = Hold(me, "announce", p, d, "screen", todo, me.jobs)
    <3>1. Holds(me, new, "announce", p, "match", "screen", todo, me.jobs)
      BY <1>2, <1>3, <1>4, <1>6, <1>9, <2>3, HoldEffect
    <3>2. new \in Pass
      BY <3>1 DEF Holds, Kept
    <3>3. p \in matched' /\ Match(gates[p]) = "match"
      BY <1>1, <1>7, <2>3
    <3> QED
      BY <2>1, <3>1, <3>2, <3>3
  <2> QED
    BY <2>1, <2>2, <2>3
<1>11. ASSUME ~skip, ai[p[1]], ~AIResultExists(p)
       PROVE  new \in Pass /\ Goal
  <2>1. /\ cleared' = cleared
        /\ rec = IF d = "reject" THEN Hold(me, "storejob", p, d, "screen", todo, me.jobs)
                 ELSE Resume(me, "screen", todo, Append(me.jobs, p))
    BY <1>1, <1>5, <1>6, <1>11 DEF Screen, TypeOK
  <2>2. result[p] = "none"
    BY <1>11 DEF AIResultExists
  <2>3. CASE d = "reject"
    <3>1. Holds(me, new, "storejob", p, "reject", "screen", todo, me.jobs)
      BY <1>2, <1>3, <1>4, <1>6, <1>9, <2>1, <2>3, HoldEffect
    <3>2. new \in Pass
      BY <3>1 DEF Holds, Kept
    <3> QED
      BY <2>1, <2>2, <3>1, <3>2
  <2>4. CASE d # "reject"
    <3>1. Append(me.jobs, p) \in Seq(Pair)
      BY <1>3, <1>4, AppendFacts
    <3>2. Resumes(me, new, todo, Append(me.jobs, p))
      BY <1>2, <1>4, <1>6, <2>1, <2>4, <3>1, ResumeEffect
    <3>3. new \in Pass
      BY <3>2 DEF Resumes, Kept
    <3> QED
      BY <2>1, <2>2, <3>2, <3>3
  <2> QED
    BY <2>3, <2>4
<1>12. new \in Pass /\ Goal
  BY <1>10, <1>11
<1>13. matched \subseteq matched' /\ matched' \subseteq matched \cup {p}
  BY <1>7
<1>14. Goal /\ work' \in [Worker -> Pass] /\ Others(w)
  BY <1>6, <1>12
<1> QED
  BY <1>1, <1>2, <1>8, <1>13, <1>14 DEF Screens

LEMMA AskEffect ==
  ASSUME TypeOK, Shape, NEW w \in Worker, Ask(w) PROVE Asks(w)
<1>1. PICK me, u, group, rest, new :
        /\ me = work[w] /\ u = Head(me.jobs)[1] /\ new = work'[w]
        /\ group = Within(me.jobs, {u} \X Item)
        /\ rest = Within(me.jobs, (User \ {u}) \X Item)
  OBVIOUS
<1>2. me \in Pass /\ me.pc = "ask"
  BY <1>1 DEF TypeOK, Ask
<1>3. me.jobs \in Seq(Pair) /\ me.jobs # <<>>
  BY <1>1, <1>2, PassFields DEF Shape, ShapeOf
<1>4. Head(me.jobs) \in Pair /\ Head(me.jobs) \in Range(me.jobs) /\ u \in User
  BY <1>1, <1>3, HeadTailFacts, Numbers
<1>5. /\ group \in Seq(Pair) /\ Range(group) = Range(me.jobs) \cap ({u} \X Item)
      /\ IsInjective(me.jobs) => IsInjective(group)
      /\ rest \in Seq(Pair) /\ Range(rest) = Range(me.jobs) \cap ((User \ {u}) \X Item)
      /\ IsInjective(me.jobs) => IsInjective(rest)
  <2>1. PICK s, S, T : s = me.jobs /\ S = {u} \X Item /\ T = (User \ {u}) \X Item
    OBVIOUS
  <2>2. s \in Seq(Pair) /\ group = Within(s, S) /\ rest = Within(s, T)
    BY <1>1, <1>3, <2>1
  <2>3. /\ Within(s, S) \in Seq(Pair) /\ Range(Within(s, S)) = Range(s) \cap S
        /\ IsInjective(s) => IsInjective(Within(s, S))
    BY <2>2, WithinFacts
  <2>4. /\ Within(s, T) \in Seq(Pair) /\ Range(Within(s, T)) = Range(s) \cap T
        /\ IsInjective(s) => IsInjective(Within(s, T))
    BY <2>2, WithinFacts
  <2> QED
    BY <2>1, <2>2, <2>3, <2>4
<1>6. Range(me.jobs) \subseteq Pair
  BY <1>3, RangeOfSeq
<1>7. Range(group) \cup Range(rest) = Range(me.jobs) /\ Range(group) \cap Range(rest) = {}
  <2>1. \A p \in Pair : p \in {u} \X Item \/ p \in (User \ {u}) \X Item
    BY DEF Pair
  <2> QED
    BY <1>5, <1>6, <2>1
<1>8. Head(me.jobs) \in Range(group)
  BY <1>1, <1>4, <1>5, Numbers
<1>9. group # <<>>
  BY <1>8 DEF Range
<1>10. PICK jobs : jobs = group \o rest
  OBVIOUS
<1>11. /\ jobs \in Seq(Pair) /\ Range(jobs) = Range(me.jobs) /\ jobs # <<>>
       /\ Head(jobs) = Head(group) /\ Head(jobs) \in Range(group) /\ Head(jobs) \in Pair
       /\ IsInjective(me.jobs) => IsInjective(jobs)
  <2>1. /\ group \o rest \in Seq(Pair) /\ Range(group \o rest) = Range(group) \cup Range(rest)
        /\ group \o rest # <<>> /\ Head(group \o rest) = Head(group)
        /\ IsInjective(group) /\ IsInjective(rest) => IsInjective(group \o rest)
    BY <1>5, <1>7, <1>9, ConcatFacts
  <2>2. Head(group) \in Pair /\ Head(group) \in Range(group)
    BY <1>5, <1>9, HeadTailFacts
  <2> QED
    BY <1>5, <1>7, <1>10, <2>1, <2>2
<1>12. PICK a \in [Range(group) -> Decision \cup {"failed"}] :
          work' = [work EXCEPT ![w] = Answered(me, jobs, a)]
  BY <1>1, <1>10 DEF Ask
<1>13. PICK answer, rec :
         /\ answer = [p \in Pair |-> IF p \in DOMAIN a THEN a[p] ELSE "none"]
         /\ rec = Answered(me, jobs, a)
  OBVIOUS
<1>14. answer \in [Pair -> Decision \cup {"none", "failed"}] /\ answer[Head(jobs)] # "none"
  <2>1. \A p \in Range(group) : answer[p] = a[p] /\ a[p] \in Decision \cup {"failed"}
    BY <1>5, <1>6, <1>13
  <2>2. answer[Head(jobs)] \in Decision \cup {"failed"}
    BY <1>11, <2>1
  <2>3. \A p \in Pair : answer[p] \in Decision \cup {"none", "failed"}
    BY <1>13
  <2> QED
    BY <1>13, <2>2, <2>3 DEF Decision
<1>15. /\ rec \in Pass /\ rec.pc = "finish" /\ rec.batch = me.batch /\ rec.todo = me.todo
       /\ rec.cur = me.cur /\ rec.back = me.back /\ rec.failed = me.failed
       /\ rec.jobs = jobs /\ rec.answer = answer
  <2>1. rec = [me EXCEPT !.pc = "finish", !.jobs = jobs, !.answer = answer]
    BY <1>13, Zenon DEF Answered
  <2> QED
    BY <1>2, <1>11, <1>14, <2>1 DEF Pass, PC
<1>16. new = rec /\ Others(w) /\ work' \in [Worker -> Pass]
  <2>1. work' = [work EXCEPT ![w] = rec]
    BY <1>12, <1>13
  <2> QED
    BY <1>1, <1>15, <2>1, WorkUpdate
<1>17. UNCHANGED <<outerVars, resultVars>>
  BY DEF Ask, outerVars
<1> QED
  BY <1>1, <1>2, <1>11, <1>14, <1>15, <1>16, <1>17 DEF Asks

\* The pair in hand
LEMMA InHand ==
  ASSUME TypeOK, Shape, NEW w \in Worker, work[w].pc \in Holding
  PROVE  /\ Head(work[w].cur) \in Pair /\ Head(work[w].cur)[2] \in Published
         /\ work[w].cur = <<Head(work[w].cur)>>
  BY DEF Shape, ShapeOf

\* The first of the jobs
LEMMA FirstJob ==
  ASSUME TypeOK, Shape, NEW w \in Worker, work[w].pc \in {"ask", "finish"}
  PROVE  /\ work[w].jobs \in Seq(Pair) /\ work[w].jobs # <<>>
         /\ Head(work[w].jobs) \in Pair /\ Head(work[w].jobs) \in Range(work[w].jobs)
         /\ Tail(work[w].jobs) \in Seq(Pair)
         /\ Range(work[w].jobs) = {Head(work[w].jobs)} \cup Range(Tail(work[w].jobs))
         /\ IsInjective(work[w].jobs) =>
              /\ IsInjective(Tail(work[w].jobs))
              /\ Head(work[w].jobs) \notin Range(Tail(work[w].jobs))
<1>1. work[w] \in Pass /\ work[w].jobs # <<>>
  BY DEF TypeOK, Shape, ShapeOf
<1> QED
  BY <1>1, PassFields, HeadTailFacts

LEMMA FinishEffect ==
  ASSUME TypeOK, Shape, NEW w \in Worker, Finish(w) PROVE Finishes(w)
<1>1. PICK old, p, jobs, me, a, new :
        /\ old = work[w] /\ p = Head(old.jobs) /\ jobs = Tail(old.jobs)
        /\ me = [old EXCEPT !.answer[p] = "none"] /\ a = old.answer[p] /\ new = work'[w]
  OBVIOUS
<1>2. old \in Pass /\ old.pc = "finish"
  BY <1>1 DEF TypeOK, Finish
<1>3. p \in Pair /\ jobs \in Seq(Pair) /\ p[2] \in Item
  BY <1>1, <1>2, FirstJob, Numbers
<1>4. a \in Decision \cup {"failed"}
  <2>1. a # "none"
    BY <1>1, <1>2 DEF Shape, ShapeOf
  <2> QED
    BY <1>1, <1>2, <1>3, <2>1 DEF Pass
<1>5. PICK answer : answer = [old.answer EXCEPT ![p] = "none"]
  OBVIOUS
<1>6. me = [old EXCEPT !.answer = answer] /\ answer \in [Pair -> Decision \cup {"none", "failed"}]
  BY <1>1, <1>2, <1>5 DEF Pass
<1>7. me \in Pass /\ me.batch = old.batch /\ me.failed = old.failed
  BY <1>2, <1>6 DEF Pass
<1>8. UNCHANGED <<outerVars, result, matched, delivery, cleared>>
  BY DEF Finish, outerVars
<1>9. ASSUME a = "failed",
             job' = [job EXCEPT ![p] = [status |-> "failed", attempts |-> Capped(job[p].attempts + 1)]],
             failures' = [failures EXCEPT ![p[2]] = Capped(failures[p[2]] + 1)],
             work' = [work EXCEPT ![w] = Resume([me EXCEPT !.failed = me.failed \cup {p[2]}],
                                                "finish", <<>>, jobs)]
      PROVE  Finishes(w)
  <2>1. PICK failed, mid : failed = me.failed \cup {p[2]} /\ mid = [me EXCEPT !.failed = failed]
    OBVIOUS
  <2>2. PICK rec : rec = Resume(mid, "finish", <<>>, jobs)
    OBVIOUS
  <2>3. failed \in SUBSET Item
    BY <1>3, <1>7, <2>1 DEF Pass
  <2>4. mid \in Pass /\ mid.batch = old.batch /\ mid.failed = failed
    BY <1>7, <2>1, <2>3 DEF Pass
  <2>5. Resumes(mid, rec, <<>>, jobs)
    BY <1>3, <2>2, <2>4, EmptySeq, ResumeEffect
  <2>6. work' = [work EXCEPT ![w] = rec]
    BY <1>9, <2>1, <2>2
  <2>7. rec \in Pass
    BY <2>5 DEF Resumes, Kept
  <2>8. work'[w] = rec /\ Others(w) /\ work' \in [Worker -> Pass]
    BY <2>6, <2>7, WorkUpdate
  <2>9. mid.failed = old.failed \cup {p[2]} /\ mid.batch = old.batch
    BY <1>7, <2>1, <2>4
  <2>10. \E m \in Pass :
           /\ m.batch = old.batch /\ m.failed = old.failed \cup {p[2]}
           /\ Resumes(m, work'[w], <<>>, jobs)
    BY <2>4, <2>5, <2>8, <2>9
  <2> QED
    BY <1>1, <1>2, <1>8, <1>9, <2>8, <2>10 DEF Finishes
<1>10. ASSUME a # "failed", UNCHANGED <<job, failures>>, NEW proven,
              work' = [work EXCEPT ![w] = Hold(me, "storejob", p,
                   ApplyHardGatePrecedence(gates[p], a, proven), "finish", <<>>, jobs)]
       PROVE  Finishes(w)
  <2>1. PICK d, rec : /\ d = ApplyHardGatePrecedence(gates[p], a, proven)
                      /\ rec = Hold(me, "storejob", p, d, "finish", <<>>, jobs)
    OBVIOUS
  <2>2. d \in Decision /\ "storejob" \in PC /\ "finish" \in PC
    BY <1>4, <1>10, <2>1, PrecedenceType DEF PC
  <2>3. Holds(me, rec, "storejob", p, d, "finish", <<>>, jobs)
    BY <1>3, <1>7, <2>1, <2>2, EmptySeq, HoldEffect
  <2>4. work' = [work EXCEPT ![w] = rec]
    BY <1>10, <2>1
  <2>5. rec \in Pass
    BY <2>3 DEF Holds, Kept
  <2>6. work'[w] = rec /\ Others(w) /\ work' \in [Worker -> Pass]
    BY <2>4, <2>5, WorkUpdate
  <2>7. \E m \in Pass :
          /\ m.batch = old.batch /\ m.failed = old.failed
          /\ \E v \in Decision : Holds(m, work'[w], "storejob", p, v, "finish", <<>>, jobs)
    BY <1>7, <2>2, <2>3, <2>6
  <2> QED
    BY <1>1, <1>2, <1>8, <1>10, <2>6, <2>7 DEF Finishes
<1>11. \/ /\ a = "failed"
          /\ job' = [job EXCEPT ![p] = [status |-> "failed", attempts |-> Capped(job[p].attempts + 1)]]
          /\ failures' = [failures EXCEPT ![p[2]] = Capped(failures[p[2]] + 1)]
          /\ work' = [work EXCEPT ![w] = Resume([me EXCEPT !.failed = me.failed \cup {p[2]}],
                                                "finish", <<>>, jobs)]
       \/ /\ a # "failed" /\ UNCHANGED <<job, failures>>
          /\ \E proven : work' = [work EXCEPT ![w] = Hold(me, "storejob", p,
                   ApplyHardGatePrecedence(gates[p], a, proven), "finish", <<>>, jobs)]
  BY <1>1 DEF Finish
<1> QED
  BY <1>9, <1>10, <1>11

LEMMA StoreEffect ==
  ASSUME TypeOK, Shape, NEW w \in Worker
  PROVE  /\ SaveAIJob(w) => StoresJob(w)
         /\ SaveAIResult(w) => StoresResult(w)
         /\ SaveDelivery(w) => Delivers(w)
<1>1. PICK me, p, new : me = work[w] /\ p = Head(me.cur) /\ new = work'[w]
  OBVIOUS
<1>2. me \in Pass
  BY <1>1 DEF TypeOK
<1>3. /\ me.back \in {"screen", "finish"} /\ me.todo \in Seq(Pair) /\ me.jobs \in Seq(Pair)
      /\ me.back = "finish" => me.todo = <<>>
  BY <1>1, <1>2, PassFields DEF Shape, ShapeOf
<1>4. ASSUME SaveAIJob(w) PROVE StoresJob(w)
  <2>1. PICK rec : rec = [me EXCEPT !.pc = "storeresult"]
    OBVIOUS
  <2>2. work' = [work EXCEPT ![w] = rec]
    BY <1>1, <1>4, <2>1 DEF SaveAIJob
  <2>3. rec \in Pass
    BY <1>2, <2>1 DEF Pass, PC
  <2>4. new = rec /\ Others(w) /\ work' \in [Worker -> Pass]
    BY <1>1, <2>2, <2>3, WorkUpdate
  <2> QED
    BY <1>1, <1>4, <2>1, <2>4 DEF SaveAIJob, StoresJob, outerVars
<1>5. ASSUME SaveAIResult(w) PROVE StoresResult(w)
  <2>1. PICK rec : rec = IF me.verdict = "match" THEN [me EXCEPT !.pc = "announce"]
                         ELSE Resume(me, me.back, me.todo, me.jobs)
    OBVIOUS
  <2>2. work' = [work EXCEPT ![w] = rec]
    BY <1>1, <1>5, <2>1 DEF SaveAIResult
  <2>3. CASE me.verdict = "match"
    <3>1. rec = [me EXCEPT !.pc = "announce"]
      BY <2>1, <2>3
    <3>2. rec \in Pass
      BY <1>2, <3>1 DEF Pass, PC
    <3>3. new = rec /\ Others(w) /\ work' \in [Worker -> Pass]
      BY <1>1, <2>2, <3>2, WorkUpdate
    <3> QED
      BY <1>1, <1>5, <2>3, <3>1, <3>3 DEF SaveAIResult, StoresResult, outerVars
  <2>4. CASE me.verdict # "match"
    <3>1. Resumes(me, rec, me.todo, me.jobs)
      BY <1>2, <1>3, <2>1, <2>4, ResumeEffect
    <3>2. rec \in Pass
      BY <3>1 DEF Resumes, Kept
    <3>3. new = rec /\ Others(w) /\ work' \in [Worker -> Pass]
      BY <1>1, <2>2, <3>2, WorkUpdate
    <3> QED
      BY <1>1, <1>5, <2>4, <3>1, <3>3 DEF SaveAIResult, StoresResult, outerVars
  <2> QED
    BY <2>3, <2>4
<1>6. ASSUME SaveDelivery(w) PROVE Delivers(w)
  <2>1. PICK rec : rec = Resume(me, me.back, me.todo, me.jobs)
    OBVIOUS
  <2>2. work' = [work EXCEPT ![w] = rec]
    BY <1>1, <1>6, <2>1 DEF SaveDelivery
  <2>3. Resumes(me, rec, me.todo, me.jobs)
    BY <1>2, <1>3, <2>1, ResumeEffect
  <2>4. rec \in Pass
    BY <2>3 DEF Resumes, Kept
  <2>5. new = rec /\ Others(w) /\ work' \in [Worker -> Pass]
    BY <1>1, <2>2, <2>4, WorkUpdate
  <2> QED
    BY <1>1, <1>6, <2>3, <2>5 DEF SaveDelivery, Delivers, outerVars
<1> QED
  BY <1>4, <1>5, <1>6

LEMMA SettleEffect ==
  ASSUME TypeOK, Shape, NEW w \in Worker
  PROVE  /\ Settle(w) => Settles(w)
         /\ Abort(w) => Aborts(w)
<1>1. ASSUME Settle(w) PROVE Settles(w)
  <2>1. PICK me, i : me = work[w] /\ i = Head(me.batch)
    OBVIOUS
  <2>2. me \in Pass /\ me.pc = "settle"
    BY <1>1, <2>1 DEF TypeOK, Settle
  <2>3. me.batch \in Seq(Item) /\ me.batch # <<>>
    BY <2>1, <2>2, PassFields DEF Shape, ShapeOf
  <2>4. Tail(me.batch) \in Seq(Item) /\ (Len(me.batch) = 1 <=> Tail(me.batch) = <<>>)
    BY <2>3, HeadTailFacts
  <2>5. Drops(w)
    <3>1. CASE Len(me.batch) = 1
      <4>1. work' = [work EXCEPT ![w] = Idle] /\ lock' = Free(w)
        BY <1>1, <2>1, <3>1 DEF Settle
      <4>2. work'[w] = Idle /\ Others(w) /\ work' \in [Worker -> Pass]
        BY <4>1, IdlePass, WorkUpdate
      <4> QED
        BY <4>1, <4>2 DEF Drops
    <3>2. CASE Len(me.batch) # 1
      <4>1. PICK rec : rec = [me EXCEPT !.batch = Tail(me.batch)]
        OBVIOUS
      <4>2. work' = [work EXCEPT ![w] = rec] /\ lock' = lock
        BY <1>1, <2>1, <3>2, <4>1 DEF Settle
      <4>3. rec \in Pass
        BY <2>2, <2>4, <4>1 DEF Pass
      <4>4. work'[w] = rec /\ Others(w) /\ work' \in [Worker -> Pass]
        BY <4>2, <4>3, WorkUpdate
      <4> QED
        BY <2>1, <2>4, <3>2, <4>1, <4>2, <4>4 DEF Drops
    <3> QED
      BY <3>1, <3>2
  <2>6. /\ order' \in Seq(Item) /\ Range(order') \subseteq Range(order)
        /\ IsInjective(order) => IsInjective(order')
    <3>1. order \in Seq(Item)
      BY DEF TypeOK
    <3>2. PICK S : S = Item \ {i}
      OBVIOUS
    <3>3. order' = Within(order, S) \/ order' = order
      BY <1>1, <2>1, <3>2 DEF Settle
    <3>4. /\ Within(order, S) \in Seq(Item) /\ Range(Within(order, S)) = Range(order) \cap S
          /\ IsInjective(order) => IsInjective(Within(order, S))
      BY <3>1, WithinFacts
    <3> QED
      BY <3>1, <3>3, <3>4
  <2> QED
    BY <1>1, <2>1, <2>5, <2>6 DEF Settle, Settles
<1>2. ASSUME Abort(w) PROVE Aborts(w)
  <2>1. work' = [work EXCEPT ![w] = Idle]
    BY <1>2 DEF Abort
  <2>2. work'[w] = Idle /\ Others(w) /\ work' \in [Worker -> Pass]
    BY <2>1, IdlePass, WorkUpdate
  <2>3. faults' = faults + 1 /\ faults' \in 0..MaxFaults
    BY <1>2, Numbers DEF Abort, TypeOK
  <2> QED
    BY <1>2, <2>2, <2>3 DEF Abort, Aborts
<1> QED
  BY <1>1, <1>2

\* Every step has one of these effects.
LEMMA EffectNext == ASSUME TypeOK, Rows, Shape, [Next]_vars PROVE Effect
<1>1. ASSUME NEW w \in Worker, WorkerStep(w) PROVE Effect
  BY <1>1, ScreenEffect, AskEffect, FinishEffect, StoreEffect, SettleEffect DEF WorkerStep, Effect
<1>2. ASSUME NEW w \in Worker, Candidates(w) PROVE Effect
  BY <1>2, BeginEffect DEF Effect
<1>3. ASSUME NEW w \in Worker, Abort(w) PROVE Effect
  BY <1>3, SettleEffect DEF Effect
<1>4. ASSUME NEW w \in Worker, LoseLock(w) PROVE Effect
  BY <1>4, EnvEffect DEF Effect
<1>5. ASSUME NEW v \in Vacancy, NEW b \in BOOLEAN, NEW g \in [User -> Profile],
             SaveRevision(v, b, g)
      PROVE  Effect
  BY <1>5, EnvEffect DEF Effect
<1>6. ASSUME NEW v \in Vacancy, NEW b \in BOOLEAN, TouchVacancy(v, b) \/ SwitchVacancy(v, b)
      PROVE  Effect
  BY <1>6, EnvEffect DEF Effect
<1>7. ASSUME NEW u \in User, NEW b \in BOOLEAN, SetAI(u, b) \/ SetTelegram(u, b) PROVE Effect
  BY <1>7, EnvEffect DEF Effect
<1>8. ASSUME NEW i \in Item, LeaseExpires(i) \/ BackoffEnds(i) PROVE Effect
  BY <1>8, EnvEffect DEF Effect
<1>9. CASE UNCHANGED vars
  BY <1>9 DEF Effect
<1> QED
  BY <1>1, <1>2, <1>3, <1>4, <1>5, <1>6, <1>7, <1>8, <1>9 DEF Next

-----------------------------------------------------------------------------
(* The effects preserve the parts of the invariant *)

\* SaveAIFailure and SaveAIResult count an attempt of one job.
LEMMA JobUpdate ==
  ASSUME TypeOK, NEW p \in Pair, NEW status \in {"failed", "complete"},
         job' = [job EXCEPT ![p] = [status |-> status, attempts |-> Capped(job[p].attempts + 1)]]
  PROVE  /\ job' \in [Pair -> Job]
         /\ \A q \in Pair \ {p} : job'[q] = job[q]
         /\ \/ job'[p].attempts = job[p].attempts + 1
            \/ job'[p].attempts = AttemptLimit /\ job[p].attempts = AttemptLimit
<1>1. PICK n : n = Capped(job[p].attempts + 1)
  OBVIOUS
<1>2. job \in [Pair -> Job] /\ job[p].attempts \in 0..AttemptLimit
  BY DEF TypeOK, Job
<1>3. /\ n \in 0..AttemptLimit
      /\ n = job[p].attempts + 1 \/ (n = AttemptLimit /\ job[p].attempts = AttemptLimit)
  BY <1>1, <1>2, Numbers DEF Capped
<1>4. PICK r : r = [status |-> status, attempts |-> n]
  OBVIOUS
<1>5. r \in Job /\ r.attempts = n
  BY <1>3, <1>4 DEF Job
<1>6. job' = [job EXCEPT ![p] = r]
  BY <1>1, <1>4
<1>7. job' \in [Pair -> Job] /\ job'[p] = r /\ \A q \in Pair \ {p} : job'[q] = job[q]
  BY <1>2, <1>5, <1>6
<1> QED
  BY <1>3, <1>5, <1>7

\* SaveAIFailure counts one failure of the row, up to the limit.
LEMMA FailuresUpdate ==
  ASSUME TypeOK, NEW j \in Item, failures' = [failures EXCEPT ![j] = Capped(failures[j] + 1)]
  PROVE  /\ failures' \in [Item -> 0..AttemptLimit]
         /\ \A i \in Item : failures'[i] >= failures[i]
         /\ failures'[j] = failures[j] + 1 \/ failures[j] >= AttemptLimit
<1>1. PICK n : n = Capped(failures[j] + 1)
  OBVIOUS
<1>2. failures \in [Item -> 0..AttemptLimit] /\ failures[j] \in 0..AttemptLimit
  BY DEF TypeOK
<1>3. /\ n \in 0..AttemptLimit /\ n >= failures[j]
      /\ n = failures[j] + 1 \/ failures[j] >= AttemptLimit
  BY <1>1, <1>2, Numbers DEF Capped
<1>4. failures' = [failures EXCEPT ![j] = n]
  BY <1>1
<1>5. \A i \in Item : failures'[i] = failures[i] \/ (i = j /\ failures'[i] = n)
  BY <1>2, <1>4
<1>6. \A i \in Item : failures'[i] >= failures[i]
  BY <1>2, <1>3, <1>5, Numbers
<1> QED
  BY <1>2, <1>3, <1>4, <1>6

\* CompleteWorkItem closes a claimed row and touches nothing else.
LEMMA CompleteRow ==
  ASSUME TypeOK, NEW i \in Item, item' = CompleteWorkItem(i)
  PROVE  /\ item' \in [Item -> WorkItem]
         /\ \A j \in Item \ {i} : item'[j] = item[j]
         /\ item[i].status # "processing" => item' = item
         /\ item[i].status = "processing" =>
              item'[i].status = "done" /\ item'[i].attempts = item[i].attempts
<1>1. item \in [Item -> WorkItem]
  BY DEF TypeOK
<1>2. CASE item[i].status # "processing"
  BY <1>1, <1>2 DEF CompleteWorkItem
<1>3. CASE item[i].status = "processing"
  <2>1. PICK r : r = [item[i] EXCEPT !.status = "done", !.expired = FALSE]
    OBVIOUS
  <2>2. item' = [item EXCEPT ![i] = r]
    <3>1. item' = [item EXCEPT ![i].status = "done", ![i].expired = FALSE]
      BY <1>3 DEF CompleteWorkItem
    <3> QED
      BY <1>1, <2>1, <3>1
  <2>3. r \in WorkItem /\ r.status = "done" /\ r.attempts = item[i].attempts
    BY <1>1, <2>1 DEF WorkItem, Status
  <2> QED
    BY <1>1, <1>3, <2>2, <2>3
<1> QED
  BY <1>2, <1>3

\* RetryWorkItem counts an attempt of a claimed row and touches nothing else.
LEMMA RetryRow ==
  ASSUME TypeOK, Rows, NEW i \in Item, item' = RetryWorkItem(i)
  PROVE  /\ item' \in [Item -> WorkItem]
         /\ \A j \in Item \ {i} : item'[j] = item[j]
         /\ item[i].status # "processing" => item' = item
         /\ item[i].status = "processing" =>
              /\ item'[i].attempts = item[i].attempts + 1
              /\ item'[i].status = IF item[i].attempts + 1 >= AttemptLimit THEN "dead"
                                   ELSE "failed"
<1>1. item \in [Item -> WorkItem]
  BY DEF TypeOK
<1>2. CASE item[i].status # "processing"
  BY <1>1, <1>2 DEF RetryWorkItem
<1>3. CASE item[i].status = "processing"
  <2>1. PICK n, s : n = item[i].attempts + 1
                    /\ s = IF item[i].attempts + 1 >= AttemptLimit THEN "dead" ELSE "failed"
    OBVIOUS
  <2>2. n \in 0..AttemptLimit
    <3>1. item[i].attempts < AttemptLimit /\ item[i].attempts \in 0..AttemptLimit
      BY <1>1, <1>3 DEF Rows, RowOf, WorkItem
    <3> QED
      BY <2>1, <3>1, Numbers
  <2>3. PICK r : r = [status |-> s, attempts |-> n, expired |-> FALSE]
    OBVIOUS
  <2>4. item' = [item EXCEPT ![i] = r]
    BY <1>1, <1>3, <2>1, <2>3 DEF RetryWorkItem
  <2>5. r \in WorkItem /\ r.status = s /\ r.attempts = n
    BY <2>1, <2>2, <2>3 DEF WorkItem, Status
  <2> QED
    BY <1>1, <1>3, <2>1, <2>4, <2>5
<1> QED
  BY <1>2, <1>3

\* The first row of a pass
LEMMA FirstRow ==
  ASSUME TypeOK, Shape, NEW w \in Worker, work[w].pc # "idle"
  PROVE  /\ work[w].batch \in Seq(Item) /\ work[w].batch # <<>>
         /\ Head(work[w].batch) \in Item /\ Head(work[w].batch) \in Range(work[w].batch)
         /\ Tail(work[w].batch) \in Seq(Item)
         /\ Range(work[w].batch) = {Head(work[w].batch)} \cup Range(Tail(work[w].batch))
         /\ IsInjective(work[w].batch) =>
              /\ IsInjective(Tail(work[w].batch))
              /\ Head(work[w].batch) \notin Range(Tail(work[w].batch))
<1>1. PICK b : b = work[w].batch
  OBVIOUS
<1>2. b \in Seq(Item) /\ b # <<>>
  BY <1>1, PassFields DEF TypeOK, Shape, ShapeOf
<1> QED
  BY <1>1, <1>2, HeadTailFacts

\* The first of the candidates still to screen
LEMMA FirstCandidate ==
  ASSUME TypeOK, Shape, NEW w \in Worker, work[w].pc = "screen"
  PROVE  /\ work[w].todo \in Seq(Pair) /\ work[w].todo # <<>> /\ work[w].jobs \in Seq(Pair)
         /\ Head(work[w].todo) \in Pair /\ Head(work[w].todo) \in Range(work[w].todo)
         /\ Tail(work[w].todo) \in Seq(Pair)
         /\ Range(work[w].todo) = {Head(work[w].todo)} \cup Range(Tail(work[w].todo))
         /\ IsInjective(work[w].todo) =>
              /\ IsInjective(Tail(work[w].todo))
              /\ Head(work[w].todo) \notin Range(Tail(work[w].todo))
<1>1. PICK s : s = work[w].todo
  OBVIOUS
<1>2. s \in Seq(Pair) /\ s # <<>> /\ work[w].jobs \in Seq(Pair)
  BY <1>1, PassFields DEF TypeOK, Shape, ShapeOf
<1> QED
  BY <1>1, <1>2, HeadTailFacts

LEMMA TypeStep ==
  ASSUME TypeOK, Rows, Shape, Effect
  PROVE  TypeOK'
<1>1. ASSUME NEW i \in Item, Publishes(i) PROVE TypeOK'
  <2>1. i[1] \in Vacancy /\ i[2] \in 0..MaxRevision
    BY Numbers
  <2>2. PICK r : r = [status |-> "pending", attempts |-> 0, expired |-> FALSE]
    OBVIOUS
  <2>3. r \in WorkItem
    BY <2>2, Numbers DEF WorkItem, Status
  <2>4. item' = [item EXCEPT ![i] = r] /\ revision' = [revision EXCEPT ![i[1]] = i[2]]
        /\ order' = Append(order, i)
    BY <1>1, <2>2 DEF Publishes
  <2>5. /\ item' \in [Item -> WorkItem] /\ revision' \in [Vacancy -> 0..MaxRevision]
        /\ order' \in Seq(Item)
    BY <2>1, <2>3, <2>4, AppendFacts DEF TypeOK
  <2> QED
    BY <1>1, <2>5 DEF Publishes, TypeOK, resultVars, boundVars
<1>2. CASE Adjusts
  BY <1>2 DEF Adjusts, TypeOK, resultVars, boundVars
<1>3. CASE Ages
  BY <1>3 DEF Ages, TypeOK, vacancyVars, resultVars, settingsVars, boundVars
<1>4. ASSUME NEW w \in Worker, Begins(w) PROVE TypeOK'
  BY <1>4 DEF Begins, Claims, TypeOK, vacancyVars, resultVars, settingsVars, boundVars
<1>5. ASSUME NEW w \in Worker, Screens(w) PROVE TypeOK'
  <2>1. Head(work[w].todo) \in Pair
    BY <1>5, FirstCandidate DEF Screens
  <2>2. matched' \subseteq Pair /\ cleared' \subseteq Pair /\ work' \in [Worker -> Pass]
        /\ UNCHANGED <<outerVars, job, failures, result, delivery>>
    BY <1>5, <2>1 DEF Screens, TypeOK
  <2> QED
    BY <2>2 DEF TypeOK, outerVars, vacancyVars, settingsVars, boundVars
<1>6. ASSUME NEW w \in Worker, Asks(w) PROVE TypeOK'
  BY <1>6 DEF Asks, TypeOK, outerVars, vacancyVars, resultVars, settingsVars, boundVars
<1>7. ASSUME NEW w \in Worker, Finishes(w) PROVE TypeOK'
  <2>1. job' \in [Pair -> Job] /\ failures' \in [Item -> 0..AttemptLimit]
        /\ work' \in [Worker -> Pass]
        /\ UNCHANGED <<outerVars, result, matched, delivery, cleared>>
    <3>1. Head(work[w].jobs) \in Pair
      BY <1>7, FirstJob DEF Finishes
    <3>2. \/ job' = job
          \/ job' = [job EXCEPT ![Head(work[w].jobs)] = [status |-> "failed",
                       attempts |-> Capped(job[Head(work[w].jobs)].attempts + 1)]]
      BY <1>7 DEF Finishes
    <3>3. job' \in [Pair -> Job]
      BY <3>1, <3>2, JobUpdate DEF TypeOK
    <3>4. PICK i : i = Head(work[w].jobs)[2]
      OBVIOUS
    <3>5. i \in Item
      BY <3>1, <3>4, Numbers
    <3>6. \/ failures' = failures
          \/ failures' = [failures EXCEPT ![i] = Capped(failures[i] + 1)]
      BY <1>7, <3>4 DEF Finishes
    <3>7. failures' \in [Item -> 0..AttemptLimit]
      BY <3>5, <3>6, FailuresUpdate DEF TypeOK
    <3> QED
      BY <1>7, <3>3, <3>7 DEF Finishes
  <2> QED
    BY <2>1 DEF TypeOK, outerVars, vacancyVars, settingsVars, boundVars
<1>8. ASSUME NEW w \in Worker, StoresJob(w) PROVE TypeOK'
  <2>1. job' \in [Pair -> Job] /\ work' \in [Worker -> Pass]
        /\ UNCHANGED <<outerVars, failures, result, matched, delivery, cleared>>
    <3>1. Head(work[w].cur) \in Pair
      BY <1>8, InHand DEF StoresJob, Holding, Storing
    <3>2. PICK p : p = Head(work[w].cur)
      OBVIOUS
    <3>3. job' = [job EXCEPT ![p] = [status |-> "complete",
                                     attempts |-> Capped(job[p].attempts + 1)]]
      BY <1>8, <3>2 DEF StoresJob
    <3>4. job' \in [Pair -> Job]
      BY <3>1, <3>2, <3>3, JobUpdate
    <3> QED
      BY <1>8, <3>4 DEF StoresJob
  <2> QED
    BY <2>1 DEF TypeOK, outerVars, vacancyVars, settingsVars, boundVars
<1>9. ASSUME NEW w \in Worker, StoresResult(w) PROVE TypeOK'
  <2>1. PICK p : p = Head(work[w].cur)
    OBVIOUS
  <2>2. p \in Pair /\ work[w].verdict \in Decision
    BY <1>9, <2>1, InHand, PassFields DEF StoresResult, Holding, Storing, TypeOK
  <2>3. /\ result' = [result EXCEPT ![p] = work[w].verdict] /\ cleared' = cleared \cup {p}
        /\ work' \in [Worker -> Pass] /\ UNCHANGED <<outerVars, job, failures, matched, delivery>>
    BY <1>9, <2>1 DEF StoresResult
  <2>4. result' \in [Pair -> Decision \cup {"none"}] /\ cleared' \subseteq Pair
    BY <2>2, <2>3 DEF TypeOK
  <2> QED
    BY <2>3, <2>4 DEF TypeOK, outerVars, vacancyVars, settingsVars, boundVars
<1>10. ASSUME NEW w \in Worker, Delivers(w) PROVE TypeOK'
  <2>1. PICK p : p = Head(work[w].cur)
    OBVIOUS
  <2>2. p \in Pair /\ <<p[1], p[2][1]>> \in User \X Vacancy
    BY <1>10, <2>1, InHand, Numbers DEF Delivers, Holding
  <2>3. /\ delivery' = IF telegram[p[1]] THEN delivery \cup {<<p[1], p[2][1]>>} ELSE delivery
        /\ work' \in [Worker -> Pass] /\ UNCHANGED <<outerVars, job, failures, result, matched, cleared>>
    BY <1>10, <2>1 DEF Delivers
  <2>4. delivery' \subseteq User \X Vacancy
    BY <2>2, <2>3 DEF TypeOK
  <2> QED
    BY <2>3, <2>4 DEF TypeOK, outerVars, vacancyVars, settingsVars, boundVars
<1>11. ASSUME NEW w \in Worker, Settles(w) PROVE TypeOK'
  <2>1. Head(work[w].batch) \in Item
    BY <1>11, FirstRow DEF Settles
  <2>2. item' \in [Item -> WorkItem]
    BY <1>11, <2>1, CompleteRow, RetryRow DEF Settles
  <2>3. work' \in [Worker -> Pass] /\ lock' \in Worker \cup {NoWorker}
    BY <1>11 DEF Settles, Drops, Free, TypeOK
  <2>4. order' \in Seq(Item) /\ UNCHANGED <<vacancyVars, resultVars, settingsVars, boundVars>>
    BY <1>11 DEF Settles
  <2> QED
    BY <2>2, <2>3, <2>4 DEF TypeOK, vacancyVars, resultVars, settingsVars, boundVars
<1>12. ASSUME NEW w \in Worker, Aborts(w) PROVE TypeOK'
  BY <1>12 DEF Aborts, Free, TypeOK, vacancyVars, resultVars, settingsVars
<1>13. CASE Unlocks
  BY <1>13 DEF Unlocks, TypeOK, vacancyVars, resultVars, settingsVars
<1>14. CASE UNCHANGED vars
  BY <1>14 DEF vars, TypeOK
<1> QED
  BY <1>1, <1>2, <1>3, <1>4, <1>5, <1>6, <1>7, <1>8, <1>9, <1>10, <1>11, <1>12, <1>13, <1>14
     DEF Effect

\* What the effects leave alone
LEMMA Untouched ==
  /\ \A i \in Item : Publishes(i) =>
       UNCHANGED <<job, failures, result, matched, delivery, cleared, telegram, changes, lock, work,
                   faults, lockLost>>
  /\ Adjusts => UNCHANGED <<revision, gates, item, order, job, failures, result, matched, delivery,
                            cleared, lock, faults, lockLost>>
  /\ Ages => UNCHANGED <<revision, gates, job, failures, result, matched, delivery, cleared, telegram,
                         changes, lock, work, faults, lockLost>>
  /\ Unlocks => UNCHANGED <<revision, gates, item, order, job, failures, result, matched, delivery,
                            cleared, telegram, changes, work>>
  /\ \A w \in Worker :
       /\ Begins(w) \/ Settles(w) =>
            UNCHANGED <<revision, gates, job, failures, result, matched, delivery, cleared, telegram,
                        changes, faults, lockLost>>
       /\ Screens(w) \/ Asks(w) \/ Finishes(w) \/ StoresJob(w) \/ StoresResult(w) \/ Delivers(w) =>
            UNCHANGED <<revision, gates, item, order, telegram, changes, lock, faults, lockLost>>
       /\ Screens(w) => UNCHANGED <<job, failures, result, delivery>>
       /\ Asks(w) => UNCHANGED <<job, failures, result, matched, delivery, cleared>>
       /\ Finishes(w) \/ StoresJob(w) => UNCHANGED <<result, matched, delivery, cleared>>
       /\ StoresResult(w) => UNCHANGED <<job, failures, matched, delivery>>
       /\ Delivers(w) => UNCHANGED <<job, failures, result, matched, cleared>>
       /\ Aborts(w) => UNCHANGED <<revision, gates, item, order, job, failures, result, matched, delivery,
                                   cleared, telegram, changes, lockLost>>
  /\ UNCHANGED vars =>
       UNCHANGED <<revision, gates, item, order, job, failures, result, matched, delivery, cleared,
                   telegram, changes, lock, work, faults, lockLost>>
<1>1. \A i \in Item : Publishes(i) =>
        UNCHANGED <<job, failures, result, matched, delivery, cleared, telegram, changes, lock, work,
                    faults, lockLost>>
  BY DEF Publishes, resultVars, boundVars
<1>2. Adjusts => UNCHANGED <<revision, gates, item, order, job, failures, result, matched, delivery,
                             cleared, lock, faults, lockLost>>
  BY DEF Adjusts, resultVars, boundVars
<1>3. Ages => UNCHANGED <<revision, gates, job, failures, result, matched, delivery, cleared, telegram,
                          changes, lock, work, faults, lockLost>>
  BY DEF Ages, vacancyVars, resultVars, settingsVars, boundVars
<1>4. Unlocks => UNCHANGED <<revision, gates, item, order, job, failures, result, matched, delivery,
                             cleared, telegram, changes, work>>
  BY DEF Unlocks, vacancyVars, resultVars, settingsVars
<1>5. ASSUME NEW w \in Worker, Begins(w) \/ Settles(w)
      PROVE  UNCHANGED <<revision, gates, job, failures, result, matched, delivery, cleared, telegram,
                         changes, faults, lockLost>>
  <2>1. UNCHANGED <<vacancyVars, resultVars, settingsVars, boundVars>>
    BY <1>5 DEF Begins, Settles
  <2> QED
    BY <2>1 DEF vacancyVars, resultVars, settingsVars, boundVars
<1>6. ASSUME NEW w \in Worker,
             Screens(w) \/ Asks(w) \/ Finishes(w) \/ StoresJob(w) \/ StoresResult(w) \/ Delivers(w)
      PROVE  UNCHANGED <<revision, gates, item, order, telegram, changes, lock, faults, lockLost>>
  <2>1. CASE Screens(w)
    BY <2>1 DEF Screens, outerVars, vacancyVars, settingsVars, boundVars
  <2>2. CASE Asks(w)
    BY <2>2 DEF Asks, outerVars, vacancyVars, settingsVars, boundVars
  <2>3. CASE Finishes(w)
    BY <2>3 DEF Finishes, outerVars, vacancyVars, settingsVars, boundVars
  <2>4. CASE StoresJob(w)
    BY <2>4 DEF StoresJob, outerVars, vacancyVars, settingsVars, boundVars
  <2>5. CASE StoresResult(w)
    BY <2>5 DEF StoresResult, outerVars, vacancyVars, settingsVars, boundVars
  <2>6. CASE Delivers(w)
    BY <2>6 DEF Delivers, outerVars, vacancyVars, settingsVars, boundVars
  <2> QED
    BY <1>6, <2>1, <2>2, <2>3, <2>4, <2>5, <2>6
<1>7. ASSUME NEW w \in Worker
      PROVE  /\ Screens(w) => UNCHANGED <<job, failures, result, delivery>>
             /\ Asks(w) => UNCHANGED <<job, failures, result, matched, delivery, cleared>>
             /\ Finishes(w) \/ StoresJob(w) => UNCHANGED <<result, matched, delivery, cleared>>
             /\ StoresResult(w) => UNCHANGED <<job, failures, matched, delivery>>
             /\ Delivers(w) => UNCHANGED <<job, failures, result, matched, cleared>>
  <2>1. Screens(w) => UNCHANGED <<job, failures, result, delivery>>
    BY DEF Screens
  <2>2. Asks(w) => UNCHANGED <<job, failures, result, matched, delivery, cleared>>
    BY DEF Asks, resultVars
  <2>3. Finishes(w) => UNCHANGED <<result, matched, delivery, cleared>>
    BY DEF Finishes
  <2>4. StoresJob(w) => UNCHANGED <<result, matched, delivery, cleared>>
    BY DEF StoresJob
  <2>5. StoresResult(w) => UNCHANGED <<job, failures, matched, delivery>>
    BY DEF StoresResult
  <2>6. Delivers(w) => UNCHANGED <<job, failures, result, matched, cleared>>
    BY DEF Delivers
  <2> QED
    BY <2>1, <2>2, <2>3, <2>4, <2>5, <2>6
<1>8. \A w \in Worker : Aborts(w) =>
        UNCHANGED <<revision, gates, item, order, job, failures, result, matched, delivery, cleared,
                    telegram, changes, lockLost>>
  BY DEF Aborts, vacancyVars, resultVars, settingsVars
<1>9. UNCHANGED vars =>
        UNCHANGED <<revision, gates, item, order, job, failures, result, matched, delivery, cleared,
                    telegram, changes, lock, work, faults, lockLost>>
  BY DEF vars
<1> QED
  BY <1>1, <1>2, <1>3, <1>4, <1>5, <1>6, <1>7, <1>8, <1>9

\* A row stays published.
LEMMA PublishedStep ==
  ASSUME TypeOK, Rows, Shape, Effect
  PROVE  Published \subseteq Published'
<1> SUFFICES ASSUME NEW j \in Item, item[j].status # "absent" PROVE item'[j].status # "absent"
  BY DEF Published
<1>1. CASE item' = item
  BY <1>1
<1>2. ASSUME NEW i \in Item, Publishes(i) PROVE item'[j].status # "absent"
  <2>1. PICK r : r = [status |-> "pending", attempts |-> 0, expired |-> FALSE]
    OBVIOUS
  <2>2. item' = [item EXCEPT ![i] = r] /\ r.status = "pending"
    BY <1>2, <2>1 DEF Publishes
  <2> QED
    BY <2>2 DEF TypeOK
<1>3. CASE Ages
  BY <1>3 DEF Ages
<1>4. ASSUME NEW w \in Worker, Begins(w) PROVE item'[j].status # "absent"
  BY <1>4 DEF Begins, Claims, OpenStatus
<1>5. ASSUME NEW w \in Worker, Settles(w) PROVE item'[j].status # "absent"
  <2>1. PICK i : i = Head(work[w].batch)
    OBVIOUS
  <2>2. i \in Item /\ (item' = RetryWorkItem(i) \/ item' = CompleteWorkItem(i))
    BY <1>5, <2>1, FirstRow DEF Settles
  <2>3. CASE item' = RetryWorkItem(i)
    BY <2>2, <2>3, RetryRow
  <2>4. CASE item' = CompleteWorkItem(i)
    BY <2>2, <2>4, CompleteRow
  <2> QED
    BY <2>2, <2>3, <2>4
<1> QED
  BY <1>1, <1>2, <1>3, <1>4, <1>5, Untouched DEF Effect

LEMMA RowsStep ==
  ASSUME TypeOK, Rows, Shape, Effect
  PROVE  Rows'
<1>1. ASSUME revision' = revision,
             \A j \in Item :
                 /\ item'[j].status = "absent" <=> item[j].status = "absent"
                 /\ item[j].status = "absent" => item'[j].attempts = 0
                 /\ item'[j].status \in OpenStatus => item'[j].attempts < AttemptLimit
      PROVE  \A j \in Item : RowOf(j)'
  BY <1>1 DEF Rows, RowOf, OpenStatus
<1>2. ASSUME revision' = revision, item' = item
      PROVE  \A j \in Item : RowOf(j)'
  BY <1>2 DEF Rows, RowOf
<1>3. CASE UNCHANGED <<result, matched>>
  <2>1. \A p \in Pair : result'[p] # "none" \/ p \in matched' => p[2] \in Published'
    BY <1>3, PublishedStep DEF Rows
  <2>2. ASSUME NEW i \in Item, Publishes(i) PROVE Rows'
    <3>1. PICK r : r = [status |-> "pending", attempts |-> 0, expired |-> FALSE]
      OBVIOUS
    <3>2. item' = [item EXCEPT ![i] = r] /\ r.status = "pending" /\ r.attempts = 0
      BY <2>2, <3>1 DEF Publishes
    <3>3. i \in Item /\ i[2] = revision[i[1]] + 1 /\ revision' = [revision EXCEPT ![i[1]] = i[2]]
          /\ order' = Append(order, i)
      BY <2>2 DEF Publishes
    <3>4. ASSUME NEW j \in Item PROVE RowOf(j)'
      <4>1. /\ j[1] \in Vacancy /\ i[1] \in Vacancy /\ j[2] \in Nat /\ i[2] \in Nat
            /\ j = <<j[1], j[2]>> /\ i = <<i[1], i[2]>> /\ revision[j[1]] \in Nat
        BY Numbers DEF TypeOK
      <4>2. RowOf(j)
        BY DEF Rows
      <4>3. CASE j = i
        <5>1. item'[j] = r /\ revision'[j[1]] = j[2]
          BY <3>2, <3>3, <4>1, <4>3 DEF TypeOK
        <5> QED
          BY <3>2, <4>1, <5>1, Numbers DEF RowOf
      <4>4. CASE j # i
        <5>1. item'[j] = item[j]
          BY <3>2, <4>4 DEF TypeOK
        <5>2. j[2] > revision[j[1]] <=> j[2] > revision'[j[1]]
          <6>1. CASE j[1] = i[1]
            <7>1. j[2] # i[2] /\ revision'[j[1]] = revision[j[1]] + 1
              BY <3>3, <4>1, <4>4, <6>1 DEF TypeOK
            <7> QED
              BY <3>3, <4>1, <6>1, <7>1
          <6>2. CASE j[1] # i[1]
            BY <3>3, <4>1, <6>2 DEF TypeOK
          <6> QED
            BY <6>1, <6>2
        <5> QED
          BY <4>2, <5>1, <5>2 DEF RowOf
      <4> QED
        BY <4>3, <4>4
    <3>5. i \notin Published /\ i \in Published'
      <4>1. i[1] \in Vacancy /\ revision[i[1]] \in Nat
        BY Numbers DEF TypeOK
      <4>2. i[2] > revision[i[1]]
        BY <3>3, <4>1
      <4>3. item'[i].status = "pending"
        BY <3>2 DEF TypeOK
      <4> QED
        BY <4>2, <4>3 DEF Rows, RowOf, Published
    <3>6. Range(order') \subseteq Published' /\ IsInjective(order')
      <4>1. order \in Seq(Item) /\ i \notin Range(order) /\ IsInjective(order)
        BY <3>5 DEF Rows, TypeOK
      <4>2. Range(order') = Range(order) \cup {i} /\ IsInjective(order')
        BY <3>3, <4>1, AppendFacts
      <4> QED
        BY <3>5, <4>2, PublishedStep DEF Rows
    <3> QED
      BY <2>1, <3>4, <3>6 DEF Rows
  <2>3. CASE Ages
    <3>1. \A j \in Item : RowOf(j)'
      BY <1>1, <2>3 DEF Ages, Rows, RowOf, vacancyVars, OpenStatus
    <3>2. Range(order') \subseteq Published'
      <4>1. \A j \in Range(order') : j \in Range(order) \/ j \in Published
        BY <2>3 DEF Ages
      <4> QED
        BY <4>1, PublishedStep DEF Rows
    <3>3. IsInjective(order')
      BY <2>3 DEF Ages, Rows
    <3> QED
      BY <2>1, <3>1, <3>2, <3>3 DEF Rows
  <2>4. ASSUME NEW w \in Worker, Begins(w) PROVE Rows'
    <3>1. \A j \in Item : RowOf(j)'
      <4>1. revision' = revision /\ Claims
        BY <2>4 DEF Begins, vacancyVars
      <4> QED
        BY <1>1, <4>1 DEF Claims, Rows, RowOf, OpenStatus
    <3>2. Range(order') \subseteq Range(order) /\ IsInjective(order')
      BY <2>4 DEF Begins, Rows
    <3> QED
      BY <2>1, <3>1, <3>2, PublishedStep DEF Rows
  <2>5. ASSUME NEW w \in Worker, Settles(w) PROVE Rows'
    <3>1. PICK i : i = Head(work[w].batch)
      OBVIOUS
    <3>2. i \in Item /\ (item' = RetryWorkItem(i) \/ item' = CompleteWorkItem(i))
      BY <2>5, <3>1, FirstRow DEF Settles
    <3>3. revision' = revision
      BY <2>5 DEF Settles, vacancyVars
    <3>4. ASSUME NEW j \in Item
          PROVE  /\ item'[j].status = "absent" <=> item[j].status = "absent"
                 /\ item[j].status = "absent" => item'[j].attempts = 0
                 /\ item'[j].status \in OpenStatus => item'[j].attempts < AttemptLimit
      <4>1. CASE item'[j] = item[j]
        BY <4>1 DEF Rows, RowOf, OpenStatus
      <4>2. CASE item'[j] # item[j]
        <5>1. j = i /\ item[i].status = "processing"
          <6>1. CASE item' = RetryWorkItem(i)
            BY <3>2, <4>2, <6>1, RetryRow
          <6>2. CASE item' = CompleteWorkItem(i)
            BY <3>2, <4>2, <6>2, CompleteRow
          <6> QED
            BY <3>2, <6>1, <6>2
        <5>2. CASE item' = RetryWorkItem(i)
          <6>1. /\ item'[i].attempts = item[i].attempts + 1
                /\ item'[i].status = IF item[i].attempts + 1 >= AttemptLimit THEN "dead"
                                     ELSE "failed"
            BY <3>2, <5>1, <5>2, RetryRow
          <6>2. item[i].attempts \in Nat /\ AttemptLimit \in Nat
            <7>1. item[i] \in WorkItem
              BY <3>2 DEF TypeOK
            <7> QED
              BY <7>1, Numbers DEF WorkItem
          <6> QED
            BY <5>1, <6>1, <6>2 DEF OpenStatus
        <5>3. CASE item' = CompleteWorkItem(i)
          <6>1. item'[i].status = "done"
            BY <3>2, <5>1, <5>3, CompleteRow
          <6> QED
            BY <5>1, <6>1 DEF OpenStatus
        <5> QED
          BY <3>2, <5>2, <5>3
      <4> QED
        BY <4>1, <4>2
    <3>5. \A j \in Item : RowOf(j)'
      BY <1>1, <3>3, <3>4
    <3>6. Range(order') \subseteq Range(order) /\ IsInjective(order')
      BY <2>5 DEF Settles, Rows
    <3> QED
      BY <2>1, <3>5, <3>6, PublishedStep DEF Rows
  <2>6. CASE UNCHANGED <<revision, item, order>>
    BY <1>2, <2>1, <2>6, PublishedStep DEF Rows
  <2> QED
    BY <2>2, <2>3, <2>4, <2>5, <2>6, Untouched DEF Effect
<1>4. ASSUME NEW w \in Worker, Screens(w) PROVE Rows'
  <2>1. Head(work[w].todo)[2] \in Published
    BY <1>4, FirstCandidate DEF Screens, Shape, ShapeOf
  <2>2. matched' \subseteq matched \cup {Head(work[w].todo)} /\ UNCHANGED <<outerVars, result>>
    BY <1>4 DEF Screens
  <2>3. UNCHANGED <<revision, item, order, result>>
    BY <2>2 DEF outerVars, vacancyVars
  <2>4. \A p \in Pair : result'[p] # "none" \/ p \in matched' => p[2] \in Published'
    BY <2>1, <2>2, <2>3, PublishedStep DEF Rows
  <2> QED
    BY <1>2, <2>3, <2>4, PublishedStep DEF Rows
<1>5. ASSUME NEW w \in Worker, StoresResult(w) PROVE Rows'
  <2>1. PICK p : p = Head(work[w].cur)
    OBVIOUS
  <2>2. p[2] \in Published
    BY <1>5, <2>1, InHand DEF StoresResult, Holding, Storing
  <2>3. result' = [result EXCEPT ![p] = work[w].verdict] /\ UNCHANGED <<outerVars, matched>>
    BY <1>5, <2>1 DEF StoresResult
  <2>4. UNCHANGED <<revision, item, order, matched>>
    BY <2>3 DEF outerVars, vacancyVars
  <2>5. \A q \in Pair : result'[q] # result[q] => q = p
    BY <2>3 DEF TypeOK
  <2>6. \A q \in Pair : result'[q] # "none" \/ q \in matched' => q[2] \in Published'
    BY <2>2, <2>4, <2>5, PublishedStep DEF Rows
  <2> QED
    BY <1>2, <2>4, <2>6, PublishedStep DEF Rows
<1> QED
  BY <1>3, <1>4, <1>5, Untouched DEF Effect

\* Which pass a step may change
LEMMA OnePass ==
  ASSUME Effect
  PROVE  \/ \A x \in Worker : SamePass(x)
         \/ \E w \in Worker :
              /\ \A x \in Worker \ {w} : SamePass(x)
              /\ \/ (Begins(w) /\ ~UNCHANGED <<lock, work>>) \/ Screens(w) \/ Asks(w)
                 \/ Finishes(w) \/ StoresJob(w) \/ StoresResult(w) \/ Delivers(w) \/ Settles(w)
                 \/ Aborts(w)
<1>1. \A x \in Worker : work'[x] = work[x] => SamePass(x)
  BY DEF SamePass
<1>2. \A w \in Worker : Others(w) => \A x \in Worker \ {w} : SamePass(x)
  BY <1>1 DEF Others
<1>3. \A w \in Worker :
        /\ Begins(w) => (UNCHANGED <<lock, work>> \/ (~UNCHANGED <<lock, work>> /\ Others(w)))
        /\ Screens(w) => Others(w)
        /\ Asks(w) => Others(w)
        /\ Finishes(w) => Others(w)
        /\ StoresJob(w) => Others(w)
        /\ StoresResult(w) => Others(w)
        /\ Delivers(w) => Others(w)
        /\ Settles(w) => Others(w)
        /\ Aborts(w) => Others(w)
  <2> SUFFICES ASSUME NEW w \in Worker
               PROVE  /\ Begins(w) => (UNCHANGED <<lock, work>>
                                         \/ (~UNCHANGED <<lock, work>> /\ Others(w)))
                      /\ Screens(w) => Others(w)
                      /\ Asks(w) => Others(w)
                      /\ Finishes(w) => Others(w)
                      /\ StoresJob(w) => Others(w)
                      /\ StoresResult(w) => Others(w)
                      /\ Delivers(w) => Others(w)
                      /\ Settles(w) => Others(w)
                      /\ Aborts(w) => Others(w)
    OBVIOUS
  <2>1. Begins(w) => (UNCHANGED <<lock, work>> \/ (~UNCHANGED <<lock, work>> /\ Others(w)))
    BY DEF Begins
  <2>2. (Screens(w) => Others(w)) /\ (Asks(w) => Others(w)) /\ (Finishes(w) => Others(w))
    BY DEF Screens, Asks, Finishes
  <2>3. /\ StoresJob(w) => Others(w)
        /\ StoresResult(w) => Others(w)
        /\ Delivers(w) => Others(w)
    BY DEF StoresJob, StoresResult, Delivers
  <2>4. (Settles(w) => Others(w)) /\ (Aborts(w) => Others(w))
    BY DEF Settles, Drops, Aborts
  <2> QED
    BY <2>1, <2>2, <2>3, <2>4
<1>4. Adjusts => \A x \in Worker : SamePass(x)
  BY DEF Adjusts
<1>5. work' = work => \A x \in Worker : SamePass(x)
  BY <1>1
<1> QED
  BY <1>2, <1>3, <1>4, <1>5, Untouched DEF Effect

LEMMA ShapeStep ==
  ASSUME TypeOK, Rows, Shape, Effect
  PROVE  Shape'
<1>1. Published \subseteq Published'
  BY PublishedStep
<1>2. ASSUME NEW x \in Worker, SamePass(x) PROVE ShapeOf(x)'
  <2>1. ShapeOf(x)
    BY DEF Shape
  <2> QED
    BY <1>1, <1>2, <2>1 DEF ShapeOf, SamePass
<1>3. ASSUME NEW w \in Worker, NEW mid \in Pass, NEW todo, NEW jobs,
             Resumes(mid, work'[w], todo, jobs),
             mid.batch = work[w].batch, work[w].pc # "idle",
             \A p \in Range(todo) \cup Range(jobs) : p[2] \in Published
      PROVE  ShapeOf(w)'
  <2>1. PICK new : new = work'[w]
    OBVIOUS
  <2>2. ShapeOf(w)
    BY DEF Shape
  <2>3. /\ new.back = "screen" /\ new.pc \in {"screen", "ask", "finish", "settle"}
        /\ new.pc = "screen" => new.todo # <<>>
        /\ new.pc \in {"ask", "finish"} => new.jobs # <<>> /\ new.todo = <<>>
        /\ new.pc = "finish" => new.answer[Head(new.jobs)] # "none"
        /\ new.pc = "settle" => new.todo = <<>> /\ new.jobs = <<>>
        /\ new.batch = work[w].batch /\ new.todo = todo /\ new.jobs = jobs
    BY <1>3, <2>1 DEF Resumes, Kept
  <2>4. work[w].batch # <<>> /\ User # {} /\ Range(work[w].batch) \subseteq Published
    BY <1>3, <2>2 DEF ShapeOf
  <2>5. new.pc \notin Holding /\ new.pc # "idle"
    BY <2>3 DEF Holding, Storing
  <2>6. /\ Range(new.batch) \subseteq Published'
        /\ \A p \in Range(new.todo) \cup Range(new.jobs) : p[2] \in Published'
    BY <1>1, <1>3, <2>3, <2>4
  <2> QED
    BY <2>1, <2>3, <2>4, <2>5, <2>6 DEF ShapeOf
<1>4. ASSUME NEW w \in Worker, NEW mid \in Pass, NEW todo, NEW jobs, NEW pc \in Holding,
             NEW p \in Pair, NEW verdict, NEW back \in {"screen", "finish"},
             Holds(mid, work'[w], pc, p, verdict, back, todo, jobs),
             mid.batch = work[w].batch, work[w].pc # "idle", p[2] \in Published,
             back = "finish" => todo = <<>>,
             \A q \in Range(todo) \cup Range(jobs) : q[2] \in Published
      PROVE  ShapeOf(w)'
  <2>1. PICK new : new = work'[w]
    OBVIOUS
  <2>2. ShapeOf(w)
    BY DEF Shape
  <2>3. /\ new.back = back /\ new.pc = pc /\ new.cur = <<p>>
        /\ new.batch = work[w].batch /\ new.todo = todo /\ new.jobs = jobs
    BY <1>4, <2>1 DEF Holds, Kept
  <2>4. work[w].batch # <<>> /\ User # {} /\ Range(work[w].batch) \subseteq Published
    BY <1>4, <2>2 DEF ShapeOf
  <2>5. new.pc \notin {"screen", "ask", "finish", "settle", "idle"}
    BY <2>3 DEF Holding, Storing
  <2>6. /\ Range(new.batch) \subseteq Published' /\ p[2] \in Published'
        /\ \A q \in Range(new.todo) \cup Range(new.jobs) : q[2] \in Published'
    BY <1>1, <1>4, <2>3, <2>4
  <2> QED
    BY <1>4, <2>1, <2>3, <2>4, <2>5, <2>6 DEF ShapeOf
<1>5. ASSUME NEW w \in Worker, work'[w] = Idle PROVE ShapeOf(w)'
  <2>1. PICK new : new = work'[w]
    OBVIOUS
  <2>2. /\ new.pc = "idle" /\ new.batch = <<>> /\ new.todo = <<>>
        /\ new.jobs = <<>> /\ new.back = "screen"
    BY <1>5, <2>1, IdlePass
  <2>3. new.pc \notin Holding /\ Range(new.batch) = {} /\ Range(new.todo) = {}
        /\ Range(new.jobs) = {}
    BY <2>2 DEF Holding, Storing, Range
  <2> QED
    BY <2>1, <2>2, <2>3 DEF ShapeOf
<1>6. ASSUME NEW w \in Worker, Begins(w), ~UNCHANGED <<lock, work>> PROVE ShapeOf(w)'
  <2>1. PICK new : new = work'[w]
    OBVIOUS
  <2>2. /\ new.pc = "screen" /\ new.back = "screen" /\ new.jobs = <<>>
        /\ new.batch # <<>> /\ Range(new.batch) \subseteq Range(order) /\ User # {}
        /\ new.todo # <<>> /\ Range(new.todo) = User \X Range(new.batch)
    BY <1>6, <2>1 DEF Begins
  <2>3. Range(new.batch) \subseteq Published' /\ Range(new.jobs) = {}
    BY <1>1, <2>2 DEF Rows, Range
  <2>4. \A p \in Range(new.todo) \cup Range(new.jobs) : p[2] \in Published'
    BY <2>2, <2>3
  <2> QED
    BY <2>1, <2>2, <2>3, <2>4 DEF ShapeOf, Holding, Storing
<1>7. ASSUME NEW w \in Worker, Screens(w) PROVE ShapeOf(w)'
  <2>1. PICK me, p, todo : me = work[w] /\ p = Head(me.todo) /\ todo = Tail(me.todo)
    OBVIOUS
  <2>2. me \in Pass /\ me.pc = "screen"
    BY <1>7, <2>1 DEF Screens, TypeOK
  <2>3. p \in Pair /\ Range(me.todo) = {p} \cup Range(todo) /\ me.jobs \in Seq(Pair)
    BY <2>1, <2>2, FirstCandidate
  <2>4. \A q \in {p} \cup Range(todo) \cup Range(me.jobs) : q[2] \in Published
    BY <2>1, <2>3 DEF Shape, ShapeOf
  <2>5. \A q \in Range(todo) \cup Range(Append(me.jobs, p)) : q[2] \in Published
    BY <2>3, <2>4, AppendFacts
  <2>6. \/ Resumes(me, work'[w], todo, me.jobs) \/ Resumes(me, work'[w], todo, Append(me.jobs, p))
        \/ Holds(me, work'[w], "announce", p, "match", "screen", todo, me.jobs)
        \/ Holds(me, work'[w], "storejob", p, "reject", "screen", todo, me.jobs)
    BY <1>7, <2>1 DEF Screens
  <2>7. CASE Resumes(me, work'[w], todo, me.jobs)
    BY <1>3, <2>1, <2>2, <2>4, <2>7
  <2>8. CASE Resumes(me, work'[w], todo, Append(me.jobs, p))
    BY <1>3, <2>1, <2>2, <2>5, <2>8
  <2>9. "announce" \in Holding /\ "storejob" \in Holding
    BY DEF Holding, Storing
  <2>10. CASE Holds(me, work'[w], "announce", p, "match", "screen", todo, me.jobs)
    BY <1>4, <2>1, <2>2, <2>3, <2>4, <2>9, <2>10
  <2>11. CASE Holds(me, work'[w], "storejob", p, "reject", "screen", todo, me.jobs)
    BY <1>4, <2>1, <2>2, <2>3, <2>4, <2>9, <2>11
  <2> QED
    BY <2>6, <2>7, <2>8, <2>10, <2>11
<1>8. ASSUME NEW w \in Worker, Asks(w) PROVE ShapeOf(w)'
  <2>1. PICK me, new : me = work[w] /\ new = work'[w]
    OBVIOUS
  <2>2. ShapeOf(w) /\ me.pc = "ask"
    BY <1>8, <2>1 DEF Shape, Asks
  <2>3. /\ new.pc = "finish" /\ new.batch = me.batch /\ new.todo = me.todo
        /\ new.back = me.back /\ Range(new.jobs) = Range(me.jobs) /\ new.jobs # <<>>
        /\ new.answer[Head(new.jobs)] # "none"
    BY <1>8, <2>1 DEF Asks
  <2>4. /\ me.back \in {"screen", "finish"} /\ me.todo = <<>> /\ me.batch # <<>> /\ User # {}
        /\ Range(me.batch) \subseteq Published
        /\ \A p \in Range(me.todo) \cup Range(me.jobs) : p[2] \in Published
    BY <2>1, <2>2 DEF ShapeOf
  <2>5. /\ Range(new.batch) \subseteq Published'
        /\ \A p \in Range(new.todo) \cup Range(new.jobs) : p[2] \in Published'
    BY <1>1, <2>3, <2>4
  <2> QED
    BY <2>1, <2>3, <2>4, <2>5 DEF ShapeOf, Holding, Storing
<1>9. ASSUME NEW w \in Worker, Finishes(w) PROVE ShapeOf(w)'
  <2>1. PICK me, p, jobs, todo :
          me = work[w] /\ p = Head(me.jobs) /\ jobs = Tail(me.jobs) /\ todo = <<>>
    OBVIOUS
  <2>2. me \in Pass /\ me.pc = "finish"
    BY <1>9, <2>1 DEF Finishes, TypeOK
  <2>3. p \in Pair /\ Range(me.jobs) = {p} \cup Range(jobs)
    BY <2>1, <2>2, FirstJob
  <2>4. p[2] \in Published /\ \A q \in Range(todo) \cup Range(jobs) : q[2] \in Published
    <3>1. \A q \in Range(me.jobs) : q[2] \in Published
      BY <2>1 DEF Shape, ShapeOf
    <3>2. Range(todo) = {}
      BY <2>1 DEF Range
    <3> QED
      BY <2>3, <3>1, <3>2
  <2>5. PICK mid \in Pass :
          /\ mid.batch = me.batch
          /\ \/ Resumes(mid, work'[w], todo, jobs)
             \/ \E d \in Decision : Holds(mid, work'[w], "storejob", p, d, "finish", todo, jobs)
    BY <1>9, <2>1 DEF Finishes
  <2>6. CASE Resumes(mid, work'[w], todo, jobs)
    BY <1>3, <2>1, <2>2, <2>4, <2>5, <2>6
  <2>7. ASSUME NEW d \in Decision, Holds(mid, work'[w], "storejob", p, d, "finish", todo, jobs)
        PROVE  ShapeOf(w)'
    <3>1. "storejob" \in Holding
      BY DEF Holding, Storing
    <3> QED
      BY <1>4, <2>1, <2>2, <2>3, <2>4, <2>5, <2>7, <3>1
  <2> QED
    BY <2>5, <2>6, <2>7
<1>10. ASSUME NEW w \in Worker, NEW pc \in Holding, work[w].pc \in Holding,
              work'[w] = [work[w] EXCEPT !.pc = pc]
       PROVE  ShapeOf(w)'
  <2>1. PICK me, new : me = work[w] /\ new = work'[w]
    OBVIOUS
  <2>2. me \in Pass /\ ShapeOf(w)
    BY <2>1 DEF TypeOK, Shape
  <2>3. /\ new.pc = pc /\ new.batch = me.batch /\ new.todo = me.todo /\ new.jobs = me.jobs
        /\ new.cur = me.cur /\ new.back = me.back
    BY <1>10, <2>1, <2>2 DEF Pass
  <2>4. me.pc # "idle" /\ new.pc \notin {"idle", "screen", "ask", "finish", "settle"}
    BY <1>10, <2>1, <2>3 DEF Holding, Storing
  <2> QED
    BY <1>1, <1>10, <2>1, <2>2, <2>3, <2>4 DEF ShapeOf
<1>11. ASSUME NEW w \in Worker, Resumes(work[w], work'[w], work[w].todo, work[w].jobs),
              work[w].pc # "idle"
       PROVE  ShapeOf(w)'
  <2>1. work[w] \in Pass /\ ShapeOf(w)
    BY DEF TypeOK, Shape
  <2>2. \A q \in Range(work[w].todo) \cup Range(work[w].jobs) : q[2] \in Published
    BY <2>1 DEF ShapeOf
  <2> QED
    BY <1>3, <1>11, <2>1, <2>2
<1>12. ASSUME NEW w \in Worker, StoresJob(w) PROVE ShapeOf(w)'
  BY <1>10, <1>12 DEF StoresJob, Holding, Storing
<1>13. ASSUME NEW w \in Worker, StoresResult(w) PROVE ShapeOf(w)'
  <2>1. CASE work[w].verdict = "match"
    BY <1>10, <1>13, <2>1 DEF StoresResult, Holding, Storing
  <2>2. CASE work[w].verdict # "match"
    BY <1>11, <1>13, <2>2 DEF StoresResult
  <2> QED
    BY <2>1, <2>2
<1>14. ASSUME NEW w \in Worker, Delivers(w) PROVE ShapeOf(w)'
  BY <1>11, <1>14 DEF Delivers
<1>15. ASSUME NEW w \in Worker, Settles(w) PROVE ShapeOf(w)'
  <2>1. CASE work'[w] = Idle
    BY <1>5, <2>1
  <2>2. ASSUME Tail(work[w].batch) # <<>>,
               work'[w] = [work[w] EXCEPT !.batch = Tail(work[w].batch)]
        PROVE  ShapeOf(w)'
    <3>1. PICK me, new, batch : me = work[w] /\ new = work'[w] /\ batch = Tail(me.batch)
      OBVIOUS
    <3>2. me \in Pass /\ me.pc = "settle" /\ ShapeOf(w)
      BY <1>15, <3>1 DEF Settles, TypeOK, Shape
    <3>3. /\ new.pc = "settle" /\ new.batch = batch /\ new.todo = me.todo /\ new.jobs = me.jobs
          /\ new.back = me.back
      BY <2>2, <3>1, <3>2 DEF Pass
    <3>4. batch # <<>> /\ Range(batch) \subseteq Range(me.batch)
      BY <2>2, <3>1, <3>2, FirstRow
    <3> QED
      BY <1>1, <3>1, <3>2, <3>3, <3>4 DEF ShapeOf, Holding, Storing
  <2> QED
    BY <1>15, <2>1, <2>2 DEF Settles, Drops
<1>16. ASSUME NEW w \in Worker, Aborts(w) PROVE ShapeOf(w)'
  BY <1>5, <1>16 DEF Aborts
<1> QED
  BY <1>2, <1>6, <1>7, <1>8, <1>9, <1>12, <1>13, <1>14, <1>15, <1>16, OnePass DEF Shape

LEMMA EmptyOnce == IsInjective(<<>>) /\ Range(<<>>) = {}
  BY DEF IsInjective, Range

LEMMA OnceStep ==
  ASSUME TypeOK, Rows, Shape, Once, Effect
  PROVE  Once'
<1>1. ASSUME NEW x \in Worker, SamePass(x) PROVE OnceOf(x)'
  <2>1. OnceOf(x)
    BY DEF Once
  <2> QED
    BY <1>1, <2>1 DEF OnceOf, SamePass
<1>2. ASSUME NEW w \in Worker, NEW mid, NEW todo, NEW jobs, Resumes(mid, work'[w], todo, jobs),
             mid.batch = work[w].batch, IsInjective(todo), IsInjective(jobs),
             Range(todo) \cap Range(jobs) = {}
      PROVE  OnceOf(w)'
  <2>1. PICK new : new = work'[w]
    OBVIOUS
  <2>2. /\ new.pc \in {"screen", "ask", "finish", "settle"}
        /\ new.batch = work[w].batch /\ new.todo = todo /\ new.jobs = jobs
    BY <1>2, <2>1 DEF Resumes, Kept
  <2>3. IsInjective(work[w].batch)
    BY DEF Once, OnceOf
  <2>4. new.pc \notin Storing
    BY <2>2 DEF Storing
  <2> QED
    BY <1>2, <2>1, <2>2, <2>3, <2>4 DEF OnceOf
<1>3. ASSUME NEW w \in Worker, NEW mid, NEW todo, NEW jobs, NEW pc, NEW p, NEW verdict,
             NEW back, Holds(mid, work'[w], pc, p, verdict, back, todo, jobs),
             mid.batch = work[w].batch, IsInjective(todo), IsInjective(jobs),
             Range(todo) \cap Range(jobs) = {}, p \notin Range(todo) \cup Range(jobs)
      PROVE  OnceOf(w)'
  <2>1. PICK new : new = work'[w]
    OBVIOUS
  <2>2. /\ new.cur = <<p>> /\ new.batch = work[w].batch /\ new.todo = todo /\ new.jobs = jobs
    BY <1>3, <2>1 DEF Holds, Kept
  <2>3. IsInjective(work[w].batch)
    BY DEF Once, OnceOf
  <2>4. Head(new.cur) = p
    BY <2>2
  <2> QED
    BY <1>3, <2>1, <2>2, <2>3, <2>4 DEF OnceOf
<1>4. ASSUME NEW w \in Worker, work'[w] = Idle PROVE OnceOf(w)'
  <2>1. PICK new : new = work'[w]
    OBVIOUS
  <2>2. new.pc = "idle" /\ new.batch = <<>> /\ new.todo = <<>> /\ new.jobs = <<>>
    BY <1>4, <2>1, IdlePass
  <2> QED
    BY <2>1, <2>2, EmptyOnce DEF OnceOf, Storing
<1>5. ASSUME NEW w \in Worker, Begins(w), ~UNCHANGED <<lock, work>> PROVE OnceOf(w)'
  <2>1. PICK new : new = work'[w]
    OBVIOUS
  <2>2. /\ new.pc = "screen" /\ new.jobs = <<>>
        /\ IsInjective(order) => IsInjective(new.batch) /\ IsInjective(new.todo)
    BY <1>5, <2>1 DEF Begins
  <2>3. IsInjective(order)
    BY DEF Rows
  <2> QED
    BY <2>1, <2>2, <2>3, EmptyOnce DEF OnceOf, Storing
<1>6. ASSUME NEW w \in Worker, Screens(w) PROVE OnceOf(w)'
  <2>1. PICK me, p, todo : me = work[w] /\ p = Head(me.todo) /\ todo = Tail(me.todo)
    OBVIOUS
  <2>2. me.pc = "screen" /\ OnceOf(w)
    BY <1>6, <2>1 DEF Screens, Once
  <2>3. /\ IsInjective(me.todo) /\ IsInjective(me.jobs) /\ Range(me.todo) \cap Range(me.jobs) = {}
    BY <2>1, <2>2 DEF OnceOf
  <2>4. /\ p \in Pair /\ Range(me.todo) = {p} \cup Range(todo) /\ me.jobs \in Seq(Pair)
        /\ IsInjective(todo) /\ p \notin Range(todo)
    BY <2>1, <2>2, <2>3, FirstCandidate
  <2>5. /\ IsInjective(todo) /\ IsInjective(me.jobs) /\ Range(todo) \cap Range(me.jobs) = {}
        /\ p \notin Range(todo) \cup Range(me.jobs)
    BY <2>3, <2>4
  <2>6. /\ IsInjective(Append(me.jobs, p)) /\ Range(todo) \cap Range(Append(me.jobs, p)) = {}
    <3>1. /\ IsInjective(Append(me.jobs, p))
          /\ Range(Append(me.jobs, p)) = Range(me.jobs) \cup {p}
      BY <2>4, <2>5, AppendFacts
    <3> QED
      BY <2>5, <3>1
  <2>7. \/ Resumes(me, work'[w], todo, me.jobs) \/ Resumes(me, work'[w], todo, Append(me.jobs, p))
        \/ Holds(me, work'[w], "announce", p, "match", "screen", todo, me.jobs)
        \/ Holds(me, work'[w], "storejob", p, "reject", "screen", todo, me.jobs)
    BY <1>6, <2>1 DEF Screens
  <2>8. CASE Resumes(me, work'[w], todo, me.jobs)
    BY <1>2, <2>1, <2>5, <2>8
  <2>9. CASE Resumes(me, work'[w], todo, Append(me.jobs, p))
    BY <1>2, <2>1, <2>5, <2>6, <2>9
  <2>10. CASE Holds(me, work'[w], "announce", p, "match", "screen", todo, me.jobs)
    BY <1>3, <2>1, <2>5, <2>10
  <2>11. CASE Holds(me, work'[w], "storejob", p, "reject", "screen", todo, me.jobs)
    BY <1>3, <2>1, <2>5, <2>11
  <2> QED
    BY <2>7, <2>8, <2>9, <2>10, <2>11
<1>7. ASSUME NEW w \in Worker, Asks(w) PROVE OnceOf(w)'
  <2>1. PICK me, new : me = work[w] /\ new = work'[w]
    OBVIOUS
  <2>2. OnceOf(w)
    BY DEF Once
  <2>3. /\ IsInjective(me.batch) /\ IsInjective(me.todo) /\ IsInjective(me.jobs)
        /\ Range(me.todo) \cap Range(me.jobs) = {}
    BY <2>1, <2>2 DEF OnceOf
  <2>4. /\ new.pc = "finish" /\ new.batch = me.batch /\ new.todo = me.todo
        /\ Range(new.jobs) = Range(me.jobs)
        /\ IsInjective(me.jobs) => IsInjective(new.jobs)
    BY <1>7, <2>1 DEF Asks
  <2> QED
    BY <2>1, <2>3, <2>4 DEF OnceOf, Storing
<1>8. ASSUME NEW w \in Worker, Finishes(w) PROVE OnceOf(w)'
  <2>1. PICK me, p, jobs, todo :
          me = work[w] /\ p = Head(me.jobs) /\ jobs = Tail(me.jobs) /\ todo = <<>>
    OBVIOUS
  <2>2. me.pc = "finish" /\ IsInjective(me.jobs)
    BY <1>8, <2>1 DEF Finishes, Once, OnceOf
  <2>3. IsInjective(jobs) /\ p \notin Range(jobs) /\ IsInjective(todo) /\ Range(todo) = {}
    BY <2>1, <2>2, FirstJob, EmptyOnce
  <2>4. PICK mid \in Pass :
          /\ mid.batch = me.batch
          /\ \/ Resumes(mid, work'[w], todo, jobs)
             \/ \E d \in Decision : Holds(mid, work'[w], "storejob", p, d, "finish", todo, jobs)
    BY <1>8, <2>1 DEF Finishes
  <2>5. CASE Resumes(mid, work'[w], todo, jobs)
    BY <1>2, <2>1, <2>3, <2>4, <2>5
  <2>6. ASSUME NEW d \in Decision, Holds(mid, work'[w], "storejob", p, d, "finish", todo, jobs)
        PROVE  OnceOf(w)'
    BY <1>3, <2>1, <2>3, <2>4, <2>6
  <2> QED
    BY <2>4, <2>5, <2>6
<1>9. ASSUME NEW w \in Worker, NEW pc, work[w].pc \in Storing,
             work'[w] = [work[w] EXCEPT !.pc = pc]
      PROVE  OnceOf(w)'
  <2>1. PICK me, new : me = work[w] /\ new = work'[w]
    OBVIOUS
  <2>2. me \in Pass /\ OnceOf(w)
    BY <2>1 DEF TypeOK, Once
  <2>3. /\ new.batch = me.batch /\ new.todo = me.todo /\ new.jobs = me.jobs
        /\ new.cur = me.cur
    BY <1>9, <2>1, <2>2 DEF Pass
  <2> QED
    BY <1>9, <2>1, <2>2, <2>3 DEF OnceOf
<1>10. ASSUME NEW w \in Worker, Resumes(work[w], work'[w], work[w].todo, work[w].jobs)
       PROVE  OnceOf(w)'
  BY <1>2, <1>10 DEF Once, OnceOf
<1>11. ASSUME NEW w \in Worker, StoresJob(w) PROVE OnceOf(w)'
  BY <1>9, <1>11 DEF StoresJob, Storing
<1>12. ASSUME NEW w \in Worker, StoresResult(w) PROVE OnceOf(w)'
  <2>1. CASE work[w].verdict = "match"
    BY <1>9, <1>12, <2>1 DEF StoresResult, Storing
  <2>2. CASE work[w].verdict # "match"
    BY <1>10, <1>12, <2>2 DEF StoresResult
  <2> QED
    BY <2>1, <2>2
<1>13. ASSUME NEW w \in Worker, Delivers(w) PROVE OnceOf(w)'
  BY <1>10, <1>13 DEF Delivers
<1>14. ASSUME NEW w \in Worker, Settles(w) PROVE OnceOf(w)'
  <2>1. CASE work'[w] = Idle
    BY <1>4, <2>1
  <2>2. ASSUME work'[w] = [work[w] EXCEPT !.batch = Tail(work[w].batch)] PROVE OnceOf(w)'
    <3>1. PICK me, new, batch : me = work[w] /\ new = work'[w] /\ batch = Tail(me.batch)
      OBVIOUS
    <3>2. me \in Pass /\ me.pc = "settle" /\ OnceOf(w)
      BY <1>14, <3>1 DEF Settles, TypeOK, Once
    <3>3. new.pc = "settle" /\ new.batch = batch /\ new.todo = me.todo /\ new.jobs = me.jobs
      BY <2>2, <3>1, <3>2 DEF Pass
    <3>4. IsInjective(batch)
      BY <3>1, <3>2, FirstRow DEF OnceOf
    <3> QED
      BY <3>1, <3>2, <3>3, <3>4 DEF OnceOf, Storing
  <2> QED
    BY <1>14, <2>1, <2>2 DEF Settles, Drops
<1>15. ASSUME NEW w \in Worker, Aborts(w) PROVE OnceOf(w)'
  BY <1>4, <1>15 DEF Aborts
<1> QED
  BY <1>1, <1>5, <1>6, <1>7, <1>8, <1>11, <1>12, <1>13, <1>14, <1>15, OnePass DEF Once

\* What a user was cleared for stays cleared.
LEMMA ClearedStep ==
  ASSUME Effect
  PROVE  cleared \subseteq cleared'
<1>1. ASSUME NEW w \in Worker, Screens(w) \/ StoresResult(w) PROVE cleared \subseteq cleared'
  <2>1. CASE Screens(w)
    BY <2>1 DEF Screens
  <2>2. CASE StoresResult(w)
    BY <2>2 DEF StoresResult
  <2> QED
    BY <1>1, <2>1, <2>2
<1>2. CASE cleared' = cleared
  BY <1>2
<1> QED
  BY <1>1, <1>2, Untouched DEF Effect

LEMMA CoversStep ==
  ASSUME TypeOK, Rows, Shape, Covers, Effect
  PROVE  Covers'
<1>1. cleared \subseteq cleared'
  BY ClearedStep
<1>2. ASSUME NEW x \in Worker, SamePass(x) PROVE CoversOf(x)'
  <2>1. AheadOf(x)' = AheadOf(x) /\ work'[x].batch = work[x].batch
        /\ work'[x].failed = work[x].failed
    BY <1>2 DEF AheadOf, SamePass
  <2>2. \A i \in Range(work[x].batch), u \in User :
          <<u, i>> \in cleared \/ <<u, i>> \in AheadOf(x) \/ i \in work[x].failed
    BY DEF Covers, CoversOf
  <2>3. \A i \in Range(work'[x].batch), u \in User :
          <<u, i>> \in cleared' \/ <<u, i>> \in AheadOf(x)' \/ i \in work'[x].failed
    BY <1>1, <2>1, <2>2
  <2> QED
    BY <2>3 DEF CoversOf
<1>3. ASSUME NEW w \in Worker, Range(work'[w].batch) \subseteq Range(work[w].batch),
             work[w].failed \subseteq work'[w].failed,
             \A p \in AheadOf(w) : p \in cleared' \/ p \in AheadOf(w)' \/ p[2] \in work'[w].failed
      PROVE  CoversOf(w)'
  <2>1. \A i \in Range(work'[w].batch), u \in User :
          <<u, i>> \in cleared' \/ <<u, i>> \in AheadOf(w)' \/ i \in work'[w].failed
    <3> TAKE i \in Range(work'[w].batch), u \in User
    <3>1. <<u, i>> \in cleared \/ <<u, i>> \in AheadOf(w) \/ i \in work[w].failed
      BY <1>3 DEF Covers, CoversOf
    <3>2. <<u, i>>[2] = i
      OBVIOUS
    <3> QED
      BY <1>1, <1>3, <3>1, <3>2
  <2> QED
    BY <2>1 DEF CoversOf
<1>4. ASSUME NEW w \in Worker, work[w].pc \notin Storing
      PROVE  AheadOf(w) = Range(work[w].todo) \cup Range(work[w].jobs)
  BY <1>4 DEF AheadOf
<1>5. ASSUME NEW w \in Worker, NEW mid, NEW todo, NEW jobs, Resumes(mid, work'[w], todo, jobs)
      PROVE  /\ AheadOf(w)' = Range(todo) \cup Range(jobs)
             /\ work'[w].batch = mid.batch /\ work'[w].failed = mid.failed
  <2>1. /\ work'[w].pc \in {"screen", "ask", "finish", "settle"} /\ work'[w].batch = mid.batch
        /\ work'[w].todo = todo /\ work'[w].jobs = jobs /\ work'[w].failed = mid.failed
    BY <1>5 DEF Resumes, Kept
  <2>2. work'[w].pc \notin Storing
    BY <2>1 DEF Storing
  <2> QED
    BY <2>1, <2>2 DEF AheadOf
<1>6. ASSUME NEW w \in Worker, work'[w] = Idle PROVE CoversOf(w)'
  <2>1. work'[w].batch = <<>>
    BY <1>6, IdlePass
  <2> QED
    BY <2>1, EmptyOnce DEF CoversOf
<1>7. ASSUME NEW w \in Worker, Begins(w), ~UNCHANGED <<lock, work>> PROVE CoversOf(w)'
  <2>1. Range(work'[w].todo) = User \X Range(work'[w].batch)
    BY <1>7 DEF Begins
  <2> QED
    BY <2>1 DEF CoversOf, AheadOf
<1>8. ASSUME NEW w \in Worker, Screens(w) PROVE CoversOf(w)'
  <2>1. PICK me, p, todo : me = work[w] /\ p = Head(me.todo) /\ todo = Tail(me.todo)
    OBVIOUS
  <2>2. me.pc = "screen" /\ me.pc \notin Storing
    BY <1>8, <2>1 DEF Screens, Storing
  <2>3. p \in Pair /\ Range(me.todo) = {p} \cup Range(todo) /\ me.jobs \in Seq(Pair)
    BY <2>1, <2>2, FirstCandidate
  <2>4. AheadOf(w) = {p} \cup Range(todo) \cup Range(me.jobs)
    BY <1>4, <2>1, <2>2, <2>3
  <2>5. Range(Append(me.jobs, p)) = Range(me.jobs) \cup {p}
    BY <2>3, AppendFacts
  <2>6. \/ cleared' = cleared \cup {p} /\ Resumes(me, work'[w], todo, me.jobs)
        \/ Resumes(me, work'[w], todo, Append(me.jobs, p))
        \/ cleared' = cleared \cup {p}
             /\ Holds(me, work'[w], "announce", p, "match", "screen", todo, me.jobs)
        \/ Holds(me, work'[w], "storejob", p, "reject", "screen", todo, me.jobs)
    BY <1>8, <2>1 DEF Screens
  <2>7. CASE cleared' = cleared \cup {p} /\ Resumes(me, work'[w], todo, me.jobs)
    <3>1. /\ AheadOf(w)' = Range(todo) \cup Range(me.jobs)
          /\ work'[w].batch = me.batch /\ work'[w].failed = me.failed
      BY <1>5, <2>7
    <3> QED
      BY <1>3, <2>1, <2>4, <2>7, <3>1
  <2>8. CASE Resumes(me, work'[w], todo, Append(me.jobs, p))
    <3>1. /\ AheadOf(w)' = Range(todo) \cup Range(Append(me.jobs, p))
          /\ work'[w].batch = me.batch /\ work'[w].failed = me.failed
      BY <1>5, <2>8
    <3> QED
      BY <1>3, <2>1, <2>4, <2>5, <3>1
  <2>9. CASE cleared' = cleared \cup {p}
             /\ Holds(me, work'[w], "announce", p, "match", "screen", todo, me.jobs)
    <3>1. /\ Range(todo) \cup Range(me.jobs) \subseteq AheadOf(w)'
          /\ work'[w].batch = me.batch /\ work'[w].failed = me.failed
      <4>1. /\ work'[w].batch = me.batch /\ work'[w].failed = me.failed
            /\ work'[w].todo = todo /\ work'[w].jobs = me.jobs
        BY <2>9 DEF Holds, Kept
      <4> QED
        BY <4>1 DEF AheadOf
    <3> QED
      BY <1>3, <2>1, <2>4, <2>9, <3>1
  <2>10. CASE Holds(me, work'[w], "storejob", p, "reject", "screen", todo, me.jobs)
    <3>1. /\ AheadOf(w)' = Range(todo) \cup Range(me.jobs) \cup {p}
          /\ work'[w].batch = me.batch /\ work'[w].failed = me.failed
      <4>1. "storejob" \in Storing
        BY DEF Storing
      <4>2. /\ work'[w].batch = me.batch /\ work'[w].failed = me.failed
            /\ work'[w].todo = todo /\ work'[w].jobs = me.jobs
            /\ work'[w].pc = "storejob" /\ Head(work'[w].cur) = p
        BY <2>10 DEF Holds, Kept
      <4> QED
        BY <4>1, <4>2 DEF AheadOf
    <3> QED
      BY <1>3, <2>1, <2>4, <3>1
  <2> QED
    BY <2>6, <2>7, <2>8, <2>9, <2>10
<1>9. ASSUME NEW w \in Worker, Asks(w) PROVE CoversOf(w)'
  <2>1. /\ work[w].pc = "ask" /\ work'[w].pc = "finish" /\ work'[w].batch = work[w].batch
        /\ work'[w].todo = work[w].todo /\ work'[w].failed = work[w].failed
        /\ Range(work'[w].jobs) = Range(work[w].jobs)
    BY <1>9 DEF Asks
  <2>2. AheadOf(w)' = AheadOf(w)
    BY <2>1 DEF AheadOf, Storing
  <2> QED
    BY <1>3, <2>1, <2>2
<1>10. ASSUME NEW w \in Worker, Finishes(w) PROVE CoversOf(w)'
  <2>1. PICK me, p, jobs, todo :
          me = work[w] /\ p = Head(me.jobs) /\ jobs = Tail(me.jobs) /\ todo = <<>>
    OBVIOUS
  <2>2. me.pc = "finish" /\ me.pc \notin Storing /\ me.todo = <<>>
    BY <1>10, <2>1 DEF Finishes, Storing, Shape, ShapeOf
  <2>3. p \in Pair /\ Range(me.jobs) = {p} \cup Range(jobs) /\ Range(me.todo) = {}
    BY <2>1, <2>2, FirstJob, EmptyOnce
  <2>4. AheadOf(w) = {p} \cup Range(jobs)
    BY <1>4, <2>1, <2>2, <2>3
  <2>5. PICK mid \in Pass :
          /\ mid.batch = me.batch
          /\ \/ mid.failed = me.failed \cup {p[2]} /\ Resumes(mid, work'[w], todo, jobs)
             \/ /\ mid.failed = me.failed
                /\ \E d \in Decision : Holds(mid, work'[w], "storejob", p, d, "finish", todo, jobs)
    BY <1>10, <2>1 DEF Finishes
  <2>6. CASE mid.failed = me.failed \cup {p[2]} /\ Resumes(mid, work'[w], todo, jobs)
    <3>1. /\ Range(jobs) \subseteq AheadOf(w)'
          /\ work'[w].batch = me.batch /\ work'[w].failed = me.failed \cup {p[2]}
      <4>1. /\ AheadOf(w)' = Range(todo) \cup Range(jobs)
            /\ work'[w].batch = mid.batch /\ work'[w].failed = mid.failed
        BY <1>5, <2>6
      <4> QED
        BY <2>5, <2>6, <4>1
    <3> QED
      BY <1>3, <2>1, <2>4, <3>1
  <2>7. ASSUME mid.failed = me.failed, NEW d \in Decision,
               Holds(mid, work'[w], "storejob", p, d, "finish", todo, jobs)
        PROVE  CoversOf(w)'
    <3>1. "storejob" \in Storing
      BY DEF Storing
    <3>2. /\ Range(jobs) \cup {p} \subseteq AheadOf(w)'
          /\ work'[w].batch = me.batch /\ work'[w].failed = me.failed
      <4>1. /\ work'[w].batch = mid.batch /\ work'[w].failed = mid.failed
            /\ work'[w].todo = todo /\ work'[w].jobs = jobs
            /\ work'[w].pc = "storejob" /\ Head(work'[w].cur) = p
        BY <2>7 DEF Holds, Kept
      <4> QED
        BY <2>5, <2>7, <3>1, <4>1 DEF AheadOf
    <3> QED
      BY <1>3, <2>1, <2>4, <3>2
  <2> QED
    BY <2>5, <2>6, <2>7
<1>11. ASSUME NEW w \in Worker, StoresJob(w) PROVE CoversOf(w)'
  <2>1. /\ work[w].pc = "storejob" /\ work'[w].pc = "storeresult"
        /\ work'[w].batch = work[w].batch /\ work'[w].failed = work[w].failed
        /\ work'[w].todo = work[w].todo /\ work'[w].jobs = work[w].jobs
        /\ work'[w].cur = work[w].cur
    <3>1. work[w] \in Pass /\ work[w].pc = "storejob"
          /\ work'[w] = [work[w] EXCEPT !.pc = "storeresult"]
      BY <1>11 DEF StoresJob, TypeOK
    <3> QED
      BY <3>1 DEF Pass
  <2>2. AheadOf(w)' = AheadOf(w)
    BY <2>1 DEF AheadOf, Storing
  <2> QED
    BY <1>3, <2>1, <2>2
<1>12. ASSUME NEW w \in Worker, StoresResult(w) PROVE CoversOf(w)'
  <2>1. PICK me, p : me = work[w] /\ p = Head(me.cur)
    OBVIOUS
  <2>2. me \in Pass /\ cleared' = cleared \cup {p}
    BY <1>12, <2>1 DEF StoresResult, TypeOK
  <2>3. AheadOf(w) \subseteq Range(me.todo) \cup Range(me.jobs) \cup {p}
    BY <2>1 DEF AheadOf
  <2>4. CASE me.verdict = "match"
    <3>1. work'[w] = [me EXCEPT !.pc = "announce"]
      BY <1>12, <2>1, <2>4 DEF StoresResult
    <3>2. /\ work'[w].batch = me.batch /\ work'[w].failed = me.failed
          /\ work'[w].todo = me.todo /\ work'[w].jobs = me.jobs
      BY <2>2, <3>1 DEF Pass
    <3>3. Range(me.todo) \cup Range(me.jobs) \subseteq AheadOf(w)'
      BY <3>2 DEF AheadOf
    <3> QED
      BY <1>3, <2>1, <2>2, <2>3, <3>2, <3>3
  <2>5. CASE me.verdict # "match"
    <3>1. Resumes(me, work'[w], me.todo, me.jobs)
      BY <1>12, <2>1, <2>5 DEF StoresResult
    <3>2. /\ work'[w].batch = me.batch /\ work'[w].failed = me.failed
          /\ AheadOf(w)' = Range(me.todo) \cup Range(me.jobs)
      BY <1>5, <3>1
    <3> QED
      BY <1>3, <2>1, <2>2, <2>3, <3>2
  <2> QED
    BY <2>4, <2>5
<1>13. ASSUME NEW w \in Worker, Delivers(w) PROVE CoversOf(w)'
  <2>1. PICK me : me = work[w]
    OBVIOUS
  <2>2. me.pc \notin Storing /\ Resumes(me, work'[w], me.todo, me.jobs)
    BY <1>13, <2>1 DEF Delivers, Storing
  <2>3. /\ work'[w].batch = me.batch /\ work'[w].failed = me.failed
        /\ AheadOf(w)' = Range(me.todo) \cup Range(me.jobs)
    BY <1>5, <2>2
  <2> QED
    BY <1>3, <1>4, <2>1, <2>2, <2>3
<1>14. ASSUME NEW w \in Worker, Settles(w) PROVE CoversOf(w)'
  <2>1. CASE work'[w] = Idle
    BY <1>6, <2>1
  <2>2. ASSUME work'[w] = [work[w] EXCEPT !.batch = Tail(work[w].batch)] PROVE CoversOf(w)'
    <3>1. PICK me, new, batch : me = work[w] /\ new = work'[w] /\ batch = Tail(me.batch)
      OBVIOUS
    <3>2. me \in Pass /\ me.pc = "settle"
      BY <1>14, <3>1 DEF Settles, TypeOK
    <3>3. /\ new.pc = "settle" /\ new.batch = batch /\ new.todo = me.todo /\ new.jobs = me.jobs
          /\ new.failed = me.failed
      BY <2>2, <3>1, <3>2 DEF Pass
    <3>4. Range(batch) \subseteq Range(me.batch)
      BY <3>1, <3>2, FirstRow
    <3>5. AheadOf(w)' = AheadOf(w)
      BY <3>1, <3>2, <3>3 DEF AheadOf, Storing
    <3> QED
      BY <1>3, <3>1, <3>3, <3>4, <3>5
  <2> QED
    BY <1>14, <2>1, <2>2 DEF Settles, Drops
<1>15. ASSUME NEW w \in Worker, Aborts(w) PROVE CoversOf(w)'
  BY <1>6, <1>15 DEF Aborts
<1> QED
  BY <1>2, <1>7, <1>8, <1>9, <1>10, <1>11, <1>12, <1>13, <1>14, <1>15, OnePass DEF Covers

\* Only a dropped session loses the lock, and what it says is lost for good.
LEMMA LockLostStep == ASSUME Effect, ~lockLost' PROVE ~lockLost /\ ~Unlocks
<1>1. Unlocks => lockLost'
  BY DEF Unlocks
<1>2. ~Unlocks => lockLost' = lockLost
  BY Untouched DEF Effect
<1> QED
  BY <1>1, <1>2

\* While no session drops, a stored match of a published row stays.
LEMMA BackedStep ==
  ASSUME TypeOK, Rows, Shape, Locked, Effect, ~lockLost',
         NEW p \in Pair, p[2] \in Published, Backed(p)
  PROVE  Backed(p)'
<1>1. gates'[p] = gates[p]
  <2>1. ASSUME NEW i \in Item, Publishes(i) PROVE gates'[p] = gates[p]
    <3>1. i[2] = revision[i[1]] + 1 /\ \A q \in Pair : q[2] # i => gates'[q] = gates[q]
      BY <2>1 DEF Publishes
    <3>2. i[2] > revision[i[1]]
      <4>1. revision[i[1]] \in Nat
        BY Numbers DEF TypeOK
      <4> QED
        BY <3>1, <4>1
    <3>3. i \notin Published
      BY <3>2 DEF Rows, RowOf, Published
    <3> QED
      BY <3>1, <3>3
  <2> QED
    BY <2>1, Untouched DEF Effect
<1>2. matched \subseteq matched'
  <2>1. ASSUME NEW w \in Worker, Screens(w) PROVE matched \subseteq matched'
    BY <2>1 DEF Screens
  <2>2. CASE matched' = matched
    BY <2>2
  <2> QED
    BY <2>1, <2>2, Untouched DEF Effect
<1>3. result[p] = "match" => result'[p] = "match"
  <2>1. ASSUME NEW w \in Worker, StoresResult(w), result[p] = "match"
        PROVE  result'[p] = "match"
    <3>1. PICK q : q = Head(work[w].cur)
      OBVIOUS
    <3>2. result' = [result EXCEPT ![q] = work[w].verdict] /\ work[w].pc = "storeresult"
      BY <2>1, <3>1 DEF StoresResult
    <3>3. ~lockLost
      BY LockLostStep
    <3>4. UnstoredOf(w)
      BY <3>3 DEF Locked
    <3>5. result[q] = "none"
      BY <3>1, <3>2, <3>4 DEF UnstoredOf, Storing
    <3>6. q # p
      BY <2>1, <3>5
    <3> QED
      BY <2>1, <3>2, <3>6 DEF TypeOK
  <2> QED
    BY <2>1, Untouched DEF Effect
<1> QED
  BY <1>1, <1>2, <1>3 DEF Backed

\* While no session drops, there is one pass at a time.
LEMMA OnlyHolder ==
  ASSUME Locked, ~lockLost, NEW w \in Worker, NEW x \in Worker \ {w},
         work[w].pc # "idle" \/ lock = NoWorker
  PROVE  work[x].pc = "idle"
<1>1. UnstoredOf(w) /\ UnstoredOf(x)
  BY DEF Locked
<1>2. work[x].pc # "idle" => lock = x
  BY <1>1 DEF UnstoredOf
<1>3. work[w].pc # "idle" => lock = w
  BY <1>1 DEF UnstoredOf
<1> QED
  BY <1>2, <1>3, Numbers

LEMMA UnstoredStep ==
  ASSUME TypeOK, Rows, Shape, Once, Locked, Effect, ~lockLost', NEW x \in Worker
  PROVE  UnstoredOf(x)'
<1>1. ~lockLost /\ UnstoredOf(x)
  BY LockLostStep DEF Locked
<1>2. CASE work'[x].pc = "idle"
  BY <1>2 DEF UnstoredOf, Storing
<1>3. ASSUME SamePass(x), UNCHANGED <<lock, result>> PROVE UnstoredOf(x)'
  <2>1. PICK me, new : me = work[x] /\ new = work'[x]
    OBVIOUS
  <2>2. new.pc = me.pc /\ new.jobs = me.jobs /\ new.cur = me.cur
    BY <1>3, <2>1 DEF SamePass
  <2>3. me.pc = "announce" => Backed(Head(me.cur))'
    <3>1. ASSUME me.pc = "announce" PROVE Backed(Head(me.cur))'
      <4>1. PICK p : p = Head(me.cur)
        OBVIOUS
      <4>2. p \in Pair /\ p[2] \in Published
        BY <2>1, <3>1, <4>1, InHand DEF Holding
      <4>3. Backed(p)
        BY <1>1, <2>1, <3>1, <4>1 DEF UnstoredOf
      <4>4. Backed(p)'
        BY <4>2, <4>3, BackedStep
      <4> QED
        BY <4>1, <4>4 DEF Backed
    <3> QED
      BY <3>1
  <2>4. /\ new.pc # "idle" => lock' = x /\ \A p \in Range(new.jobs) : result'[p] = "none"
        /\ new.pc \in Storing => result'[Head(new.cur)] = "none"
    BY <1>1, <1>3, <2>1, <2>2 DEF UnstoredOf
  <2>5. new.pc = "announce" => Backed(Head(new.cur))'
    BY <2>2, <2>3 DEF Backed
  <2> QED
    BY <2>1, <2>4, <2>5 DEF UnstoredOf, Backed
<1>4. ASSUME NEW w \in Worker \ {x}, SamePass(x), work[w].pc # "idle" \/ lock = NoWorker
      PROVE  UnstoredOf(x)'
  <2>1. work[x].pc = "idle"
    BY <1>1, <1>4, OnlyHolder
  <2>2. work'[x].pc = "idle"
    BY <1>4, <2>1 DEF SamePass
  <2> QED
    BY <1>2, <2>2
<1>5. ASSUME NEW mid, NEW todo, NEW jobs, Resumes(mid, work'[x], todo, jobs), lock' = x,
             \A p \in Range(jobs) : result'[p] = "none"
      PROVE  UnstoredOf(x)'
  <2>1. work'[x].pc \in {"screen", "ask", "finish", "settle"} /\ work'[x].jobs = jobs
    BY <1>5 DEF Resumes
  <2> QED
    BY <1>5, <2>1 DEF UnstoredOf, Storing
<1>6. CASE Begins(x) /\ ~UNCHANGED <<lock, work>>
  <2>1. lock' = x /\ work'[x].pc = "screen" /\ work'[x].jobs = <<>>
    BY <1>6 DEF Begins
  <2> QED
    BY <2>1, EmptyOnce DEF UnstoredOf, Storing
<1>7. ASSUME work[x].pc # "idle"
      PROVE  lock = x /\ \A p \in Range(work[x].jobs) : result[p] = "none"
  BY <1>1, <1>7 DEF UnstoredOf
<1>8. CASE Screens(x)
  <2>1. PICK me, p, todo : me = work[x] /\ p = Head(me.todo) /\ todo = Tail(me.todo)
    OBVIOUS
  <2>2. me.pc = "screen" /\ UNCHANGED <<lock, result, gates>>
    BY <1>8, <2>1, Untouched DEF Screens
  <2>3. /\ lock' = x /\ \A q \in Range(me.jobs) : result'[q] = "none"
    BY <1>7, <2>1, <2>2
  <2>4. p \in Pair /\ me.jobs \in Seq(Pair)
    BY <2>1, <2>2, FirstCandidate
  <2>5. \/ Resumes(me, work'[x], todo, me.jobs)
        \/ result[p] = "none" /\ Resumes(me, work'[x], todo, Append(me.jobs, p))
        \/ /\ p \in matched' /\ Match(gates[p]) = "match"
           /\ Holds(me, work'[x], "announce", p, "match", "screen", todo, me.jobs)
        \/ /\ result[p] = "none"
           /\ Holds(me, work'[x], "storejob", p, "reject", "screen", todo, me.jobs)
    BY <1>8, <2>1 DEF Screens
  <2>6. CASE Resumes(me, work'[x], todo, me.jobs)
    BY <1>5, <2>3, <2>6
  <2>7. CASE result[p] = "none" /\ Resumes(me, work'[x], todo, Append(me.jobs, p))
    <3>1. \A q \in Range(Append(me.jobs, p)) : result'[q] = "none"
      BY <2>2, <2>3, <2>4, <2>7, AppendFacts
    <3> QED
      BY <1>5, <2>3, <2>7, <3>1
  <2>8. CASE /\ p \in matched' /\ Match(gates[p]) = "match"
             /\ Holds(me, work'[x], "announce", p, "match", "screen", todo, me.jobs)
    <3>1. /\ work'[x].pc = "announce" /\ work'[x].jobs = me.jobs /\ Head(work'[x].cur) = p
      BY <2>8 DEF Holds
    <3>2. gates'[p] = gates[p]
      BY <2>2
    <3>3. Match(gates'[p]) = "match"
      BY <2>8, <3>2
    <3>4. Backed(p)'
      BY <2>8, <3>3 DEF Backed
    <3> QED
      BY <2>3, <3>1, <3>4 DEF UnstoredOf, Storing, Backed
  <2>9. CASE /\ result[p] = "none"
             /\ Holds(me, work'[x], "storejob", p, "reject", "screen", todo, me.jobs)
    <3>1. /\ work'[x].pc = "storejob" /\ work'[x].jobs = me.jobs /\ Head(work'[x].cur) = p
      BY <2>9 DEF Holds
    <3> QED
      BY <2>2, <2>3, <2>9, <3>1 DEF UnstoredOf
  <2> QED
    BY <2>5, <2>6, <2>7, <2>8, <2>9
<1>9. CASE Asks(x)
  <2>1. /\ work[x].pc = "ask" /\ work'[x].pc = "finish"
        /\ Range(work'[x].jobs) = Range(work[x].jobs) /\ UNCHANGED <<lock, result>>
    BY <1>9, Untouched DEF Asks
  <2> QED
    BY <1>7, <2>1 DEF UnstoredOf, Storing
<1>10. CASE Finishes(x)
  <2>1. PICK me, p, jobs, todo :
          me = work[x] /\ p = Head(me.jobs) /\ jobs = Tail(me.jobs) /\ todo = <<>>
    OBVIOUS
  <2>2. me.pc = "finish" /\ UNCHANGED <<lock, result>>
    BY <1>10, <2>1, Untouched DEF Finishes
  <2>3. p \in Range(me.jobs) /\ Range(jobs) \subseteq Range(me.jobs)
    BY <2>1, <2>2, FirstJob
  <2>4. lock' = x /\ result'[p] = "none" /\ \A q \in Range(jobs) : result'[q] = "none"
    BY <1>7, <2>1, <2>2, <2>3
  <2>5. PICK mid \in Pass :
          \/ Resumes(mid, work'[x], todo, jobs)
          \/ \E d \in Decision : Holds(mid, work'[x], "storejob", p, d, "finish", todo, jobs)
    BY <1>10, <2>1 DEF Finishes
  <2>6. CASE Resumes(mid, work'[x], todo, jobs)
    BY <1>5, <2>4, <2>6
  <2>7. ASSUME NEW d \in Decision, Holds(mid, work'[x], "storejob", p, d, "finish", todo, jobs)
        PROVE  UnstoredOf(x)'
    <3>1. /\ work'[x].pc = "storejob" /\ work'[x].jobs = jobs /\ Head(work'[x].cur) = p
      BY <2>7 DEF Holds
    <3> QED
      BY <2>4, <3>1 DEF UnstoredOf
  <2> QED
    BY <2>5, <2>6, <2>7
<1>11. CASE StoresJob(x)
  <2>1. /\ work[x] \in Pass /\ work[x].pc = "storejob" /\ UNCHANGED <<lock, result>>
        /\ work'[x] = [work[x] EXCEPT !.pc = "storeresult"]
    BY <1>11, Untouched DEF StoresJob, TypeOK
  <2>2. /\ work'[x].pc = "storeresult" /\ work'[x].jobs = work[x].jobs
        /\ work'[x].cur = work[x].cur
    BY <2>1 DEF Pass
  <2> QED
    BY <1>1, <2>1, <2>2 DEF UnstoredOf, Storing
<1>12. CASE StoresResult(x)
  <2>1. PICK me, p : me = work[x] /\ p = Head(me.cur)
    OBVIOUS
  <2>2. /\ me \in Pass /\ me.pc = "storeresult" /\ lock' = lock
        /\ result' = [result EXCEPT ![p] = me.verdict]
    BY <1>12, <2>1, Untouched DEF StoresResult, TypeOK
  <2>3. p \in Pair /\ p \notin Range(me.jobs) /\ Range(me.jobs) \subseteq Pair
    <3>1. p \in Pair
      BY <2>1, <2>2, InHand DEF Holding, Storing
    <3>2. p \notin Range(me.jobs)
      BY <2>1, <2>2 DEF Once, OnceOf, Storing
    <3>3. me.jobs \in Seq(Pair)
      BY <2>2, PassFields
    <3> QED
      BY <3>1, <3>2, <3>3, RangeOfSeq
  <2>4. lock' = x /\ \A q \in Range(me.jobs) : result'[q] = "none"
    <3>1. \A q \in Range(me.jobs) : result'[q] = result[q]
      BY <2>2, <2>3 DEF TypeOK
    <3> QED
      BY <1>7, <2>1, <2>2, <3>1
  <2>5. CASE me.verdict = "match"
    <3>1. work'[x] = [me EXCEPT !.pc = "announce"]
      BY <1>12, <2>1, <2>5 DEF StoresResult
    <3>2. work'[x].pc = "announce" /\ work'[x].jobs = me.jobs /\ work'[x].cur = me.cur
      BY <2>2, <3>1 DEF Pass
    <3>3. result'[p] = "match"
      BY <2>2, <2>3, <2>5 DEF TypeOK
    <3>4. Head(work'[x].cur) = p
      BY <2>1, <3>2
    <3> QED
      BY <2>4, <3>2, <3>3, <3>4 DEF UnstoredOf, Storing, Backed
  <2>6. CASE me.verdict # "match"
    <3>1. Resumes(me, work'[x], me.todo, me.jobs)
      BY <1>12, <2>1, <2>6 DEF StoresResult
    <3> QED
      BY <1>5, <2>4, <3>1
  <2> QED
    BY <2>5, <2>6
<1>13. CASE Delivers(x)
  <2>1. /\ work[x].pc # "idle" /\ UNCHANGED <<lock, result>>
        /\ Resumes(work[x], work'[x], work[x].todo, work[x].jobs)
    BY <1>13, Untouched DEF Delivers
  <2> QED
    BY <1>5, <1>7, <2>1
<1>14. CASE Settles(x)
  <2>1. CASE work'[x] = Idle
    BY <1>2, <2>1, IdlePass
  <2>2. ASSUME work'[x] = [work[x] EXCEPT !.batch = Tail(work[x].batch)], lock' = lock
        PROVE  UnstoredOf(x)'
    <3>1. work[x] \in Pass /\ work[x].pc = "settle" /\ result' = result
      BY <1>14, Untouched DEF Settles, TypeOK
    <3>2. work'[x].pc = "settle" /\ work'[x].jobs = work[x].jobs
      BY <2>2, <3>1 DEF Pass
    <3> QED
      BY <1>7, <2>2, <3>1, <3>2 DEF UnstoredOf, Storing
  <2> QED
    BY <1>14, <2>1, <2>2 DEF Settles, Drops
<1>15. CASE Aborts(x)
  BY <1>2, <1>15, IdlePass DEF Aborts
<1>16. ASSUME NEW w \in Worker,
              \/ Begins(w) \/ Screens(w) \/ Asks(w) \/ Finishes(w) \/ StoresJob(w)
              \/ StoresResult(w) \/ Delivers(w) \/ Settles(w) \/ Aborts(w)
       PROVE  work[w].pc # "idle" \/ lock = NoWorker
  <2>1. CASE Begins(w) \/ Screens(w) \/ Asks(w) \/ Finishes(w)
    BY <2>1 DEF Begins, Screens, Asks, Finishes
  <2>2. CASE StoresJob(w) \/ StoresResult(w) \/ Delivers(w) \/ Settles(w) \/ Aborts(w)
    BY <2>2 DEF StoresJob, StoresResult, Delivers, Settles, Aborts
  <2> QED
    BY <1>16, <2>1, <2>2
<1>17. CASE \A y \in Worker : SamePass(y)
  <2>1. CASE UNCHANGED <<lock, result>>
    BY <1>3, <1>17, <2>1
  <2>2. ASSUME NEW w \in Worker,
               \/ Begins(w) \/ Screens(w) \/ Asks(w) \/ Finishes(w) \/ StoresJob(w)
               \/ StoresResult(w) \/ Delivers(w) \/ Settles(w) \/ Aborts(w)
        PROVE  UnstoredOf(x)'
    <3>1. CASE w # x
      BY <1>4, <1>16, <1>17, <2>2, <3>1
    <3>2. CASE w = x
      BY <1>6, <1>8, <1>9, <1>10, <1>11, <1>12, <1>13, <1>14, <1>15, <2>1, <2>2, <3>2, Untouched
    <3> QED
      BY <3>1, <3>2
  <2>3. Unlocks => FALSE
    BY LockLostStep
  <2> QED
    BY <2>1, <2>2, <2>3, Untouched DEF Effect
<1>18. ASSUME NEW w \in Worker, \A y \in Worker \ {w} : SamePass(y),
              \/ (Begins(w) /\ ~UNCHANGED <<lock, work>>) \/ Screens(w) \/ Asks(w)
              \/ Finishes(w) \/ StoresJob(w) \/ StoresResult(w) \/ Delivers(w) \/ Settles(w)
              \/ Aborts(w)
       PROVE  UnstoredOf(x)'
  <2>1. CASE w # x
    BY <1>4, <1>16, <1>18, <2>1
  <2>2. CASE w = x
    BY <1>6, <1>8, <1>9, <1>10, <1>11, <1>12, <1>13, <1>14, <1>15, <1>18, <2>2
  <2> QED
    BY <2>1, <2>2
<1> QED
  BY <1>17, <1>18, OnePass

LEMMA LockedStep ==
  ASSUME TypeOK, Rows, Shape, Once, Locked, Effect
  PROVE  Locked'
<1> SUFFICES ASSUME ~lockLost' PROVE (\A w \in Worker : UnstoredOf(w)') /\ DeliveryBacked'
  BY DEF Locked
<1>1. ~lockLost
  BY LockLostStep
<1>2. \A w \in Worker : UnstoredOf(w)'
  BY UnstoredStep
<1>3. ASSUME NEW d \in User \X Vacancy, NEW p \in Pair, p[2] \in Published, Backed(p),
             p[1] = d[1], p[2][1] = d[2]
      PROVE  \E i \in Published' : /\ i[1] = d[2]
                                   /\ \/ result'[<<d[1], i>>] = "match"
                                      \/ /\ <<d[1], i>> \in matched'
                                         /\ Match(gates'[<<d[1], i>>]) = "match"
  <2>1. Backed(p)' /\ p[2] \in Published'
    BY <1>3, BackedStep, PublishedStep
  <2>2. p = <<d[1], p[2]>>
    BY <1>3, Numbers
  <2>3. \/ result'[<<d[1], p[2]>>] = "match"
        \/ <<d[1], p[2]>> \in matched' /\ Match(gates'[<<d[1], p[2]>>]) = "match"
    BY <2>1, <2>2 DEF Backed
  <2> QED
    BY <1>3, <2>1, <2>3
<1>4. ASSUME NEW d \in delivery'
      PROVE  \E p \in Pair : p[2] \in Published /\ Backed(p) /\ p[1] = d[1] /\ p[2][1] = d[2]
  <2>1. CASE d \in delivery
    <3>1. PICK i \in Published : /\ i[1] = d[2]
                                 /\ \/ result[<<d[1], i>>] = "match"
                                    \/ /\ <<d[1], i>> \in matched
                                       /\ Match(gates[<<d[1], i>>]) = "match"
      BY <1>1, <2>1 DEF Locked, DeliveryBacked
    <3>2. d[1] \in User /\ i \in Item
      BY <2>1 DEF TypeOK, Published
    <3>3. PICK p : p = <<d[1], i>>
      OBVIOUS
    <3>4. p \in Pair /\ p[1] = d[1] /\ p[2] = i
      BY <3>2, <3>3 DEF Pair
    <3>5. Backed(p)
      BY <3>1, <3>3 DEF Backed
    <3> QED
      BY <3>1, <3>4, <3>5
  <2>2. ASSUME d \notin delivery, NEW w \in Worker, Delivers(w)
        PROVE  \E p \in Pair : p[2] \in Published /\ Backed(p) /\ p[1] = d[1] /\ p[2][1] = d[2]
    <3>1. PICK p : p = Head(work[w].cur)
      OBVIOUS
    <3>2. work[w].pc = "announce" /\ d = <<p[1], p[2][1]>>
      BY <2>2, <3>1 DEF Delivers
    <3>3. p \in Pair /\ p[2] \in Published
      BY <3>1, <3>2, InHand DEF Holding
    <3>4. Backed(p)
      BY <1>1, <3>1, <3>2 DEF Locked, UnstoredOf
    <3> QED
      BY <3>2, <3>3, <3>4
  <2>3. CASE delivery' = delivery
    BY <2>1, <2>3
  <2> QED
    BY <2>1, <2>2, <2>3, Untouched DEF Effect
<1>5. delivery' \subseteq User \X Vacancy
  BY TypeStep DEF TypeOK
<1>6. \A d \in delivery' : \E i \in Published' :
        /\ i[1] = d[2]
        /\ \/ result'[<<d[1], i>>] = "match"
           \/ <<d[1], i>> \in matched' /\ Match(gates'[<<d[1], i>>]) = "match"
  BY <1>3, <1>4, <1>5
<1>7. DeliveryBacked'
  BY <1>6 DEF DeliveryBacked
<1> QED
  BY <1>2, <1>7

LEMMA FailuresStep ==
  ASSUME TypeOK, Rows, Shape, Once, Failures, Effect
  PROVE  Failures'
<1> SUFFICES ASSUME NEW i \in Item
             PROVE  \/ failures'[i] >= AttemptLimit
                    \/ item'[i].attempts + Cardinality(Uncounted(i)') <= failures'[i]
  BY DEF Failures
<1>1. PICK C, D : C = Uncounted(i) /\ D = Uncounted(i)'
  OBVIOUS
<1>2. /\ IsFiniteSet(C) /\ Cardinality(C) \in Nat /\ IsFiniteSet(D) /\ Cardinality(D) \in Nat
      /\ C \subseteq Worker /\ D \subseteq Worker
  <2>1. C \subseteq Worker /\ D \subseteq Worker
    BY <1>1 DEF Uncounted
  <2> QED
    BY <2>1, FS_Subset, FS_CardinalityType, Numbers
<1>3. PICK a, b, r, s : /\ a = item[i].attempts /\ b = item'[i].attempts
                        /\ r = failures[i] /\ s = failures'[i]
  OBVIOUS
<1>4. a \in Nat /\ b \in Nat /\ r \in Nat /\ AttemptLimit \in Nat
  <2>1. item[i] \in WorkItem /\ item'[i] \in WorkItem
    BY TypeStep DEF TypeOK
  <2>2. item[i].attempts \in 0..AttemptLimit /\ item'[i].attempts \in 0..AttemptLimit
    BY <2>1 DEF WorkItem
  <2>3. failures[i] \in 0..AttemptLimit
    BY DEF TypeOK
  <2> QED
    BY <1>3, <2>2, <2>3, Numbers
<1>5. r >= AttemptLimit \/ a + Cardinality(C) <= r
  BY <1>1, <1>3 DEF Failures
<1> DEFINE Goal == s >= AttemptLimit \/ b + Cardinality(D) <= s
<1>6. ASSUME s \in Nat, s >= r, b <= a, D \subseteq C PROVE Goal
  <2>1. Cardinality(D) <= Cardinality(C)
    BY <1>2, <1>6, FS_Subset
  <2> QED
    BY <1>2, <1>4, <1>5, <1>6, <2>1
<1>7. ASSUME failures' = failures PROVE s = r /\ s \in Nat /\ s >= r
  <2>1. s = r
    BY <1>3, <1>7
  <2> QED
    BY <1>4, <2>1
<1>8. ASSUME NEW x \in Worker, SamePass(x) PROVE x \in D <=> x \in C
  BY <1>1, <1>8 DEF Uncounted, SamePass
<1>9. ASSUME NEW w \in Worker, \A x \in Worker \ {w} : SamePass(x), w \in D => w \in C
      PROVE  D \subseteq C
  BY <1>2, <1>8, <1>9
<1>10. ASSUME \A x \in Worker : SamePass(x) PROVE D \subseteq C
  BY <1>2, <1>8, <1>10
<1>11. ASSUME NEW w \in Worker, Range(work'[w].batch) \subseteq Range(work[w].batch),
              work'[w].failed \subseteq work[w].failed
       PROVE  w \in D => w \in C
  BY <1>1, <1>11 DEF Uncounted
<1>12. ASSUME NEW w \in Worker, work'[w].failed = {} \/ work'[w].batch = <<>>
       PROVE  w \notin D
  BY <1>1, <1>12, EmptyOnce DEF Uncounted
<1>13. ASSUME item' = item PROVE b <= a
  BY <1>3, <1>4, <1>13
<1>14. ASSUME NEW w \in Worker, NEW todo, NEW jobs, Resumes(work[w], work'[w], todo, jobs)
       PROVE  w \in D => w \in C
  <2>1. work'[w].batch = work[w].batch /\ work'[w].failed = work[w].failed
    BY <1>14 DEF Resumes, Kept
  <2> QED
    BY <1>11, <2>1
<1>15. ASSUME NEW j \in Item, Publishes(j) PROVE Goal
  <2>1. UNCHANGED <<failures, work>> /\ \A x \in Worker : SamePass(x)
    BY <1>15, Untouched DEF SamePass
  <2>2. b <= a
    <3>1. PICK rec : rec = [status |-> "pending", attempts |-> 0, expired |-> FALSE]
      OBVIOUS
    <3>2. item' = [item EXCEPT ![j] = rec] /\ rec.attempts = 0
      BY <1>15, <3>1 DEF Publishes
    <3>3. b = a \/ b = 0
      BY <1>3, <3>2 DEF TypeOK
    <3> QED
      BY <1>4, <3>3
  <2> QED
    BY <1>6, <1>7, <1>10, <2>1, <2>2
<1>16. ASSUME Adjusts \/ Unlocks \/ UNCHANGED vars PROVE Goal
  <2>1. UNCHANGED <<failures, item>> /\ \A x \in Worker : SamePass(x)
    BY <1>16, Untouched DEF SamePass, Adjusts
  <2>2. D \subseteq C /\ s \in Nat /\ s >= r /\ b <= a
    BY <1>7, <1>10, <1>13, <2>1
  <2> QED
    BY <1>6, <2>2
<1>17. ASSUME Ages PROVE Goal
  <2>1. UNCHANGED <<failures, work>> /\ \A x \in Worker : SamePass(x)
    BY <1>17, Untouched DEF SamePass
  <2>2. b <= a
    BY <1>3, <1>4, <1>17 DEF Ages
  <2>3. D \subseteq C /\ s \in Nat /\ s >= r
    BY <1>7, <1>10, <2>1
  <2> QED
    BY <1>6, <2>2, <2>3
<1>18. ASSUME NEW w \in Worker, Others(w) PROVE \A x \in Worker \ {w} : SamePass(x)
  BY <1>18 DEF Others, SamePass
<1>19. ASSUME NEW w \in Worker, Begins(w) PROVE Goal
  <2>1. b <= a
    BY <1>3, <1>4, <1>19 DEF Begins, Claims
  <2>2. D \subseteq C
    <3>1. CASE work' = work
      BY <1>10, <3>1 DEF SamePass
    <3>2. CASE Others(w) /\ work'[w].failed = {}
      BY <1>9, <1>12, <1>18, <3>2
    <3> QED
      BY <1>19, <3>1, <3>2 DEF Begins
  <2> QED
    BY <1>6, <1>7, <1>19, <2>1, <2>2, Untouched
<1>20. ASSUME NEW w \in Worker, Screens(w) \/ Asks(w) \/ StoresResult(w) \/ Delivers(w) PROVE Goal
  <2>1. UNCHANGED <<failures, item>>
    BY <1>20, Untouched
  <2>2. Others(w) /\ (w \in D => w \in C)
    <3>1. CASE Screens(w)
      <4>1. /\ Others(w)
            /\ work'[w].batch = work[w].batch /\ work'[w].failed = work[w].failed
        BY <3>1 DEF Screens, Resumes, Holds, Kept
      <4> QED
        BY <1>11, <4>1
    <3>2. CASE Asks(w)
      <4>1. /\ Others(w)
            /\ work'[w].batch = work[w].batch /\ work'[w].failed = work[w].failed
        BY <3>2 DEF Asks
      <4> QED
        BY <1>11, <4>1
    <3>3. CASE StoresResult(w)
      <4>1. Others(w) /\ work[w] \in Pass
        BY <3>3 DEF StoresResult, TypeOK
      <4>2. CASE work'[w] = [work[w] EXCEPT !.pc = "announce"]
        <5>1. work'[w].batch = work[w].batch /\ work'[w].failed = work[w].failed
          BY <4>1, <4>2 DEF Pass
        <5> QED
          BY <1>11, <4>1, <5>1
      <4>3. CASE Resumes(work[w], work'[w], work[w].todo, work[w].jobs)
        BY <1>14, <4>1, <4>3
      <4> QED
        BY <3>3, <4>2, <4>3 DEF StoresResult
    <3>4. CASE Delivers(w)
      BY <1>14, <3>4 DEF Delivers
    <3> QED
      BY <1>20, <3>1, <3>2, <3>3, <3>4
  <2> QED
    BY <1>6, <1>7, <1>9, <1>13, <1>18, <2>1, <2>2
<1>21. ASSUME NEW w \in Worker, StoresJob(w) PROVE Goal
  <2>1. PICK p : p = Head(work[w].cur)
    OBVIOUS
  <2>2. /\ p \in Pair /\ item' = item /\ Others(w) /\ work[w] \in Pass
        /\ work'[w] = [work[w] EXCEPT !.pc = "storeresult"]
    BY <1>21, <2>1, InHand, Untouched DEF StoresJob, Holding, Storing, TypeOK
  <2>3. work'[w].batch = work[w].batch /\ work'[w].failed = work[w].failed
    BY <2>2 DEF Pass
  <2>4. D \subseteq C
    BY <1>9, <1>11, <1>18, <2>2, <2>3
  <2>5. failures' = failures
    BY <1>21 DEF StoresJob
  <2> QED
    BY <1>6, <1>7, <1>13, <2>2, <2>4, <2>5
<1>22. ASSUME NEW w \in Worker, Finishes(w) PROVE Goal
  <2>1. PICK me, p : me = work[w] /\ p = Head(me.jobs)
    OBVIOUS
  <2>2. p \in Pair /\ item' = item /\ Others(w)
    BY <1>22, <2>1, FirstJob, Untouched DEF Finishes
  <2>3. /\ work'[w].batch = me.batch
        /\ \/ work'[w].failed = me.failed /\ failures' = failures
           \/ /\ work'[w].failed = me.failed \cup {p[2]}
              /\ failures' = [failures EXCEPT ![p[2]] = Capped(failures[p[2]] + 1)]
    BY <1>22, <2>1 DEF Finishes, Resumes, Holds, Kept
  <2>4. CASE work'[w].failed = me.failed /\ failures' = failures
    BY <1>6, <1>7, <1>9, <1>11, <1>13, <1>18, <2>1, <2>2, <2>3, <2>4
  <2>5. CASE /\ work'[w].failed = me.failed \cup {p[2]}
             /\ failures' = [failures EXCEPT ![p[2]] = Capped(failures[p[2]] + 1)]
    <3> p[2] \in Item
      BY <2>2, Numbers
    <3>1. /\ s \in Nat /\ s >= r
          /\ i = p[2] => s = r + 1 \/ r >= AttemptLimit
      <4>1. /\ failures' \in [Item -> 0..AttemptLimit] /\ failures'[i] >= failures[i]
            /\ i = p[2] => failures'[i] = failures[i] + 1 \/ failures[i] >= AttemptLimit
        BY <2>5, FailuresUpdate
      <4> QED
        BY <1>3, <4>1, Numbers
    <3>2. CASE i # p[2]
      <4>1. w \in D => w \in C
        BY <1>1, <2>1, <2>3, <2>5, <3>2 DEF Uncounted
      <4> QED
        BY <1>6, <1>9, <1>13, <1>18, <2>2, <3>1, <4>1
    <3>3. CASE i = p[2] /\ r >= AttemptLimit
      BY <1>4, <3>1, <3>3
    <3>4. CASE i = p[2] /\ s = r + 1
      <4>1. D \subseteq C \cup {w}
        BY <1>2, <1>8, <1>18, <2>2
      <4>2. IsFiniteSet(C \cup {w}) /\ Cardinality(C \cup {w}) <= Cardinality(C) + 1
            /\ Cardinality(C \cup {w}) \in Nat
        <5>1. /\ IsFiniteSet(C \cup {w})
              /\ Cardinality(C \cup {w}) = IF w \in C THEN Cardinality(C) ELSE Cardinality(C) + 1
          BY <1>2, FS_AddElement
        <5> QED
          BY <1>2, <5>1
      <4>3. Cardinality(D) <= Cardinality(C) + 1
        <5>1. Cardinality(D) <= Cardinality(C \cup {w})
          BY <4>1, <4>2, FS_Subset
        <5> QED
          BY <1>2, <4>2, <5>1
      <4>4. b = a
        BY <1>3, <2>2
      <4> QED
        BY <1>2, <1>4, <1>5, <3>1, <3>4, <4>3, <4>4
    <3> QED
      BY <3>1, <3>2, <3>3, <3>4
  <2> QED
    BY <2>3, <2>4, <2>5
<1>23. ASSUME NEW w \in Worker, Settles(w) PROVE Goal
  <2>1. PICK me, j : me = work[w] /\ j = Head(me.batch)
    OBVIOUS
  <2>2. /\ me \in Pass /\ me.pc = "settle" /\ failures' = failures /\ Others(w)
        /\ item' = IF j \in me.failed THEN RetryWorkItem(j) ELSE CompleteWorkItem(j)
    BY <1>23, <2>1, Untouched DEF Settles, Drops, TypeOK
  <2>3. /\ j \in Item /\ j \in Range(me.batch) /\ Range(Tail(me.batch)) \subseteq Range(me.batch)
        /\ j \notin Range(Tail(me.batch))
    BY <2>1, <2>2, FirstRow DEF Once, OnceOf
  <2>4. w \in D => w \in C /\ i # j
    <3>1. CASE work'[w] = Idle
      BY <1>12, <3>1, IdlePass
    <3>2. CASE work'[w] = [me EXCEPT !.batch = Tail(me.batch)]
      <4>1. work'[w].batch = Tail(me.batch) /\ work'[w].failed = me.failed
        BY <2>2, <3>2 DEF Pass
      <4> QED
        BY <1>1, <2>1, <2>3, <4>1 DEF Uncounted
    <3> QED
      BY <1>23, <2>1, <3>1, <3>2 DEF Settles, Drops
  <2>5. D \subseteq C
    BY <1>9, <1>18, <2>2, <2>4
  <2>6. CASE b <= a
    BY <1>6, <1>7, <2>2, <2>5, <2>6
  <2>7. CASE ~(b <= a)
    <3>1. i = j /\ j \in me.failed /\ b = a + 1
      <4>1. CASE j \in me.failed
        <5>1. item' = RetryWorkItem(j)
          BY <2>2, <4>1
        <5>2. /\ i # j => item'[i] = item[i]
              /\ i = j => item' = item \/ item'[i].attempts = item[i].attempts + 1
          BY <2>3, <5>1, RetryRow
        <5>3. b = a \/ (i = j /\ b = a + 1)
          BY <1>3, <5>2
        <5> QED
          BY <1>4, <2>7, <4>1, <5>3
      <4>2. CASE j \notin me.failed
        <5>1. item' = CompleteWorkItem(j)
          BY <2>2, <4>2
        <5>2. /\ i # j => item'[i] = item[i]
              /\ i = j => item' = item \/ item'[i].attempts = item[i].attempts
          BY <2>3, <5>1, CompleteRow
        <5>3. b = a
          BY <1>3, <5>2
        <5> QED
          BY <1>4, <2>7, <5>3
      <4> QED
        BY <4>1, <4>2
    <3>2. w \in C /\ w \notin D
      BY <1>1, <2>1, <2>3, <2>4, <3>1 DEF Uncounted
    <3>3. IsFiniteSet(C \ {w}) /\ Cardinality(C \ {w}) = Cardinality(C) - 1
      BY <1>2, <3>2, FS_RemoveElement
    <3>4. D \subseteq C \ {w}
      BY <2>5, <3>2
    <3>5. Cardinality(D) <= Cardinality(C) - 1
      BY <3>3, <3>4, FS_Subset
    <3>6. s = r
      BY <1>7, <2>2
    <3> QED
      BY <1>2, <1>4, <1>5, <3>1, <3>5, <3>6
  <2> QED
    BY <2>6, <2>7
<1>24. ASSUME NEW w \in Worker, Aborts(w) PROVE Goal
  <2>1. UNCHANGED <<failures, item>> /\ Others(w) /\ work'[w].batch = <<>>
    BY <1>24, Untouched, IdlePass DEF Aborts
  <2> QED
    BY <1>6, <1>7, <1>9, <1>12, <1>13, <1>18, <2>1
<1>25. Goal
  <2> HIDE DEF Goal
  <2>1. CASE \E j \in Item : Publishes(j)
    BY <1>15, <2>1
  <2>2. CASE \E w \in Worker : \/ Begins(w) \/ Screens(w) \/ Asks(w) \/ Finishes(w) \/ StoresJob(w)
                               \/ StoresResult(w) \/ Delivers(w) \/ Settles(w) \/ Aborts(w)
    BY <1>19, <1>20, <1>21, <1>22, <1>23, <1>24, <2>2
  <2> QED
    BY <1>16, <1>17, <2>1, <2>2 DEF Effect
<1> QED
  BY <1>1, <1>3, <1>25

LEMMA AnnouncedStep ==
  ASSUME TypeOK, Shape, MatchAnnounced, Effect
  PROVE  MatchAnnounced'
<1> DEFINE InAnnounce(p) == \E x \in Worker : work'[x].pc = "announce" /\ work'[x].cur = <<p>>
<1> SUFFICES ASSUME faults' = 0, changes' = 0, NEW p \in Pair,
                    result'[p] = "match", telegram'[p[1]]
             PROVE  <<p[1], p[2][1]>> \in delivery' \/ InAnnounce(p)
  BY DEF MatchAnnounced
<1>1. faults \in Nat /\ changes \in Nat
  BY Numbers DEF TypeOK
<1>2. /\ faults = 0 /\ changes = 0 /\ telegram' = telegram
      /\ ~Unlocks /\ \A w \in Worker : ~Aborts(w)
  <2>1. Unlocks => faults' # 0
    BY <1>1 DEF Unlocks
  <2>2. \A w \in Worker : Aborts(w) => faults' # 0
    BY <1>1 DEF Aborts
  <2>3. Adjusts => changes = 0 /\ telegram' = telegram
    <3>1. Adjusts => changes' >= changes /\ (changes' = changes => telegram' = telegram)
      BY DEF Adjusts
    <3> QED
      BY <1>1, <3>1
  <2>4. faults' = faults
    BY <2>1, <2>2, Untouched DEF Effect
  <2>5. (changes' = changes /\ telegram' = telegram) \/ Adjusts
    BY <2>1, <2>2, Untouched DEF Effect
  <2> QED
    BY <2>1, <2>2, <2>3, <2>4, <2>5
<1>3. delivery \subseteq delivery'
  <2>1. ASSUME NEW w \in Worker, Delivers(w) PROVE delivery \subseteq delivery'
    BY <2>1 DEF Delivers
  <2>2. CASE delivery' = delivery
    BY <2>2
  <2> QED
    BY <2>1, <2>2, Untouched DEF Effect
<1>4. CASE result[p] # "match"
  <2>1. ASSUME NEW w \in Worker, StoresResult(w) PROVE InAnnounce(p)
    <3>1. PICK me, q : me = work[w] /\ q = Head(me.cur)
      OBVIOUS
    <3>2. /\ me \in Pass /\ me.pc = "storeresult" /\ result' = [result EXCEPT ![q] = me.verdict]
          /\ me.verdict = "match" => work'[w] = [me EXCEPT !.pc = "announce"]
      BY <2>1, <3>1 DEF StoresResult, TypeOK
    <3>3. q \in Pair /\ me.cur = <<q>>
      BY <3>1, <3>2, InHand DEF Holding, Storing
    <3>4. p = q /\ me.verdict = "match"
      BY <1>4, <3>2, <3>3 DEF TypeOK
    <3>5. work'[w].pc = "announce" /\ work'[w].cur = me.cur
      BY <3>2, <3>4 DEF Pass
    <3> QED
      BY <3>3, <3>4, <3>5
  <2>2. result' # result
    BY <1>4
  <2> QED
    BY <1>2, <2>1, <2>2, Untouched DEF Effect
<1>5. CASE result[p] = "match"
  <2>1. CASE <<p[1], p[2][1]>> \in delivery
    BY <1>3, <2>1
  <2>2. ASSUME NEW x \in Worker, work[x].pc = "announce", work[x].cur = <<p>>
        PROVE  <<p[1], p[2][1]>> \in delivery' \/ InAnnounce(p)
    <3>1. CASE SamePass(x)
      <4>1. work'[x].pc = "announce" /\ work'[x].cur = <<p>>
        BY <2>2, <3>1 DEF SamePass
      <4> QED
        BY <4>1
    <3>2. CASE Delivers(x)
      <4>1. Head(work[x].cur) = p
        BY <2>2
      <4>2. telegram[p[1]]
        BY <1>2
      <4> QED
        BY <3>2, <4>1, <4>2 DEF Delivers
    <3>3. /\ ~(Begins(x) /\ ~UNCHANGED <<lock, work>>) /\ ~Screens(x) /\ ~Asks(x)
          /\ ~Finishes(x) /\ ~StoresJob(x) /\ ~StoresResult(x) /\ ~Settles(x)
      <4>1. ~Begins(x) /\ ~Screens(x) /\ ~Asks(x) /\ ~Finishes(x)
        BY <2>2 DEF Begins, Screens, Asks, Finishes
      <4>2. ~StoresJob(x) /\ ~StoresResult(x) /\ ~Settles(x)
        BY <2>2 DEF StoresJob, StoresResult, Settles
      <4> QED
        BY <4>1, <4>2
    <3> QED
      BY <1>2, <3>1, <3>2, <3>3, OnePass
  <2>3. telegram[p[1]]
    BY <1>2
  <2> QED
    BY <1>2, <1>5, <2>1, <2>2, <2>3 DEF MatchAnnounced
<1> QED
  BY <1>4, <1>5

LEMMA WorkInit == Init => WorkInv
<1> SUFFICES ASSUME Init PROVE WorkInv
  OBVIOUS
<1>1. \A w \in Worker : work[w] = Idle
  BY DEF Init
<1>2. \A i \in Item : item[i] = Absent
  BY DEF Init
<1>3. /\ Absent \in WorkItem /\ Absent.status = "absent" /\ Absent.attempts = 0
  BY Numbers DEF Absent, WorkItem, Status
<1>4. TypeOK
  <2>1. item \in [Item -> WorkItem] /\ order \in Seq(Item) /\ work \in [Worker -> Pass]
    BY <1>3, IdlePass, EmptySeq DEF Init
  <2>2. /\ revision \in [Vacancy -> 0..MaxRevision] /\ active \in [Vacancy -> BOOLEAN]
        /\ changes \in 0..MaxChanges /\ faults \in 0..MaxFaults /\ lockLost \in BOOLEAN
        /\ lock \in Worker \cup {NoWorker}
    <3>1. 0 \in 0..MaxRevision /\ 0 \in 0..MaxChanges /\ 0 \in 0..MaxFaults
      BY Numbers
    <3>2. /\ revision = [v \in Vacancy |-> 0] /\ changes = 0 /\ faults = 0
          /\ active = [v \in Vacancy |-> FALSE] /\ lockLost = FALSE /\ lock = NoWorker
      BY DEF Init
    <3>3. revision \in [Vacancy -> 0..MaxRevision] /\ active \in [Vacancy -> BOOLEAN]
      BY <3>1, <3>2
    <3> QED
      BY <3>1, <3>2, <3>3
  <2>3. gates \in [Pair -> Profile]
    <3>1. (CHOOSE g \in Profile : TRUE) \in Profile
      BY Numbers
    <3> QED
      BY <3>1 DEF Init
  <2>4. job \in [Pair -> Job]
    <3>1. [status |-> "none", attempts |-> 0] \in Job
      BY Numbers DEF Job
    <3> QED
      BY <3>1 DEF Init
  <2>5. /\ result \in [Pair -> Decision \cup {"none"}]
        /\ matched \subseteq Pair /\ delivery \subseteq User \X Vacancy /\ cleared \subseteq Pair
        /\ ai \in [User -> BOOLEAN] /\ telegram \in [User -> BOOLEAN]
        /\ before \in [User -> SUBSET Vacancy]
    BY DEF Init
  <2>6. failures \in [Item -> 0..AttemptLimit]
    <3>1. 0 \in 0..AttemptLimit
      BY Numbers
    <3> QED
      BY <3>1 DEF Init
  <2> QED
    BY <2>1, <2>2, <2>3, <2>4, <2>5, <2>6 DEF TypeOK
<1>5. Rows
  <2>1. ASSUME NEW i \in Item PROVE RowOf(i)
    <3>1. revision[i[1]] = 0 /\ i[2] \in 1..MaxRevision
      <4>1. i[1] \in Vacancy /\ i[2] \in 1..MaxRevision
        BY Numbers
      <4> QED
        BY <4>1 DEF Init
    <3>2. i[2] > revision[i[1]]
      BY <3>1, Numbers
    <3> QED
      BY <1>2, <1>3, <3>2 DEF RowOf
  <2>2. Range(order) = {} /\ IsInjective(order)
    BY EmptyOnce DEF Init
  <2>3. \A p \in Pair : result[p] = "none" /\ p \notin matched
    BY DEF Init
  <2> QED
    BY <2>1, <2>2, <2>3 DEF Rows
<1>6. ASSUME NEW w \in Worker
      PROVE  /\ work[w].pc = "idle" /\ work[w].batch = <<>> /\ work[w].todo = <<>>
             /\ work[w].jobs = <<>> /\ work[w].back = "screen" /\ work[w].failed = {}
  BY <1>1, IdlePass
<1>7. Shape
  <2>1. \A w \in Worker : work[w].pc \notin Holding
    BY <1>6 DEF Holding, Storing
  <2>2. \A w \in Worker : ShapeOf(w)
    BY <1>6, <2>1, EmptyOnce DEF ShapeOf
  <2> QED
    BY <2>2 DEF Shape
<1>8. Once
  BY <1>6, EmptyOnce DEF Once, OnceOf, Storing
<1>9. Covers
  BY <1>6, EmptyOnce DEF Covers, CoversOf
<1>10. Locked
  <2>1. \A w \in Worker : UnstoredOf(w)
    BY <1>6 DEF UnstoredOf, Storing
  <2>2. DeliveryBacked
    BY DEF Init, DeliveryBacked
  <2> QED
    BY <2>1, <2>2 DEF Locked
<1>11. Failures
  <2> SUFFICES ASSUME NEW i \in Item
               PROVE  item[i].attempts + Cardinality(Uncounted(i)) <= failures[i]
    BY DEF Failures
  <2>1. Uncounted(i) = {}
    BY <1>6 DEF Uncounted
  <2>2. Cardinality(Uncounted(i)) = 0 /\ item[i].attempts = 0
    BY <1>2, <1>3, <2>1, FS_EmptySet
  <2>3. failures[i] \in Nat
    BY DEF Init
  <2> QED
    BY <2>2, <2>3
<1>12. MatchAnnounced
  BY DEF Init, MatchAnnounced
<1> QED
  BY <1>4, <1>5, <1>7, <1>8, <1>9, <1>10, <1>11, <1>12 DEF WorkInv

LEMMA WorkStep == WorkInv /\ [Next]_vars => WorkInv'
<1> SUFFICES ASSUME WorkInv, [Next]_vars PROVE WorkInv'
  OBVIOUS
<1>1. TypeOK /\ Rows /\ Shape /\ Once /\ Covers /\ Locked /\ Failures /\ MatchAnnounced
  BY DEF WorkInv
<1>2. Effect
  BY <1>1, EffectNext
<1>3. TypeOK' /\ Rows' /\ Shape' /\ Once'
  BY <1>1, <1>2, TypeStep, RowsStep, ShapeStep, OnceStep
<1>4. Covers' /\ Locked' /\ Failures' /\ MatchAnnounced'
  BY <1>1, <1>2, CoversStep, LockedStep, FailuresStep, AnnouncedStep
<1> QED
  BY <1>3, <1>4 DEF WorkInv

-----------------------------------------------------------------------------
(* The invariants *)

\* What the outbox and the passes of the workers keep to, whatever workers overlap,
\* crash, lose their lock or run after their lease expired.
THEOREM WorkInvariant == Spec => []WorkInv
  BY WorkInit, WorkStep, PTL DEF Spec

\* Every variable keeps its type: no row and no job counts beyond the limit of attempts.
THEOREM TypeCorrect == Spec => []TypeOK
<1>1. WorkInv => TypeOK
  BY DEF WorkInv
<1> QED
  BY <1>1, WorkInvariant, PTL

\* Every attempt counted on a row (RetryWorkItem) was recorded on a job before
\* (SaveAIFailure): a row is dead-lettered only for failures of the provider.
THEOREM Attempts == Spec => []AttemptsAreFailures
<1>1. WorkInv => AttemptsAreFailures
  <2> SUFFICES ASSUME WorkInv, NEW i \in Item PROVE item[i].attempts <= failures[i]
    BY DEF AttemptsAreFailures
  <2>1. TypeOK /\ Failures
    BY DEF WorkInv
  <2>2. PICK a, c, r : a = item[i].attempts /\ c = Cardinality(Uncounted(i)) /\ r = failures[i]
    OBVIOUS
  <2>3. a \in 0..AttemptLimit /\ c \in Nat /\ r \in Nat /\ AttemptLimit \in Nat
    <3>1. item[i] \in WorkItem
      BY <2>1 DEF TypeOK
    <3>2. a \in 0..AttemptLimit
      BY <2>2, <3>1 DEF WorkItem
    <3>3. Uncounted(i) \subseteq Worker
      BY DEF Uncounted
    <3>4. c \in Nat
      BY <2>2, <3>3, FS_Subset, FS_CardinalityType, Numbers
    <3> QED
      BY <2>1, <2>2, <3>2, <3>4, Numbers DEF TypeOK
  <2>4. r >= AttemptLimit \/ a + c <= r
    BY <2>1, <2>2 DEF Failures
  <2> QED
    BY <2>2, <2>3, <2>4
<1> QED
  BY <1>1, WorkInvariant, PTL

\* While no session of the lock drops, every delivery announces a match that is stored
\* for its user (SaveDelivery after SaveAIResult or SaveMatch), across crashes and retries.
THEOREM Delivered == Spec => []DeliveryBacked
<1>1. WorkInv => DeliveryBacked
  BY DEF WorkInv, Locked, DeliveryBacked
<1> QED
  BY <1>1, WorkInvariant, PTL

\* Without faults and changes of settings every stored match is announced to a user
\* with a chat, or its worker is about to (SaveAIResult, then SaveDelivery).
THEOREM Announced == Spec => []MatchAnnounced
<1>1. WorkInv => MatchAnnounced
  BY DEF WorkInv
<1> QED
  BY <1>1, WorkInvariant, PTL

-----------------------------------------------------------------------------
(* The refinement *)

\* The variables of the outbox
phases == [i \in Item |-> Phase(item[i].status)]
tries == [i \in Item |-> item[i].attempts]
settledFor == {i \in Item : User # {} /\ \A u \in User : <<u, i>> \in cleared}

LEMMA Phases ==
    /\ Phase("absent") = "absent" /\ Phase("done") = "settled" /\ Phase("dead") = "settled"
    /\ \A s \in OpenStatus : Phase(s) = "owed"
  BY DEF Phase, OpenStatus

\* A step that no one who waits for a row can see
LEMMA OutboxStutter ==
  ASSUME revision' = revision, cleared' = cleared,
         \A j \in Item : item'[j].status = item[j].status /\ item'[j].attempts = item[j].attempts
  PROVE  UNCHANGED <<revision, phases, tries, settledFor>>
<1>1. phases' = phases
  BY DEF phases
<1>2. tries' = tries
  BY DEF tries
<1>3. settledFor' = settledFor
  BY DEF settledFor
<1> QED
  BY <1>1, <1>2, <1>3

\* A new revision publishes its row.
LEMMA OutboxPublish ==
  ASSUME TypeOK, Rows, NEW i \in Item, Publishes(i)
  PROVE  /\ revision[i[1]] < MaxRevision /\ i[1] \in Vacancy
         /\ revision' = [revision EXCEPT ![i[1]] = revision[i[1]] + 1]
         /\ phases' = [phases EXCEPT ![<<i[1], revision[i[1]] + 1>>] = "owed"]
         /\ tries' = tries /\ settledFor' = settledFor
<1>1. /\ i[2] = revision[i[1]] + 1 /\ revision' = [revision EXCEPT ![i[1]] = i[2]]
      /\ cleared' = cleared
  BY Untouched DEF Publishes
<1>2. i[1] \in Vacancy /\ i[2] \in 1..MaxRevision /\ i = <<i[1], i[2]>>
      /\ revision[i[1]] \in Nat
  BY Numbers DEF TypeOK
<1>3. revision[i[1]] < MaxRevision /\ i[2] > revision[i[1]]
  BY <1>1, <1>2, Numbers
<1>4. PICK rec : rec = [status |-> "pending", attempts |-> 0, expired |-> FALSE]
  OBVIOUS
<1>5. item' = [item EXCEPT ![i] = rec] /\ rec.status = "pending" /\ rec.attempts = 0
  BY <1>4 DEF Publishes
<1>6. \A j \in Item : item'[j] = IF j = i THEN rec ELSE item[j]
  BY <1>5 DEF TypeOK
<1>7. item[i].attempts = 0
  BY <1>3 DEF Rows, RowOf
<1>8. tries' = tries
  BY <1>5, <1>6, <1>7 DEF tries
<1>9. settledFor' = settledFor
  BY <1>1 DEF settledFor
<1>10. phases' = [phases EXCEPT ![i] = "owed"]
  <2>1. \A j \in Item : Phase(item'[j].status) = IF j = i THEN "owed" ELSE Phase(item[j].status)
    <3>1. Phase("pending") = "owed"
      BY Phases DEF OpenStatus
    <3> QED
      BY <1>5, <1>6, <3>1
  <2>2. phases' = [j \in Item |-> Phase(item'[j].status)]
    BY DEF phases
  <2>3. phases = [j \in Item |-> Phase(item[j].status)]
    BY DEF phases
  <2> QED
    BY <2>1, <2>2, <2>3
<1>11. phases' = [phases EXCEPT ![<<i[1], revision[i[1]] + 1>>] = "owed"]
  BY <1>1, <1>2, <1>10
<1>12. revision' = [revision EXCEPT ![i[1]] = revision[i[1]] + 1]
  BY <1>1
<1> QED
  BY <1>2, <1>3, <1>8, <1>9, <1>11, <1>12

\* The statement of Candidates settles rows of older revisions.
LEMMA OutboxClaim ==
  ASSUME TypeOK, NEW w \in Worker, Begins(w)
  PROVE  \E S \in SUBSET Item :
           /\ \A i \in S : phases[i] = "owed" /\ i[2] < revision[i[1]]
           /\ phases' = [i \in Item |-> IF i \in S THEN "settled" ELSE phases[i]]
           /\ UNCHANGED <<revision, tries, settledFor>>
<1>1. Claims /\ UNCHANGED <<revision, cleared>>
  BY Untouched DEF Begins
<1>2. PICK S : S = {j \in Item : /\ item[j].status \in OpenStatus /\ Stale(j)
                                 /\ item'[j].status = "done"}
  OBVIOUS
<1>3. \A j \in Item : phases[j] = Phase(item[j].status)
  BY DEF phases
<1>4. \A j \in S : phases[j] = "owed" /\ j[2] < revision[j[1]]
  BY <1>2, <1>3, Phases DEF Stale
<1>5. \A j \in Item : Phase(item'[j].status) = IF j \in S THEN "settled" ELSE phases[j]
  <2> SUFFICES ASSUME NEW j \in Item
               PROVE  Phase(item'[j].status) = IF j \in S THEN "settled" ELSE phases[j]
    OBVIOUS
  <2>1. CASE j \in S
    BY <1>2, <2>1, Phases
  <2>2. CASE j \notin S
    <3>1. \/ item'[j].status = item[j].status
          \/ item[j].status \in OpenStatus /\ item'[j].status \in OpenStatus
      BY <1>1, <1>2, <2>2 DEF Claims
    <3> QED
      BY <1>3, <2>2, <3>1, Phases
  <2> QED
    BY <2>1, <2>2
<1>6. phases' = [j \in Item |-> IF j \in S THEN "settled" ELSE phases[j]]
  <2>1. phases' = [j \in Item |-> Phase(item'[j].status)]
    BY DEF phases
  <2> QED
    BY <1>5, <2>1
<1>7. tries' = tries /\ settledFor' = settledFor
  BY <1>1 DEF Claims, tries, settledFor
<1>8. S \in SUBSET Item
  BY <1>2
<1> QED
  BY <1>1, <1>4, <1>6, <1>7, <1>8

\* A pair is cleared: the last one of a row clears it.
LEMMA OutboxClear ==
  ASSUME NEW p \in Pair, p[2] \in Published, cleared' = cleared \cup {p},
         UNCHANGED <<revision, item>>
  PROVE  \/ UNCHANGED <<revision, phases, tries, settledFor>>
         \/ /\ phases[p[2]] # "absent"
            /\ settledFor' = settledFor \cup {p[2]}
            /\ UNCHANGED <<revision, phases, tries>>
<1>1. phases' = phases /\ tries' = tries
  BY DEF phases, tries
<1>2. p[2] \in Item /\ p = <<p[1], p[2]>>
  BY Numbers
<1>3. phases[p[2]] # "absent"
  BY <1>2 DEF phases, Phase, Published
<1>4. settledFor' = settledFor \/ settledFor' = settledFor \cup {p[2]}
  <2>1. settledFor \subseteq settledFor'
    BY DEF settledFor
  <2>2. settledFor' \subseteq settledFor \cup {p[2]}
    <3> SUFFICES ASSUME NEW i \in Item, i # p[2], User # {},
                        \A u \in User : <<u, i>> \in cleared'
                 PROVE  \A u \in User : <<u, i>> \in cleared
      BY DEF settledFor
    <3>1. \A u \in User : <<u, i>> # p
      BY <1>2
    <3> QED
      BY <3>1
  <2> QED
    BY <2>1, <2>2
<1> QED
  BY <1>1, <1>3, <1>4

\* A worker settles a row when it is cleared, or counts a failure.
LEMMA OutboxSettle ==
  ASSUME TypeOK, Rows, Shape, Covers, NEW w \in Worker, Settles(w)
  PROVE  \/ UNCHANGED <<revision, phases, tries, settledFor>>
         \/ \E i \in Item :
              /\ phases[i] = "owed"
              /\ tries' = [tries EXCEPT ![i] = tries[i] + 1]
              /\ phases' = [phases EXCEPT ![i] = IF tries[i] + 1 >= AttemptLimit THEN "settled"
                                                 ELSE phases[i]]
              /\ UNCHANGED <<revision, settledFor>>
         \/ \E i \in Item :
              /\ phases[i] = "owed" /\ i \in settledFor
              /\ phases' = [j \in Item |-> IF j \in {i} THEN "settled" ELSE phases[j]]
              /\ UNCHANGED <<revision, tries, settledFor>>
<1>1. PICK me, i : me = work[w] /\ i = Head(me.batch)
  OBVIOUS
<1>2. /\ me.pc = "settle" /\ UNCHANGED <<revision, cleared>>
      /\ item' = IF i \in me.failed THEN RetryWorkItem(i) ELSE CompleteWorkItem(i)
  BY <1>1, Untouched DEF Settles
<1>3. i \in Item /\ i \in Range(me.batch)
  BY <1>1, <1>2, FirstRow
<1>4. settledFor' = settledFor
  BY <1>2 DEF settledFor
<1>5. \A j \in Item : phases[j] = Phase(item[j].status) /\ tries[j] = item[j].attempts
  BY DEF phases, tries
<1>6. /\ phases' = [j \in Item |-> Phase(item'[j].status)]
      /\ tries' = [j \in Item |-> item'[j].attempts]
  BY DEF phases, tries
<1>7. CASE item[i].status # "processing"
  <2>1. item' = item
    BY <1>2, <1>3, <1>7, RetryRow, CompleteRow
  <2> QED
    BY <1>2, <2>1, OutboxStutter
<1>8. CASE item[i].status = "processing" /\ i \in me.failed
  <2>1. item' = RetryWorkItem(i)
    BY <1>2, <1>8
  <2>2. /\ \A j \in Item \ {i} : item'[j] = item[j]
        /\ item'[i].attempts = item[i].attempts + 1
        /\ item'[i].status = IF item[i].attempts + 1 >= AttemptLimit THEN "dead" ELSE "failed"
    BY <1>3, <1>8, <2>1, RetryRow
  <2>3. phases[i] = "owed"
    BY <1>3, <1>5, <1>8, Phases DEF OpenStatus
  <2>4. Phase(item'[i].status) = IF tries[i] + 1 >= AttemptLimit THEN "settled" ELSE phases[i]
    <3>1. Phase("dead") = "settled" /\ Phase("failed") = "owed"
      BY Phases DEF OpenStatus
    <3> QED
      BY <1>3, <1>5, <2>2, <2>3, <3>1
  <2>5. tries' = [tries EXCEPT ![i] = tries[i] + 1]
    <3>1. \A j \in Item : item'[j].attempts = IF j = i THEN tries[i] + 1 ELSE tries[j]
      BY <1>3, <1>5, <2>2
    <3>2. tries = [j \in Item |-> item[j].attempts]
      BY DEF tries
    <3> QED
      BY <1>6, <3>1, <3>2
  <2>6. phases' = [phases EXCEPT ![i] = IF tries[i] + 1 >= AttemptLimit THEN "settled"
                                        ELSE phases[i]]
    <3>1. PICK e : e = IF tries[i] + 1 >= AttemptLimit THEN "settled" ELSE phases[i]
      OBVIOUS
    <3>2. \A j \in Item : Phase(item'[j].status) = IF j = i THEN e ELSE phases[j]
      BY <1>3, <1>5, <2>2, <2>4, <3>1
    <3>3. phases = [j \in Item |-> Phase(item[j].status)]
      BY DEF phases
    <3>4. phases' = [phases EXCEPT ![i] = e]
      BY <1>6, <3>2, <3>3
    <3> QED
      BY <3>1, <3>4
  <2> QED
    BY <1>2, <1>3, <1>4, <2>3, <2>5, <2>6
<1>9. CASE item[i].status = "processing" /\ i \notin me.failed
  <2>1. item' = CompleteWorkItem(i)
    BY <1>2, <1>9
  <2>2. /\ \A j \in Item \ {i} : item'[j] = item[j]
        /\ item'[i].attempts = item[i].attempts /\ item'[i].status = "done"
    BY <1>3, <1>9, <2>1, CompleteRow
  <2>3. phases[i] = "owed"
    BY <1>3, <1>5, <1>9, Phases DEF OpenStatus
  <2>4. i \in settledFor
    <3>1. me.todo = <<>> /\ me.jobs = <<>> /\ User # {}
      BY <1>1, <1>2 DEF Shape, ShapeOf
    <3>2. AheadOf(w) = {}
      BY <1>1, <1>2, <3>1, EmptyOnce DEF AheadOf, Storing
    <3>3. \A u \in User : <<u, i>> \in cleared
      BY <1>1, <1>3, <1>9, <3>2 DEF Covers, CoversOf
    <3> QED
      BY <1>3, <3>1, <3>3 DEF settledFor
  <2>5. tries' = tries
    <3>1. \A j \in Item : item'[j].attempts = item[j].attempts
      BY <2>2
    <3> QED
      BY <3>1 DEF tries
  <2>6. phases' = [j \in Item |-> IF j \in {i} THEN "settled" ELSE phases[j]]
    <3>1. \A j \in Item : Phase(item'[j].status) = IF j \in {i} THEN "settled" ELSE phases[j]
      BY <1>3, <1>5, <2>2, Phases
    <3> QED
      BY <1>6, <3>1
  <2> QED
    BY <1>2, <1>3, <1>4, <2>3, <2>4, <2>5, <2>6
<1> QED
  BY <1>7, <1>8, <1>9

\* No other step changes a row, a revision or a pair that is cleared.
LEMMA OutboxSame ==
  ASSUME \/ Adjusts \/ Ages \/ Unlocks \/ UNCHANGED vars
         \/ \E w \in Worker : Asks(w) \/ Finishes(w) \/ StoresJob(w) \/ Delivers(w) \/ Aborts(w)
  PROVE  UNCHANGED <<revision, phases, tries, settledFor>>
<1>1. revision' = revision /\ cleared' = cleared
  BY Untouched
<1>2. \A j \in Item : item'[j].status = item[j].status /\ item'[j].attempts = item[j].attempts
  <2>1. CASE Ages
    BY <2>1 DEF Ages
  <2>2. CASE item' = item
    BY <2>2
  <2> QED
    BY <2>1, <2>2, Untouched
<1> QED
  BY <1>1, <1>2, OutboxStutter

\* A decision on a pair clears it or leaves it to the next step.
LEMMA OutboxDecide ==
  ASSUME TypeOK, Shape, NEW w \in Worker, Screens(w) \/ StoresResult(w)
  PROVE  \/ UNCHANGED <<revision, phases, tries, settledFor>>
         \/ \E i \in Item : /\ phases[i] # "absent"
                            /\ settledFor' = settledFor \cup {i}
                            /\ UNCHANGED <<revision, phases, tries>>
<1>1. UNCHANGED <<revision, item>>
  BY Untouched
<1>2. \A p \in Pair : p[2] \in Item
  BY Numbers
<1>3. CASE cleared' = cleared
  BY <1>1, <1>3, OutboxStutter
<1>4. CASE StoresResult(w)
  <2>1. work[w].pc \in Holding /\ cleared' = cleared \cup {Head(work[w].cur)}
    BY <1>4 DEF StoresResult, Holding, Storing
  <2> QED
    BY <1>1, <1>2, <2>1, InHand, OutboxClear
<1>5. CASE Screens(w) /\ cleared' # cleared
  <2>1. work[w].pc = "screen" /\ cleared' = cleared \cup {Head(work[w].todo)}
    BY <1>5 DEF Screens
  <2>2. Head(work[w].todo) \in Pair /\ Head(work[w].todo) \in Range(work[w].todo)
    BY <2>1, FirstCandidate
  <2>3. Head(work[w].todo)[2] \in Published
    BY <2>2 DEF Shape, ShapeOf
  <2> QED
    BY <1>1, <1>2, <2>1, <2>2, <2>3, OutboxClear
<1> QED
  BY <1>3, <1>4, <1>5

LEMMA OutboxInit == Init => Abstract!Init
<1> SUFFICES ASSUME Init PROVE Abstract!Init
  OBVIOUS
<1>1. \A i \in Item : item[i].status = "absent" /\ item[i].attempts = 0
  BY DEF Init, Absent
<1>2. phases = [i \in Item |-> "absent"]
  <2>1. \A i \in Item : Phase(item[i].status) = "absent"
    BY <1>1, Phases
  <2> QED
    BY <2>1 DEF phases
<1>3. tries = [i \in Item |-> 0]
  BY <1>1 DEF tries
<1>4. settledFor = {}
  BY DEF Init, settledFor
<1>5. revision = [v \in Vacancy |-> 0]
  BY DEF Init
<1>6. Abstract!Item = Item
  BY DEF Abstract!Item, Item
<1> QED
  BY <1>2, <1>3, <1>4, <1>5, <1>6 DEF Abstract!Init, phases, tries, settledFor

LEMMA OutboxNext == WorkInv /\ [Next]_vars => [Abstract!Next]_(Abstract!vars)
<1> SUFFICES ASSUME WorkInv, [Next]_vars PROVE [Abstract!Next]_(Abstract!vars)
  OBVIOUS
<1>1. TypeOK /\ Rows /\ Shape /\ Covers
  BY DEF WorkInv
<1>2. Effect
  BY <1>1, EffectNext
<1>3. Abstract!Item = Item
  BY DEF Abstract!Item, Item
<1>4. CASE UNCHANGED <<revision, phases, tries, settledFor>>
  BY <1>4 DEF Abstract!vars, phases, tries, settledFor
<1>5. ASSUME NEW i \in Item, Publishes(i) PROVE Abstract!Next
  <2>1. Abstract!Publish(i[1])
    BY <1>1, <1>5, OutboxPublish DEF Abstract!Publish, phases, tries, settledFor
  <2>2. i[1] \in Vacancy
    BY <1>1, <1>5, OutboxPublish
  <2> QED
    BY <2>1, <2>2 DEF Abstract!Next
<1>6. ASSUME NEW w \in Worker, Begins(w) PROVE Abstract!Next
  <2>1. PICK S \in SUBSET Item :
          /\ \A i \in S : phases[i] = "owed" /\ i[2] < revision[i[1]]
          /\ phases' = [i \in Item |-> IF i \in S THEN "settled" ELSE phases[i]]
          /\ UNCHANGED <<revision, tries, settledFor>>
    BY <1>1, <1>6, OutboxClaim
  <2>2. Abstract!Settle(S)
    BY <1>3, <2>1 DEF Abstract!Settle, phases, tries, settledFor
  <2> QED
    BY <1>3, <2>2 DEF Abstract!Next
<1>7. ASSUME NEW i \in Item, phases[i] # "absent", settledFor' = settledFor \cup {i},
             UNCHANGED <<revision, phases, tries>>
      PROVE  Abstract!Next
  <2>1. Abstract!Clear(i)
    BY <1>7 DEF Abstract!Clear, phases, tries, settledFor
  <2> QED
    BY <1>3, <2>1 DEF Abstract!Next
<1>8. ASSUME NEW i \in Item, phases[i] = "owed",
             tries' = [tries EXCEPT ![i] = tries[i] + 1],
             phases' = [phases EXCEPT ![i] = IF tries[i] + 1 >= AttemptLimit THEN "settled"
                                             ELSE phases[i]],
             UNCHANGED <<revision, settledFor>>
      PROVE  Abstract!Next
  <2>1. Abstract!Fail(i)
    BY <1>8 DEF Abstract!Fail, phases, tries, settledFor
  <2> QED
    BY <1>3, <2>1 DEF Abstract!Next
<1>9. ASSUME NEW i \in Item, phases[i] = "owed", i \in settledFor,
             phases' = [j \in Item |-> IF j \in {i} THEN "settled" ELSE phases[j]],
             UNCHANGED <<revision, tries, settledFor>>
      PROVE  Abstract!Next
  <2>1. Abstract!Settle({i})
    BY <1>3, <1>9 DEF Abstract!Settle, phases, tries, settledFor
  <2> QED
    BY <1>3, <2>1 DEF Abstract!Next
<1>10. ASSUME NEW w \in Worker, Screens(w) \/ StoresResult(w) PROVE [Abstract!Next]_(Abstract!vars)
  BY <1>1, <1>4, <1>7, <1>10, OutboxDecide
<1>11. ASSUME NEW w \in Worker, Settles(w) PROVE [Abstract!Next]_(Abstract!vars)
  BY <1>1, <1>4, <1>8, <1>9, <1>11, OutboxSettle
<1> QED
  BY <1>2, <1>4, <1>5, <1>6, <1>10, <1>11, OutboxSame DEF Effect

\* The outbox keeps its promise to the producers and the users: a published row is owed
\* until no user waits for it, a newer revision replaced it or its attempts are used up,
\* and never comes back, whatever workers overlap, crash or answer after their lease
\* expired (Candidates, CompleteWorkItem, RetryWorkItem).
THEOREM Refinement == Spec => ImplementsOutbox
  BY WorkInvariant, OutboxInit, OutboxNext, PTL DEF Spec, ImplementsOutbox, Abstract!Spec
=============================================================================
