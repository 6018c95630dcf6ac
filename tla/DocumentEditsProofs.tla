------------------------- MODULE DocumentEditsProofs -------------------------
(***************************************************************************)
(* For every cap of the undo stack and every bound on the changes:         *)
(*                                                                         *)
(*   - the geometry of every document there is, or that undo and redo can  *)
(*     bring back, was solved for its parameter, however late a commit     *)
(*     lands (GoodInv);                                                    *)
(*   - as long as no step departs from the history, no document has a name *)
(*     twice, so that the marker and what is built follow every feature    *)
(*     that comes or goes (NamesInv);                                      *)
(*   - and the store implements DocumentHistory (HistoryInv): a name is of *)
(*     the feature that was made under it (BornsInv), and at most one      *)
(*     entry is marked, whose step added the import's (MarksInv).          *)
(***************************************************************************)
EXTENDS DocumentEdits, FiniteSetTheorems, SequenceTheorems, WellFoundedInduction, TLAPS

------------------------------------------------------------------------
\* What the splice, pop and filter of a list do, index by index.

\* Every set of naturals that is not empty has a least element; what would be an
\* induction over data is proved from its least counterexample.
LEMMA Least == ASSUME NEW X \in SUBSET Nat, X # {}
               PROVE \E n \in X : \A m \in X : n <= m
<1>. DEFINE less == OpToRel(<, Nat)
<1>1. IsWellFoundedOn(less, Nat)
  BY NatLessThanWellFounded
<1>2. \A x, y \in Nat : x < y => <<x, y>> \in less
  BY DEF OpToRel
<1>. HIDE DEF less
<1>3. \E x \in X : \A y \in X : <<y, x>> \notin less
  BY <1>1, WFMin
<1>4. PICK n \in X : \A y \in X : <<y, n>> \notin less
  BY <1>3
<1>5. \A m \in X : ~(m < n)
  BY <1>2, <1>4
<1>. QED BY <1>5

\* Min is the least element of a set of naturals.
LEMMA MinOfBounded ==
    ASSUME NEW X \in SUBSET Nat, X # {}
    PROVE  /\ Min(X) \in X
           /\ \A m \in X : Min(X) <= m
BY Least DEF Min

\* Math.min of two naturals.
LEMMA MinOfTwo ==
    ASSUME NEW a \in Nat, NEW b \in Nat
    PROVE  Min({a, b}) = IF a <= b THEN a ELSE b
<1>. DEFINE X == {a, b}
<1>1. Min(X) \in X /\ \A m \in X : Min(X) <= m
  <2>1. X \in SUBSET Nat /\ X # {}
    OBVIOUS
  <2>. HIDE DEF X
  <2>. QED BY <2>1, MinOfBounded
<1>. HIDE DEF Min
<1>. QED BY <1>1

\* What Array.splice puts in: the elements behind it move up by one.
LEMMA InsertAtIs ==
    ASSUME NEW S, NEW s \in Seq(S), NEW i \in 1..Len(s) + 1, NEW e \in S
    PROVE  /\ InsertAt(s, i, e) \in Seq(S)
           /\ Len(InsertAt(s, i, e)) = Len(s) + 1
           /\ \A j \in 1..Len(s) + 1 :
                 InsertAt(s, i, e)[j] = IF j < i THEN s[j] ELSE IF j = i THEN e ELSE s[j - 1]
<1>. DEFINE a == SubSeq(s, 1, i - 1)
            b == SubSeq(s, i, Len(s))
<1>0. Len(s) \in Nat
  OBVIOUS
<1>1. a \in Seq(S) /\ Len(a) = i - 1 /\ \A j \in 1..i - 1 : a[j] = s[j]
  BY <1>0
<1>2. /\ b \in Seq(S) /\ Len(b) = Len(s) + 1 - i
      /\ \A j \in 1..Len(s) + 1 - i : b[j] = s[i + j - 1]
  BY <1>0
<1>. HIDE DEF a, b
<1>3. InsertAt(s, i, e) = (a \o <<e>>) \o b
  BY DEF InsertAt, a, b
<1>4. /\ a \o <<e>> \in Seq(S) /\ Len(a \o <<e>>) = i
      /\ \A j \in 1..i : (a \o <<e>>)[j] = IF j < i THEN s[j] ELSE e
  BY <1>0, <1>1
<1>. DEFINE c == a \o <<e>>
<1>. HIDE DEF c
<1>5. /\ c \o b \in Seq(S) /\ Len(c \o b) = Len(s) + 1
      /\ \A j \in 1..Len(s) + 1 : (c \o b)[j] = IF j <= i THEN c[j] ELSE b[j - i]
  <2>1. /\ c \in Seq(S) /\ b \in Seq(S) /\ Len(c) = i /\ Len(b) = Len(s) + 1 - i
    BY <1>2, <1>4 DEF c
  <2>2. /\ c \o b \in Seq(S) /\ Len(c \o b) = Len(c) + Len(b)
        /\ \A j \in 1..Len(c) + Len(b) : (c \o b)[j] = IF j <= Len(c) THEN c[j] ELSE b[j - Len(c)]
    BY <2>1, ConcatProperties
  <2>3. Len(c) + Len(b) = Len(s) + 1
    BY <1>0, <2>1
  <2>. QED BY <2>1, <2>2, <2>3
<1>. QED BY <1>0, <1>2, <1>3, <1>4, <1>5 DEF c

\* What Array.splice takes out: the elements behind it move down by one.
LEMMA RemoveAtIs ==
    ASSUME NEW S, NEW s \in Seq(S), NEW i \in 1..Len(s)
    PROVE  /\ RemoveAt(s, i) \in Seq(S)
           /\ Len(RemoveAt(s, i)) = Len(s) - 1
           /\ \A j \in 1..Len(s) - 1 :
                 RemoveAt(s, i)[j] = IF j < i THEN s[j] ELSE s[j + 1]
<1>. DEFINE a == SubSeq(s, 1, i - 1)
            b == SubSeq(s, i + 1, Len(s))
<1>0. Len(s) \in Nat
  OBVIOUS
<1>1. a \in Seq(S) /\ Len(a) = i - 1 /\ \A j \in 1..i - 1 : a[j] = s[j]
  BY <1>0
<1>2. /\ b \in Seq(S) /\ Len(b) = Len(s) - i
      /\ \A j \in 1..Len(s) - i : b[j] = s[i + j]
  BY <1>0
<1>. HIDE DEF a, b
<1>3. RemoveAt(s, i) = a \o b
  BY DEF RemoveAt, a, b
<1>4. /\ a \o b \in Seq(S) /\ Len(a \o b) = Len(s) - 1
      /\ \A j \in 1..Len(s) - 1 : (a \o b)[j] = IF j <= i - 1 THEN a[j] ELSE b[j - (i - 1)]
  <2>1. /\ a \o b \in Seq(S) /\ Len(a \o b) = Len(a) + Len(b)
        /\ \A j \in 1..Len(a) + Len(b) : (a \o b)[j] = IF j <= Len(a) THEN a[j] ELSE b[j - Len(a)]
    BY <1>1, <1>2, ConcatProperties
  <2>2. Len(a) + Len(b) = Len(s) - 1
    BY <1>0, <1>1, <1>2
  <2>. QED BY <1>1, <2>1, <2>2
<1>5. \A j \in 1..Len(s) - 1 : (a \o b)[j] = IF j < i THEN s[j] ELSE s[j + 1]
  <2>. SUFFICES ASSUME NEW j \in 1..Len(s) - 1
                PROVE  (a \o b)[j] = IF j < i THEN s[j] ELSE s[j + 1]
    OBVIOUS
  <2>1. CASE j < i
    BY <1>0, <1>1, <1>4, <2>1
  <2>2. CASE ~(j < i)
    <3>1. j - (i - 1) \in 1..Len(s) - i /\ i + (j - (i - 1)) = j + 1 /\ ~(j <= i - 1)
      BY <1>0, <2>2
    <3>. QED BY <1>2, <1>4, <2>2, <3>1
  <2>. QED BY <2>1, <2>2
<1>. QED BY <1>3, <1>4, <1>5

\* What Array.pop leaves.
LEMMA FrontIs ==
    ASSUME NEW S, NEW s \in Seq(S), s # <<>>
    PROVE  /\ Len(s) \in Nat /\ Len(s) >= 1 /\ s[Len(s)] \in S
           /\ Front(s) \in Seq(S) /\ Len(Front(s)) = Len(s) - 1
           /\ \A i \in 1..Len(s) - 1 : Front(s)[i] = s[i]
<1>1. Len(s) \in Nat /\ Len(s) >= 1
  BY EmptySeq
<1>2. 1 \in Int /\ Len(s) - 1 \in Int /\ \A i \in 1..Len(s) - 1 : s[i] \in S
  BY <1>1
<1>3. /\ SubSeq(s, 1, Len(s) - 1) \in Seq(S)
      /\ Len(SubSeq(s, 1, Len(s) - 1)) = IF 1 <= Len(s) - 1 THEN Len(s) - 1 - 1 + 1 ELSE 0
      /\ \A i \in 1..(Len(s) - 1) - 1 + 1 : SubSeq(s, 1, Len(s) - 1)[i] = s[1 + i - 1]
  BY <1>2, SubSeqProperties
<1>. DEFINE f == SubSeq(s, 1, Len(s) - 1)
<1>4. Front(s) = f
  BY DEF Front
<1>. HIDE DEF f
<1>5. Len(f) = Len(s) - 1 /\ f \in Seq(S)
  <2>1. f \in Seq(S) /\ Len(f) = IF 1 <= Len(s) - 1 THEN Len(s) - 1 - 1 + 1 ELSE 0
    BY <1>3 DEF f
  <2>2. ASSUME NEW n \in Nat, n >= 1
        PROVE  (IF 1 <= n - 1 THEN n - 1 - 1 + 1 ELSE 0) = n - 1
    BY <2>2
  <2>. QED BY <1>1, <2>1, <2>2
<1>6. \A i \in 1..Len(s) - 1 : f[i] = s[i]
  <2>. SUFFICES ASSUME NEW i \in 1..Len(s) - 1 PROVE f[i] = s[i]
    OBVIOUS
  <2>1. i \in 1..(Len(s) - 1) - 1 + 1 /\ 1 + i - 1 = i
    BY <1>1
  <2>. QED BY <1>3, <2>1 DEF f
<1>7. s[Len(s)] \in S
  BY <1>1
<1>. QED BY <1>1, <1>4, <1>5, <1>6, <1>7

(* How many of K are at most i.                                            *)
Count(K, i) == Cardinality({j \in K : j <= i})

\* The count of the indices up to i goes up by one at each index there is.
LEMMA CountIs ==
    ASSUME NEW n \in Nat, NEW K \in SUBSET (1..n)
    PROVE  /\ IsFiniteSet(K) /\ Cardinality(K) \in Nat
           /\ \A i \in 0..n : Count(K, i) \in Nat
           /\ Count(K, 0) = 0 /\ Count(K, n) = Cardinality(K)
           /\ \A i \in 1..n : Count(K, i) = IF i \in K THEN Count(K, i - 1) + 1
                                                      ELSE Count(K, i - 1)
<1>1. IsFiniteSet(1..n)
  BY FS_Interval
<1>2. IsFiniteSet(K) /\ Cardinality(K) \in Nat
  BY <1>1, FS_Subset, FS_CardinalityType
<1>. DEFINE upTo(i) == {j \in K : j <= i}
<1>3. \A i \in 0..n : IsFiniteSet(upTo(i)) /\ Cardinality(upTo(i)) \in Nat
  <2>1. \A i \in 0..n : upTo(i) \subseteq K
    OBVIOUS
  <2>. HIDE DEF upTo
  <2>. QED BY <1>2, <2>1, FS_Subset, FS_CardinalityType
<1>k. \A j \in K : j \in Int /\ 1 <= j /\ j <= n
  OBVIOUS
<1>4. upTo(0) = {} /\ upTo(n) = K
  <2>1. upTo(0) = {}
    <3>1. \A j \in K : ~(j <= 0)
      BY <1>k
    <3>. QED BY <3>1
  <2>2. upTo(n) = K
    BY <1>k
  <2>. QED BY <2>1, <2>2
<1>5. ASSUME NEW i \in 1..n
      PROVE  upTo(i) = IF i \in K THEN upTo(i - 1) \cup {i} ELSE upTo(i - 1)
  <2>1. \A j \in K : j <= i <=> j <= i - 1 \/ j = i
    BY <1>k
  <2>2. CASE i \in K
    BY <2>1, <2>2
  <2>3. CASE i \notin K
    BY <2>1, <2>3
  <2>. QED BY <2>2, <2>3
<1>6. \A i \in 1..n : i \notin upTo(i - 1) /\ i - 1 \in 0..n
  OBVIOUS
<1>7. \A i \in 0..n : Count(K, i) = Cardinality(upTo(i))
  BY DEF Count
<1>8. ASSUME NEW i \in 1..n
      PROVE  Cardinality(upTo(i)) = IF i \in K THEN Cardinality(upTo(i - 1)) + 1
                                               ELSE Cardinality(upTo(i - 1))
  <2>. HIDE DEF upTo
  <2>. QED BY <1>3, <1>5, <1>6, FS_AddElement
<1>9. Cardinality({}) = 0
  BY FS_EmptySet
<1>. HIDE DEF upTo
<1>10. \A i \in 1..n : i \in 0..n /\ i - 1 \in 0..n
  OBVIOUS
<1>11. 0 \in 0..n /\ n \in 0..n
  OBVIOUS
<1>. QED BY <1>2, <1>3, <1>4, <1>7, <1>8, <1>9, <1>10, <1>11

\* An index behind i counts more.
LEMMA CountGrows ==
    ASSUME NEW n \in Nat, NEW K \in SUBSET (1..n),
           NEW i \in 0..n, NEW j \in K, i < j
    PROVE  Count(K, i) < Count(K, j)
<1>1. /\ \A m \in 0..n : Count(K, m) \in Nat
      /\ \A m \in 1..n : Count(K, m) = IF m \in K THEN Count(K, m - 1) + 1
                                                  ELSE Count(K, m - 1)
  BY CountIs
<1>. DEFINE X == {m \in (i + 1)..n : Count(K, m) < Count(K, i) \/ (m \in K /\ Count(K, m) <= Count(K, i))}
<1>2. X = {}
  <2>. SUFFICES ASSUME X # {} PROVE FALSE
    OBVIOUS
  <2>1. X \in SUBSET Nat
    OBVIOUS
  <2>2. PICK m \in X : \A k \in X : m <= k
    <3>. HIDE DEF X
    <3>. QED BY <2>1, Least
  <2>3. m \in 1..n /\ m - 1 \in 0..n /\ m \in (i + 1)..n
    OBVIOUS
  <2>4. m - 1 = i \/ (m - 1 \in (i + 1)..n /\ m - 1 \notin X)
    BY <2>1, <2>2, <2>3
  <2>5. Count(K, m - 1) >= Count(K, i)
    BY <1>1, <2>3, <2>4
  <2>. QED BY <1>1, <2>2, <2>3, <2>5
<1>3. j \in (i + 1)..n
  OBVIOUS
<1>. QED BY <1>1, <1>2, <1>3

\* There is one k-th index.
LEMMA NthIs ==
    ASSUME NEW n \in Nat, NEW K \in SUBSET (1..n), NEW k \in 1..Cardinality(K)
    PROVE  /\ Nth(K, k) \in K /\ Count(K, Nth(K, k)) = k
           /\ \A i \in K : Count(K, i) = k => i = Nth(K, k)
<1>1. /\ Cardinality(K) \in Nat
      /\ \A m \in 0..n : Count(K, m) \in Nat
      /\ Count(K, 0) = 0 /\ Count(K, n) = Cardinality(K)
      /\ \A m \in 1..n : Count(K, m) = IF m \in K THEN Count(K, m - 1) + 1
                                                  ELSE Count(K, m - 1)
  BY CountIs
<1>. DEFINE X == {m \in 0..n : Count(K, m) >= k}
<1>2. PICK m \in X : \A l \in X : m <= l
  <2>1. X \in SUBSET Nat /\ X # {}
    <3>1. n \in X
      BY <1>1
    <3>. QED BY <3>1
  <2>. HIDE DEF X
  <2>. QED BY <2>1, Least
<1>3. m # 0
  BY <1>1
<1>4. m \in 1..n /\ m - 1 \in 0..n /\ m - 1 \notin X
  BY <1>2, <1>3
<1>5. m \in K /\ Count(K, m) = k
  BY <1>1, <1>4
<1>6. Nth(K, k) \in K /\ Count(K, Nth(K, k)) = k
  BY <1>5 DEF Nth, Count
<1>7. ASSUME NEW i \in K, NEW j \in K, Count(K, i) = k, Count(K, j) = k PROVE i = j
  <2>1. i \in 0..n /\ j \in 0..n
    OBVIOUS
  <2>2. ~(i < j)
    <3>. SUFFICES ASSUME i < j PROVE FALSE
      OBVIOUS
    <3>1. Count(K, i) < Count(K, j)
      BY <2>1, CountGrows
    <3>. QED BY <1>7, <3>1
  <2>3. ~(j < i)
    <3>. SUFFICES ASSUME j < i PROVE FALSE
      OBVIOUS
    <3>1. Count(K, j) < Count(K, i)
      BY <2>1, CountGrows
    <3>. QED BY <1>7, <3>1
  <2>. QED BY <2>1, <2>2, <2>3
<1>. QED BY <1>6, <1>7

\* What Array.filter returns: its length, its elements in terms of Nth, its range.
LEMMA FilteredIs ==
    ASSUME NEW S, NEW s \in Seq(S), NEW K \in SUBSET DOMAIN s
    PROVE  /\ Filtered(s, K) \in Seq(S)
           /\ Len(Filtered(s, K)) = Cardinality(K) /\ Cardinality(K) \in Nat
           /\ Cardinality(K) <= Len(s)
           /\ \A k \in 1..Cardinality(K) : Filtered(s, K)[k] = s[Nth(K, k)] /\ Nth(K, k) \in K
           /\ Range(Filtered(s, K)) = {s[i] : i \in K}
<1>1. Len(s) \in Nat /\ DOMAIN s = 1..Len(s) /\ K \in SUBSET (1..Len(s))
  OBVIOUS
<1>2. /\ IsFiniteSet(K) /\ Cardinality(K) \in Nat
      /\ \A i \in K : Count(K, i) \in Nat
  BY <1>1, CountIs
<1>3. Cardinality(K) <= Len(s)
  <2>1. IsFiniteSet(1..Len(s)) /\ Cardinality(1..Len(s)) = Len(s)
    <3>1. /\ IsFiniteSet(1..Len(s))
          /\ Cardinality(1..Len(s)) = IF 1 > Len(s) THEN 0 ELSE Len(s) - 1 + 1
      <4>1. 1 \in Int /\ Len(s) \in Int
        BY <1>1
      <4>. QED BY <4>1, FS_Interval
    <3>. QED BY <1>1, <3>1
  <2>. QED BY <1>1, <2>1, FS_Subset
<1>4. \A k \in 1..Cardinality(K) : Nth(K, k) \in K
  BY <1>1, NthIs
<1>. DEFINE f == Filtered(s, K)
<1>5. /\ DOMAIN f = 1..Cardinality(K)
      /\ \A k \in 1..Cardinality(K) : f[k] = s[Nth(K, k)]
      /\ f = [k \in 1..Cardinality(K) |-> f[k]]
  BY DEF Filtered
<1>. HIDE DEF f
<1>6. \A k \in 1..Cardinality(K) : f[k] \in S
  BY <1>1, <1>4, <1>5
<1>7. f \in Seq(S) /\ Len(f) = Cardinality(K)
  BY <1>2, <1>5, <1>6
<1>8. \A i \in K : \E k \in 1..Cardinality(K) : Nth(K, k) = i
  <2>. SUFFICES ASSUME NEW i \in K PROVE \E k \in 1..Cardinality(K) : Nth(K, k) = i
    OBVIOUS
  <2>1. Count(K, i) \in 1..Cardinality(K)
    <3>1. /\ Count(K, 0) = 0 /\ Count(K, Len(s)) = Cardinality(K)
          /\ \A m \in 0..Len(s) : Count(K, m) \in Nat
      BY <1>1, CountIs
    <3>2. Count(K, 0) < Count(K, i)
      <4>1. 0 \in 0..Len(s) /\ 0 < i
        BY <1>1
      <4>. QED BY <1>1, <4>1, CountGrows
    <3>3. Count(K, i) <= Cardinality(K)
      BY <1>2, FS_Subset DEF Count
    <3>. QED BY <1>1, <1>2, <3>1, <3>2, <3>3
  <2>2. i = Nth(K, Count(K, i))
    BY <1>1, <2>1, NthIs
  <2>. QED BY <2>1, <2>2
<1>9. Range(f) = {s[i] : i \in K}
  BY <1>4, <1>5, <1>8 DEF Range
<1>. QED BY <1>2, <1>3, <1>4, <1>5, <1>7, <1>9 DEF f

\* A filter that drops one element is the splice that takes it out.
LEMMA FilteredOne ==
    ASSUME NEW S, NEW s \in Seq(S), NEW p \in DOMAIN s
    PROVE  Filtered(s, DOMAIN s \ {p}) = RemoveAt(s, p)
<1>. DEFINE n == Len(s)
            K == DOMAIN s \ {p}
<1>1. n \in Nat /\ K = (1..n) \ {p} /\ p \in 1..n
  OBVIOUS
<1>2. \A i \in 0..n : IsFiniteSet(1..i) /\ Cardinality(1..i) = i
  <2>. SUFFICES ASSUME NEW i \in 0..n PROVE IsFiniteSet(1..i) /\ Cardinality(1..i) = i
    OBVIOUS
  <2>1. 1 \in Int /\ i \in Int
    OBVIOUS
  <2>2. IsFiniteSet(1..i) /\ Cardinality(1..i) = IF 1 > i THEN 0 ELSE i - 1 + 1
    BY <2>1, FS_Interval
  <2>. QED BY <2>2
<1>3. \A i \in 0..n : Count(K, i) = IF i < p THEN i ELSE i - 1
  <2>. SUFFICES ASSUME NEW i \in 0..n PROVE Count(K, i) = IF i < p THEN i ELSE i - 1
    OBVIOUS
  <2>1. \A j \in K : j <= i <=> j \in (1..i) \ {p}
    BY <1>1
  <2>2. (1..i) \ {p} \subseteq K
    BY <1>1
  <2>3. {j \in K : j <= i} = (1..i) \ {p}
    <3>. HIDE DEF K
    <3>. QED BY <2>1, <2>2
  <2>4. CASE i < p
    <3>1. (1..i) \ {p} = 1..i
      BY <1>1, <2>4
    <3>. QED BY <1>2, <2>3, <2>4, <3>1 DEF Count
  <2>5. CASE ~(i < p)
    <3>1. p \in 1..i
      BY <1>1, <2>5
    <3>2. Cardinality((1..i) \ {p}) = i - 1
      BY <1>2, <3>1, FS_RemoveElement
    <3>. QED BY <2>3, <2>5, <3>2 DEF Count
  <2>. QED BY <2>4, <2>5
<1>4. Cardinality(K) = n - 1
  <2>1. n \in 0..n
    BY <1>1
  <2>2. IsFiniteSet(1..n) /\ Cardinality(1..n) = n
    BY <1>2, <2>1
  <2>3. Cardinality((1..n) \ {p}) = n - 1
    BY <1>1, <2>2, FS_RemoveElement
  <2>. QED BY <1>1, <2>3
<1>5. \A k \in 1..n - 1 : Nth(K, k) = IF k < p THEN k ELSE k + 1
  <2>. SUFFICES ASSUME NEW k \in 1..n - 1 PROVE Nth(K, k) = IF k < p THEN k ELSE k + 1
    OBVIOUS
  <2>. DEFINE i == IF k < p THEN k ELSE k + 1
  <2>1. /\ n \in Nat /\ K \in SUBSET (1..n) /\ k \in 1..Cardinality(K)
    BY <1>1, <1>4
  <2>2. i \in K /\ i \in 0..n /\ (IF i < p THEN i ELSE i - 1) = k
    BY <1>1
  <2>. HIDE DEF K, n, i
  <2>3. Count(K, i) = k
    BY <1>3, <2>2
  <2>4. i = Nth(K, k)
    BY <2>1, <2>2, <2>3, NthIs
  <2>. QED BY <2>4 DEF i
<1>6. /\ RemoveAt(s, p) \in Seq(S) /\ Len(RemoveAt(s, p)) = n - 1
      /\ \A j \in 1..n - 1 : RemoveAt(s, p)[j] = IF j < p THEN s[j] ELSE s[j + 1]
  BY <1>1, RemoveAtIs
<1>7. Filtered(s, K) = [k \in 1..n - 1 |-> s[IF k < p THEN k ELSE k + 1]]
  <2>. HIDE DEF K, n
  <2>. QED BY <1>4, <1>5 DEF Filtered
<1>. HIDE DEF n
<1>8. RemoveAt(s, p) = [j \in 1..n - 1 |-> RemoveAt(s, p)[j]]
  BY <1>1, <1>6, LenProperties
<1>. QED BY <1>6, <1>7, <1>8

------------------------------------------------------------------------
\* Types, and what holds of every document there is.

Name == 1..(2 * MaxFeatures + 1)
Document == [features : Seq(Feature), param : 0..MaxChanges]
Entry == [doc : Document, added : BOOLEAN]
CommitKind == {"param", "dimension", "refresh"}
Commit == [kind : CommitKind, value : 0..MaxChanges, ids : SUBSET Name]

\* The document and all that undo and redo can bring back.
Docs == {doc} \cup Range(redoStack) \cup {e.doc : e \in Range(undoStack)}

Fits(d) == d \in Document /\ Len(d.features) <= MaxFeatures
Solved(d) == \A i \in DOMAIN d.features : d.features[i].at = d.param
Good(d) == Fits(d) /\ Solved(d)

StacksAreGood ==
    /\ undoStack \in Seq(Entry) /\ redoStack \in Seq(Document)
    /\ Len(undoStack) <= UndoCap
    /\ \A d \in Docs : Good(d)

\* A commit that will write sketches back has read them for the parameter the
\* document still has, unless the document was exchanged meanwhile.
SolvingIsGood ==
    /\ DOMAIN solving = {"kind", "value", "sameObjects", "at", "seen", "draft"}
    /\ solving.kind \in CommitKind \cup {"none"}
    /\ solving.kind = "param" => Good(solving.draft)
    /\ solving.kind \in {"dimension", "refresh"} =>
           /\ solving.seen \subseteq Feature
           /\ solving.sameObjects => solving.at = doc.param
    /\ solving.kind = "dimension" => solving.value \in 1..MaxChanges

ChainIsGood ==
    /\ paramChain \in Seq(Commit) /\ Len(paramChain) <= MaxQueued
    /\ \A i \in DOMAIN paramChain :
          paramChain[i].kind = "dimension" => paramChain[i].value # 0

NamesAreGood ==
    /\ changes \in 0..MaxChanges
    /\ rollback \in {Null} \cup 0..(MaxFeatures + changes)
    /\ suppressed \subseteq Name
    /\ tool \in {Null} \cup Name
    /\ import \in [pc : {"none", "reading", "building"}, id : {0} \cup Name]

GoodInv == StacksAreGood /\ SolvingIsGood /\ ChainIsGood /\ NamesAreGood

------------------------------------------------------------------------
\* The stacks.

\* The stack with the document on it, cut at its oldest entry when it is over the cap.
LEMMA PushedIs ==
    ASSUME undoStack \in Seq(Entry), doc \in Document, Len(undoStack) <= UndoCap
    PROVE  LET e == [doc |-> doc, added |-> FALSE]
               stack == Append(undoStack, e)
           IN  /\ stack \in Seq(Entry) /\ Len(stack) = Len(undoStack) + 1
               /\ \A i \in 1..Len(undoStack) : stack[i] = undoStack[i]
               /\ stack[Len(undoStack) + 1] = e
               /\ Pushed = IF Len(stack) > UndoCap THEN Tail(stack) ELSE stack
               /\ Pushed \in Seq(Entry) /\ Len(Pushed) <= UndoCap /\ Len(Pushed) >= 1
               /\ Len(Pushed) = IF Len(stack) > UndoCap THEN Len(undoStack) ELSE Len(undoStack) + 1
               /\ \A i \in 1..Len(Pushed) :
                     Pushed[i] = IF Len(stack) > UndoCap THEN stack[i + 1] ELSE stack[i]
<1>. DEFINE e == [doc |-> doc, added |-> FALSE]
            stack == Append(undoStack, e)
<1>1. e \in Entry
  BY DEF Entry
<1>. HIDE DEF e
<1>2. /\ stack \in Seq(Entry) /\ Len(stack) = Len(undoStack) + 1 /\ stack # <<>>
      /\ \A i \in 1..Len(undoStack) : stack[i] = undoStack[i]
      /\ stack[Len(undoStack) + 1] = e
  BY <1>1, AppendProperties
<1>3. Pushed = IF Len(stack) > UndoCap THEN Tail(stack) ELSE stack
  BY DEF Pushed, e
<1>. HIDE DEF stack
<1>4. /\ Tail(stack) \in Seq(Entry) /\ Len(Tail(stack)) = Len(stack) - 1
      /\ \A i \in 1..Len(Tail(stack)) : Tail(stack)[i] = stack[i + 1]
  BY <1>2, HeadTailProperties
<1>5. UndoCap \in Nat \ {0} /\ Len(undoStack) \in Nat
  BY BoundsAssumption
<1>6. CASE Len(stack) > UndoCap
  BY <1>2, <1>3, <1>4, <1>5, <1>6 DEF stack, e
<1>7. CASE ~(Len(stack) > UndoCap)
  BY <1>2, <1>3, <1>5, <1>7 DEF stack, e
<1>. QED BY <1>6, <1>7

\* Nothing but the document and old entries is on the stack.
LEMMA PushedHas ==
    ASSUME undoStack \in Seq(Entry), doc \in Document, Len(undoStack) <= UndoCap
    PROVE  \A e \in Range(Pushed) : e.doc = doc \/ e \in Range(undoStack)
<1>. SUFFICES ASSUME NEW i \in 1..Len(Pushed)
              PROVE  Pushed[i].doc = doc \/ Pushed[i] \in Range(undoStack)
  BY PushedIs, LenProperties DEF Range
<1>1. \A j \in 1..Len(undoStack) : undoStack[j] \in Range(undoStack)
  BY LenProperties DEF Range
<1>. DEFINE e == [doc |-> doc, added |-> FALSE]
            stack == Append(undoStack, e)
<1>2. \A j \in 1..Len(undoStack) + 1 : stack[j].doc = doc \/ stack[j] \in Range(undoStack)
  <2>1. \A j \in 1..Len(undoStack) + 1 : j \in 1..Len(undoStack) \/ j = Len(undoStack) + 1
    BY LenProperties
  <2>2. /\ \A j \in 1..Len(undoStack) : stack[j] = undoStack[j]
        /\ stack[Len(undoStack) + 1] = e
    BY PushedIs
  <2>3. e.doc = doc
    OBVIOUS
  <2>. HIDE DEF e, stack
  <2>. QED BY <1>1, <2>1, <2>2, <2>3
<1>3. \E j \in 1..Len(undoStack) + 1 : Pushed[i] = stack[j]
  <2>. HIDE DEF e
  <2>1. /\ Len(stack) = Len(undoStack) + 1 /\ Len(undoStack) \in Nat
        /\ Len(Pushed) = IF Len(stack) > UndoCap THEN Len(undoStack) ELSE Len(undoStack) + 1
        /\ Pushed[i] = IF Len(stack) > UndoCap THEN stack[i + 1] ELSE stack[i]
    BY PushedIs, LenProperties DEF e
  <2>. HIDE DEF stack
  <2>. QED BY <2>1
<1>. QED BY <1>2, <1>3

\* One undo step more: the stacks hold good documents.
LEMMA MutateKeeps ==
    ASSUME StacksAreGood, NEW new, Good(new), Mutate(new)
    PROVE  StacksAreGood'
<1>1. doc \in Document
  BY DEF StacksAreGood, Docs, Good, Fits
<1>2. Pushed \in Seq(Entry) /\ Len(Pushed) <= UndoCap
  BY <1>1, PushedIs DEF StacksAreGood
<1>3. \A e \in Range(Pushed) : e.doc = doc \/ e \in Range(undoStack)
  BY <1>1, PushedHas DEF StacksAreGood
<1>4. doc' = new /\ undoStack' = Pushed /\ redoStack' = <<>>
  BY DEF Mutate
<1>5. redoStack' \in Seq(Document) /\ Range(redoStack') = {}
  BY <1>4 DEF Range
<1>6. \A d \in Docs' : d = new \/ d \in Docs
  BY <1>3, <1>4, <1>5 DEF Docs
<1>. QED BY <1>2, <1>4, <1>5, <1>6 DEF StacksAreGood, Good, Fits, Solved

\* The stacks are good when every document on them is.
LEMMA StacksKeep ==
    ASSUME StacksAreGood, Good(doc'),
           undoStack' \in Seq(Entry), redoStack' \in Seq(Document), Len(undoStack') <= UndoCap,
           \A e \in Range(undoStack') : Good(e.doc),
           \A d \in Range(redoStack') : Good(d)
    PROVE  StacksAreGood'
BY DEF StacksAreGood, Docs, Good, Fits, Solved

------------------------------------------------------------------------
\* The documents the changes make.

\* The names of a list of features are finitely many.
LEMMA IdsAre ==
    ASSUME NEW features \in Seq(Feature)
    PROVE  /\ Ids(features) = {features[i].id : i \in 1..Len(features)}
           /\ Ids(features) \subseteq Name
           /\ IsFiniteSet(Ids(features)) /\ Cardinality(Ids(features)) \in Nat
           /\ Cardinality(Ids(features)) <= Len(features)
<1>1. Len(features) \in Nat /\ DOMAIN features = 1..Len(features)
  OBVIOUS
<1>2. Ids(features) = {features[i].id : i \in 1..Len(features)}
  BY <1>1 DEF Ids, Range
<1>3. \A i \in 1..Len(features) : features[i].id \in Name
  <2>1. \A i \in 1..Len(features) : features[i] \in Feature
    BY <1>1
  <2>2. \A f \in Feature : f.id \in Name
    BY DEF Feature, Name
  <2>. QED BY <2>1, <2>2
<1>. DEFINE f == [i \in 1..Len(features) |-> features[i].id]
<1>4. f \in Surjection(1..Len(features), Ids(features))
  BY <1>2 DEF Surjection
<1>5. IsFiniteSet(1..Len(features)) /\ Cardinality(1..Len(features)) = Len(features)
  <2>1. 1 \in Int /\ Len(features) \in Int
    BY <1>1
  <2>2. /\ IsFiniteSet(1..Len(features))
        /\ Cardinality(1..Len(features)) = IF 1 > Len(features) THEN 0 ELSE Len(features) - 1 + 1
    BY <2>1, FS_Interval
  <2>. QED BY <1>1, <2>2
<1>6. IsFiniteSet(Ids(features)) /\ Cardinality(Ids(features)) <= Len(features)
  <2>. HIDE DEF f
  <2>. QED BY <1>4, <1>5, FS_Surjection
<1>. QED BY <1>2, <1>3, <1>6, FS_CardinalityType

\* The name for the next feature is in range and not taken.
LEMMA NextIdIs ==
    ASSUME NEW features \in Seq(Feature), Len(features) <= MaxFeatures
    PROVE  NextId(features) \in Name /\ NextId(features) \notin Ids(features)
<1>. DEFINE used == Ids(features)
            n == Cardinality(used) + 1
            X == (n..(n + Len(features))) \ used
<1>1. /\ Len(features) \in Nat /\ MaxFeatures \in Nat
      /\ IsFiniteSet(used) /\ Cardinality(used) \in Nat
      /\ Cardinality(used) <= Len(features)
  BY IdsAre, BoundsAssumption
<1>. HIDE DEF used
<1>2. n \in Nat /\ n >= 1 /\ n <= Len(features) + 1
  BY <1>1
<1>. HIDE DEF n
<1>3. X # {}
  <2>. SUFFICES ASSUME X = {} PROVE FALSE
    OBVIOUS
  <2>1. n..(n + Len(features)) \subseteq used
    OBVIOUS
  <2>2. n \in Int /\ n + Len(features) \in Int
    BY <1>1, <1>2
  <2>3. Cardinality(n..(n + Len(features))) = IF n > n + Len(features) THEN 0 ELSE n + Len(features) - n + 1
    BY <2>2, FS_Interval
  <2>4. Cardinality(n..(n + Len(features))) <= Cardinality(used)
    BY <1>1, <2>1, FS_Subset
  <2>. QED BY <1>1, <1>2, <2>3, <2>4
<1>4. X \in SUBSET Nat
  BY <1>1, <1>2
<1>5. Min(X) \in X
  <2>. HIDE DEF X
  <2>. QED BY <1>3, <1>4, MinOfBounded
<1>6. NextId(features) = Min(X)
  BY DEF NextId, n, used
<1>7. \A x \in X : x \in Name /\ x \notin used
  BY <1>1, <1>2 DEF Name
<1>. HIDE DEF X
<1>. QED BY <1>5, <1>6, <1>7 DEF used

\* The feature a change makes.
LEMMA MadeIs ==
    ASSUME doc \in Document, NEW id \in Name, changes \in 0..MaxChanges, changes < MaxChanges
    PROVE  /\ Made(id) \in Feature /\ Made(id).at = doc.param /\ Made(id).id = id
           /\ Made(id).born = Stamp /\ Stamp \in 1..MaxChanges
BY BoundsAssumption DEF Made, Stamp, Feature, Document, Name

\* Where addFeature puts it.
Slot == Min({rollbackIndex, Len(doc.features)}) + 1

\* Where a feature is added: at the marker, or at the end when undo has left the marker
\* past it.
LEMMA SlotIs ==
    ASSUME doc \in Document, rollback \in {Null} \cup Nat
    PROVE  /\ rollbackIndex \in Nat
           /\ Slot \in 1..Len(doc.features) + 1
           /\ Slot = IF rollbackIndex <= Len(doc.features) THEN rollbackIndex + 1
                                                          ELSE Len(doc.features) + 1
<1>1. Len(doc.features) \in Nat
  BY DEF Document
<1>2. rollbackIndex \in Nat
  BY <1>1 DEF rollbackIndex
<1>3. Min({rollbackIndex, Len(doc.features)}) =
          IF rollbackIndex <= Len(doc.features) THEN rollbackIndex ELSE Len(doc.features)
  BY <1>1, <1>2, MinOfTwo
<1>. QED BY <1>1, <1>2, <1>3 DEF Slot

\* The document with a feature added, index by index.
LEMMA AddedIs ==
    ASSUME GoodInv, changes < MaxChanges, NEW id \in Name
    PROVE  /\ Added(id) = [features |-> InsertAt(doc.features, Slot, Made(id)), param |-> doc.param]
           /\ InsertAt(doc.features, Slot, Made(id)) \in Seq(Feature)
           /\ Len(Added(id).features) = Len(doc.features) + 1
           /\ \A j \in 1..Len(doc.features) + 1 :
                 Added(id).features[j] = IF j < Slot THEN doc.features[j]
                                         ELSE IF j = Slot THEN Made(id)
                                         ELSE doc.features[j - 1]
           /\ Slot \in 1..Len(doc.features) + 1 /\ Len(doc.features) \in Nat
<1>1. /\ doc \in Document /\ doc.features \in Seq(Feature) /\ Made(id) \in Feature
      /\ rollback \in {Null} \cup Nat
  BY MadeIs, BoundsAssumption DEF GoodInv, StacksAreGood, NamesAreGood, Docs, Good, Fits, Document
<1>2. Slot \in 1..Len(doc.features) + 1
  BY <1>1, SlotIs
<1>3. Added(id) = [features |-> InsertAt(doc.features, Slot, Made(id)), param |-> doc.param]
  BY <1>1 DEF Added, Slot, Document
<1>4. /\ InsertAt(doc.features, Slot, Made(id)) \in Seq(Feature)
      /\ Len(InsertAt(doc.features, Slot, Made(id))) = Len(doc.features) + 1
      /\ \A j \in 1..Len(doc.features) + 1 :
            InsertAt(doc.features, Slot, Made(id))[j] =
                 IF j < Slot THEN doc.features[j]
                 ELSE IF j = Slot THEN Made(id) ELSE doc.features[j - 1]
  <2>. DEFINE s == doc.features
              e == Made(id)
  <2>1. s \in Seq(Feature) /\ e \in Feature /\ Slot \in 1..Len(s) + 1
    BY <1>1, <1>2
  <2>. HIDE DEF s, e
  <2>2. /\ InsertAt(s, Slot, e) \in Seq(Feature)
        /\ Len(InsertAt(s, Slot, e)) = Len(s) + 1
        /\ \A j \in 1..Len(s) + 1 :
              InsertAt(s, Slot, e)[j] = IF j < Slot THEN s[j] ELSE IF j = Slot THEN e ELSE s[j - 1]
    BY <2>1, InsertAtIs
  <2>. QED BY <2>2 DEF s, e
<1>. QED BY <1>1, <1>2, <1>3, <1>4

\* It is solved for the parameter when it was.
LEMMA AddedIsGood ==
    ASSUME GoodInv, changes < MaxChanges, Room, NEW id \in Name
    PROVE  Good(Added(id)) /\ Added(id).param = doc.param
<1>1. Good(doc) /\ doc \in Document /\ Made(id).at = doc.param
  BY MadeIs DEF GoodInv, StacksAreGood, NamesAreGood, Docs, Good, Fits
<1>2. Len(Added(id).features) <= MaxFeatures /\ Added(id) \in Document /\ Added(id).param = doc.param
  BY <1>1, AddedIs, BoundsAssumption DEF Room, Document
<1>3. \A j \in DOMAIN doc.features : doc.features[j].at = doc.param
  BY <1>1 DEF Good, Solved
<1>4. DOMAIN Added(id).features = 1..Len(doc.features) + 1 /\ DOMAIN doc.features = 1..Len(doc.features)
  BY <1>1, AddedIs, LenProperties DEF Document
<1>5. ASSUME NEW j \in 1..Len(doc.features) + 1 PROVE Added(id).features[j].at = doc.param
  <2>1. /\ Slot \in 1..Len(doc.features) + 1 /\ Len(doc.features) \in Nat
        /\ Added(id).features[j] = IF j < Slot THEN doc.features[j]
                                   ELSE IF j = Slot THEN Made(id) ELSE doc.features[j - 1]
    BY AddedIs
  <2>2. CASE j < Slot
    BY <1>3, <1>4, <2>1, <2>2
  <2>3. CASE j = Slot
    BY <1>1, <2>1, <2>3
  <2>4. CASE j > Slot
    BY <1>3, <1>4, <2>1, <2>4
  <2>. QED BY <2>1, <2>2, <2>3, <2>4
<1>. QED BY <1>2, <1>4, <1>5 DEF Good, Fits, Solved

\* The document with one feature edited, as explicit records.
LEMMA EditedIsGood ==
    ASSUME GoodInv, changes < MaxChanges, NEW i \in DOMAIN doc.features
    PROVE  LET new == [doc EXCEPT !.features[i].val = Stamp, !.features[i].at = doc.param]
               f == [id |-> doc.features[i].id, born |-> doc.features[i].born,
                     val |-> Stamp, at |-> doc.param]
           IN  /\ new = [features |-> [doc.features EXCEPT ![i] = f], param |-> doc.param]
               /\ f \in Feature /\ Good(new)
<1>. DEFINE f == [id |-> doc.features[i].id, born |-> doc.features[i].born,
                  val |-> Stamp, at |-> doc.param]
            half == [doc EXCEPT !.features[i].val = Stamp]
            new == [doc EXCEPT !.features[i].val = Stamp, !.features[i].at = doc.param]
<1>1. /\ doc \in Document /\ Good(doc) /\ doc.features \in Seq(Feature)
      /\ doc.features[i] \in Feature /\ Stamp \in 1..MaxChanges /\ doc.param \in 0..MaxChanges
  BY BoundsAssumption DEF GoodInv, StacksAreGood, NamesAreGood, Docs, Good, Fits, Document, Stamp
<1>2. f \in Feature
  BY <1>1 DEF Feature
<1>3. half = [features |-> [doc.features EXCEPT ![i] = [doc.features[i] EXCEPT !.val = Stamp]],
              param |-> doc.param]
  <2>. DEFINE fs == [doc.features EXCEPT ![i] = [doc.features[i] EXCEPT !.val = Stamp]]
  <2>1. half = [doc EXCEPT !.features = fs]
    OBVIOUS
  <2>. HIDE DEF half, fs
  <2>2. half = [features |-> fs, param |-> doc.param]
    BY <1>1, <2>1 DEF Document
  <2>. QED BY <2>2 DEF fs
<1>4. new = [half EXCEPT !.features[i].at = doc.param]
  OBVIOUS
<1>5. [[doc.features[i] EXCEPT !.val = Stamp] EXCEPT !.at = doc.param] = f
  <2>. DEFINE x == doc.features[i]
              g == [x EXCEPT !.val = Stamp]
  <2>1. x = [id |-> x.id, born |-> x.born, val |-> x.val, at |-> x.at]
    BY <1>1 DEF Feature
  <2>. HIDE DEF x
  <2>2. g = [id |-> x.id, born |-> x.born, val |-> Stamp, at |-> x.at]
    BY <2>1
  <2>. HIDE DEF g
  <2>3. [g EXCEPT !.at = doc.param] = [id |-> x.id, born |-> x.born, val |-> Stamp, at |-> doc.param]
    BY <2>2
  <2>. QED BY <2>3 DEF x, g
<1>6. new = [features |-> [doc.features EXCEPT ![i] = f], param |-> doc.param]
  <2>. DEFINE fs == [doc.features EXCEPT ![i] = [doc.features[i] EXCEPT !.val = Stamp]]
  <2>1. new = [features |-> [fs EXCEPT ![i] = [fs[i] EXCEPT !.at = doc.param]], param |-> doc.param]
    <3>. HIDE DEF half, fs
    <3>. QED BY <1>3, <1>4 DEF fs
  <2>2. fs[i] = [doc.features[i] EXCEPT !.val = Stamp]
    BY <1>1
  <2>3. [fs EXCEPT ![i] = f] = [doc.features EXCEPT ![i] = f]
    BY <1>1
  <2>. HIDE DEF fs, f, new
  <2>. QED BY <1>5, <2>1, <2>2, <2>3
<1>. HIDE DEF f, new
<1>7. /\ [doc.features EXCEPT ![i] = f] \in Seq(Feature)
      /\ Len([doc.features EXCEPT ![i] = f]) = Len(doc.features)
      /\ \A j \in 1..Len(doc.features) :
            [doc.features EXCEPT ![i] = f][j] = IF j = i THEN f ELSE doc.features[j]
  BY <1>1, <1>2, ExceptSeq, LenProperties
<1>8. f.at = doc.param
  BY DEF f
<1>9. new \in Document /\ Len(new.features) <= MaxFeatures
  BY <1>1, <1>6, <1>7 DEF Good, Fits, Document
<1>10. Solved(new)
  BY <1>1, <1>6, <1>7, <1>8, LenProperties DEF Good, Solved
<1>. QED BY <1>2, <1>6, <1>9, <1>10 DEF Good, Fits, f, new

\* The document with one feature taken out.
LEMMA RemovedIsGood ==
    ASSUME GoodInv, NEW i \in DOMAIN doc.features
    PROVE  LET new == [doc EXCEPT !.features = RemoveAt(@, i)] IN
           /\ new = [features |-> RemoveAt(doc.features, i), param |-> doc.param]
           /\ Good(new)
<1>. DEFINE new == [doc EXCEPT !.features = RemoveAt(@, i)]
<1>1. /\ doc \in Document /\ Good(doc) /\ doc.features \in Seq(Feature)
      /\ DOMAIN doc.features = 1..Len(doc.features) /\ Len(doc.features) \in Nat
      /\ \A j \in DOMAIN doc.features : doc.features[j].at = doc.param
      /\ Len(doc.features) <= MaxFeatures
  BY LenProperties DEF GoodInv, StacksAreGood, Docs, Good, Fits, Solved, Document
<1>2. new = [features |-> RemoveAt(doc.features, i), param |-> doc.param]
  BY <1>1 DEF Document
<1>. HIDE DEF new
<1>3. /\ RemoveAt(doc.features, i) \in Seq(Feature)
      /\ Len(RemoveAt(doc.features, i)) = Len(doc.features) - 1
      /\ \A j \in 1..Len(doc.features) - 1 :
            RemoveAt(doc.features, i)[j] = IF j < i THEN doc.features[j] ELSE doc.features[j + 1]
  BY <1>1, RemoveAtIs
<1>4. new \in Document /\ Len(new.features) <= MaxFeatures
  BY <1>1, <1>2, <1>3, BoundsAssumption DEF Document
<1>5. Solved(new)
  <2>1. \A j \in 1..Len(doc.features) - 1 : j \in DOMAIN doc.features /\ j + 1 \in DOMAIN doc.features
    BY <1>1
  <2>2. DOMAIN new.features = 1..Len(doc.features) - 1 /\ new.param = doc.param
    BY <1>2, <1>3, LenProperties
  <2>. QED BY <1>1, <1>2, <1>3, <2>1, <2>2 DEF Solved
<1>. QED BY <1>2, <1>4, <1>5 DEF Good, Fits, new

\* t has the features of s at other places.
Permuted(s, t) ==
    \E p \in [1..Len(s) -> 1..Len(s)] :
        /\ \A k \in 1..Len(s) : t[k] = s[p[k]]
        /\ \A k, l \in 1..Len(s) : p[k] = p[l] => k = l

\* Taking out and putting in again permutes the list.
LEMMA MovedIs ==
    ASSUME NEW S, NEW s \in Seq(S), NEW i \in DOMAIN s, NEW j \in DOMAIN s
    PROVE  LET t == InsertAt(RemoveAt(s, i), j, s[i]) IN
           /\ t \in Seq(S) /\ Len(t) = Len(s)
           /\ \A k \in 1..Len(s) : \E l \in 1..Len(s) : t[k] = s[l]
           /\ \A l \in 1..Len(s) : \E k \in 1..Len(s) : t[k] = s[l]
           /\ Permuted(s, t)
<1>. DEFINE r == RemoveAt(s, i)
            t == InsertAt(r, j, s[i])
            n == Len(s)
            p(k) == IF k = j THEN i
                    ELSE LET l == IF k < j THEN k ELSE k - 1
                         IN IF l < i THEN l ELSE l + 1
<1>1. n \in Nat /\ DOMAIN s = 1..n /\ i \in 1..n /\ j \in 1..n /\ s[i] \in S
  OBVIOUS
<1>2. /\ r \in Seq(S) /\ Len(r) = n - 1
      /\ \A k \in 1..n - 1 : r[k] = IF k < i THEN s[k] ELSE s[k + 1]
  BY <1>1, RemoveAtIs
<1>3. /\ t \in Seq(S) /\ Len(t) = Len(r) + 1
      /\ \A k \in 1..Len(r) + 1 : t[k] = IF k < j THEN r[k] ELSE IF k = j THEN s[i] ELSE r[k - 1]
  <2>. DEFINE e == s[i]
  <2>1. j \in 1..Len(r) + 1 /\ r \in Seq(S) /\ e \in S
    BY <1>1, <1>2
  <2>. HIDE DEF r, e, t, n, p
  <2>2. ASSUME NEW q \in Seq(S), NEW m \in 1..Len(q) + 1, NEW x \in S
        PROVE  /\ InsertAt(q, m, x) \in Seq(S) /\ Len(InsertAt(q, m, x)) = Len(q) + 1
               /\ \A k \in 1..Len(q) + 1 :
                     InsertAt(q, m, x)[k] = IF k < m THEN q[k] ELSE IF k = m THEN x ELSE q[k - 1]
    BY InsertAtIs
  <2>3. /\ InsertAt(r, j, e) \in Seq(S) /\ Len(InsertAt(r, j, e)) = Len(r) + 1
        /\ \A k \in 1..Len(r) + 1 :
              InsertAt(r, j, e)[k] = IF k < j THEN r[k] ELSE IF k = j THEN e ELSE r[k - 1]
    BY <2>1, <2>2, Zenon
  <2>. QED BY <2>3 DEF e, t
<1>. HIDE DEF t, r, n
<1>4. \A k \in 1..n : t[k] = s[p(k)] /\ p(k) \in 1..n
  <2>. SUFFICES ASSUME NEW k \in 1..n PROVE t[k] = s[p(k)] /\ p(k) \in 1..n
    OBVIOUS
  <2>1. k \in 1..Len(r) + 1
    BY <1>1, <1>2
  <2>2. CASE k = j
    BY <1>1, <1>3, <2>1, <2>2
  <2>3. CASE k < j
    <3>1. k \in 1..n - 1 /\ t[k] = r[k] /\ k # j
      BY <1>1, <1>3, <2>1, <2>3
    <3>. QED BY <1>1, <1>2, <2>3, <3>1
  <2>4. CASE k > j
    <3>1. k - 1 \in 1..n - 1 /\ t[k] = r[k - 1] /\ k # j /\ ~(k < j)
      BY <1>1, <1>3, <2>1, <2>4
    <3>2. r[k - 1] = IF k - 1 < i THEN s[k - 1] ELSE s[(k - 1) + 1]
      BY <1>2, <3>1
    <3>. QED BY <1>1, <2>4, <3>1, <3>2
  <2>. QED BY <1>1, <2>2, <2>3, <2>4
<1>5. \A k, l \in 1..n : p(k) = p(l) => k = l
  BY <1>1
<1>6. \A l \in 1..n : \E k \in 1..n : p(k) = l
  <2>. SUFFICES ASSUME NEW l \in 1..n PROVE \E k \in 1..n : p(k) = l
    OBVIOUS
  <2>1. CASE l = i
    BY <1>1, <2>1
  <2>2. CASE l # i
    <3>. DEFINE m == IF l < i THEN l ELSE l - 1
                k == IF m < j THEN m ELSE m + 1
    <3>1. m \in 1..n - 1 /\ k \in 1..n /\ k # j
      BY <1>1, <2>2
    <3>2. p(k) = l
      BY <1>1, <2>2, <3>1
    <3>. QED BY <3>1, <3>2
  <2>. QED BY <2>1, <2>2
<1>. HIDE DEF p
<1>7. Len(t) = n
  BY <1>1, <1>2, <1>3
<1>8. /\ \A k \in 1..n : \E l \in 1..n : t[k] = s[l]
      /\ \A l \in 1..n : \E k \in 1..n : t[k] = s[l]
  BY <1>4, <1>6
<1>9. \E q \in [1..n -> 1..n] :
          /\ \A k \in 1..n : t[k] = s[q[k]]
          /\ \A k, l \in 1..n : q[k] = q[l] => k = l
  <2>. DEFINE q == [k \in 1..n |-> p(k)]
  <2>1. q \in [1..n -> 1..n] /\ \A k \in 1..n : q[k] = p(k)
    BY <1>4
  <2>. HIDE DEF q
  <2>2. /\ \A k \in 1..n : t[k] = s[q[k]]
        /\ \A k, l \in 1..n : q[k] = q[l] => k = l
    BY <1>4, <1>5, <2>1
  <2>. QED BY <2>1, <2>2
<1>10. Permuted(s, t)
  BY <1>9 DEF Permuted, n
<1>. QED BY <1>3, <1>7, <1>8, <1>10 DEF t, r, n

\* The document with one feature moved.
LEMMA MovedIsGood ==
    ASSUME GoodInv, NEW i \in DOMAIN doc.features, NEW j \in DOMAIN doc.features
    PROVE  LET new == [doc EXCEPT !.features = InsertAt(RemoveAt(@, i), j, @[i])] IN
           /\ new = [features |-> InsertAt(RemoveAt(doc.features, i), j, doc.features[i]),
                     param |-> doc.param]
           /\ Good(new)
<1>. DEFINE new == [doc EXCEPT !.features = InsertAt(RemoveAt(@, i), j, @[i])]
            t == InsertAt(RemoveAt(doc.features, i), j, doc.features[i])
<1>1. /\ doc \in Document /\ doc.features \in Seq(Feature)
      /\ DOMAIN doc.features = 1..Len(doc.features)
      /\ \A k \in DOMAIN doc.features : doc.features[k].at = doc.param
      /\ Len(doc.features) <= MaxFeatures
  BY LenProperties DEF GoodInv, StacksAreGood, Docs, Good, Fits, Solved, Document
<1>2. new = [features |-> t, param |-> doc.param]
  BY <1>1 DEF Document
<1>3. /\ t \in Seq(Feature) /\ Len(t) = Len(doc.features)
      /\ \A k \in 1..Len(doc.features) : \E l \in 1..Len(doc.features) : t[k] = doc.features[l]
  <2>. DEFINE s == doc.features
  <2>1. s \in Seq(Feature) /\ i \in DOMAIN s /\ j \in DOMAIN s
    BY <1>1
  <2>. HIDE DEF s
  <2>2. LET u == InsertAt(RemoveAt(s, i), j, s[i]) IN
        /\ u \in Seq(Feature) /\ Len(u) = Len(s)
        /\ \A k \in 1..Len(s) : \E l \in 1..Len(s) : u[k] = s[l]
    BY <2>1, MovedIs
  <2>. QED BY <2>2 DEF s
<1>. HIDE DEF new, t
<1>4. Solved(new)
  <2>1. DOMAIN t = 1..Len(doc.features)
    BY <1>3, LenProperties
  <2>2. \A k \in DOMAIN t : t[k].at = doc.param
    <3>. SUFFICES ASSUME NEW k \in 1..Len(doc.features) PROVE t[k].at = doc.param
      BY <2>1
    <3>1. PICK l \in 1..Len(doc.features) : t[k] = doc.features[l]
      BY <1>3
    <3>. QED BY <1>1, <3>1
  <2>. QED BY <1>2, <2>2 DEF Solved
<1>. QED BY <1>1, <1>2, <1>3, <1>4 DEF Good, Fits, Document, new, t

\* The draft of a parameter edit is solved for the new value and keeps every name.
LEMMA DraftIsGood ==
    ASSUME NEW d, Good(d), NEW v \in 0..MaxChanges
    PROVE  /\ Good(Draft(d, v)) /\ Draft(d, v).param = v
           /\ DOMAIN Draft(d, v).features = DOMAIN d.features
           /\ \A i \in DOMAIN d.features :
                 /\ Draft(d, v).features[i].id = d.features[i].id
                 /\ Draft(d, v).features[i].born = d.features[i].born
                 /\ Draft(d, v).features[i].val = d.features[i].val
<1>1. /\ d.features \in Seq(Feature) /\ DOMAIN d.features = 1..Len(d.features)
      /\ Len(d.features) \in Nat /\ Len(d.features) <= MaxFeatures
  BY LenProperties DEF Good, Fits, Document
<1>. DEFINE g(i) == [d.features[i] EXCEPT !.at = v]
            fs == [i \in DOMAIN d.features |-> g(i)]
<1>2. \A i \in DOMAIN d.features :
          g(i) \in Feature /\ g(i).at = v /\ g(i).id = d.features[i].id
          /\ g(i).born = d.features[i].born /\ g(i).val = d.features[i].val
  <2>1. ASSUME NEW f \in Feature
        PROVE  [f EXCEPT !.at = v] = [id |-> f.id, born |-> f.born, val |-> f.val, at |-> v]
    <3>1. f = [id |-> f.id, born |-> f.born, val |-> f.val, at |-> f.at]
      BY DEF Feature
    <3>. QED BY <3>1
  <2>2. \A f \in Feature : [id |-> f.id, born |-> f.born, val |-> f.val, at |-> v] \in Feature
    BY DEF Feature
  <2>3. \A i \in DOMAIN d.features : d.features[i] \in Feature
    BY <1>1
  <2>4. ASSUME NEW i \in DOMAIN d.features
        PROVE  g(i) = [id |-> d.features[i].id, born |-> d.features[i].born,
                       val |-> d.features[i].val, at |-> v]
    BY <2>1, <2>3
  <2>5. ASSUME NEW i \in DOMAIN d.features
        PROVE  g(i) \in Feature
    <3>. HIDE DEF g
    <3>. QED BY <2>2, <2>3, <2>4
  <2>. HIDE DEF g
  <2>. QED BY <2>4, <2>5
<1>3. Draft(d, v) = [features |-> fs, param |-> v]
  BY DEF Draft
<1>. HIDE DEF g
<1>4. fs \in Seq(Feature) /\ Len(fs) = Len(d.features) /\ DOMAIN fs = DOMAIN d.features
      /\ \A i \in DOMAIN d.features : fs[i] = g(i)
  BY <1>1, <1>2
<1>. HIDE DEF fs
<1>. QED BY <1>1, <1>2, <1>3, <1>4 DEF Good, Fits, Solved, Document

\* A sketch as it is written back.
LEMMA RewrittenIs ==
    ASSUME NEW f \in Feature
    PROVE  Rewritten(f) = [id |-> f.id, born |-> f.born,
                           val |-> IF solving.kind = "dimension" THEN solving.value ELSE f.val,
                           at |-> solving.at]
<1>. DEFINE g == [f EXCEPT !.at = solving.at]
            v == IF solving.kind = "dimension" THEN solving.value ELSE g.val
<1>1. f = [id |-> f.id, born |-> f.born, val |-> f.val, at |-> f.at]
  BY DEF Feature
<1>2. g = [id |-> f.id, born |-> f.born, val |-> f.val, at |-> solving.at]
  BY <1>1
<1>3. Rewritten(f) = [g EXCEPT !.val = v]
  BY DEF Rewritten
<1>4. g.val = f.val
  BY <1>2
<1>. HIDE DEF g
<1>5. [g EXCEPT !.val = v] = [id |-> f.id, born |-> f.born, val |-> v, at |-> solving.at]
  BY <1>2
<1>. QED BY <1>3, <1>4, <1>5

\* What a commit that lands writes: the sketches it read, solved for the parameter the
\* document has.
LEMMA LandedIs ==
    ASSUME GoodInv, solving.kind \in {"dimension", "refresh"}, Current # {}
    PROVE  /\ Landed(Current).param = doc.param /\ Good(Landed(Current))
           /\ DOMAIN Landed(Current).features = DOMAIN doc.features
           /\ \A i \in DOMAIN doc.features :
                 \/ /\ Landed(Current).features[i] = doc.features[i]
                    /\ \A f \in Current : f.id # doc.features[i].id
                 \/ \E f \in Current : /\ f.id = doc.features[i].id
                                       /\ Landed(Current).features[i] = Rewritten(f)
<1>. DEFINE pick(i) == CHOOSE f \in Current : f.id = doc.features[i].id
            g(i) == IF \E f \in Current : f.id = doc.features[i].id
                    THEN Rewritten(pick(i)) ELSE doc.features[i]
            fs == [i \in DOMAIN doc.features |-> g(i)]
<1>1. /\ doc \in Document /\ doc.features \in Seq(Feature)
      /\ DOMAIN doc.features = 1..Len(doc.features) /\ Len(doc.features) \in Nat
      /\ Len(doc.features) <= MaxFeatures
      /\ \A i \in DOMAIN doc.features : doc.features[i].at = doc.param
      /\ doc.param \in 0..MaxChanges
  BY LenProperties DEF GoodInv, StacksAreGood, Docs, Good, Fits, Solved, Document
<1>2. /\ Current \subseteq Feature /\ solving.at = doc.param
      /\ solving.kind = "dimension" => solving.value \in 1..MaxChanges
  BY DEF GoodInv, SolvingIsGood, Current
<1>3. Landed(Current) = [features |-> fs, param |-> doc.param]
  <2>1. Landed(Current) = [doc EXCEPT !.features = fs]
    BY DEF Landed
  <2>. HIDE DEF fs
  <2>. QED BY <1>1, <2>1 DEF Document
<1>4. \A i \in DOMAIN doc.features :
          (\E f \in Current : f.id = doc.features[i].id)
              => pick(i) \in Current /\ pick(i).id = doc.features[i].id
  OBVIOUS
<1>. HIDE DEF pick
<1>5. \A f \in Current : Rewritten(f) \in Feature /\ Rewritten(f).at = doc.param
  <2>. SUFFICES ASSUME NEW f \in Current
                PROVE  Rewritten(f) \in Feature /\ Rewritten(f).at = doc.param
    OBVIOUS
  <2>1. Rewritten(f) = [id |-> f.id, born |-> f.born,
                        val |-> IF solving.kind = "dimension" THEN solving.value ELSE f.val,
                        at |-> solving.at]
    BY <1>2, RewrittenIs
  <2>. QED BY <1>1, <1>2, <2>1 DEF Feature
<1>6. \A i \in DOMAIN doc.features : g(i) \in Feature /\ g(i).at = doc.param
  BY <1>1, <1>4, <1>5
<1>7. \A i \in DOMAIN doc.features :
          \/ g(i) = doc.features[i] /\ \A f \in Current : f.id # doc.features[i].id
          \/ \E f \in Current : f.id = doc.features[i].id /\ g(i) = Rewritten(f)
  BY <1>4
<1>. HIDE DEF g
<1>8. fs \in Seq(Feature) /\ Len(fs) = Len(doc.features) /\ DOMAIN fs = DOMAIN doc.features
      /\ \A i \in DOMAIN doc.features : fs[i] = g(i)
  BY <1>1, <1>6
<1>. HIDE DEF fs
<1>. QED BY <1>1, <1>3, <1>6, <1>7, <1>8 DEF Good, Fits, Solved, Document

\* What stays of a document when the import's feature is withdrawn.
Kept(d) == {i \in DOMAIN d.features : d.features[i].id # import.id}

\* A document without the import's feature is solved when the document was.
LEMMA WithoutIs ==
    ASSUME NEW d, Fits(d)
    PROVE  /\ Without(d) = [features |-> Filtered(d.features, Kept(d)), param |-> d.param]
           /\ Kept(d) \in SUBSET DOMAIN d.features
           /\ Fits(Without(d)) /\ (Solved(d) => Solved(Without(d)))
<1>. DEFINE K == Kept(d)
            s == d.features
<1>1. d \in Document /\ s \in Seq(Feature) /\ DOMAIN s = 1..Len(s) /\ Len(s) <= MaxFeatures
      /\ d.param \in 0..MaxChanges /\ Len(s) \in Nat
  BY LenProperties DEF Fits, Document
<1>2. Without(d) = [features |-> Filtered(s, K), param |-> d.param]
  <2>1. Without(d) = [d EXCEPT !.features = Filtered(s, K)]
    BY DEF Without, Kept
  <2>. HIDE DEF K, s
  <2>. QED BY <1>1, <2>1 DEF Document
<1>3. K \in SUBSET DOMAIN s
  BY DEF Kept
<1>. HIDE DEF K, s
<1>4. /\ Filtered(s, K) \in Seq(Feature)
      /\ Len(Filtered(s, K)) = Cardinality(K) /\ Cardinality(K) \in Nat
      /\ Cardinality(K) <= Len(s)
      /\ \A k \in 1..Cardinality(K) : Filtered(s, K)[k] = s[Nth(K, k)] /\ Nth(K, k) \in K
  BY <1>1, <1>3, FilteredIs
<1>5. Fits(Without(d))
  BY <1>1, <1>2, <1>4, BoundsAssumption DEF Fits, Document
<1>6. ASSUME Solved(d) PROVE Solved(Without(d))
  <2>1. DOMAIN Filtered(s, K) = 1..Cardinality(K)
    BY <1>4, LenProperties
  <2>2. \A i \in DOMAIN s : s[i].at = d.param
    BY <1>6 DEF Solved, s
  <2>3. \A k \in 1..Cardinality(K) : Filtered(s, K)[k].at = d.param
    BY <1>3, <1>4, <2>2
  <2>4. Without(d).features = Filtered(s, K) /\ Without(d).param = d.param
    BY <1>2
  <2>. QED BY <2>1, <2>3, <2>4 DEF Solved
<1>. QED BY <1>2, <1>3, <1>5, <1>6 DEF K, s

\* An entry with its mark set.
LEMMA MarkIs ==
    ASSUME NEW x \in Entry, NEW v
    PROVE  [x EXCEPT !.added = v] = [doc |-> x.doc, added |-> v]
<1>. DEFINE a == x.doc
            b == x.added
<1>1. x = [doc |-> a, added |-> b]
  BY DEF Entry
<1>. HIDE DEF a, b
<1>2. [x EXCEPT !.added = v] = [[doc |-> a, added |-> b] EXCEPT !.added = v]
  BY <1>1, Zenon
<1>3. [[doc |-> a, added |-> b] EXCEPT !.added = v] = [doc |-> a, added |-> v]
  OBVIOUS
<1>4. [x EXCEPT !.added = v] = [doc |-> a, added |-> v]
  BY <1>2, <1>3, Zenon
<1>. QED BY <1>4 DEF a

\* The stack with no marks, entry by entry.
LEMMA UnmarkedIs ==
    ASSUME undoStack \in Seq(Entry)
    PROVE  /\ Unmarked(undoStack) \in Seq(Entry) /\ Len(Unmarked(undoStack)) = Len(undoStack)
           /\ \A i \in DOMAIN undoStack :
                 Unmarked(undoStack)[i] = [doc |-> undoStack[i].doc, added |-> FALSE]
<1>1. DOMAIN undoStack = 1..Len(undoStack) /\ Len(undoStack) \in Nat
  BY LenProperties
<1>. DEFINE g(i) == [undoStack[i] EXCEPT !.added = FALSE]
<1>2. \A i \in 1..Len(undoStack) : g(i) = [doc |-> undoStack[i].doc, added |-> FALSE] /\ g(i) \in Entry
  <2>1. ASSUME NEW x \in Entry
        PROVE  [x EXCEPT !.added = FALSE] = [doc |-> x.doc, added |-> FALSE]
    BY MarkIs, Zenon
  <2>2. \A x \in Entry : [doc |-> x.doc, added |-> FALSE] \in Entry
    BY DEF Entry
  <2>3. \A i \in 1..Len(undoStack) : undoStack[i] \in Entry
    BY <1>1
  <2>. QED BY <2>1, <2>2, <2>3
<1>3. Unmarked(undoStack) = [i \in 1..Len(undoStack) |-> g(i)]
  BY <1>1 DEF Unmarked
<1>. HIDE DEF g
<1>. QED BY <1>1, <1>2, <1>3

\* Its documents are the same.
LEMMA UnmarkedDocs ==
    ASSUME undoStack \in Seq(Entry)
    PROVE  /\ DOMAIN Unmarked(undoStack) = 1..Len(undoStack)
           /\ \A i \in 1..Len(undoStack) : Unmarked(undoStack)[i].doc = undoStack[i].doc
<1>. DEFINE u == Unmarked(undoStack)
<1>1. /\ DOMAIN undoStack = 1..Len(undoStack) /\ u \in Seq(Entry) /\ Len(u) = Len(undoStack)
      /\ \A i \in DOMAIN undoStack : u[i] = [doc |-> undoStack[i].doc, added |-> FALSE]
  BY UnmarkedIs, LenProperties
<1>2. ASSUME NEW a PROVE [doc |-> a, added |-> FALSE].doc = a
  OBVIOUS
<1>3. ASSUME NEW i \in DOMAIN undoStack PROVE u[i].doc = undoStack[i].doc
  <2>. HIDE DEF u
  <2>. QED BY <1>1, <1>2, Zenon
<1>. QED BY <1>1, <1>3, LenProperties

------------------------------------------------------------------------
\* The chain of commits.

\* A commit begins with sketches solved for the parameter it has read.
LEMMA BeginIsGood ==
    ASSUME NEW c \in Commit, c.kind = "dimension" => c.value # 0, NEW d, Good(d)
    PROVE  LET b == Begin(c, d) IN
           /\ DOMAIN b = {"kind", "value", "sameObjects", "at", "seen", "draft"}
           /\ b.kind \in CommitKind
           /\ b.kind = "param" => Good(b.draft)
           /\ b.seen \subseteq Feature /\ b.at = d.param
           /\ b.kind = "dimension" => b.value \in 1..MaxChanges
<1>1. c.kind \in CommitKind /\ c.value \in 0..MaxChanges /\ MaxChanges \in Nat
  BY BoundsAssumption DEF Commit
<1>2. Good(Draft(d, c.value))
  BY <1>1, DraftIsGood
<1>3. Range(d.features) \subseteq Feature
  BY LenProperties DEF Good, Fits, Document, Range
<1>. QED BY <1>1, <1>2, <1>3 DEF Begin

\* What an exchange of the document leaves of the commit under way.
LEMMA SwappedIs ==
    ASSUME SolvingIsGood
    PROVE  /\ DOMAIN Swapped = {"kind", "value", "sameObjects", "at", "seen", "draft"}
           /\ Swapped.kind = solving.kind /\ Swapped.value = solving.value
           /\ Swapped.seen = solving.seen /\ Swapped.draft = solving.draft
           /\ Swapped.at = solving.at /\ ~Swapped.sameObjects
BY DEF Swapped, SolvingIsGood

\* The next commit reads the document that the last one left.
LEMMA GoOnKeeps ==
    ASSUME ChainIsGood, Good(doc'), GoOn
    PROVE  SolvingIsGood' /\ ChainIsGood'
<1>1. CASE paramChain = <<>>
  <2>1. solving' = Resting /\ paramChain' = paramChain
    BY <1>1 DEF GoOn
  <2>. QED BY <2>1 DEF Resting, SolvingIsGood, ChainIsGood
<1>2. CASE paramChain # <<>>
  <2>1. solving' = Begin(Head(paramChain), doc') /\ paramChain' = Tail(paramChain)
    BY <1>2 DEF GoOn
  <2>2. /\ Head(paramChain) \in Commit /\ Head(paramChain) = paramChain[1]
        /\ Tail(paramChain) \in Seq(Commit) /\ Len(Tail(paramChain)) = Len(paramChain) - 1
        /\ \A i \in 1..Len(Tail(paramChain)) : Tail(paramChain)[i] = paramChain[i + 1]
        /\ DOMAIN paramChain = 1..Len(paramChain) /\ Len(paramChain) \in Nat
        /\ Len(paramChain) # 0
    BY <1>2, HeadTailProperties, EmptySeq, LenProperties DEF ChainIsGood
  <2>3. Head(paramChain).kind = "dimension" => Head(paramChain).value # 0
    BY <2>2 DEF ChainIsGood
  <2>. DEFINE c == Head(paramChain)
              b == Begin(c, doc')
  <2>4. /\ DOMAIN b = {"kind", "value", "sameObjects", "at", "seen", "draft"}
        /\ b.kind \in CommitKind
        /\ b.kind = "param" => Good(b.draft)
        /\ b.seen \subseteq Feature /\ b.at = doc'.param
        /\ b.kind = "dimension" => b.value \in 1..MaxChanges
    <3>1. c \in Commit /\ (c.kind = "dimension" => c.value # 0)
      BY <2>2, <2>3
    <3>. HIDE DEF c
    <3>. QED BY <3>1, BeginIsGood
  <2>. HIDE DEF b
  <2>5. SolvingIsGood'
    BY <2>1, <2>4 DEF SolvingIsGood, b, Good, Fits, Solved
  <2>6. ChainIsGood'
    <3>1. paramChain' \in Seq(Commit) /\ Len(paramChain') <= MaxQueued
      BY <2>1, <2>2, BoundsAssumption DEF ChainIsGood
    <3>2. \A i \in DOMAIN paramChain' : paramChain'[i] = paramChain[i + 1] /\ i + 1 \in DOMAIN paramChain
      BY <2>1, <2>2, LenProperties
    <3>. QED BY <3>1, <3>2 DEF ChainIsGood
  <2>. QED BY <2>5, <2>6
<1>. QED BY <1>1, <1>2

\* A commit that is asked for begins or waits.
LEMMA QueueKeeps ==
    ASSUME GoodInv, NEW c \in Commit, c.kind = "dimension" => c.value # 0, Queue(c)
    PROVE  StacksAreGood' /\ SolvingIsGood' /\ ChainIsGood'
<1>1. /\ Len(paramChain) < MaxQueued
      /\ UNCHANGED <<doc, rollback, suppressed, undoStack, redoStack, tool, import>>
  BY DEF Queue
<1>2. StacksAreGood'
  BY <1>1 DEF GoodInv, StacksAreGood, Docs, Good, Fits, Solved
<1>3. CASE solving = Resting
  <2>1. solving' = Begin(c, doc) /\ paramChain' = paramChain
    BY <1>3 DEF Queue
  <2>2. Good(doc)
    BY DEF GoodInv, StacksAreGood, Docs
  <2>. DEFINE b == Begin(c, doc)
  <2>3. /\ DOMAIN b = {"kind", "value", "sameObjects", "at", "seen", "draft"}
        /\ b.kind \in CommitKind
        /\ b.kind = "param" => Good(b.draft)
        /\ b.seen \subseteq Feature /\ b.at = doc.param
        /\ b.kind = "dimension" => b.value \in 1..MaxChanges
    BY <2>2, BeginIsGood
  <2>. HIDE DEF b
  <2>4. SolvingIsGood'
    BY <1>1, <2>1, <2>3 DEF SolvingIsGood, b, Good, Fits, Solved
  <2>. QED BY <1>2, <2>1, <2>4 DEF GoodInv, ChainIsGood
<1>4. CASE solving # Resting
  <2>1. solving' = solving /\ paramChain' = Append(paramChain, c)
    BY <1>4 DEF Queue
  <2>2. SolvingIsGood'
    BY <1>1, <2>1 DEF GoodInv, SolvingIsGood, Good, Fits, Solved
  <2>3. paramChain \in Seq(Commit) /\ Len(paramChain) \in Nat /\ MaxQueued \in Nat
    BY BoundsAssumption DEF GoodInv, ChainIsGood
  <2>4. /\ paramChain' \in Seq(Commit) /\ Len(paramChain') = Len(paramChain) + 1
        /\ \A i \in 1..Len(paramChain) : paramChain'[i] = paramChain[i]
        /\ paramChain'[Len(paramChain) + 1] = c
    BY <2>1, <2>3, AppendProperties
  <2>5. \A i \in DOMAIN paramChain' : i \in DOMAIN paramChain \/ i = Len(paramChain) + 1
    BY <2>3, <2>4, LenProperties
  <2>6. \A i \in DOMAIN paramChain' : paramChain'[i] = c \/ (i \in DOMAIN paramChain /\ paramChain'[i] = paramChain[i])
    BY <2>3, <2>4, <2>5, LenProperties
  <2>7. ChainIsGood'
    BY <1>1, <2>3, <2>4, <2>6 DEF GoodInv, ChainIsGood
  <2>. QED BY <1>2, <2>2, <2>7
<1>. QED BY <1>3, <1>4

------------------------------------------------------------------------
\* Every step keeps it.

\* Every change made through mutate keeps the invariant.
LEMMA ChangeKeeps ==
    ASSUME GoodInv, NEW new, Good(new), new.param = doc.param, Mutate(new),
           UNCHANGED <<solving, paramChain, import>>, Changed, changes < MaxChanges,
           rollback' \in {Null} \cup 0..(MaxFeatures + changes + 1),
           suppressed' \subseteq Name, tool' \in {Null} \cup Name
    PROVE  GoodInv'
<1>1. StacksAreGood'
  BY MutateKeeps DEF GoodInv
<1>2. doc'.param = doc.param
  BY DEF Mutate
<1>3. SolvingIsGood' /\ ChainIsGood'
  BY <1>2 DEF GoodInv, SolvingIsGood, ChainIsGood, Good, Fits, Solved
<1>4. NamesAreGood'
  <2>1. changes' = changes + 1 /\ changes \in Nat /\ MaxFeatures \in Nat /\ MaxChanges \in Nat
    BY BoundsAssumption DEF Changed, Stamp, GoodInv, NamesAreGood
  <2>2. rollback' \in {Null} \cup 0..(MaxFeatures + changes')
    BY <2>1
  <2>. QED BY <2>1, <2>2 DEF GoodInv, NamesAreGood
<1>. QED BY <1>1, <1>3, <1>4 DEF GoodInv

\* The marker stays a place the timeline could have: it moves on with a feature that
\* is added before it, and back with one that goes.
LEMMA MarkersAreAlways ==
    ASSUME GoodInv
    PROVE  /\ MarkerAfterAdd \in {Null} \cup 0..(MaxFeatures + changes + 1)
           /\ \A i \in Nat : MarkerAfterRemove(i + 1) \in {Null} \cup 0..(MaxFeatures + changes)
<1>1. changes \in Nat /\ MaxFeatures \in Nat /\ rollback \in {Null} \cup 0..(MaxFeatures + changes)
  BY BoundsAssumption DEF GoodInv, NamesAreGood
<1>2. CASE rollback = Null
  BY <1>1, <1>2 DEF MarkerAfterAdd, MarkerAfterRemove
<1>3. CASE rollback # Null
  <2>1. rollback \in 0..(MaxFeatures + changes)
    BY <1>1, <1>3
  <2>2. MarkerAfterAdd = rollback + 1
    BY <1>3 DEF MarkerAfterAdd
  <2>3. \A i : MarkerAfterRemove(i) = IF i <= rollback THEN rollback - 1 ELSE rollback
    BY <1>3 DEF MarkerAfterRemove
  <2>4. \A i \in Nat : i + 1 <= rollback => rollback - 1 \in 0..(MaxFeatures + changes)
    BY <1>1, <2>1
  <2>. QED BY <1>1, <2>1, <2>2, <2>3, <2>4
<1>. QED BY <1>2, <1>3

\* The same, for a step that counts one change more.
LEMMA MarkersAre ==
    ASSUME GoodInv
    PROVE  /\ MarkerAfterAdd \in {Null} \cup 0..(MaxFeatures + changes + 1)
           /\ rollback \in {Null} \cup 0..(MaxFeatures + changes + 1)
           /\ \A i \in Nat : MarkerAfterRemove(i + 1) \in {Null} \cup 0..(MaxFeatures + changes + 1)
<1>1. changes \in Nat /\ MaxFeatures \in Nat /\ rollback \in {Null} \cup 0..(MaxFeatures + changes)
  BY BoundsAssumption DEF GoodInv, NamesAreGood
<1>2. 0..(MaxFeatures + changes) \subseteq 0..(MaxFeatures + changes + 1)
  BY <1>1
<1>. QED BY <1>1, <1>2, MarkersAreAlways

\* An empty document has no history, no commit, no tool and no import.
LEMMA InitGood == Init => GoodInv
<1>. SUFFICES ASSUME Init PROVE GoodInv
  OBVIOUS
<1>. USE BoundsAssumption DEF Init
<1>1. Good(doc)
  BY DEF Good, Fits, Solved, Document
<1>2. StacksAreGood
  <2>1. undoStack \in Seq(Entry) /\ redoStack \in Seq(Document) /\ Len(undoStack) = 0
    OBVIOUS
  <2>2. Docs = {doc}
    BY DEF Docs, Range
  <2>. QED BY <1>1, <2>1, <2>2 DEF StacksAreGood
<1>3. SolvingIsGood
  BY DEF SolvingIsGood, Resting
<1>4. ChainIsGood
  BY DEF ChainIsGood
<1>5. NamesAreGood
  BY DEF NamesAreGood, NoImport
<1>. QED BY <1>2, <1>3, <1>4, <1>5 DEF GoodInv

\* Adding a feature keeps the invariant.
LEMMA AddsKeep ==
    ASSUME GoodInv
    PROVE  (AddFeature \/ CommitTool) => GoodInv'
<1>0. Good(doc) /\ NextId(doc.features) \in Name
  BY NextIdIs DEF GoodInv, StacksAreGood, Docs, Good, Fits, Document
<1>1. CASE AddFeature
  <2>. DEFINE id == NextId(doc.features)
  <2>1. Good(Added(id)) /\ Added(id).param = doc.param
    BY <1>0, <1>1, AddedIsGood DEF AddFeature, MayChange
  <2>. HIDE DEF id
  <2>2. /\ Mutate(Added(id)) /\ rollback' = MarkerAfterAdd /\ Changed /\ changes < MaxChanges
        /\ UNCHANGED <<suppressed, solving, paramChain, tool, import>>
    BY <1>1 DEF AddFeature, MayChange, id
  <2>. QED BY <2>1, <2>2, MarkersAre, ChangeKeeps DEF GoodInv, NamesAreGood
<1>2. CASE CommitTool
  <2>1. tool \in Name /\ changes < MaxChanges /\ Room
    BY <1>2 DEF CommitTool, MayChange, GoodInv, NamesAreGood
  <2>2. Good(Added(tool)) /\ Added(tool).param = doc.param
    BY <2>1, AddedIsGood
  <2>3. /\ Mutate(Added(tool)) /\ rollback' = MarkerAfterAdd /\ Changed
        /\ UNCHANGED <<suppressed, solving, paramChain, import>> /\ tool' = Null
    BY <1>2 DEF CommitTool
  <2>. QED BY <2>1, <2>2, <2>3, MarkersAre, ChangeKeeps DEF GoodInv, NamesAreGood
<1>. QED BY <1>1, <1>2

\* So do the edits, removals and moves,
LEMMA EditsKeep ==
    ASSUME GoodInv
    PROVE  (EditFeature \/ RemoveFeature \/ MoveFeature) => GoodInv'
<1>0. doc.features \in Seq(Feature) /\ Len(doc.features) \in Nat /\ DOMAIN doc.features = 1..Len(doc.features)
  BY LenProperties DEF GoodInv, StacksAreGood, Docs, Good, Fits, Document
<1>1. CASE EditFeature
  <2>1. PICK i \in DOMAIN doc.features :
            Mutate([doc EXCEPT !.features[i].val = Stamp, !.features[i].at = doc.param])
    BY <1>1 DEF EditFeature
  <2>. DEFINE new == [doc EXCEPT !.features[i].val = Stamp, !.features[i].at = doc.param]
  <2>2. changes < MaxChanges /\ Changed /\ UNCHANGED <<rollback, suppressed, solving, paramChain, tool, import>>
    BY <1>1 DEF EditFeature, MayChange
  <2>3. Good(new) /\ new.param = doc.param
    BY <2>2, EditedIsGood
  <2>. HIDE DEF new
  <2>4. Mutate(new)
    BY <2>1 DEF new
  <2>. QED BY <2>2, <2>3, <2>4, MarkersAre, ChangeKeeps DEF GoodInv, NamesAreGood
<1>2. CASE RemoveFeature
  <2>1. PICK i \in DOMAIN doc.features :
            /\ Mutate([doc EXCEPT !.features = RemoveAt(@, i)])
            /\ rollback' = MarkerAfterRemove(i)
            /\ suppressed' = suppressed \ {doc.features[i].id}
    BY <1>2 DEF RemoveFeature
  <2>. DEFINE new == [doc EXCEPT !.features = RemoveAt(@, i)]
  <2>2. changes < MaxChanges /\ Changed /\ UNCHANGED <<solving, paramChain, tool, import>>
    BY <1>2 DEF RemoveFeature, MayChange
  <2>3. Good(new) /\ new.param = doc.param
    BY RemovedIsGood
  <2>. HIDE DEF new
  <2>4. Mutate(new)
    BY <2>1 DEF new
  <2>5. i - 1 \in Nat /\ i = (i - 1) + 1
    BY <1>0
  <2>6. rollback' \in {Null} \cup 0..(MaxFeatures + changes + 1)
    <3>1. MarkerAfterRemove((i - 1) + 1) \in {Null} \cup 0..(MaxFeatures + changes + 1)
      BY <2>2, <2>5, MarkersAre
    <3>. QED BY <2>1, <2>5, <3>1
  <2>7. suppressed' \subseteq Name /\ tool' \in {Null} \cup Name
    BY <2>1, <2>2 DEF GoodInv, NamesAreGood
  <2>. QED BY <2>2, <2>3, <2>4, <2>6, <2>7, ChangeKeeps
<1>3. CASE MoveFeature
  <2>1. PICK i \in DOMAIN doc.features, j \in DOMAIN doc.features :
            Mutate([doc EXCEPT !.features = InsertAt(RemoveAt(@, i), j, @[i])])
    BY <1>3 DEF MoveFeature
  <2>. DEFINE new == [doc EXCEPT !.features = InsertAt(RemoveAt(@, i), j, @[i])]
  <2>2. changes < MaxChanges /\ Changed /\ UNCHANGED <<rollback, suppressed, solving, paramChain, tool, import>>
    BY <1>3 DEF MoveFeature, MayChange
  <2>3. Good(new) /\ new.param = doc.param
    BY MovedIsGood
  <2>. HIDE DEF new
  <2>4. Mutate(new)
    BY <2>1 DEF new
  <2>. QED BY <2>2, <2>3, <2>4, MarkersAre, ChangeKeeps DEF GoodInv, NamesAreGood
<1>. QED BY <1>1, <1>2, <1>3

\* and the commit under way, when the document is exchanged,
LEMMA ExchangeKeeps ==
    ASSUME GoodInv, solving' = Swapped, UNCHANGED paramChain
    PROVE  SolvingIsGood' /\ ChainIsGood'
BY SwappedIs DEF GoodInv, SolvingIsGood, ChainIsGood, Good, Fits, Solved

\* and undo and redo,
LEMMA HistoryKeeps ==
    ASSUME GoodInv
    PROVE  (Undo \/ Redo) => GoodInv'
<1>0. /\ doc \in Document /\ undoStack \in Seq(Entry) /\ redoStack \in Seq(Document)
      /\ Len(undoStack) <= UndoCap /\ Len(undoStack) \in Nat /\ Len(redoStack) \in Nat
      /\ DOMAIN undoStack = 1..Len(undoStack) /\ DOMAIN redoStack = 1..Len(redoStack)
      /\ Good(doc) /\ UndoCap \in Nat
      /\ \A i \in 1..Len(undoStack) : Good(undoStack[i].doc)
      /\ \A i \in 1..Len(redoStack) : Good(redoStack[i])
  BY LenProperties, BoundsAssumption DEF GoodInv, StacksAreGood, Docs, Range, Good, Fits
<1>1. CASE Undo
  <2>1. /\ undoStack # <<>> /\ redoStack' = Append(redoStack, doc)
        /\ doc' = undoStack[Len(undoStack)].doc /\ undoStack' = Front(undoStack)
        /\ tool' = Null /\ solving' = Swapped
        /\ UNCHANGED <<rollback, suppressed, paramChain, import, changes>>
    BY <1>1 DEF Undo
  <2>2. /\ Len(undoStack) >= 1 /\ Front(undoStack) \in Seq(Entry)
        /\ Len(Front(undoStack)) = Len(undoStack) - 1
        /\ \A i \in 1..Len(undoStack) - 1 : Front(undoStack)[i] = undoStack[i]
    BY <1>0, <2>1, FrontIs
  <2>3. Good(doc')
    BY <1>0, <2>1, <2>2
  <2>4. undoStack' \in Seq(Entry) /\ Len(undoStack') <= UndoCap /\ DOMAIN undoStack' = 1..Len(undoStack) - 1
    BY <1>0, <2>1, <2>2, LenProperties
  <2>5. \A e \in Range(undoStack') : Good(e.doc)
    <3>1. \A i \in 1..Len(undoStack) - 1 : undoStack'[i] = undoStack[i] /\ i \in 1..Len(undoStack)
      BY <1>0, <2>1, <2>2
    <3>. QED BY <1>0, <2>4, <3>1 DEF Range
  <2>6. /\ redoStack' \in Seq(Document) /\ DOMAIN redoStack' = 1..Len(redoStack) + 1
        /\ \A i \in 1..Len(redoStack) : redoStack'[i] = redoStack[i]
        /\ redoStack'[Len(redoStack) + 1] = doc
    BY <1>0, <2>1, AppendProperties, LenProperties
  <2>7. \A d \in Range(redoStack') : Good(d)
    <3>1. \A i \in 1..Len(redoStack) + 1 : i \in 1..Len(redoStack) \/ i = Len(redoStack) + 1
      BY <1>0
    <3>. QED BY <1>0, <2>6, <3>1 DEF Range
  <2>8. StacksAreGood'
    BY <2>3, <2>4, <2>5, <2>6, <2>7, StacksKeep DEF GoodInv
  <2>9. SolvingIsGood' /\ ChainIsGood'
    BY <2>1, ExchangeKeeps
  <2>. QED BY <2>1, <2>8, <2>9 DEF GoodInv, NamesAreGood
<1>2. CASE Redo
  <2>1. /\ redoStack # <<>> /\ undoStack' = Pushed
        /\ doc' = redoStack[Len(redoStack)] /\ redoStack' = Front(redoStack)
        /\ tool' = Null /\ solving' = Swapped
        /\ UNCHANGED <<rollback, suppressed, paramChain, import, changes>>
    BY <1>2 DEF Redo
  <2>2. /\ Len(redoStack) >= 1 /\ Front(redoStack) \in Seq(Document)
        /\ Len(Front(redoStack)) = Len(redoStack) - 1
        /\ \A i \in 1..Len(redoStack) - 1 : Front(redoStack)[i] = redoStack[i]
    BY <1>0, <2>1, FrontIs
  <2>3. Good(doc')
    BY <1>0, <2>1, <2>2
  <2>4. Pushed \in Seq(Entry) /\ Len(Pushed) <= UndoCap
    BY <1>0, PushedIs
  <2>5. \A e \in Range(undoStack') : Good(e.doc)
    <3>1. \A e \in Range(Pushed) : e.doc = doc \/ e \in Range(undoStack)
      BY <1>0, PushedHas
    <3>. QED BY <1>0, <2>1, <3>1 DEF Range
  <2>6. DOMAIN redoStack' = 1..Len(redoStack) - 1
    BY <2>1, <2>2, LenProperties
  <2>7. \A d \in Range(redoStack') : Good(d)
    <3>1. \A i \in 1..Len(redoStack) - 1 : redoStack'[i] = redoStack[i] /\ i \in 1..Len(redoStack)
      BY <1>0, <2>1, <2>2
    <3>. QED BY <1>0, <2>6, <3>1 DEF Range
  <2>8. StacksAreGood'
    BY <2>1, <2>2, <2>3, <2>4, <2>5, <2>7, StacksKeep DEF GoodInv
  <2>9. SolvingIsGood' /\ ChainIsGood'
    BY <2>1, ExchangeKeeps
  <2>. QED BY <2>1, <2>8, <2>9 DEF GoodInv, NamesAreGood
<1>. QED BY <1>1, <1>2

\* and New and Open,
LEMMA ReplaceKeeps ==
    ASSUME GoodInv, Replace
    PROVE  GoodInv'
<1>0. doc \in Document /\ changes \in 0..MaxChanges /\ MaxChanges \in Nat /\ MaxFeatures \in Nat /\ changes < MaxChanges
  BY BoundsAssumption DEF GoodInv, StacksAreGood, NamesAreGood, Docs, Good, Fits, Replace, MayChange
<1>1. Good(doc')
  <2>. DEFINE e == [features |-> <<>>, param |-> 0]
              f == [Made(1) EXCEPT !.at = 0]
              d == [features |-> <<f>>, param |-> 0]
  <2>1. doc' = e \/ (doc' = d)
    BY DEF Replace
  <2>2. Good(e)
    BY <1>0 DEF Good, Fits, Solved, Document
  <2>3. f = [id |-> 1, born |-> Stamp, val |-> Stamp, at |-> 0]
    BY DEF Made
  <2>4. f \in Feature /\ f.at = 0
    BY <1>0, <2>3 DEF Feature, Stamp
  <2>. HIDE DEF f
  <2>5. Good(d)
    <3>. DEFINE fs == <<f>>
    <3>1. fs \in Seq(Feature) /\ Len(fs) = 1 /\ DOMAIN fs = {1} /\ fs[1] = f
      BY <2>4
    <3>. HIDE DEF fs
    <3>2. d = [features |-> fs, param |-> 0]
      BY DEF fs
    <3>. QED BY <1>0, <2>4, <3>1, <3>2, BoundsAssumption DEF Good, Fits, Solved, Document
  <2>. QED BY <2>1, <2>2, <2>5
<1>2. undoStack' = <<>> /\ redoStack' = <<>>
  BY DEF Replace
<1>3. StacksAreGood'
  <2>1. undoStack' \in Seq(Entry) /\ redoStack' \in Seq(Document) /\ Len(undoStack') <= UndoCap
    BY <1>2, BoundsAssumption
  <2>2. Docs' = {doc'}
    BY <1>2 DEF Docs, Range
  <2>. QED BY <1>1, <2>1, <2>2 DEF StacksAreGood, Good, Fits, Solved
<1>4. SolvingIsGood' /\ ChainIsGood'
  BY ExchangeKeeps DEF Replace
<1>5. NamesAreGood'
  BY <1>0 DEF GoodInv, NamesAreGood, Replace, Changed, Stamp
<1>. QED BY <1>3, <1>4, <1>5 DEF GoodInv

\* and the marker, the suppressed names and the names taken for later,
LEMMA TimelineKeeps ==
    ASSUME GoodInv
    PROVE  (SetRollback \/ ToggleSuppress \/ StartTool \/ CancelTool \/ StartImport) => GoodInv'
<1>0. /\ doc.features \in Seq(Feature) /\ Len(doc.features) \in Nat /\ Len(doc.features) <= MaxFeatures
      /\ changes \in Nat /\ MaxFeatures \in Nat
  BY BoundsAssumption DEF GoodInv, StacksAreGood, NamesAreGood, Docs, Good, Fits, Document
<1>. SUFFICES ASSUME UNCHANGED <<doc, undoStack, redoStack, solving, paramChain, changes>>,
                     NamesAreGood'
              PROVE  GoodInv'
  <2>1. (SetRollback \/ ToggleSuppress \/ StartTool \/ CancelTool \/ StartImport)
            => UNCHANGED <<doc, undoStack, redoStack, solving, paramChain, changes>>
    BY DEF SetRollback, ToggleSuppress, StartTool, CancelTool, StartImport
  <2>2. CASE SetRollback
    BY <1>0, <2>2 DEF GoodInv, NamesAreGood, SetRollback
  <2>3. CASE ToggleSuppress
    <3>1. Ids(doc.features) \subseteq Name
      BY <1>0, IdsAre
    <3>. QED BY <2>3, <3>1 DEF GoodInv, NamesAreGood, ToggleSuppress
  <2>4. CASE StartTool
    <3>1. NextId(doc.features) \in Name
      BY <1>0, NextIdIs
    <3>. QED BY <2>4, <3>1 DEF GoodInv, NamesAreGood, StartTool
  <2>5. CASE CancelTool
    BY <2>5 DEF GoodInv, NamesAreGood, CancelTool
  <2>6. CASE StartImport
    BY <2>6 DEF GoodInv, NamesAreGood, StartImport
  <2>. QED BY <2>1, <2>2, <2>3, <2>4, <2>5, <2>6
<1>. QED BY DEF GoodInv, StacksAreGood, SolvingIsGood, ChainIsGood, Docs, Good, Fits, Solved

\* and the commits asked for,
LEMMA AskedKeeps ==
    ASSUME GoodInv
    PROVE  (SetParam \/ SetSketchDimension \/ RefreshProjections) => GoodInv'
<1>0. /\ Ids(doc.features) \subseteq Name /\ changes \in 0..MaxChanges
      /\ MaxChanges \in Nat /\ MaxFeatures \in Nat
  BY IdsAre, BoundsAssumption DEF GoodInv, StacksAreGood, NamesAreGood, Docs, Good, Fits, Document
<1>1. CASE SetParam
  <2>. DEFINE c == [kind |-> "param", value |-> Stamp, ids |-> {}]
  <2>1. changes < MaxChanges /\ changes' = changes + 1 /\ Queue(c)
    BY <1>1 DEF SetParam, Changed, Stamp
  <2>2. c \in Commit /\ c.kind = "param"
    BY <1>0, <2>1 DEF Commit, CommitKind, Stamp
  <2>. HIDE DEF c
  <2>3. StacksAreGood' /\ SolvingIsGood' /\ ChainIsGood'
    BY <2>1, <2>2, QueueKeeps
  <2>. QED BY <1>0, <2>1, <2>3 DEF GoodInv, NamesAreGood, Queue
<1>2. CASE SetSketchDimension
  <2>1. PICK id \in Ids(doc.features) :
            Queue([kind |-> "dimension", value |-> Stamp, ids |-> {id}])
    BY <1>2 DEF SetSketchDimension
  <2>. DEFINE c == [kind |-> "dimension", value |-> Stamp, ids |-> {id}]
  <2>2. changes < MaxChanges /\ changes' = changes + 1
    BY <1>2 DEF SetSketchDimension, Changed, Stamp
  <2>3. c \in Commit /\ c.value # 0 /\ Queue(c)
    BY <1>0, <2>1, <2>2 DEF Commit, CommitKind, Stamp
  <2>. HIDE DEF c
  <2>4. StacksAreGood' /\ SolvingIsGood' /\ ChainIsGood'
    BY <2>3, QueueKeeps
  <2>. QED BY <1>0, <2>2, <2>3, <2>4 DEF GoodInv, NamesAreGood, Queue
<1>3. CASE RefreshProjections
  <2>1. PICK ids \in SUBSET Ids(doc.features) \ {{}} :
            Queue([kind |-> "refresh", value |-> 0, ids |-> ids])
    BY <1>3 DEF RefreshProjections
  <2>. DEFINE c == [kind |-> "refresh", value |-> 0, ids |-> ids]
  <2>2. c \in Commit /\ c.kind = "refresh" /\ Queue(c)
    BY <1>0, <2>1 DEF Commit, CommitKind
  <2>. HIDE DEF c
  <2>3. StacksAreGood' /\ SolvingIsGood' /\ ChainIsGood'
    BY <2>2, QueueKeeps
  <2>. QED BY <1>3, <2>2, <2>3 DEF GoodInv, NamesAreGood, Queue, RefreshProjections
<1>. QED BY <1>1, <1>2, <1>3

\* and the commits that land or are dropped,
LEMMA CommitsKeep ==
    ASSUME GoodInv
    PROVE  (CommitWithCascade \/ CommitSketchDimension \/ CommitProjectionRefresh
               \/ CommitIsDropped) => GoodInv'
<1>0. Good(doc)
  BY DEF GoodInv, StacksAreGood, Docs
<1>. SUFFICES ASSUME GoOn, StacksAreGood'
              PROVE  GoodInv'
  <2>1. CASE CommitWithCascade
    <3>1. Good(solving.draft) /\ Mutate(solving.draft)
      BY <2>1 DEF CommitWithCascade, GoodInv, SolvingIsGood
    <3>. QED BY <2>1, <3>1, MutateKeeps DEF GoodInv, CommitWithCascade
  <2>2. CASE CommitSketchDimension
    <3>1. Good(Landed(Current))
      BY <2>2, LandedIs DEF CommitSketchDimension
    <3>. QED BY <2>2, <3>1, MutateKeeps DEF GoodInv, CommitSketchDimension
  <2>3. CASE CommitProjectionRefresh
    <3>1. Good(Landed(Current))
      BY <2>3, LandedIs DEF CommitProjectionRefresh
    <3>2. doc' = Landed(Current) /\ UNCHANGED <<undoStack, redoStack>>
      BY <2>3 DEF CommitProjectionRefresh
    <3>. QED BY <2>3, <3>1, <3>2, StacksKeep DEF GoodInv, CommitProjectionRefresh, StacksAreGood, Docs, Range
  <2>4. CASE CommitIsDropped
    BY <2>4 DEF GoodInv, CommitIsDropped, StacksAreGood, Docs, Good, Fits, Solved
  <2>. QED BY <2>1, <2>2, <2>3, <2>4 DEF CommitWithCascade, CommitSketchDimension,
           CommitProjectionRefresh, CommitIsDropped
<1>1. Good(doc')
  BY DEF StacksAreGood, Docs, Good, Fits, Solved
<1>2. SolvingIsGood' /\ ChainIsGood'
  BY <1>1, GoOnKeeps DEF GoodInv
<1>3. NamesAreGood'
  BY DEF GoodInv, NamesAreGood, GoOn
<1>. QED BY <1>2, <1>3 DEF GoodInv

\* and the add whose undo entry an import keeps,
LEMMA MarkedIs ==
    ASSUME GoodInv
    PROVE  LET stack == [Pushed EXCEPT ![Len(Pushed)].added = TRUE] IN
           /\ stack \in Seq(Entry) /\ Len(stack) = Len(Pushed) /\ Len(Pushed) >= 1
           /\ Len(Pushed) \in Nat
           /\ \A i \in 1..Len(Pushed) : stack[i].doc = Pushed[i].doc
           /\ \A i \in 1..Len(Pushed) - 1 : stack[i] = Pushed[i]
           /\ stack[Len(Pushed)] = [doc |-> Pushed[Len(Pushed)].doc, added |-> TRUE]
<1>1. Pushed \in Seq(Entry) /\ Len(Pushed) >= 1 /\ Len(Pushed) \in Nat
  BY PushedIs DEF GoodInv, StacksAreGood, Docs, Good, Fits
<1>. DEFINE q == Pushed
            n == Len(q)
            v == TRUE
            x == q[n]
            y == [x EXCEPT !.added = v]
            stack == [q EXCEPT ![n] = y]
<1>2. n \in 1..Len(q) /\ q \in Seq(Entry) /\ x \in Entry /\ n \in Nat /\ n >= 1
  BY <1>1
<1>3. v \in BOOLEAN
  OBVIOUS
<1>4. [Pushed EXCEPT ![Len(Pushed)].added = TRUE] = stack
  OBVIOUS
<1>. HIDE DEF x, v
<1>5. y = [doc |-> x.doc, added |-> v]
  BY <1>2, MarkIs, Zenon
<1>6. y \in Entry
  <2>1. x.doc \in Document
    BY <1>2 DEF Entry
  <2>. HIDE DEF y
  <2>. QED BY <1>3, <1>5, <2>1 DEF Entry
<1>. HIDE DEF y, q, n
<1>7. /\ stack \in Seq(Entry) /\ Len(stack) = Len(q)
      /\ \A i \in 1..Len(q) : stack[i] = IF i = n THEN y ELSE q[i]
  BY <1>2, <1>6, ExceptSeq
<1>. HIDE DEF stack
<1>8. n = Len(q)
  BY DEF n
<1>9. /\ \A i \in 1..Len(q) : stack[i].doc = q[i].doc
      /\ \A i \in 1..Len(q) - 1 : stack[i] = q[i]
      /\ stack[Len(q)] = y
  <2>1. y.doc = q[n].doc
    BY <1>5 DEF x
  <2>. QED BY <1>2, <1>7, <1>8, <2>1
<1>. QED BY <1>2, <1>4, <1>5, <1>7, <1>8, <1>9 DEF x, q, v

\* and the end of an import.
LEMMA ImportsKeep ==
    ASSUME GoodInv
    PROVE  (ImportRead \/ ImportEnds \/ WithdrawFeature) => GoodInv'
<1>0. /\ doc \in Document /\ undoStack \in Seq(Entry) /\ redoStack \in Seq(Document)
      /\ Len(undoStack) <= UndoCap /\ Len(undoStack) \in Nat /\ Len(redoStack) \in Nat
      /\ DOMAIN undoStack = 1..Len(undoStack) /\ DOMAIN redoStack = 1..Len(redoStack)
      /\ Good(doc) /\ UndoCap \in Nat /\ doc.features \in Seq(Feature)
      /\ DOMAIN doc.features = 1..Len(doc.features) /\ Len(doc.features) \in Nat
      /\ \A i \in 1..Len(undoStack) : Good(undoStack[i].doc)
      /\ \A i \in 1..Len(redoStack) : Good(redoStack[i])
      /\ changes \in Nat /\ MaxFeatures \in Nat /\ MaxChanges \in Nat /\ changes \in 0..MaxChanges
  BY LenProperties, BoundsAssumption
     DEF GoodInv, StacksAreGood, NamesAreGood, Docs, Range, Good, Fits, Document
<1>1. CASE ImportRead
  <2>. DEFINE id == NextId(doc.features)
              stack == [Pushed EXCEPT ![Len(Pushed)].added = TRUE]
  <2>1. id \in Name
    BY <1>0, NextIdIs DEF Good, Fits
  <2>2. /\ changes < MaxChanges /\ Room
        /\ import' = [pc |-> "building", id |-> id] /\ doc' = Added(id) /\ redoStack' = <<>>
        /\ undoStack' = stack /\ rollback' = MarkerAfterAdd /\ changes' = changes + 1
        /\ UNCHANGED <<suppressed, solving, paramChain, tool>>
    BY <1>1 DEF ImportRead, MayChange, Changed, Stamp
  <2>3. /\ stack \in Seq(Entry) /\ Len(stack) = Len(Pushed)
        /\ \A i \in 1..Len(Pushed) : stack[i].doc = Pushed[i].doc
    BY MarkedIs
  <2>. HIDE DEF stack, id
  <2>4. Good(doc') /\ doc'.param = doc.param
    BY <2>1, <2>2, AddedIsGood
  <2>5. Len(Pushed) <= UndoCap /\ Pushed \in Seq(Entry) /\ \A e \in Range(Pushed) : e.doc = doc \/ e \in Range(undoStack)
    BY <1>0, PushedIs, PushedHas
  <2>6. \A e \in Range(undoStack') : Good(e.doc)
    <3>1. \A i \in 1..Len(Pushed) : Good(Pushed[i].doc)
      <4>. SUFFICES ASSUME NEW i \in 1..Len(Pushed) PROVE Good(Pushed[i].doc)
        OBVIOUS
      <4>1. Pushed[i] \in Range(Pushed)
        BY <2>5, LenProperties DEF Range
      <4>. QED BY <1>0, <2>5, <4>1 DEF Range
    <3>2. DOMAIN undoStack' = 1..Len(Pushed)
      BY <2>2, <2>3, LenProperties
    <3>. QED BY <2>2, <2>3, <3>1, <3>2 DEF Range
  <2>7. redoStack' \in Seq(Document) /\ Range(redoStack') = {}
    BY <2>2 DEF Range
  <2>8. StacksAreGood'
    BY <2>2, <2>3, <2>4, <2>5, <2>6, <2>7, StacksKeep DEF GoodInv
  <2>9. SolvingIsGood' /\ ChainIsGood'
    BY <2>2, <2>4 DEF GoodInv, SolvingIsGood, ChainIsGood, Good, Fits, Solved
  <2>10. NamesAreGood'
    BY <1>0, <2>1, <2>2, MarkersAre DEF GoodInv, NamesAreGood
  <2>. QED BY <2>8, <2>9, <2>10 DEF GoodInv
<1>2. CASE ImportEnds
  <2>1. /\ import' = NoImport /\ undoStack' = Unmarked(undoStack)
        /\ UNCHANGED <<doc, rollback, suppressed, redoStack, solving, paramChain, tool, changes>>
    BY <1>2 DEF ImportEnds
  <2>2. /\ undoStack' \in Seq(Entry) /\ Len(undoStack') = Len(undoStack)
        /\ DOMAIN undoStack' = 1..Len(undoStack)
        /\ \A i \in 1..Len(undoStack) : undoStack'[i].doc = undoStack[i].doc
    BY <1>0, <2>1, UnmarkedIs, UnmarkedDocs
  <2>3. \A e \in Range(undoStack') : Good(e.doc)
    BY <1>0, <2>2 DEF Range
  <2>4. StacksAreGood'
    BY <1>0, <2>1, <2>2, <2>3, StacksKeep DEF GoodInv, Range
  <2>. QED BY <2>1, <2>4 DEF GoodInv, SolvingIsGood, ChainIsGood, NamesAreGood, NoImport, Good, Fits, Solved
<1>3. CASE WithdrawFeature
  <2>1. PICK at \in DOMAIN undoStack :
            undoStack' = [k \in 1..(Len(undoStack) - 1) |->
                IF k < at THEN undoStack[k]
                ELSE [doc |-> Without(undoStack[k + 1].doc), added |-> FALSE]]
    BY <1>3 DEF WithdrawFeature
  <2>2. /\ import' = NoImport
        /\ redoStack' = [k \in DOMAIN redoStack |-> Without(redoStack[k])]
        /\ doc' = Without(doc)
        /\ rollback' = MarkerAfterRemove(IndexOf(doc.features, import.id))
        /\ suppressed' = suppressed \ {import.id}
        /\ UNCHANGED <<solving, paramChain, tool, changes>>
        /\ import.id \in Ids(doc.features)
    BY <1>3 DEF WithdrawFeature
  <2>3. \A d : Good(d) => Good(Without(d)) /\ Without(d) \in Document /\ Without(d).param = d.param
    <3>. SUFFICES ASSUME NEW d, Good(d)
                  PROVE  Good(Without(d)) /\ Without(d) \in Document /\ Without(d).param = d.param
      OBVIOUS
    <3>1. /\ Without(d) = [features |-> Filtered(d.features, Kept(d)), param |-> d.param]
          /\ Fits(Without(d)) /\ Solved(Without(d))
      BY WithoutIs DEF Good
    <3>2. Without(d).param = d.param
      BY <3>1
    <3>. QED BY <3>1, <3>2 DEF Good, Fits
  <2>4. Good(doc') /\ doc'.param = doc.param
    BY <1>0, <2>2, <2>3
  <2>. DEFINE g(k) == IF k < at THEN undoStack[k]
                      ELSE [doc |-> Without(undoStack[k + 1].doc), added |-> FALSE]
  <2>5. Len(undoStack) - 1 \in Nat
    BY <1>0
  <2>6. \A k \in 1..Len(undoStack) - 1 : g(k) \in Entry /\ Good(g(k).doc)
    <3>. SUFFICES ASSUME NEW k \in 1..Len(undoStack) - 1 PROVE g(k) \in Entry /\ Good(g(k).doc)
      OBVIOUS
    <3>1. k \in 1..Len(undoStack) /\ k + 1 \in 1..Len(undoStack)
      BY <1>0
    <3>2. CASE k < at
      <4>1. g(k) = undoStack[k]
        BY <3>2
      <4>2. undoStack[k] \in Entry /\ Good(undoStack[k].doc)
        BY <1>0, <3>1
      <4>. HIDE DEF g
      <4>. QED BY <4>1, <4>2
    <3>3. CASE ~(k < at)
      <4>. DEFINE d == Without(undoStack[k + 1].doc)
      <4>1. Good(d) /\ d \in Document
        BY <1>0, <2>3, <3>1
      <4>. HIDE DEF d
      <4>2. g(k) = [doc |-> d, added |-> FALSE]
        BY <3>3 DEF d
      <4>. HIDE DEF g
      <4>. QED BY <4>1, <4>2 DEF Entry
    <3>. QED BY <3>2, <3>3
  <2>. HIDE DEF g
  <2>7. undoStack' = [k \in 1..(Len(undoStack) - 1) |-> g(k)]
    BY <2>1 DEF g
  <2>8. /\ undoStack' \in Seq(Entry) /\ Len(undoStack') = Len(undoStack) - 1
        /\ DOMAIN undoStack' = 1..Len(undoStack) - 1
        /\ \A k \in 1..Len(undoStack) - 1 : undoStack'[k] = g(k)
    BY <2>5, <2>6, <2>7
  <2>9. \A e \in Range(undoStack') : Good(e.doc)
    BY <2>6, <2>8 DEF Range
  <2>10. /\ redoStack' \in Seq(Document) /\ DOMAIN redoStack' = DOMAIN redoStack
         /\ \A k \in DOMAIN redoStack : redoStack'[k] = Without(redoStack[k])
    BY <1>0, <2>2, <2>3
  <2>11. \A d \in Range(redoStack') : Good(d)
    BY <1>0, <2>3, <2>10 DEF Range
  <2>12. StacksAreGood'
    BY <1>0, <2>4, <2>8, <2>9, <2>10, <2>11, StacksKeep DEF GoodInv
  <2>13. SolvingIsGood' /\ ChainIsGood'
    BY <2>2, <2>4 DEF GoodInv, SolvingIsGood, ChainIsGood, Good, Fits, Solved
  <2>14. rollback' \in {Null} \cup 0..(MaxFeatures + changes)
    <3>. DEFINE i == IndexOf(doc.features, import.id)
    <3>1. i \in DOMAIN doc.features
      <4>1. \E k \in DOMAIN doc.features : doc.features[k].id = import.id
        BY <1>0, <2>2, IdsAre
      <4>. QED BY <4>1 DEF IndexOf
    <3>. HIDE DEF i
    <3>2. i - 1 \in Nat /\ i = (i - 1) + 1
      BY <1>0, <3>1
    <3>3. rollback' = MarkerAfterRemove(i)
      BY <2>2 DEF i
    <3>. QED BY <1>0, <3>2, <3>3, MarkersAreAlways
  <2>15. NamesAreGood'
    BY <2>2, <2>14 DEF GoodInv, NamesAreGood, NoImport
  <2>. QED BY <2>12, <2>13, <2>15 DEF GoodInv
<1>. QED BY <1>1, <1>2, <1>3

\* GoodInv is inductive.
LEMMA GoodIsKept == GoodInv /\ [Next]_vars => GoodInv'
<1>. SUFFICES ASSUME GoodInv, [Next]_vars PROVE GoodInv'
  OBVIOUS
<1>1. CASE UNCHANGED vars
  BY <1>1 DEF vars, GoodInv, StacksAreGood, SolvingIsGood, ChainIsGood, NamesAreGood,
              Docs, Good, Fits, Solved
<1>2. CASE Replace
  BY <1>2, ReplaceKeeps
<1>. QED BY <1>1, <1>2, AddsKeep, EditsKeep, HistoryKeeps, TimelineKeeps, AskedKeeps,
            CommitsKeep, ImportsKeep DEF Next, Others

\* It says more than the types,
LEMMA GoodIsTyped == GoodInv => TypeOK
<1>. SUFFICES ASSUME GoodInv PROVE TypeOK
  OBVIOUS
<1>1. \A d \in Document : IsDocument(d)
  BY DEF Document, IsDocument
<1>2. /\ doc \in Document /\ undoStack \in Seq(Entry) /\ redoStack \in Seq(Document)
      /\ Len(undoStack) <= UndoCap /\ Len(paramChain) <= MaxQueued
      /\ changes \in 0..MaxChanges /\ MaxFeatures \in Nat /\ MaxChanges \in Nat
  BY BoundsAssumption DEF GoodInv, StacksAreGood, ChainIsGood, NamesAreGood, Docs, Good, Fits
<1>3. /\ \A i \in DOMAIN undoStack : undoStack[i].doc \in Document
      /\ \A i \in DOMAIN redoStack : redoStack[i] \in Document
  <2>1. \A e \in Entry : e.doc \in Document
    BY DEF Entry
  <2>2. /\ \A i \in DOMAIN undoStack : undoStack[i] \in Entry
        /\ \A i \in DOMAIN redoStack : redoStack[i] \in Document
    BY <1>2
  <2>. QED BY <2>1, <2>2
<1>4. rollback \in {Null} \cup 0..(MaxFeatures + MaxChanges)
  BY <1>2 DEF GoodInv, NamesAreGood
<1>5. /\ suppressed \subseteq 1..(2 * MaxFeatures + 1)
      /\ tool \in {Null} \cup 1..(2 * MaxFeatures + 1)
      /\ import.pc \in {"none", "reading", "building"}
  BY DEF GoodInv, NamesAreGood, Name
<1>. QED BY <1>1, <1>2, <1>3, <1>4, <1>5 DEF TypeOK

\* and that the geometry follows the parameters.
LEMMA GoodFollows == GoodInv => GeometryFollowsParams
<1>. SUFFICES ASSUME GoodInv,
                     NEW d \in Docs,
                     NEW f \in Range(d.features)
              PROVE  f.at = d.param
  BY DEF GeometryFollowsParams, Docs
<1>. QED BY DEF GoodInv, StacksAreGood, Good, Solved, Range

\* It holds in every reachable state.
LEMMA AlwaysGood == Spec => []GoodInv
<1>. QED BY InitGood, GoodIsKept, PTL DEF Spec

\* Types: the stacks are within their cap, names within twice the features and one, and
\* the marker within the places the timeline could have.
THEOREM Typed == Spec => []TypeOK
<1>. QED BY AlwaysGood, GoodIsTyped, PTL

\* The geometry of every feature was solved for the parameters of its document, in the
\* document and in every one undo and redo can bring back, whatever lands late.
THEOREM GeometryFollows == Spec => []GeometryFollowsParams
<1>. QED BY AlwaysGood, GoodFollows, PTL

------------------------------------------------------------------------
\* Names: no document has one twice, as long as no step departs from the history.

\* The steps that can depart from it, when they do not.
LandsOver == CommitWithCascade /\ ~Overwrites
AddsFree == CommitTool /\ ~Doubles
CallsOff == WithdrawFeature /\ ~Mistakes

\* A step that does not depart from the history is one of an orderly store.
LEMMA StepIsOrderly == [Next]_vars /\ [~Departs]_vars => [OrderlyNext]_vars
BY DEF Next, OrderlyNext, Departs

\* A step of an orderly store is one of the store.
LEMMA OrderlyIsStep == [OrderlyNext]_vars => [Next]_vars
BY DEF Next, OrderlyNext

\* An execution of the store that does not depart from the history is an orderly one.
LEMMA OrderlyIs == Spec /\ [][~Departs]_vars => Orderly
BY StepIsOrderly, PTL DEF Spec, Orderly

Apart(features) ==
    \A i, j \in 1..Len(features) : features[i].id = features[j].id => i = j

SamePlain(features, others) ==
    /\ Len(features) = Len(others)
    /\ \A i \in 1..Len(features) : /\ features[i].id = others[i].id
                                   /\ features[i].born = others[i].born
                                   /\ features[i].val = others[i].val

NamesInv == \A d \in Docs : Apart(d.features)

\* A draft that overwrites nothing has the features of the document.
LEMMA DraftOver ==
    ASSUME GoodInv, LandsOver
    PROVE  SamePlain(solving.draft.features, doc.features)
<1>. DEFINE d == solving.draft
            t == d.features
            v == solving.value
<1>1. d = Draft(doc, v) /\ Good(d) /\ Good(doc)
  BY DEF LandsOver, Overwrites, CommitWithCascade, GoodInv, SolvingIsGood, StacksAreGood, Docs
<1>2. v \in 0..MaxChanges
  <2>1. d.param = v
    BY <1>1 DEF Draft
  <2>. QED BY <1>1, <2>1 DEF Good, Fits, Document
<1>3. /\ t \in Seq(Feature) /\ doc.features \in Seq(Feature)
  BY <1>1 DEF Good, Fits, Document
<1>4. /\ DOMAIN t = DOMAIN doc.features
      /\ \A i \in DOMAIN doc.features : /\ t[i].id = doc.features[i].id
                                        /\ t[i].born = doc.features[i].born
                                        /\ t[i].val = doc.features[i].val
  <2>. HIDE DEF d, v
  <2>. QED BY <1>1, <1>2, DraftIsGood
<1>. HIDE DEF t
<1>. QED BY <1>3, <1>4, LenProperties DEF SamePlain, t

\* t is s with e at p.
Inserted(s, p, e, t) ==
    /\ s \in Seq(Feature) /\ e \in Feature /\ p \in 1..Len(s) + 1
    /\ t \in Seq(Feature) /\ Len(t) = Len(s) + 1
    /\ \A j \in 1..Len(s) + 1 :
          t[j] = IF j < p THEN s[j] ELSE IF j = p THEN e ELSE s[j - 1]

\* One name more.
LEMMA AddedNames ==
    ASSUME NEW s, NEW p, NEW e, NEW t, Inserted(s, p, e, t), e.id \notin Ids(s)
    PROVE  /\ Ids(t) = Ids(s) \cup {e.id}
           /\ Apart(s) => Apart(t)
<1>. USE DEF Inserted
<1>1. Len(s) \in Nat /\ Ids(s) = {s[i].id : i \in 1..Len(s)} /\ Ids(t) = {t[i].id : i \in 1..Len(s) + 1}
  BY IdsAre
<1>. DEFINE from(j) == IF j < p THEN j ELSE j - 1
<1>2. \A j \in 1..Len(s) + 1 : \/ j = p /\ t[j] = e
                               \/ j # p /\ t[j] = s[from(j)] /\ from(j) \in 1..Len(s)
  BY <1>1
<1>3. \A i \in 1..Len(s) : \E j \in 1..Len(s) + 1 : j # p /\ from(j) = i
  <2>. SUFFICES ASSUME NEW i \in 1..Len(s) PROVE \E j \in 1..Len(s) + 1 : j # p /\ from(j) = i
    OBVIOUS
  <2>1. CASE i < p
    BY <1>1, <2>1
  <2>2. CASE ~(i < p)
    <3>1. i + 1 \in 1..Len(s) + 1 /\ i + 1 # p /\ from(i + 1) = i
      BY <1>1, <2>2
    <3>. QED BY <3>1
  <2>. QED BY <2>1, <2>2
<1>4. \A j, k \in 1..Len(s) + 1 : j # p /\ k # p /\ from(j) = from(k) => j = k
  BY <1>1
<1>5. p \in 1..Len(s) + 1 /\ t[p] = e
  BY <1>1
<1>. HIDE DEF from
<1>6. Ids(t) = Ids(s) \cup {e.id}
  <2>1. ASSUME NEW x \in Ids(t) PROVE x \in Ids(s) \cup {e.id}
    BY <1>1, <1>2
  <2>2. ASSUME NEW x \in Ids(s) PROVE x \in Ids(t)
    BY <1>1, <1>2, <1>3
  <2>3. e.id \in Ids(t)
    BY <1>1, <1>5
  <2>. QED BY <2>1, <2>2, <2>3
<1>7. ASSUME Apart(s) PROVE Apart(t)
  <2>. SUFFICES ASSUME NEW j \in 1..Len(s) + 1, NEW k \in 1..Len(s) + 1, t[j].id = t[k].id
                PROVE  j = k
    BY DEF Apart
  <2>1. \A i \in 1..Len(s) : s[i].id # e.id
    BY <1>1
  <2>2. CASE j = p \/ k = p
    BY <1>2, <1>5, <2>1, <2>2
  <2>3. CASE j # p /\ k # p
    <3>1. /\ t[j] = s[from(j)] /\ from(j) \in 1..Len(s)
          /\ t[k] = s[from(k)] /\ from(k) \in 1..Len(s)
      BY <1>2, <2>3
    <3>2. from(j) = from(k)
      BY <1>7, <3>1 DEF Apart
    <3>. QED BY <1>4, <2>3, <3>2
  <2>. QED BY <2>2, <2>3
<1>. QED BY <1>6, <1>7

\* One name less.
LEMMA RemovedNames ==
    ASSUME NEW s \in Seq(Feature), NEW p \in 1..Len(s), Apart(s)
    PROVE  /\ RemoveAt(s, p) \in Seq(Feature) /\ Apart(RemoveAt(s, p))
           /\ Ids(RemoveAt(s, p)) = Ids(s) \ {s[p].id}
<1>. DEFINE t == RemoveAt(s, p)
            from(j) == IF j < p THEN j ELSE j + 1
<1>0. /\ Len(s) \in Nat /\ t \in Seq(Feature) /\ Len(t) = Len(s) - 1
      /\ \A j \in 1..Len(s) - 1 : t[j] = IF j < p THEN s[j] ELSE s[j + 1]
  <2>1. Len(s) \in Nat
    OBVIOUS
  <2>. QED BY <2>1, RemoveAtIs, Zenon
<1>1. /\ Len(s) \in Nat /\ t \in Seq(Feature) /\ Len(t) = Len(s) - 1
      /\ \A j \in 1..Len(s) - 1 : t[j] = s[from(j)]
  <2>. HIDE DEF t
  <2>1. ASSUME NEW j \in 1..Len(s) - 1 PROVE t[j] = s[from(j)]
    <3>1. CASE j < p
      BY <1>0, <3>1
    <3>2. CASE ~(j < p)
      BY <1>0, <3>2
    <3>. QED BY <3>1, <3>2
  <2>. QED BY <1>0, <2>1
<1>. HIDE DEF t
<1>2. Ids(s) = {s[i].id : i \in 1..Len(s)} /\ Ids(t) = {t[i].id : i \in 1..Len(s) - 1}
  BY <1>1, IdsAre
<1>3. /\ \A j \in 1..Len(s) - 1 : from(j) \in 1..Len(s) /\ from(j) # p
      /\ \A j, k \in 1..Len(s) - 1 : from(j) = from(k) => j = k
  BY <1>1
<1>4. \A i \in 1..Len(s) : i # p => \E j \in 1..Len(s) - 1 : from(j) = i
  <2>. SUFFICES ASSUME NEW i \in 1..Len(s), i # p PROVE \E j \in 1..Len(s) - 1 : from(j) = i
    OBVIOUS
  <2>1. CASE i < p
    BY <1>1, <2>1
  <2>2. CASE ~(i < p)
    <3>1. i - 1 \in 1..Len(s) - 1 /\ from(i - 1) = i
      BY <1>1, <2>2
    <3>. QED BY <3>1
  <2>. QED BY <2>1, <2>2
<1>. HIDE DEF from
<1>5. Apart(t)
  BY <1>1, <1>3 DEF Apart
<1>6. Ids(t) = Ids(s) \ {s[p].id}
  <2>1. ASSUME NEW x \in Ids(t) PROVE x \in Ids(s) /\ x # s[p].id
    <3>1. PICK j \in 1..Len(s) - 1 : x = s[from(j)].id
      BY <1>1, <1>2
    <3>2. from(j) \in 1..Len(s) /\ from(j) # p
      BY <1>3
    <3>. QED BY <1>2, <3>1, <3>2 DEF Apart
  <2>2. ASSUME NEW x \in Ids(s), x # s[p].id PROVE x \in Ids(t)
    <3>1. PICK i \in 1..Len(s) : x = s[i].id
      BY <1>2
    <3>2. PICK j \in 1..Len(s) - 1 : from(j) = i
      BY <1>4, <2>2, <3>1
    <3>. QED BY <1>1, <1>2, <3>1, <3>2
  <2>. QED BY <2>1, <2>2
<1>. QED BY <1>1, <1>5, <1>6 DEF t

\* Lists with the same names in their places.
LEMMA SameNames ==
    ASSUME NEW s \in Seq(Feature), NEW t \in Seq(Feature), Len(t) = Len(s),
           \A i \in 1..Len(s) : t[i].id = s[i].id
    PROVE  Ids(t) = Ids(s) /\ (Apart(s) => Apart(t))
<1>1. Ids(s) = {s[i].id : i \in 1..Len(s)} /\ Ids(t) = {t[i].id : i \in 1..Len(s)}
  BY IdsAre
<1>. QED BY <1>1 DEF Apart

\* A document without the import's feature has every other name.
LEMMA WithoutNames ==
    ASSUME NEW d, Fits(d), Apart(d.features)
    PROVE  /\ Apart(Without(d).features)
           /\ Ids(Without(d).features) = Ids(d.features) \ {import.id}
<1>. DEFINE K == Kept(d)
            s == d.features
            t == Filtered(s, K)
<1>1. s \in Seq(Feature) /\ K \in SUBSET DOMAIN s /\ K \in SUBSET (1..Len(s))
      /\ DOMAIN s = 1..Len(s) /\ Len(s) \in Nat
  BY WithoutIs, LenProperties DEF Fits, Document
<1>2. Without(d).features = t
  BY WithoutIs
<1>. HIDE DEF s, K
<1>3. /\ t \in Seq(Feature) /\ Len(t) = Cardinality(K) /\ Cardinality(K) \in Nat
      /\ \A k \in 1..Cardinality(K) : t[k] = s[Nth(K, k)] /\ Nth(K, k) \in K
      /\ Range(t) = {s[i] : i \in K}
  BY <1>1, FilteredIs
<1>. HIDE DEF t
<1>4. \A k, l \in 1..Cardinality(K) : Nth(K, k) = Nth(K, l) => k = l
  <2>1. \A k \in 1..Cardinality(K) : Count(K, Nth(K, k)) = k
    BY <1>1, NthIs
  <2>. QED BY <2>1
<1>5. Apart(t)
  <2>. SUFFICES ASSUME NEW k \in 1..Cardinality(K), NEW l \in 1..Cardinality(K), t[k].id = t[l].id
                PROVE  k = l
    BY <1>3 DEF Apart
  <2>1. Nth(K, k) \in 1..Len(s) /\ Nth(K, l) \in 1..Len(s)
    BY <1>1, <1>3
  <2>2. s[Nth(K, k)].id = s[Nth(K, l)].id
    BY <1>3
  <2>. QED BY <1>4, <2>1, <2>2 DEF Apart, s
<1>6. Ids(t) = {s[i].id : i \in K}
  BY <1>3 DEF Ids
<1>7. Ids(s) = {s[i].id : i \in 1..Len(s)}
  BY <1>1, IdsAre
<1>8. K = {i \in 1..Len(s) : s[i].id # import.id}
  BY <1>1 DEF K, Kept, s
<1>. QED BY <1>2, <1>5, <1>6, <1>7, <1>8 DEF s

\* With names apart, leaving the feature out everywhere is taking out the one there is.
LEMMA WithoutOne ==
    ASSUME NEW d, Fits(d), Apart(d.features), NEW p \in 1..Len(d.features),
           d.features[p].id = import.id
    PROVE  Without(d) = [features |-> RemoveAt(d.features, p), param |-> d.param]
<1>. DEFINE s == d.features
<1>1. s \in Seq(Feature) /\ DOMAIN s = 1..Len(s) /\ p \in DOMAIN s
  BY LenProperties DEF Fits, Document
<1>2. Kept(d) = DOMAIN s \ {p}
  BY <1>1 DEF Kept, Apart
<1>3. Without(d) = [features |-> Filtered(s, Kept(d)), param |-> d.param]
  BY WithoutIs
<1>. HIDE DEF s
<1>4. Filtered(s, DOMAIN s \ {p}) = RemoveAt(s, p)
  BY <1>1, FilteredOne
<1>. QED BY <1>2, <1>3, <1>4 DEF s

------------------------------------------------------------------------
\* What is built.

\* What is built: the names in front of the marker that are not suppressed.
LEMMA BuiltIs ==
    ASSUME NEW s \in Seq(Feature), NEW r \in Nat, NEW skipped
    PROVE  Built(s, r, skipped) = {s[i].id : i \in {k \in 1..Len(s) : k <= r}} \ skipped
<1>. DEFINE m == Min({r, Len(s)})
            t == SubSeq(s, 1, m)
<1>1. Len(s) \in Nat /\ m = IF r <= Len(s) THEN r ELSE Len(s)
  BY MinOfTwo
<1>. HIDE DEF m
<1>2. m \in Nat /\ m <= Len(s) /\ 1 \in Int /\ m \in Int
  BY <1>1
<1>3. \A i \in 1..m : s[i] \in Feature
  BY <1>2
<1>4. /\ t \in Seq(Feature) /\ Len(t) = (IF 1 <= m THEN m - 1 + 1 ELSE 0)
      /\ \A i \in 1..m - 1 + 1 : t[i] = s[1 + i - 1]
  BY <1>2, <1>3, SubSeqProperties
<1>. HIDE DEF t
<1>5. Len(t) = m /\ \A i \in 1..m : t[i] = s[i]
  <2>1. Len(t) = m
    BY <1>2, <1>4
  <2>2. \A i \in 1..m : i \in 1..m - 1 + 1 /\ 1 + i - 1 = i
    BY <1>2
  <2>3. \A i \in 1..m : t[i] = s[i]
    BY <1>4, <2>2
  <2>. QED BY <2>1, <2>3
<1>6. {f.id : f \in Range(t)} = {s[i].id : i \in 1..m}
  <2>1. {f.id : f \in Range(t)} = {t[i].id : i \in 1..m}
    BY <1>4, <1>5, IdsAre DEF Ids
  <2>. QED BY <1>5, <2>1
<1>7. 1..m = {k \in 1..Len(s) : k <= r}
  BY <1>1, <1>2
<1>8. Built(s, r, skipped) = {f.id : f \in Range(t)} \ skipped
  BY DEF Built, t, m
<1>. QED BY <1>6, <1>7, <1>8

\* The place after a marker, in a list of n.
After(r, n) == IF r <= n THEN r + 1 ELSE n + 1

\* A feature added at the marker, which moves on, is built besides.
LEMMA AddedBuilt ==
    ASSUME NEW s, NEW p, NEW e, NEW t, NEW r \in Nat, NEW skipped, Inserted(s, p, e, t),
           p = After(r, Len(s))
    PROVE  Built(t, r + 1, skipped) = Built(s, r, skipped) \cup ({e.id} \ skipped)
<1>. USE DEF Inserted, After
<1>. DEFINE S == {k \in 1..Len(s) : k <= r}
            T == {k \in 1..Len(t) : k <= r + 1}
<1>1. Len(s) \in Nat /\ r + 1 \in Nat
  OBVIOUS
<1>2. Built(s, r, skipped) = {s[i].id : i \in S} \ skipped
  BY BuiltIs
<1>3. Built(t, r + 1, skipped) = {t[i].id : i \in T} \ skipped
  BY <1>1, BuiltIs
<1>4. p \in T /\ t[p] = e
  BY <1>1
<1>5. \A j \in T : j = p \/ (j \in S /\ j < p)
  BY <1>1
<1>6. \A i \in S : i \in T /\ i < p /\ i \in 1..Len(s) + 1
  BY <1>1
<1>7. \A j \in S : j \in T /\ t[j] = s[j]
  BY <1>6
<1>. HIDE DEF S, T
<1>8. {t[i].id : i \in T} = {s[i].id : i \in S} \cup {e.id}
  BY <1>4, <1>5, <1>7
<1>. QED BY <1>2, <1>3, <1>8

\* A feature that goes, with the marker behind it moving back, is built no more.
LEMMA RemovedBuilt ==
    ASSUME NEW s \in Seq(Feature), Apart(s), NEW p \in 1..Len(s), NEW r \in Nat, NEW skipped
    PROVE  Built(RemoveAt(s, p), IF p <= r THEN r - 1 ELSE r, skipped \ {s[p].id})
               = Built(s, r, skipped) \ {s[p].id}
<1>. DEFINE t == RemoveAt(s, p)
            m == IF p <= r THEN r - 1 ELSE r
            S == {k \in 1..Len(s) : k <= r}
            T == {k \in 1..Len(s) - 1 : k <= m}
            from(j) == IF j < p THEN j ELSE j + 1
<1>0. /\ Len(s) \in Nat /\ t \in Seq(Feature) /\ Len(t) = Len(s) - 1
      /\ \A j \in 1..Len(s) - 1 : t[j] = IF j < p THEN s[j] ELSE s[j + 1]
  <2>1. Len(s) \in Nat
    OBVIOUS
  <2>. QED BY <2>1, RemoveAtIs, Zenon
<1>1. /\ Len(s) \in Nat /\ t \in Seq(Feature) /\ Len(t) = Len(s) - 1
      /\ \A j \in 1..Len(s) - 1 : t[j] = s[from(j)]
  <2>. HIDE DEF t
  <2>1. ASSUME NEW j \in 1..Len(s) - 1 PROVE t[j] = s[from(j)]
    <3>1. CASE j < p
      BY <1>0, <3>1
    <3>2. CASE ~(j < p)
      BY <1>0, <3>2
    <3>. QED BY <3>1, <3>2
  <2>. QED BY <1>0, <2>1
<1>2. m \in Nat
  OBVIOUS
<1>. HIDE DEF t
<1>3. Built(s, r, skipped) = {s[i].id : i \in S} \ skipped
  BY BuiltIs
<1>4. Built(t, m, skipped \ {s[p].id}) = {t[i].id : i \in T} \ (skipped \ {s[p].id})
  <2>. HIDE DEF m
  <2>. QED BY <1>1, <1>2, BuiltIs
<1>5. \A j \in T : from(j) \in S /\ from(j) # p /\ j \in 1..Len(s) - 1
  BY <1>1
<1>6. \A i \in S : i # p => \E j \in T : from(j) = i
  <2>. SUFFICES ASSUME NEW i \in S, i # p PROVE \E j \in T : from(j) = i
    OBVIOUS
  <2>1. CASE i < p
    <3>1. i \in T /\ from(i) = i
      BY <1>1, <2>1
    <3>. QED BY <3>1
  <2>2. CASE ~(i < p)
    <3>1. i - 1 \in T /\ from(i - 1) = i
      BY <1>1, <2>2
    <3>. QED BY <3>1
  <2>. QED BY <2>1, <2>2
<1>7. S \subseteq 1..Len(s)
  OBVIOUS
<1>. HIDE DEF S, T, from, m
<1>8. {t[i].id : i \in T} = {s[i].id : i \in S} \ {s[p].id}
  <2>1. ASSUME NEW j \in T PROVE t[j].id \in {s[i].id : i \in S} /\ t[j].id # s[p].id
    <3>1. t[j] = s[from(j)] /\ from(j) \in S /\ from(j) # p /\ from(j) \in 1..Len(s)
      BY <1>1, <1>5, <1>7
    <3>. QED BY <3>1 DEF Apart
  <2>2. ASSUME NEW i \in S, s[i].id # s[p].id PROVE s[i].id \in {t[j].id : j \in T}
    <3>1. PICK j \in T : from(j) = i
      BY <1>6, <2>2
    <3>2. t[j] = s[i]
      BY <1>1, <1>5, <3>1
    <3>. QED BY <3>2
  <2>. QED BY <2>1, <2>2
<1>9. Built(t, m, skipped \ {s[p].id}) = Built(s, r, skipped) \ {s[p].id}
  BY <1>3, <1>4, <1>8
<1>. QED BY <1>9 DEF t, m

------------------------------------------------------------------------
\* The documents a step leaves.

\* The documents on the stacks, by index.
LEMMA EntriesIn ==
    ASSUME StacksAreGood
    PROVE  /\ \A i \in 1..Len(undoStack) : undoStack[i].doc \in Docs
           /\ \A i \in 1..Len(redoStack) : redoStack[i] \in Docs
           /\ doc \in Docs
           /\ DOMAIN undoStack = 1..Len(undoStack) /\ DOMAIN redoStack = 1..Len(redoStack)
           /\ Len(undoStack) \in Nat /\ Len(redoStack) \in Nat
BY LenProperties DEF StacksAreGood, Docs, Range

\* So are the ones on the stack after a change.
LEMMA PushedDocs ==
    ASSUME StacksAreGood
    PROVE  \A i \in DOMAIN Pushed : Pushed[i].doc \in Docs
<1>1. /\ Pushed \in Seq(Entry)
      /\ \A e \in Range(Pushed) : e.doc = doc \/ e \in Range(undoStack)
  BY PushedIs, PushedHas DEF StacksAreGood, Docs, Good, Fits
<1>2. \A i \in DOMAIN Pushed : Pushed[i] \in Range(Pushed)
  BY DEF Range
<1>. QED BY <1>1, <1>2 DEF Docs

\* A document the step leaves: there was one like it, or it is the one the step makes.
Left(d) == \/ d = doc' \/ d \in Docs
           \/ import' = NoImport /\ \E e \in Docs : d = Without(e)

\* A step leaves no document but the one it makes and those it found.
LEMMA StepDocs ==
    ASSUME GoodInv, [Next]_vars
    PROVE  \A d \in Docs' : Left(d)
<1>0. /\ \A i \in 1..Len(undoStack) : undoStack[i].doc \in Docs
      /\ \A i \in 1..Len(redoStack) : redoStack[i] \in Docs
      /\ doc \in Docs
      /\ DOMAIN undoStack = 1..Len(undoStack) /\ DOMAIN redoStack = 1..Len(redoStack)
      /\ Len(undoStack) \in Nat /\ Len(redoStack) \in Nat
      /\ undoStack \in Seq(Entry) /\ redoStack \in Seq(Document)
  BY EntriesIn DEF GoodInv, StacksAreGood
<1>1. \A i \in DOMAIN Pushed : Pushed[i].doc \in Docs
  BY PushedDocs DEF GoodInv
<1>f. /\ Left(doc') /\ \A d \in Docs : Left(d)
      /\ import' = NoImport => \A d \in Docs : Left(Without(d))
  BY DEF Left
<1>2. ASSUME \A i \in DOMAIN undoStack' : Left(undoStack'[i].doc),
             \A i \in DOMAIN redoStack' : Left(redoStack'[i])
      PROVE  \A d \in Docs' : Left(d)
  BY <1>2, <1>f DEF Docs, Range
<1>3. CASE UNCHANGED <<undoStack, redoStack>>
  BY <1>0, <1>2, <1>3, <1>f
<1>4. CASE undoStack' = Pushed /\ redoStack' = <<>>
  BY <1>1, <1>2, <1>4, <1>f
<1>5. CASE Undo
  <2>1. undoStack # <<>> /\ undoStack' = Front(undoStack) /\ redoStack' = Append(redoStack, doc)
    BY <1>5 DEF Undo
  <2>2. /\ Len(undoStack) >= 1 /\ DOMAIN undoStack' = 1..Len(undoStack) - 1
        /\ \A i \in 1..Len(undoStack) - 1 : undoStack'[i] = undoStack[i]
    BY <1>0, <2>1, FrontIs, LenProperties
  <2>3. \A i \in DOMAIN undoStack' : undoStack'[i].doc \in Docs
    <3>1. \A i \in 1..Len(undoStack) - 1 : i \in 1..Len(undoStack)
      BY <1>0
    <3>. QED BY <1>0, <2>2, <3>1
  <2>4. /\ DOMAIN redoStack' = 1..Len(redoStack) + 1
        /\ \A i \in 1..Len(redoStack) : redoStack'[i] = redoStack[i]
        /\ redoStack'[Len(redoStack) + 1] = doc
    <3>1. doc \in Document
      BY DEF GoodInv, StacksAreGood, Docs, Good, Fits
    <3>. QED BY <1>0, <2>1, <3>1, AppendProperties, LenProperties
  <2>5. \A i \in DOMAIN redoStack' : redoStack'[i] \in Docs
    <3>1. \A i \in 1..Len(redoStack) + 1 : i \in 1..Len(redoStack) \/ i = Len(redoStack) + 1
      BY <1>0
    <3>. QED BY <1>0, <2>4, <3>1
  <2>. QED BY <1>2, <1>f, <2>3, <2>5
<1>6. CASE Redo
  <2>1. redoStack # <<>> /\ redoStack' = Front(redoStack) /\ undoStack' = Pushed
    BY <1>6 DEF Redo
  <2>2. /\ Len(redoStack) >= 1 /\ DOMAIN redoStack' = 1..Len(redoStack) - 1
        /\ \A i \in 1..Len(redoStack) - 1 : redoStack'[i] = redoStack[i]
    BY <1>0, <2>1, FrontIs, LenProperties
  <2>3. \A i \in DOMAIN redoStack' : redoStack'[i] \in Docs
    <3>1. \A i \in 1..Len(redoStack) - 1 : i \in 1..Len(redoStack)
      BY <1>0
    <3>. QED BY <1>0, <2>2, <3>1
  <2>. QED BY <1>1, <1>2, <1>f, <2>1, <2>3
<1>7. CASE Replace
  <2>1. undoStack' = <<>> /\ redoStack' = <<>>
    BY <1>7 DEF Replace
  <2>. QED BY <1>2, <2>1
<1>8. CASE ImportRead
  <2>1. undoStack' = [Pushed EXCEPT ![Len(Pushed)].added = TRUE] /\ redoStack' = <<>>
    BY <1>8 DEF ImportRead
  <2>2. /\ undoStack' \in Seq(Entry) /\ Len(undoStack') = Len(Pushed) /\ Pushed \in Seq(Entry)
        /\ \A i \in 1..Len(Pushed) : undoStack'[i].doc = Pushed[i].doc
    BY <2>1, MarkedIs, PushedIs DEF GoodInv, StacksAreGood, Docs, Good, Fits
  <2>3. DOMAIN undoStack' = 1..Len(Pushed) /\ DOMAIN Pushed = 1..Len(Pushed)
    BY <2>2, LenProperties
  <2>. QED BY <1>1, <1>2, <1>f, <2>1, <2>2, <2>3
<1>9. CASE ImportEnds
  <2>1. undoStack' = Unmarked(undoStack) /\ redoStack' = redoStack
    BY <1>9 DEF ImportEnds
  <2>2. DOMAIN undoStack' = 1..Len(undoStack) /\ \A i \in 1..Len(undoStack) : undoStack'[i].doc = undoStack[i].doc
    BY <1>0, <2>1, UnmarkedDocs
  <2>. QED BY <1>0, <1>2, <1>f, <2>1, <2>2
<1>10. CASE WithdrawFeature
  <2>1. PICK at \in DOMAIN undoStack :
            undoStack' = [k \in 1..(Len(undoStack) - 1) |->
                IF k < at THEN undoStack[k]
                ELSE [doc |-> Without(undoStack[k + 1].doc), added |-> FALSE]]
    BY <1>10 DEF WithdrawFeature
  <2>2. redoStack' = [k \in DOMAIN redoStack |-> Without(redoStack[k])] /\ import' = NoImport
    BY <1>10 DEF WithdrawFeature
  <2>3. ASSUME NEW k \in 1..Len(undoStack) - 1 PROVE Left(undoStack'[k].doc)
    <3>1. k \in 1..Len(undoStack) /\ k + 1 \in 1..Len(undoStack)
      BY <1>0
    <3>2. CASE k < at
      <4>1. undoStack'[k] = undoStack[k]
        BY <2>1, <3>2
      <4>. QED BY <1>0, <1>f, <3>1, <4>1
    <3>3. CASE ~(k < at)
      <4>. DEFINE d == Without(undoStack[k + 1].doc)
      <4>1. undoStack'[k] = [doc |-> d, added |-> FALSE]
        BY <2>1, <3>3
      <4>2. [doc |-> d, added |-> FALSE].doc = d
        OBVIOUS
      <4>3. undoStack'[k].doc = d
        <5>. HIDE DEF d
        <5>. QED BY <4>1, <4>2, Zenon
      <4>. QED BY <1>0, <1>f, <2>2, <3>1, <4>3
    <3>. QED BY <3>2, <3>3
  <2>4. \A k \in DOMAIN redoStack' : Left(redoStack'[k])
    BY <1>0, <1>f, <2>2
  <2>5. DOMAIN undoStack' = 1..Len(undoStack) - 1
    BY <2>1
  <2>. QED BY <1>2, <2>3, <2>4, <2>5
<1>11. \/ UNCHANGED <<undoStack, redoStack>>
       \/ undoStack' = Pushed /\ redoStack' = <<>>
       \/ Undo \/ Redo \/ Replace \/ ImportRead \/ ImportEnds \/ WithdrawFeature
  BY DEF Next, Others, vars, Mutate, AddFeature, EditFeature, RemoveFeature, MoveFeature,
         SetRollback, ToggleSuppress, SetParam, SetSketchDimension, RefreshProjections, Queue,
         CommitWithCascade, CommitSketchDimension, CommitProjectionRefresh, CommitIsDropped,
         StartTool, CommitTool, CancelTool, StartImport
<1>. QED BY <1>3, <1>4, <1>5, <1>6, <1>7, <1>8, <1>9, <1>10, <1>11

------------------------------------------------------------------------
\* What one feature more or less is.

\* What is built follows the features that come and go.
BuiltFollows ==
    LET built == Built(doc.features, rollbackIndex, suppressed)
        kept == Ids(doc.features) \cap Ids(doc'.features)
    IN Built(doc'.features, rollbackIndex', suppressed') =
           (built \cap kept) \cup ((Ids(doc'.features) \ kept) \ suppressed)

\* Adding a feature under a free name changes what is built by that feature.
LEMMA AddStep ==
    ASSUME GoodInv, NamesInv, changes < MaxChanges, NEW id \in Name,
           id \notin Ids(doc.features), doc' = Added(id), rollback' = MarkerAfterAdd
    PROVE  /\ Apart(doc'.features) /\ Ids(doc'.features) = Ids(doc.features) \cup {id}
           /\ suppressed' = suppressed => BuiltFollows
<1>. DEFINE s == doc.features
            t == doc'.features
            e == Made(id)
            p == Slot
            r == rollbackIndex
<1>1. /\ doc \in Document /\ s \in Seq(Feature) /\ e \in Feature /\ e.id = id
      /\ Apart(s) /\ rollback \in {Null} \cup Nat
  BY MadeIs, BoundsAssumption
     DEF GoodInv, StacksAreGood, NamesAreGood, NamesInv, Docs, Good, Fits, Document
<1>2. /\ r \in Nat /\ p \in 1..Len(s) + 1
      /\ p = After(r, Len(s))
  BY <1>1, SlotIs DEF After
<1>3. /\ t \in Seq(Feature) /\ Len(t) = Len(s) + 1
      /\ \A j \in 1..Len(s) + 1 : t[j] = IF j < p THEN s[j] ELSE IF j = p THEN e ELSE s[j - 1]
  BY AddedIs
<1>4. rollbackIndex' = r + 1
  <2>1. Len(t) = Len(s) + 1 /\ Len(s) \in Nat
    BY <1>1, <1>3
  <2>2. CASE rollback = Null
    BY <2>1, <2>2 DEF rollbackIndex, MarkerAfterAdd
  <2>3. CASE rollback # Null
    <3>1. rollback' = rollback + 1 /\ rollback \in Nat
      BY <1>1, <2>3 DEF MarkerAfterAdd
    <3>2. rollback + 1 # Null
      BY <1>1, <2>3, NullAssumption
    <3>. QED BY <2>3, <3>1, <3>2 DEF rollbackIndex
  <2>. QED BY <2>2, <2>3
<1>5. rollbackIndex' = (IF rollback' = Null THEN Len(t) ELSE rollback')
  BY DEF rollbackIndex
<1>a. s \in Seq(Feature) /\ e \in Feature /\ Apart(s) /\ e.id \notin Ids(s)
  BY <1>1
<1>. HIDE DEF s, t, e, p, r
<1>b. Inserted(s, p, e, t)
  BY <1>a, <1>2, <1>3 DEF Inserted
<1>6. Ids(t) = Ids(s) \cup {e.id} /\ Apart(t)
  BY <1>a, <1>b, AddedNames
<1>7. Built(t, r + 1, suppressed) = Built(s, r, suppressed) \cup ({e.id} \ suppressed)
  BY <1>2, <1>b, AddedBuilt
<1>8. Built(s, r, suppressed) \subseteq Ids(s)
  <2>0. s \in Seq(Feature)
    BY <1>1
  <2>1. r \in Nat
    BY <1>2
  <2>2. Built(s, r, suppressed) = {s[i].id : i \in {k \in 1..Len(s) : k <= r}} \ suppressed
    BY <2>0, <2>1, BuiltIs
  <2>3. Ids(s) = {s[i].id : i \in 1..Len(s)}
    BY <2>0, IdsAre
  <2>. QED BY <2>2, <2>3
<1>9. ASSUME suppressed' = suppressed PROVE BuiltFollows
  <2>. DEFINE kept == Ids(s) \cap Ids(t)
  <2>1. kept = Ids(s) /\ Ids(t) \ kept = {id}
    BY <1>1, <1>6 DEF s
  <2>2. Built(t, rollbackIndex', suppressed') = (Built(s, r, suppressed) \cap kept) \cup ((Ids(t) \ kept) \ suppressed)
    BY <1>1, <1>4, <1>7, <1>8, <1>9, <2>1
  <2>. QED BY <2>2 DEF BuiltFollows, s, t, r
<1>. QED BY <1>1, <1>6, <1>9 DEF s, t

\* Taking one out changes what is built by that one.
LEMMA RemoveStep ==
    ASSUME GoodInv, NamesInv, NEW p \in 1..Len(doc.features),
           doc' = [features |-> RemoveAt(doc.features, p), param |-> doc.param],
           rollback' = MarkerAfterRemove(p)
    PROVE  /\ Apart(doc'.features) /\ Ids(doc'.features) = Ids(doc.features) \ {doc.features[p].id}
           /\ suppressed' = suppressed \ {doc.features[p].id} => BuiltFollows
<1>. DEFINE s == doc.features
            t == doc'.features
            r == rollbackIndex
            x == s[p].id
            m == IF p <= r THEN r - 1 ELSE r
<1>1. /\ doc \in Document /\ s \in Seq(Feature) /\ Apart(s) /\ rollback \in {Null} \cup Nat
      /\ Len(s) \in Nat
  BY LenProperties, BoundsAssumption
     DEF GoodInv, StacksAreGood, NamesAreGood, NamesInv, Docs, Good, Fits, Document
<1>2. r \in Nat
  BY <1>1, SlotIs
<1>3. t = RemoveAt(s, p)
  OBVIOUS
<1>4. t \in Seq(Feature) /\ Apart(t) /\ Ids(t) = Ids(s) \ {x} /\ Len(t) = Len(s) - 1
  <2>. HIDE DEF s, t
  <2>. QED BY <1>1, <1>3, RemovedNames, RemoveAtIs DEF s
<1>5. rollbackIndex' = m
  <2>1. CASE rollback = Null
    BY <1>1, <1>4, <2>1 DEF rollbackIndex, MarkerAfterRemove
  <2>2. CASE rollback # Null
    <3>1. r = rollback /\ rollback \in Nat /\ rollback' = m
      BY <1>1, <2>2 DEF MarkerAfterRemove, rollbackIndex
    <3>2. m # Null
      BY <1>2, <2>2, <3>1, NullAssumption
    <3>. QED BY <3>1, <3>2 DEF rollbackIndex
  <2>. QED BY <2>1, <2>2
<1>6. Built(t, m, suppressed \ {x}) = Built(s, r, suppressed) \ {x}
  <2>. HIDE DEF t
  <2>. QED BY <1>1, <1>2, <1>3, RemovedBuilt
<1>7. Built(s, r, suppressed) \subseteq Ids(s)
  BY <1>1, <1>2, BuiltIs, IdsAre
<1>. HIDE DEF s, t, r, x, m
<1>8. ASSUME suppressed' = suppressed \ {x} PROVE BuiltFollows
  <2>. DEFINE kept == Ids(s) \cap Ids(t)
  <2>1. kept = Ids(s) \ {x} /\ Ids(t) \ kept = {}
    BY <1>4
  <2>2. Built(t, rollbackIndex', suppressed') = (Built(s, r, suppressed) \cap kept) \cup ((Ids(t) \ kept) \ suppressed)
    BY <1>5, <1>6, <1>7, <1>8, <2>1
  <2>. QED BY <2>2 DEF BuiltFollows, s, t, r
<1>. QED BY <1>4, <1>8 DEF s, t, x

------------------------------------------------------------------------
\* Names stay apart.

\* The name for the next feature is free.
LEMMA IdIsFree ==
    ASSUME GoodInv
    PROVE  NextId(doc.features) \in Name /\ NextId(doc.features) \notin Ids(doc.features)
BY NextIdIs DEF GoodInv, StacksAreGood, Docs, Good, Fits, Document

\* What a step makes of the names in the document.
DocStays == Apart(doc'.features)

\* Starters, tools and imports add under a free name.
LEMMA AddNames ==
    ASSUME GoodInv, NamesInv
    PROVE  (AddFeature \/ AddsFree \/ ImportRead) => DocStays /\ BuiltFollows
<1>1. CASE AddFeature
  <2>1. /\ changes < MaxChanges /\ doc' = Added(NextId(doc.features)) /\ rollback' = MarkerAfterAdd
        /\ suppressed' = suppressed
    BY <1>1 DEF AddFeature, MayChange, Mutate
  <2>. QED BY <2>1, IdIsFree, AddStep DEF DocStays
<1>2. CASE AddsFree
  <2>1. /\ changes < MaxChanges /\ doc' = Added(tool) /\ rollback' = MarkerAfterAdd
        /\ suppressed' = suppressed
    BY <1>2 DEF AddsFree, CommitTool, MayChange, Mutate
  <2>2. tool \in Name /\ tool \notin Ids(doc.features)
    BY <1>2 DEF GoodInv, NamesAreGood, AddsFree, Doubles, CommitTool
  <2>. QED BY <2>1, <2>2, AddStep DEF DocStays
<1>3. CASE ImportRead
  <2>1. /\ changes < MaxChanges /\ doc' = Added(NextId(doc.features)) /\ rollback' = MarkerAfterAdd
        /\ suppressed' = suppressed
    BY <1>3 DEF ImportRead, MayChange
  <2>. QED BY <2>1, IdIsFree, AddStep DEF DocStays
<1>. QED BY <1>1, <1>2, <1>3

\* Removing and withdrawing take one name out.
LEMMA RemoveNames ==
    ASSUME GoodInv, NamesInv
    PROVE  (RemoveFeature \/ WithdrawFeature) => DocStays /\ BuiltFollows
<1>0. /\ Fits(doc) /\ doc.features \in Seq(Feature) /\ Apart(doc.features)
      /\ DOMAIN doc.features = 1..Len(doc.features)
  BY LenProperties DEF GoodInv, StacksAreGood, NamesInv, Docs, Good, Fits, Document
<1>1. CASE RemoveFeature
  <2>1. PICK p \in DOMAIN doc.features :
            /\ Mutate([doc EXCEPT !.features = RemoveAt(@, p)])
            /\ rollback' = MarkerAfterRemove(p)
            /\ suppressed' = suppressed \ {doc.features[p].id}
    BY <1>1 DEF RemoveFeature
  <2>2. doc' = [features |-> RemoveAt(doc.features, p), param |-> doc.param]
    BY <2>1, RemovedIsGood DEF Mutate
  <2>3. p \in 1..Len(doc.features)
    BY <1>0
  <2>. QED BY <2>1, <2>2, <2>3, RemoveStep DEF DocStays
<1>2. CASE WithdrawFeature
  <2>1. /\ import.id \in Ids(doc.features) /\ doc' = Without(doc)
        /\ rollback' = MarkerAfterRemove(IndexOf(doc.features, import.id))
        /\ suppressed' = suppressed \ {import.id}
    BY <1>2 DEF WithdrawFeature
  <2>. DEFINE p == IndexOf(doc.features, import.id)
  <2>2. p \in 1..Len(doc.features) /\ doc.features[p].id = import.id
    <3>1. \E k \in DOMAIN doc.features : doc.features[k].id = import.id
      BY <1>0, <2>1, IdsAre
    <3>. QED BY <1>0, <3>1 DEF IndexOf
  <2>. HIDE DEF p
  <2>3. doc' = [features |-> RemoveAt(doc.features, p), param |-> doc.param]
    BY <1>0, <2>1, <2>2, WithoutOne
  <2>4. rollback' = MarkerAfterRemove(p)
    BY <2>1 DEF p
  <2>. QED BY <2>1, <2>2, <2>3, <2>4, RemoveStep DEF DocStays
<1>. QED BY <1>1, <1>2

\* An edit leaves the names where they are.
LEMMA EditNames ==
    ASSUME GoodInv, NamesInv
    PROVE  (EditFeature \/ LandsOver \/ CommitSketchDimension \/ CommitProjectionRefresh)
               => DocStays
<1>0. /\ doc.features \in Seq(Feature) /\ Apart(doc.features)
      /\ DOMAIN doc.features = 1..Len(doc.features) /\ doc \in Document
  BY LenProperties DEF GoodInv, StacksAreGood, NamesInv, Docs, Good, Fits, Document
<1>1. ASSUME NEW t \in Seq(Feature), Len(t) = Len(doc.features),
             \A i \in 1..Len(doc.features) : t[i].id = doc.features[i].id,
             doc'.features = t
      PROVE  DocStays
  BY <1>0, <1>1, SameNames DEF DocStays
<1>2. CASE EditFeature
  <2>1. PICK i \in DOMAIN doc.features :
            Mutate([doc EXCEPT !.features[i].val = Stamp, !.features[i].at = doc.param])
    BY <1>2 DEF EditFeature
  <2>. DEFINE f == [id |-> doc.features[i].id, born |-> doc.features[i].born,
                    val |-> Stamp, at |-> doc.param]
              t == [doc.features EXCEPT ![i] = f]
  <2>2. f \in Feature /\ doc' = [features |-> t, param |-> doc.param]
    BY <1>2, <2>1, EditedIsGood DEF EditFeature, MayChange, Mutate
  <2>3. f.id = doc.features[i].id /\ i \in 1..Len(doc.features)
    BY <1>0
  <2>. HIDE DEF f
  <2>4. /\ t \in Seq(Feature) /\ Len(t) = Len(doc.features)
        /\ \A j \in 1..Len(doc.features) : t[j] = IF j = i THEN f ELSE doc.features[j]
    BY <1>0, <2>2, <2>3, ExceptSeq
  <2>5. \A j \in 1..Len(doc.features) : t[j].id = doc.features[j].id
    BY <2>3, <2>4
  <2>6. doc'.features = t
    BY <2>2
  <2>. HIDE DEF t
  <2>. QED BY <1>1, <2>4, <2>5, <2>6
<1>3. CASE LandsOver
  <2>. DEFINE t == solving.draft.features
  <2>1. /\ SamePlain(t, doc.features) /\ Good(solving.draft) /\ doc' = solving.draft
    BY <1>3, DraftOver DEF LandsOver, CommitWithCascade, Mutate, GoodInv, SolvingIsGood
  <2>2. /\ t \in Seq(Feature) /\ Len(t) = Len(doc.features)
        /\ \A i \in 1..Len(doc.features) : t[i].id = doc.features[i].id
    BY <2>1 DEF SamePlain, Good, Fits, Document
  <2>3. doc'.features = t
    BY <2>1
  <2>. HIDE DEF t
  <2>. QED BY <1>1, <2>1, <2>2, <2>3
<1>4. CASE CommitSketchDimension \/ CommitProjectionRefresh
  <2>. DEFINE t == Landed(Current).features
  <2>1. /\ solving.kind \in {"dimension", "refresh"} /\ Current # {}
        /\ doc' = Landed(Current)
    BY <1>4 DEF CommitSketchDimension, CommitProjectionRefresh, Mutate
  <2>2. t \in Seq(Feature) /\ Len(t) = Len(doc.features)
    BY <1>0, <2>1, LandedIs, LenProperties DEF Good, Fits, Document
  <2>3. \A i \in 1..Len(doc.features) : t[i].id = doc.features[i].id
    <3>. SUFFICES ASSUME NEW i \in 1..Len(doc.features) PROVE t[i].id = doc.features[i].id
      OBVIOUS
    <3>1. \/ t[i] = doc.features[i]
          \/ \E f \in Current : f.id = doc.features[i].id /\ t[i] = Rewritten(f)
      BY <1>0, <2>1, LandedIs
    <3>2. \A f \in Current : Rewritten(f).id = f.id
      <4>1. Current \subseteq Feature
        BY <2>1 DEF GoodInv, SolvingIsGood, Current
      <4>2. ASSUME NEW f \in Current PROVE Rewritten(f).id = f.id
        <5>1. f \in Feature
          BY <4>1
        <5>. QED BY <5>1, RewrittenIs
      <4>. QED BY <4>2
    <3>. QED BY <3>1, <3>2
  <2>4. doc'.features = t
    BY <2>1
  <2>. HIDE DEF t
  <2>. QED BY <1>1, <2>1, <2>2, <2>3, <2>4
<1>. QED BY <1>2, <1>3, <1>4

\* A move keeps them apart.
LEMMA MovedNames ==
    ASSUME NEW s \in Seq(Feature), Apart(s), NEW i \in DOMAIN s, NEW j \in DOMAIN s
    PROVE  LET t == InsertAt(RemoveAt(s, i), j, s[i]) IN Apart(t) /\ Ids(t) \subseteq Ids(s)
<1>. DEFINE t == InsertAt(RemoveAt(s, i), j, s[i])
<1>0. /\ t \in Seq(Feature) /\ Len(t) = Len(s)
      /\ \A k \in 1..Len(s) : \E l \in 1..Len(s) : t[k] = s[l]
  BY MovedIs
<1>1. Permuted(s, t)
  BY MovedIs
<1>. HIDE DEF t
<1>2. Apart(t)
  <2>. SUFFICES ASSUME NEW k \in 1..Len(s), NEW l \in 1..Len(s), t[k].id = t[l].id
                PROVE  k = l
    BY <1>0 DEF Apart
  <2>1. PICK p \in [1..Len(s) -> 1..Len(s)] :
            /\ \A a \in 1..Len(s) : t[a] = s[p[a]]
            /\ \A a, b \in 1..Len(s) : p[a] = p[b] => a = b
    BY <1>1 DEF Permuted
  <2>2. p[k] \in 1..Len(s) /\ p[l] \in 1..Len(s) /\ t[k] = s[p[k]] /\ t[l] = s[p[l]]
    BY <2>1
  <2>. QED BY <2>1, <2>2 DEF Apart
<1>3. Ids(t) \subseteq Ids(s)
  <2>1. Ids(t) = {t[k].id : k \in 1..Len(s)} /\ Ids(s) = {s[k].id : k \in 1..Len(s)}
    BY <1>0, IdsAre
  <2>. QED BY <1>0, <2>1
<1>. QED BY <1>2, <1>3 DEF t

\* So a move of a feature does.
LEMMA MoveNames ==
    ASSUME GoodInv, NamesInv, MoveFeature
    PROVE  DocStays
<1>. DEFINE s == doc.features
<1>0. /\ s \in Seq(Feature) /\ Apart(s) /\ DOMAIN s = 1..Len(s)
  BY LenProperties DEF GoodInv, StacksAreGood, NamesInv, Docs, Good, Fits, Document
<1>1. PICK i \in DOMAIN s, j \in DOMAIN s :
          Mutate([doc EXCEPT !.features = InsertAt(RemoveAt(@, i), j, @[i])])
  BY DEF MoveFeature
<1>. DEFINE t == InsertAt(RemoveAt(s, i), j, s[i])
<1>2. doc' = [features |-> t, param |-> doc.param]
  BY <1>1, MovedIsGood DEF Mutate
<1>3. doc'.features = t
  BY <1>2
<1>4. Apart(t)
  BY <1>0, MovedNames
<1>. QED BY <1>3, <1>4 DEF DocStays

\* The other steps bring a document back, or leave it.
LEMMA OtherNames ==
    ASSUME GoodInv, NamesInv
    PROVE  (Undo \/ Redo \/ Replace \/ SetRollback \/ ToggleSuppress \/ SetParam \/ SetSketchDimension
               \/ RefreshProjections \/ CommitIsDropped \/ StartTool \/ CancelTool \/ StartImport
               \/ ImportEnds \/ UNCHANGED vars) => DocStays
<1>1. CASE Undo
  <2>1. undoStack # <<>> /\ doc' = undoStack[Len(undoStack)].doc
    BY <1>1 DEF Undo
  <2>2. Len(undoStack) \in 1..Len(undoStack)
    BY <2>1, FrontIs DEF GoodInv, StacksAreGood
  <2>3. doc' \in Docs
    BY <2>1, <2>2, EntriesIn DEF GoodInv
  <2>. QED BY <2>1, <2>3 DEF NamesInv, DocStays
<1>2. CASE Redo
  <2>1. redoStack # <<>> /\ doc' = redoStack[Len(redoStack)]
    BY <1>2 DEF Redo
  <2>2. Len(redoStack) \in 1..Len(redoStack)
    BY <2>1, FrontIs DEF GoodInv, StacksAreGood
  <2>3. doc' \in Docs
    BY <2>1, <2>2, EntriesIn DEF GoodInv
  <2>. QED BY <2>1, <2>3 DEF NamesInv, DocStays
<1>3. CASE Replace
  <2>1. doc'.features = <<>> \/ \E f : doc'.features = <<f>>
    <3>1. \/ doc' = [features |-> <<>>, param |-> 0]
          \/ doc' = [features |-> <<[Made(1) EXCEPT !.at = 0]>>, param |-> 0]
      BY <1>3 DEF Replace
    <3>. QED BY <3>1
  <2>2. Apart(doc'.features)
    BY <2>1 DEF Apart
  <2>. QED BY <2>1, <2>2 DEF DocStays
<1>4. CASE UNCHANGED doc
  BY <1>4 DEF NamesInv, Docs, DocStays
<1>5. (SetRollback \/ ToggleSuppress \/ SetParam \/ SetSketchDimension \/ RefreshProjections
         \/ CommitIsDropped \/ StartTool \/ CancelTool \/ StartImport \/ ImportEnds
         \/ UNCHANGED vars) => UNCHANGED doc
  BY DEF vars, SetRollback, ToggleSuppress, SetParam, SetSketchDimension, RefreshProjections, Queue,
         CommitIsDropped, GoOn, StartTool, CancelTool, StartImport, ImportEnds
<1>. QED BY <1>1, <1>2, <1>3, <1>4, <1>5

\* There is no name at first.
LEMMA InitNames == Init => NamesInv
<1>. SUFFICES ASSUME Init PROVE NamesInv
  OBVIOUS
<1>1. Docs = {doc} /\ doc.features = <<>>
  BY DEF Init, Docs, Range
<1>. QED BY <1>1 DEF NamesInv, Apart

\* NamesInv is inductive relative to GoodInv, in an orderly store.
LEMMA NamesAreKept == GoodInv /\ NamesInv /\ [OrderlyNext]_vars => NamesInv'
<1>. SUFFICES ASSUME GoodInv, NamesInv, [OrderlyNext]_vars PROVE NamesInv'
  OBVIOUS
<1>1. DocStays
  <2>1. CASE UNCHANGED vars
    BY <2>1, OtherNames
  <2>2. CASE OrderlyNext
    BY <2>2, AddNames, RemoveNames, EditNames, MoveNames, OtherNames
       DEF OrderlyNext, Others, LandsOver, AddsFree
  <2>. QED BY <2>1, <2>2
<1>2. ASSUME NEW d \in Docs' PROVE Apart(d.features)
  <2>1. Left(d)
    BY StepDocs, OrderlyIsStep
  <2>2. ASSUME NEW e \in Docs, d = Without(e) PROVE Apart(d.features)
    BY <2>2, WithoutNames DEF GoodInv, StacksAreGood, NamesInv, Good
  <2>. QED BY <1>1, <2>1, <2>2 DEF Left, DocStays, NamesInv
<1>. QED BY <1>2 DEF NamesInv

\* Both hold in every state an orderly store reaches.
LEMMA AlwaysNamed == Orderly => [](GoodInv /\ NamesInv)
<1>1. Init => GoodInv /\ NamesInv
  BY InitGood, InitNames
<1>2. GoodInv /\ NamesInv /\ [OrderlyNext]_vars => (GoodInv /\ NamesInv)'
  BY GoodIsKept, NamesAreKept, OrderlyIsStep
<1>. QED BY <1>1, <1>2, PTL DEF Orderly

\* Adding, removing and withdrawing a feature changes what is built by that feature
\* alone, wherever the marker is and whatever undo has left it at, in every execution of
\* the store in which no commit overwrites what was changed while it was solved, no tool
\* commits under a name that was taken, and no import is called off by mistake.
THEOREM MarkerFollows == Spec /\ [][~Departs]_vars => MarkerFollowsEdits
<1>1. GoodInv /\ NamesInv /\ ~Departs =>
          (AddFeature \/ CommitTool \/ ImportRead \/ RemoveFeature \/ WithdrawFeature => BuiltFollows)
  BY AddNames, RemoveNames DEF Departs, AddsFree
<1>2. GoodInv /\ NamesInv /\ [~Departs]_vars =>
          [AddFeature \/ CommitTool \/ ImportRead \/ RemoveFeature \/ WithdrawFeature => BuiltFollows]_vars
  BY <1>1
<1>. QED BY <1>2, AlwaysNamed, OrderlyIs, PTL DEF MarkerFollowsEdits, BuiltFollows

------------------------------------------------------------------------
\* The history: documents as the user knows them.

PlainFeature == [id : Name, born : 1..MaxChanges, val : 1..MaxChanges]
PlainDocument == [features : Seq(PlainFeature), param : 0..MaxChanges]

PlainOf(f) == [id |-> f.id, born |-> f.born, val |-> f.val]
PlainAll(s) == [i \in DOMAIN s |-> PlainOf(s[i])]

\* A feature as the user knows it.
LEMMA PlainOfIs ==
    ASSUME NEW f \in Feature
    PROVE  /\ PlainOf(f) \in PlainFeature
           /\ PlainOf(f).id = f.id /\ PlainOf(f).born = f.born /\ PlainOf(f).val = f.val
BY DEF PlainOf, PlainFeature, Feature, Name

\* A list of them, index by index.
LEMMA PlainAllIs ==
    ASSUME NEW s \in Seq(Feature)
    PROVE  /\ PlainAll(s) \in Seq(PlainFeature) /\ Len(PlainAll(s)) = Len(s)
           /\ DOMAIN PlainAll(s) = DOMAIN s /\ DOMAIN s = 1..Len(s) /\ Len(s) \in Nat
           /\ \A i \in 1..Len(s) : /\ PlainAll(s)[i] = PlainOf(s[i])
                                   /\ PlainAll(s)[i].id = s[i].id
                                   /\ PlainAll(s)[i].born = s[i].born
<1>1. DOMAIN s = 1..Len(s) /\ Len(s) \in Nat /\ \A i \in 1..Len(s) : s[i] \in Feature
  BY LenProperties
<1>2. \A i \in 1..Len(s) : /\ PlainOf(s[i]) \in PlainFeature
                           /\ PlainOf(s[i]).id = s[i].id /\ PlainOf(s[i]).born = s[i].born
  BY <1>1, PlainOfIs
<1>3. PlainAll(s) = [i \in 1..Len(s) |-> PlainOf(s[i])]
  BY <1>1 DEF PlainAll
<1>. QED BY <1>1, <1>2, <1>3

\* A document as the user knows it.
LEMMA PlainIs ==
    ASSUME NEW d \in Document
    PROVE  /\ Plain(d) = [features |-> PlainAll(d.features), param |-> d.param]
           /\ Plain(d) \in PlainDocument /\ d.features \in Seq(Feature)
           /\ Plain(d).features = PlainAll(d.features) /\ Plain(d).param = d.param
<1>1. d.features \in Seq(Feature) /\ d.param \in 0..MaxChanges
  BY DEF Document
<1>2. Plain(d) = [features |-> PlainAll(d.features), param |-> d.param]
  BY DEF Plain, PlainAll, PlainOf
<1>3. PlainAll(d.features) \in Seq(PlainFeature)
  BY <1>1, PlainAllIs
<1>. QED BY <1>1, <1>2, <1>3 DEF PlainDocument

\* The operators on lists are the same in the abstract module.
LEMMA HistoryOperators ==
    /\ \A s, i, e : History!InsertAt(s, i, e) = InsertAt(s, i, e)
    /\ \A s, i : History!RemoveAt(s, i) = RemoveAt(s, i)
    /\ \A s : History!Front(s) = Front(s)
    /\ \A s : History!Range(s) = Range(s)
    /\ \A s, K : History!Filtered(s, K) = Filtered(s, K)
<1>1. \A s, i, e : History!InsertAt(s, i, e) = InsertAt(s, i, e)
  BY DEF History!InsertAt, InsertAt
<1>2. \A s, i : History!RemoveAt(s, i) = RemoveAt(s, i)
  BY DEF History!RemoveAt, RemoveAt
<1>3. \A s : History!Front(s) = Front(s)
  BY DEF History!Front, Front
<1>4. \A s : History!Range(s) = Range(s)
  BY DEF History!Range, Range
<1>5. ASSUME NEW s, NEW K PROVE History!Filtered(s, K) = Filtered(s, K)
  <2>1. \A L : History!Cardinality(L) = Cardinality(L)
    BY DEF History!Cardinality, Cardinality
  <2>2. \A k : History!Nth(K, k) = Nth(K, k)
    BY <2>1 DEF History!Nth, Nth
  <2>. QED BY <2>1, <2>2 DEF History!Filtered, Filtered
<1>. QED BY <1>1, <1>2, <1>3, <1>4, <1>5

\* A document with one field changed.
LEMMA ExceptPlain ==
    ASSUME NEW d \in PlainDocument
    PROVE  /\ \A fs : [d EXCEPT !.features = fs] = [features |-> fs, param |-> d.param]
           /\ \A v : [d EXCEPT !.param = v] = [features |-> d.features, param |-> v]
BY DEF PlainDocument

\* The names are the same.
LEMMA PlainIds ==
    ASSUME NEW d \in Document
    PROVE  History!Ids(Plain(d)) = Ids(d.features)
<1>. DEFINE s == d.features
            t == PlainAll(s)
<1>1. /\ s \in Seq(Feature) /\ Plain(d).features = t
      /\ DOMAIN t = 1..Len(s) /\ \A i \in 1..Len(s) : t[i].id = s[i].id
  BY PlainIs, PlainAllIs
<1>2. Ids(s) = {s[i].id : i \in 1..Len(s)}
  BY <1>1, IdsAre
<1>3. History!Ids(Plain(d)) = {t[i].id : i \in 1..Len(s)}
  BY <1>1, HistoryOperators DEF History!Ids, Range
<1>. QED BY <1>1, <1>2, <1>3

\* Adding,
LEMMA PlainInserted ==
    ASSUME NEW s, NEW p, NEW e, NEW t, Inserted(s, p, e, t)
    PROVE  PlainAll(t) = InsertAt(PlainAll(s), p, PlainOf(e))
<1>. DEFINE a == PlainAll(s)
            b == PlainAll(t)
            x == PlainOf(e)
            c == InsertAt(a, p, x)
<1>1. /\ s \in Seq(Feature) /\ e \in Feature /\ p \in 1..Len(s) + 1 /\ Len(s) \in Nat
      /\ t \in Seq(Feature) /\ Len(t) = Len(s) + 1
      /\ \A j \in 1..Len(s) + 1 :
            t[j] = IF j < p THEN s[j] ELSE IF j = p THEN e ELSE s[j - 1]
  BY DEF Inserted
<1>2. /\ a \in Seq(PlainFeature) /\ Len(a) = Len(s) /\ \A i \in 1..Len(s) : a[i] = PlainOf(s[i])
      /\ b \in Seq(PlainFeature) /\ Len(b) = Len(s) + 1
      /\ \A i \in 1..Len(s) + 1 : b[i] = PlainOf(t[i])
      /\ x \in PlainFeature
  BY <1>1, PlainAllIs, PlainOfIs
<1>. HIDE DEF a, b, x
<1>3. /\ c \in Seq(PlainFeature) /\ Len(c) = Len(s) + 1
      /\ \A j \in 1..Len(s) + 1 : c[j] = IF j < p THEN a[j] ELSE IF j = p THEN x ELSE a[j - 1]
  BY <1>1, <1>2, InsertAtIs
<1>. HIDE DEF c
<1>4. \A j \in 1..Len(s) + 1 : b[j] = c[j]
  <2>. SUFFICES ASSUME NEW j \in 1..Len(s) + 1 PROVE b[j] = c[j]
    OBVIOUS
  <2>1. CASE j < p
    BY <1>1, <1>2, <1>3, <2>1
  <2>2. CASE j = p
    BY <1>1, <1>2, <1>3, <2>2 DEF x
  <2>3. CASE j > p
    <3>1. j - 1 \in 1..Len(s) /\ ~(j < p) /\ j # p
      BY <1>1, <2>3
    <3>. QED BY <1>1, <1>2, <1>3, <3>1
  <2>. QED BY <1>1, <2>1, <2>2, <2>3
<1>5. b = c
  BY <1>2, <1>3, <1>4, SeqEqual
<1>. QED BY <1>5 DEF a, b, c, x

\* taking out
LEMMA PlainRemoved ==
    ASSUME NEW s \in Seq(Feature), NEW p \in 1..Len(s)
    PROVE  PlainAll(RemoveAt(s, p)) = RemoveAt(PlainAll(s), p)
<1>. DEFINE a == PlainAll(s)
            t == RemoveAt(s, p)
            b == PlainAll(t)
            c == RemoveAt(a, p)
<1>1. /\ t \in Seq(Feature) /\ Len(t) = Len(s) - 1 /\ Len(s) \in Nat
      /\ \A j \in 1..Len(s) - 1 : t[j] = IF j < p THEN s[j] ELSE s[j + 1]
  BY RemoveAtIs
<1>. HIDE DEF t
<1>2. /\ a \in Seq(PlainFeature) /\ Len(a) = Len(s) /\ \A i \in 1..Len(s) : a[i] = PlainOf(s[i])
      /\ b \in Seq(PlainFeature) /\ Len(b) = Len(s) - 1
      /\ \A i \in 1..Len(s) - 1 : b[i] = PlainOf(t[i])
  BY <1>1, PlainAllIs
<1>. HIDE DEF a, b
<1>3. /\ c \in Seq(PlainFeature) /\ Len(c) = Len(s) - 1
      /\ \A j \in 1..Len(s) - 1 : c[j] = IF j < p THEN a[j] ELSE a[j + 1]
  BY <1>2, RemoveAtIs
<1>. HIDE DEF c
<1>4. \A j \in 1..Len(s) - 1 : b[j] = c[j]
  <2>. SUFFICES ASSUME NEW j \in 1..Len(s) - 1 PROVE b[j] = c[j]
    OBVIOUS
  <2>1. j \in 1..Len(s) /\ j + 1 \in 1..Len(s)
    BY <1>1
  <2>2. CASE j < p
    BY <1>1, <1>2, <1>3, <2>1, <2>2
  <2>3. CASE ~(j < p)
    BY <1>1, <1>2, <1>3, <2>1, <2>3
  <2>. QED BY <2>2, <2>3
<1>5. b = c
  BY <1>2, <1>3, <1>4, SeqEqual
<1>. QED BY <1>5 DEF a, b, c, t

\* and filtering commute with the view.
LEMMA PlainFiltered ==
    ASSUME NEW s \in Seq(Feature), NEW K \in SUBSET DOMAIN s
    PROVE  PlainAll(Filtered(s, K)) = Filtered(PlainAll(s), K)
<1>. DEFINE t == Filtered(s, K)
            n == Cardinality(K)
<1>1. /\ t \in Seq(Feature) /\ Len(t) = n /\ n \in Nat
      /\ \A k \in 1..n : t[k] = s[Nth(K, k)] /\ Nth(K, k) \in K
  BY FilteredIs
<1>. HIDE DEF t
<1>2. DOMAIN s = 1..Len(s) /\ \A i \in 1..Len(s) : PlainAll(s)[i] = PlainOf(s[i])
  BY PlainAllIs
<1>3. DOMAIN t = 1..n
  BY <1>1, LenProperties
<1>4. PlainAll(t) = [k \in 1..n |-> PlainOf(t[k])]
  BY <1>3 DEF PlainAll
<1>5. \A k \in 1..n : PlainOf(t[k]) = PlainAll(s)[Nth(K, k)]
  BY <1>1, <1>2
<1>6. PlainAll(t) = [k \in 1..n |-> PlainAll(s)[Nth(K, k)]]
  BY <1>4, <1>5
<1>. QED BY <1>6 DEF Filtered, t, n

\* The line of documents that the store keeps.
Past == [i \in DOMAIN undoStack |-> Plain(undoStack[i].doc)]
Present == Plain(doc)
Future == [i \in DOMAIN redoStack |-> Plain(redoStack[Len(redoStack) + 1 - i])]

\* One change of one thing.
OneChange ==
    \/ \E i \in 1..(Len(Present.features) + 1) : History!Adds(Present, Present', i)
    \/ \E i \in DOMAIN Present.features :
           History!Edits(Present, Present', i) \/ History!Removes(Present, Present', i)
    \/ History!Moves(Present, Present')
    \/ History!SetsParam(Present, Present')

\* The actions of DocumentHistory in these words.
LEMMA ChangeIs ==
    ASSUME Past' = History!Capped(Append(Past, Present)), Future' = <<>>, OneChange
    PROVE  History!Next
BY DEF History!Next, History!Change, OneChange, Past, Present, Future

\* Undo,
LEMMA UndoIs ==
    ASSUME Past # <<>>, Past' = Front(Past), Present' = Past[Len(Past)],
           Future' = <<Present>> \o Future
    PROVE  History!Next
<1>1. Past' = History!Front(Past)
  BY HistoryOperators
<1>. QED BY <1>1 DEF History!Next, History!Undo, Past, Present, Future

\* redo,
LEMMA RedoIs ==
    ASSUME Future # <<>>, Past' = History!Capped(Append(Past, Present)),
           Present' = Head(Future), Future' = Tail(Future)
    PROVE  History!Next
BY DEF History!Next, History!Redo, Past, Present, Future

\* another document,
LEMMA ReplaceIs ==
    ASSUME Past' = <<>>, Future' = <<>>,
           \A d \in {Present} \cup Range(Past) \cup Range(Future) :
               \A f \in Range(d.features), g \in Range(Present'.features) : f.born # g.born
    PROVE  History!Next
<1>1. \A d \in {Present} \cup History!Range(Past) \cup History!Range(Future) :
           \A f \in History!Range(d.features), g \in History!Range(Present'.features) : f.born # g.born
  BY HistoryOperators
<1>. QED BY <1>1 DEF History!Next, History!Replace, Past, Present, Future

Withdraws(i, j) ==
    LET line == Append(Past, Present)
        born == line[i + 1].features[j].born
    IN /\ History!Adds(Past[i], line[i + 1], j)
       /\ Past' = [k \in DOMAIN RemoveAt(Past, i) |->
                      IF k < i THEN Past[k] ELSE History!Without(Past[k + 1], born)]
       /\ Present' = History!Without(Present, born)
       /\ Future' = [k \in DOMAIN Future |-> History!Without(Future[k], born)]

\* and an addition that is called off.
LEMMA WithdrawIs ==
    ASSUME NEW i \in DOMAIN Past, NEW j \in 1..(Len(Past[i].features) + 1), Withdraws(i, j)
    PROVE  History!Next
<1>1. History!RemoveAt(Past, i) = RemoveAt(Past, i)
  BY HistoryOperators
<1>2. \E a \in DOMAIN Past : \E b \in 1..(Len(Past[a].features) + 1) :
          LET line == Append(Past, Present)
              born == line[a + 1].features[b].born
          IN /\ History!Adds(Past[a], line[a + 1], b)
             /\ Past' = [k \in DOMAIN History!RemoveAt(Past, a) |->
                            IF k < a THEN Past[k] ELSE History!Without(Past[k + 1], born)]
             /\ Present' = History!Without(Present, born)
             /\ Future' = [k \in DOMAIN Future |-> History!Without(Future[k], born)]
  BY <1>1, Zenon DEF Withdraws
<1>3. History!Withdraw
  BY <1>2, Zenon DEF History!Withdraw, Past, Present, Future
<1>. QED BY <1>3 DEF History!Next

PastFits ==
    /\ Past \in Seq(PlainDocument) /\ Len(Past) = Len(undoStack) /\ Len(undoStack) \in Nat
    /\ DOMAIN Past = 1..Len(undoStack) /\ DOMAIN undoStack = 1..Len(undoStack)
    /\ \A i \in 1..Len(undoStack) :
          undoStack[i].doc \in Document /\ Past[i] = Plain(undoStack[i].doc)
    /\ Present \in PlainDocument /\ doc \in Document
    /\ Future \in Seq(PlainDocument) /\ Len(Future) = Len(redoStack) /\ Len(redoStack) \in Nat
    /\ DOMAIN Future = 1..Len(redoStack) /\ DOMAIN redoStack = 1..Len(redoStack)
    /\ \A i \in 1..Len(redoStack) :
          redoStack[i] \in Document /\ Future[i] = Plain(redoStack[Len(redoStack) + 1 - i])

\* The line, document by document.
LEMMA PastIs == GoodInv => PastFits
<1>. SUFFICES ASSUME GoodInv PROVE PastFits
  OBVIOUS
<1>. DEFINE n == Len(undoStack)
            m == Len(redoStack)
<1>1. /\ undoStack \in Seq(Entry) /\ redoStack \in Seq(Document) /\ doc \in Document
  BY DEF GoodInv, StacksAreGood, Docs, Good, Fits
<1>2. /\ DOMAIN undoStack = 1..n /\ n \in Nat /\ DOMAIN redoStack = 1..m /\ m \in Nat
      /\ \A i \in 1..n : undoStack[i] \in Entry
      /\ \A i \in 1..m : redoStack[i] \in Document
  BY <1>1, LenProperties
<1>3. \A i \in 1..n : undoStack[i].doc \in Document /\ Plain(undoStack[i].doc) \in PlainDocument
  <2>1. \A x \in Entry : x.doc \in Document
    BY DEF Entry
  <2>. QED BY <1>2, <2>1, PlainIs
<1>4. \A i \in 1..m : m + 1 - i \in 1..m
  BY <1>2
<1>5. \A i \in 1..m : Plain(redoStack[m + 1 - i]) \in PlainDocument
  BY <1>2, <1>4, PlainIs
<1>6. Past = [i \in 1..n |-> Plain(undoStack[i].doc)] /\ Future = [i \in 1..m |-> Plain(redoStack[m + 1 - i])]
  BY <1>2 DEF Past, Future
<1>7. Present \in PlainDocument
  BY <1>1, PlainIs DEF Present
<1>. HIDE DEF n, m
<1>8. /\ Past \in Seq(PlainDocument) /\ Len(Past) = n /\ DOMAIN Past = 1..n
      /\ \A i \in 1..n : Past[i] = Plain(undoStack[i].doc)
  BY <1>2, <1>3, <1>6
<1>9. /\ Future \in Seq(PlainDocument) /\ Len(Future) = m /\ DOMAIN Future = 1..m
      /\ \A i \in 1..m : Future[i] = Plain(redoStack[m + 1 - i])
  BY <1>2, <1>5, <1>6
<1>. QED BY <1>1, <1>2, <1>3, <1>7, <1>8, <1>9 DEF n, m, PastFits

\* The line with the present on it, cut at its oldest document when it is over the cap.
PushesPast ==
    /\ undoStack' \in Seq(Entry) /\ Len(undoStack') = Len(Pushed)
    /\ \A i \in 1..Len(Pushed) : undoStack'[i].doc = Pushed[i].doc

\* What a push does to the line.
LEMMA PushedPast ==
    ASSUME GoodInv, GoodInv', PushesPast
    PROVE  Past' = History!Capped(Append(Past, Present))
<1>. DEFINE n == Len(undoStack)
            e == [doc |-> doc, added |-> FALSE]
            stack == Append(undoStack, e)
            line == Append(Past, Present)
            over == n + 1 > UndoCap
<1>1. /\ undoStack \in Seq(Entry) /\ doc \in Document /\ Len(undoStack) <= UndoCap
  BY DEF GoodInv, StacksAreGood, Docs, Good, Fits
<1>2. /\ Len(stack) = n + 1 /\ \A i \in 1..n : stack[i] = undoStack[i]
      /\ stack[n + 1] = e
      /\ Len(Pushed) = IF Len(stack) > UndoCap THEN n ELSE n + 1
      /\ \A i \in 1..Len(Pushed) :
            Pushed[i] = IF Len(stack) > UndoCap THEN stack[i + 1] ELSE stack[i]
      /\ n \in Nat /\ UndoCap \in Nat
  BY <1>1, PushedIs, LenProperties, BoundsAssumption
<1>3. /\ Past \in Seq(PlainDocument) /\ Len(Past) = n /\ Present \in PlainDocument
      /\ \A i \in 1..n : Past[i] = Plain(undoStack[i].doc)
  BY PastIs DEF PastFits
<1>4. e.doc = doc
  OBVIOUS
<1>. HIDE DEF e, stack
<1>5. /\ line \in Seq(PlainDocument) /\ Len(line) = n + 1
      /\ \A i \in 1..n : line[i] = Past[i]
      /\ line[n + 1] = Present
  BY <1>2, <1>3, AppendProperties
<1>. HIDE DEF line
<1>6. \A i \in 1..n + 1 : line[i] = Plain(stack[i].doc)
  <2>. SUFFICES ASSUME NEW i \in 1..n + 1 PROVE line[i] = Plain(stack[i].doc)
    OBVIOUS
  <2>1. CASE i = n + 1
    <3>1. stack[i].doc = doc /\ line[i] = Present
      BY <1>2, <1>4, <1>5, <2>1
    <3>. QED BY <3>1 DEF Present
  <2>2. CASE i # n + 1
    <3>1. i \in 1..n
      BY <1>2, <2>2
    <3>. QED BY <1>2, <1>3, <1>5, <3>1
  <2>. QED BY <2>1, <2>2
<1>7. /\ Past' \in Seq(PlainDocument) /\ Len(Past') = Len(Pushed)
      /\ \A i \in 1..Len(Pushed) : Past'[i] = Plain(undoStack'[i].doc)
  <2>1. PastFits'
    BY PastIs, PTL
  <2>. QED BY <2>1 DEF PushesPast, PastFits
<1>8. \A i \in 1..Len(Pushed) : Past'[i] = Plain(Pushed[i].doc)
  BY <1>7 DEF PushesPast
<1>a. History!Capped(line) = IF n + 1 > UndoCap THEN Tail(line) ELSE line
  BY <1>5 DEF History!Capped
<1>9. CASE over
  <2>1. Len(Pushed) = n /\ \A i \in 1..n : Pushed[i] = stack[i + 1] /\ i + 1 \in 1..n + 1
    BY <1>2, <1>9
  <2>2. line # <<>>
    BY <1>5, <1>2
  <2>3. /\ Tail(line) \in Seq(PlainDocument) /\ Len(Tail(line)) = n
        /\ \A i \in 1..n : Tail(line)[i] = line[i + 1]
    BY <1>2, <1>5, <2>2, HeadTailProperties
  <2>4. \A i \in 1..n : Past'[i] = Tail(line)[i]
    BY <1>6, <1>8, <2>1, <2>3
  <2>5. Past' = Tail(line)
    BY <1>7, <2>1, <2>3, <2>4, SeqEqual
  <2>. QED BY <1>9, <1>a, <2>5 DEF line
<1>10. CASE ~over
  <2>1. Len(Pushed) = n + 1 /\ \A i \in 1..n + 1 : Pushed[i] = stack[i]
    BY <1>2, <1>10
  <2>2. Past' = line
    BY <1>5, <1>6, <1>7, <1>8, <2>1, SeqEqual
  <2>. QED BY <1>10, <1>a, <2>2 DEF line
<1>. QED BY <1>9, <1>10

\* Nothing to redo is no future.
LEMMA NoFuture == redoStack' = <<>> => Future' = <<>>
BY DEF Future

\* Undo goes one document back on the line,
LEMMA UndoStep ==
    ASSUME GoodInv, GoodInv', Undo
    PROVE  History!Next
<1>. DEFINE n == Len(undoStack)
            m == Len(redoStack)
<1>1. /\ undoStack # <<>> /\ redoStack' = Append(redoStack, doc)
      /\ doc' = undoStack[n].doc /\ undoStack' = Front(undoStack)
  BY DEF Undo
<1>2. PastFits /\ PastFits'
  BY PastIs, PTL
<1>3. undoStack \in Seq(Entry) /\ redoStack \in Seq(Document)
  BY DEF GoodInv, StacksAreGood
<1>4. /\ n \in Nat /\ n >= 1 /\ Len(undoStack') = n - 1
      /\ \A i \in 1..n - 1 : undoStack'[i] = undoStack[i]
  BY <1>1, <1>3, FrontIs
<1>5. Past # <<>>
  BY <1>2, <1>4 DEF PastFits
<1>6. Past' = Front(Past)
  <2>1. /\ Front(Past) \in Seq(PlainDocument) /\ Len(Front(Past)) = n - 1
        /\ \A i \in 1..n - 1 : Front(Past)[i] = Past[i]
    BY <1>2, <1>5, FrontIs DEF PastFits
  <2>2. \A i \in 1..n - 1 : i \in 1..n
    BY <1>4
  <2>3. \A i \in 1..n - 1 : Past'[i] = Front(Past)[i]
    BY <1>2, <1>4, <2>1, <2>2 DEF PastFits
  <2>4. Past' \in Seq(PlainDocument) /\ Len(Past') = n - 1
    BY <1>2, <1>4 DEF PastFits
  <2>. QED BY <2>1, <2>3, <2>4, SeqEqual
<1>7. Present' = Past[Len(Past)]
  <2>1. n \in 1..n /\ Len(Past) = n
    BY <1>2, <1>4 DEF PastFits
  <2>2. Past[n] = Plain(undoStack[n].doc)
    BY <1>2, <2>1 DEF PastFits
  <2>. QED BY <1>1, <2>1, <2>2 DEF Present
<1>8. Future' = <<Present>> \o Future
  <2>. DEFINE f == <<Present>> \o Future
  <2>1. /\ Present \in PlainDocument /\ doc \in Document
        /\ Future \in Seq(PlainDocument) /\ Len(Future) = m /\ m \in Nat
        /\ \A i \in 1..m : Future[i] = Plain(redoStack[m + 1 - i])
    BY <1>2 DEF PastFits
  <2>2. /\ <<Present>> \in Seq(PlainDocument) /\ Len(<<Present>>) = 1 /\ <<Present>>[1] = Present
    BY <2>1
  <2>3. /\ f \in Seq(PlainDocument) /\ Len(f) = m + 1
        /\ \A i \in 1..m + 1 : f[i] = IF i <= 1 THEN <<Present>>[i] ELSE Future[i - 1]
    <3>1. /\ f \in Seq(PlainDocument) /\ Len(f) = 1 + m
          /\ \A i \in 1..1 + m : f[i] = IF i <= 1 THEN <<Present>>[i] ELSE Future[i - 1]
      BY <2>1, <2>2, ConcatProperties
    <3>. HIDE DEF f
    <3>. QED BY <2>1, <3>1
  <2>. HIDE DEF f
  <2>4. /\ Len(redoStack') = m + 1 /\ redoStack'[m + 1] = doc
        /\ \A i \in 1..m : redoStack'[i] = redoStack[i]
    BY <1>1, <1>3, <2>1, AppendProperties
  <2>5. /\ Future' \in Seq(PlainDocument) /\ Len(Future') = m + 1
        /\ \A i \in 1..m + 1 : Future'[i] = Plain(redoStack'[m + 2 - i])
    <3>1. /\ Future' \in Seq(PlainDocument) /\ Len(Future') = Len(redoStack')
          /\ \A i \in 1..Len(redoStack') : Future'[i] = Plain(redoStack'[Len(redoStack') + 1 - i])
      BY <1>2 DEF PastFits
    <3>2. \A i \in 1..m + 1 : m + 1 + 1 - i = m + 2 - i
      BY <2>1
    <3>. QED BY <2>4, <3>1, <3>2
  <2>6. \A i \in 1..m + 1 : Future'[i] = f[i]
    <3>. SUFFICES ASSUME NEW i \in 1..m + 1 PROVE Future'[i] = f[i]
      OBVIOUS
    <3>1. CASE i = 1
      <4>1. m + 2 - i = m + 1 /\ i <= 1
        BY <2>1, <3>1
      <4>2. Future'[i] = Plain(doc) /\ f[i] = Present
        BY <2>2, <2>3, <2>4, <2>5, <3>1, <4>1
      <4>. QED BY <4>2 DEF Present
    <3>2. CASE i # 1
      <4>1. /\ i - 1 \in 1..m /\ m + 2 - i \in 1..m /\ ~(i <= 1) /\ m + 1 - (i - 1) = m + 2 - i
        BY <2>1, <3>2
      <4>2. Future'[i] = Plain(redoStack[m + 2 - i])
        BY <2>4, <2>5, <4>1
      <4>3. f[i] = Future[i - 1] /\ Future[i - 1] = Plain(redoStack[m + 1 - (i - 1)])
        BY <2>1, <2>3, <4>1
      <4>. QED BY <4>1, <4>2, <4>3
    <3>. QED BY <3>1, <3>2
  <2>7. Future' = f
    BY <2>3, <2>5, <2>6, SeqEqual
  <2>. QED BY <2>7 DEF f
<1>. QED BY <1>5, <1>6, <1>7, <1>8, UndoIs

\* A push puts the document on the stack.
LEMMA SameStack ==
    ASSUME GoodInv, undoStack' = Pushed
    PROVE  PushesPast
BY PushedIs, LenProperties DEF GoodInv, StacksAreGood, Docs, Good, Fits, PushesPast

\* redo goes one on.
LEMMA RedoStep ==
    ASSUME GoodInv, GoodInv', Redo
    PROVE  History!Next
<1>. DEFINE m == Len(redoStack)
<1>1. /\ redoStack # <<>> /\ undoStack' = Pushed
      /\ doc' = redoStack[m] /\ redoStack' = Front(redoStack)
  BY DEF Redo
<1>2. PastFits /\ PastFits'
  BY PastIs, PTL
<1>3. redoStack \in Seq(Document)
  BY DEF GoodInv, StacksAreGood
<1>4. /\ m \in Nat /\ m >= 1 /\ Len(redoStack') = m - 1
      /\ \A i \in 1..m - 1 : redoStack'[i] = redoStack[i]
  BY <1>1, <1>3, FrontIs
<1>5. /\ Future \in Seq(PlainDocument) /\ Len(Future) = m
      /\ \A i \in 1..m : Future[i] = Plain(redoStack[m + 1 - i])
  BY <1>2 DEF PastFits
<1>6. Future # <<>>
  BY <1>4, <1>5
<1>7. Past' = History!Capped(Append(Past, Present))
  BY <1>1, SameStack, PushedPast
<1>8. Present' = Head(Future)
  <2>1. Head(Future) = Future[1] /\ 1 \in 1..m /\ m + 1 - 1 = m
    BY <1>4, <1>5, <1>6
  <2>. QED BY <1>1, <1>5, <2>1 DEF Present
<1>9. Future' = Tail(Future)
  <2>1. /\ Tail(Future) \in Seq(PlainDocument) /\ Len(Tail(Future)) = m - 1
        /\ \A i \in 1..m - 1 : Tail(Future)[i] = Future[i + 1]
    BY <1>4, <1>5, <1>6, HeadTailProperties
  <2>2. /\ Future' \in Seq(PlainDocument) /\ Len(Future') = m - 1
        /\ \A i \in 1..m - 1 : Future'[i] = Plain(redoStack'[m - i])
    <3>1. /\ Future' \in Seq(PlainDocument) /\ Len(Future') = Len(redoStack')
          /\ \A i \in 1..Len(redoStack') : Future'[i] = Plain(redoStack'[Len(redoStack') + 1 - i])
      BY <1>2 DEF PastFits
    <3>2. \A i \in 1..m - 1 : m - 1 + 1 - i = m - i
      BY <1>4
    <3>. QED BY <1>4, <3>1, <3>2
  <2>3. \A i \in 1..m - 1 : Future'[i] = Tail(Future)[i]
    <3>. SUFFICES ASSUME NEW i \in 1..m - 1 PROVE Future'[i] = Tail(Future)[i]
      OBVIOUS
    <3>1. i + 1 \in 1..m /\ m - i \in 1..m - 1 /\ m + 1 - (i + 1) = m - i
      BY <1>4
    <3>2. Future'[i] = Plain(redoStack[m - i])
      BY <1>4, <2>2, <3>1
    <3>3. Tail(Future)[i] = Future[i + 1] /\ Future[i + 1] = Plain(redoStack[m + 1 - (i + 1)])
      BY <1>5, <2>1, <3>1
    <3>. QED BY <3>1, <3>2, <3>3
  <2>. QED BY <2>1, <2>2, <2>3, SeqEqual
<1>. QED BY <1>6, <1>7, <1>8, <1>9, RedoIs

\* The fields of a document as the user knows it.
LEMMA PlainDocumentIs ==
    ASSUME NEW d \in PlainDocument
    PROVE  /\ d = [features |-> d.features, param |-> d.param]
           /\ d.features \in Seq(PlainFeature) /\ Len(d.features) \in Nat
           /\ DOMAIN d.features = 1..Len(d.features)
           /\ \A i \in 1..Len(d.features) : d.features[i] \in PlainFeature
<1>1. d.features \in Seq(PlainFeature) /\ d = [features |-> d.features, param |-> d.param]
  BY DEF PlainDocument
<1>. QED BY <1>1, LenProperties

\* Two documents that differ in one feature, which stays the one it was.
LEMMA EditsAre ==
    ASSUME NEW d \in PlainDocument, NEW e \in PlainDocument, NEW i \in 1..Len(d.features),
           e.param = d.param, Len(e.features) = Len(d.features),
           \A j \in 1..Len(d.features) : j # i => e.features[j] = d.features[j],
           e.features[i].id = d.features[i].id, e.features[i].born = d.features[i].born
    PROVE  History!Edits(d, e, i)
<1>. DEFINE x == e.features[i]
            s == d.features
            t == [s EXCEPT ![i] = x]
<1>1. /\ s \in Seq(PlainFeature) /\ e.features \in Seq(PlainFeature) /\ x \in PlainFeature
      /\ Len(s) \in Nat
  BY PlainDocumentIs
<1>2. /\ t \in Seq(PlainFeature) /\ Len(t) = Len(s)
      /\ \A j \in 1..Len(s) : t[j] = IF j = i THEN x ELSE s[j]
  BY <1>1, ExceptSeq
<1>3. t = e.features
  BY <1>1, <1>2, SeqEqual
<1>4. [d EXCEPT !.features[i] = x] = [d EXCEPT !.features = t]
  OBVIOUS
<1>5. [d EXCEPT !.features = t] = [features |-> t, param |-> d.param]
  BY ExceptPlain
<1>6. e = [features |-> e.features, param |-> d.param]
  BY PlainDocumentIs
<1>7. e = [d EXCEPT !.features[i] = x]
  BY <1>3, <1>4, <1>5, <1>6
<1>. QED BY <1>7 DEF History!Edits

\* Two documents that differ by one feature more,
LEMMA AddsAre ==
    ASSUME NEW d \in Document, NEW e \in Document, NEW p \in 1..Len(d.features) + 1,
           NEW f \in Feature, e.param = d.param, f.id \notin Ids(d.features),
           Inserted(d.features, p, f, e.features)
    PROVE  /\ History!Adds(Plain(d), Plain(e), p)
           /\ p \in 1..Len(Plain(d).features) + 1
           /\ Len(Plain(e).features) = Len(d.features) + 1
           /\ Plain(e).features[p] = PlainOf(f)
<1>. DEFINE s == d.features
            t == e.features
            a == Plain(d)
            b == Plain(e)
<1>1. /\ a \in PlainDocument /\ a.features = PlainAll(s) /\ a.param = d.param
      /\ b \in PlainDocument /\ b.features = PlainAll(t) /\ b.param = d.param
      /\ s \in Seq(Feature) /\ t \in Seq(Feature)
  BY PlainIs
<1>2. /\ Len(a.features) = Len(s) /\ Len(s) \in Nat /\ Len(t) = Len(s) + 1 /\ t[p] = f
      /\ b.features[p] = PlainOf(t[p]) /\ Len(b.features) = Len(t)
      /\ DOMAIN b.features = 1..Len(t) /\ p \in DOMAIN b.features
  BY <1>1, PlainAllIs DEF Inserted
<1>3. b.features = InsertAt(a.features, p, PlainOf(f))
  BY <1>1, PlainInserted
<1>4. b = [features |-> History!InsertAt(a.features, p, b.features[p]), param |-> a.param]
  BY <1>1, <1>2, <1>3, PlainDocumentIs, HistoryOperators
<1>5. b = [a EXCEPT !.features = History!InsertAt(a.features, p, b.features[p])]
  BY <1>1, <1>4, ExceptPlain
<1>6. b.features[p].id = f.id /\ History!Ids(a) = Ids(s)
  BY <1>2, PlainOfIs, PlainIds
<1>7. History!Adds(a, b, p)
  BY <1>2, <1>5, <1>6 DEF History!Adds
<1>. QED BY <1>2, <1>7

\* by one less,
LEMMA RemovesAre ==
    ASSUME NEW d \in Document, NEW e \in Document, NEW p \in 1..Len(d.features),
           e.param = d.param, e.features = RemoveAt(d.features, p)
    PROVE  History!Removes(Plain(d), Plain(e), p)
<1>. DEFINE a == Plain(d)
            b == Plain(e)
<1>1. /\ a \in PlainDocument /\ a.features = PlainAll(d.features) /\ a.param = d.param
      /\ b \in PlainDocument /\ b.features = PlainAll(e.features) /\ b.param = d.param
      /\ d.features \in Seq(Feature)
  BY PlainIs
<1>2. b.features = History!RemoveAt(a.features, p)
  BY <1>1, PlainRemoved, HistoryOperators
<1>3. b = [a EXCEPT !.features = History!RemoveAt(a.features, p)]
  BY <1>1, <1>2, PlainDocumentIs, ExceptPlain
<1>. QED BY <1>3 DEF History!Removes

\* in the order,
LEMMA MovesAre ==
    ASSUME NEW d \in Document, NEW e \in Document, e.param = d.param,
           Len(e.features) = Len(d.features),
           \A k \in 1..Len(d.features) : \E l \in 1..Len(d.features) : e.features[k] = d.features[l],
           \A l \in 1..Len(d.features) : \E k \in 1..Len(d.features) : e.features[k] = d.features[l]
    PROVE  History!Moves(Plain(d), Plain(e))
<1>. DEFINE a == Plain(d)
            b == Plain(e)
            n == Len(d.features)
<1>1. /\ a \in PlainDocument /\ a.features = PlainAll(d.features) /\ a.param = d.param
      /\ b \in PlainDocument /\ b.features = PlainAll(e.features) /\ b.param = d.param
      /\ d.features \in Seq(Feature) /\ e.features \in Seq(Feature)
  BY PlainIs
<1>2. /\ DOMAIN a.features = 1..n /\ DOMAIN b.features = 1..n
      /\ Len(a.features) = n /\ Len(b.features) = n
      /\ \A k \in 1..n : a.features[k] = PlainOf(d.features[k]) /\ b.features[k] = PlainOf(e.features[k])
  <2>1. /\ DOMAIN PlainAll(d.features) = 1..n /\ Len(PlainAll(d.features)) = n
        /\ \A k \in 1..n : PlainAll(d.features)[k] = PlainOf(d.features[k])
    BY <1>1, PlainAllIs
  <2>2. /\ DOMAIN PlainAll(e.features) = 1..n /\ Len(PlainAll(e.features)) = n
        /\ \A k \in 1..n : PlainAll(e.features)[k] = PlainOf(e.features[k])
    BY <1>1, PlainAllIs
  <2>. QED BY <1>1, <2>1, <2>2
<1>. HIDE DEF a, b
<1>3. Range(a.features) = {a.features[k] : k \in 1..n} /\ Range(b.features) = {b.features[k] : k \in 1..n}
  BY <1>2 DEF Range
<1>4. Range(a.features) = Range(b.features)
  <2>1. \A k \in 1..n : \E l \in 1..n : b.features[k] = a.features[l]
    <3>. SUFFICES ASSUME NEW k \in 1..n PROVE \E l \in 1..n : b.features[k] = a.features[l]
      OBVIOUS
    <3>1. PICK l \in 1..n : e.features[k] = d.features[l]
      OBVIOUS
    <3>. QED BY <1>2, <3>1
  <2>2. \A l \in 1..n : \E k \in 1..n : b.features[k] = a.features[l]
    <3>. SUFFICES ASSUME NEW l \in 1..n PROVE \E k \in 1..n : b.features[k] = a.features[l]
      OBVIOUS
    <3>1. PICK k \in 1..n : e.features[k] = d.features[l]
      OBVIOUS
    <3>. QED BY <1>2, <3>1
  <2>. HIDE DEF n
  <2>3. \A x \in Range(b.features) : x \in Range(a.features)
    <3>. SUFFICES ASSUME NEW k \in 1..n PROVE b.features[k] \in Range(a.features)
      BY <1>3
    <3>. QED BY <1>3, <2>1
  <2>4. \A x \in Range(a.features) : x \in Range(b.features)
    <3>. SUFFICES ASSUME NEW l \in 1..n PROVE a.features[l] \in Range(b.features)
      BY <1>3
    <3>. QED BY <1>3, <2>2
  <2>. QED BY <2>3, <2>4
<1>5. b = [a EXCEPT !.features = b.features]
  BY <1>1, PlainDocumentIs, ExceptPlain
<1>. QED BY <1>2, <1>4, <1>5, HistoryOperators DEF History!Moves, a, b

\* and in the parameter.
LEMMA SetsParamIs ==
    ASSUME NEW d \in Document, NEW e \in Document, SamePlain(e.features, d.features)
    PROVE  Plain(e).features = Plain(d).features /\ History!SetsParam(Plain(d), Plain(e))
<1>. DEFINE a == Plain(d)
            b == Plain(e)
<1>1. /\ a \in PlainDocument /\ a.features = PlainAll(d.features)
      /\ b \in PlainDocument /\ b.features = PlainAll(e.features)
      /\ d.features \in Seq(Feature) /\ e.features \in Seq(Feature)
  BY PlainIs
<1>2. b.features = a.features
  <2>1. /\ Len(a.features) = Len(d.features) /\ Len(b.features) = Len(d.features)
        /\ a.features \in Seq(PlainFeature) /\ b.features \in Seq(PlainFeature)
        /\ \A k \in 1..Len(d.features) : /\ a.features[k] = PlainOf(d.features[k])
                                         /\ b.features[k] = PlainOf(e.features[k])
    BY <1>1, PlainAllIs DEF SamePlain
  <2>2. \A k \in 1..Len(d.features) : PlainOf(d.features[k]) = PlainOf(e.features[k])
    BY DEF SamePlain, PlainOf
  <2>. QED BY <2>1, <2>2, SeqEqual
<1>3. b = [a EXCEPT !.param = b.param]
  BY <1>1, <1>2, PlainDocumentIs, ExceptPlain
<1>. QED BY <1>2, <1>3 DEF History!SetsParam

\* The document before a step,
LEMMA DocsAre ==
    ASSUME GoodInv
    PROVE  /\ doc \in Document /\ doc.features \in Seq(Feature) /\ Len(doc.features) \in Nat
           /\ DOMAIN doc.features = 1..Len(doc.features)
           /\ \A i \in 1..Len(doc.features) : doc.features[i] \in Feature
<1>1. doc \in Document /\ doc.features \in Seq(Feature)
  BY DEF GoodInv, StacksAreGood, Docs, Good, Fits, Document
<1>. QED BY <1>1, LenProperties

\* and after it.
LEMMA NextDocIs ==
    ASSUME GoodInv'
    PROVE  doc' \in Document /\ doc'.features \in Seq(Feature)
BY DEF GoodInv, StacksAreGood, Docs, Good, Fits, Document

\* Starters, tools and imports add one feature.
LEMMA AddsOne ==
    ASSUME GoodInv, GoodInv', changes < MaxChanges, NEW id \in Name, id \notin Ids(doc.features),
           doc' = Added(id)
    PROVE  /\ OneChange
           /\ \E p \in 1..Len(Present.features) + 1 :
                 /\ History!Adds(Present, Present', p)
                 /\ Present'.features[p] = PlainOf(Made(id))
           /\ Inserted(doc.features, Slot, Made(id), doc'.features)
<1>. DEFINE f == Made(id)
            p == Slot
<1>1. /\ doc \in Document /\ doc' \in Document /\ doc.features \in Seq(Feature)
      /\ rollback \in {Null} \cup Nat
  BY DocsAre, NextDocIs, BoundsAssumption DEF GoodInv, NamesAreGood
<1>2. f \in Feature /\ f.id = id /\ p \in 1..Len(doc.features) + 1
  BY <1>1, MadeIs, SlotIs DEF GoodInv, NamesAreGood
<1>3. /\ doc'.features \in Seq(Feature) /\ Len(doc'.features) = Len(doc.features) + 1
      /\ \A j \in 1..Len(doc.features) + 1 :
            doc'.features[j] = IF j < p THEN doc.features[j] ELSE IF j = p THEN f
                               ELSE doc.features[j - 1]
      /\ doc'.param = doc.param
  BY AddedIs
<1>. HIDE DEF f, p
<1>4. Inserted(doc.features, p, f, doc'.features)
  BY <1>1, <1>2, <1>3 DEF Inserted
<1>5. /\ History!Adds(Present, Present', p)
      /\ p \in 1..Len(Present.features) + 1
      /\ Present'.features[p] = PlainOf(f)
  BY <1>1, <1>2, <1>3, <1>4, AddsAre DEF Present
<1>. QED BY <1>4, <1>5 DEF OneChange, f, p

\* Editing changes one.
LEMMA EditsOne ==
    ASSUME GoodInv, GoodInv', NEW i \in 1..Len(doc.features),
           doc'.param = doc.param, Len(doc'.features) = Len(doc.features),
           \A j \in 1..Len(doc.features) : j # i => doc'.features[j] = doc.features[j],
           doc'.features[i].id = doc.features[i].id, doc'.features[i].born = doc.features[i].born
    PROVE  OneChange
<1>. DEFINE n == Len(doc.features)
<1>1. /\ doc \in Document /\ doc' \in Document /\ n \in Nat
      /\ doc.features \in Seq(Feature) /\ doc'.features \in Seq(Feature)
  BY DocsAre, NextDocIs
<1>2. /\ Present \in PlainDocument /\ Present.features = PlainAll(doc.features)
      /\ Present.param = doc.param
      /\ Present' \in PlainDocument /\ Present'.features = PlainAll(doc'.features)
      /\ Present'.param = doc'.param
  BY <1>1, PlainIs DEF Present
<1>3. /\ Len(Present.features) = n /\ Len(Present'.features) = n
      /\ DOMAIN Present.features = 1..n
      /\ \A j \in 1..n : /\ Present.features[j] = PlainOf(doc.features[j])
                         /\ Present'.features[j] = PlainOf(doc'.features[j])
                         /\ Present.features[j].id = doc.features[j].id
                         /\ Present'.features[j].id = doc'.features[j].id
                         /\ Present.features[j].born = doc.features[j].born
                         /\ Present'.features[j].born = doc'.features[j].born
  BY <1>1, <1>2, PlainAllIs
<1>4. History!Edits(Present, Present', i)
  BY <1>2, <1>3, EditsAre
<1>. QED BY <1>3, <1>4 DEF OneChange

\* Removing takes one out.
LEMMA RemovesOne ==
    ASSUME GoodInv, GoodInv', NEW p \in 1..Len(doc.features),
           doc'.param = doc.param, doc'.features = RemoveAt(doc.features, p)
    PROVE  OneChange
<1>1. doc \in Document /\ doc' \in Document /\ doc.features \in Seq(Feature)
  BY DocsAre, NextDocIs
<1>2. History!Removes(Present, Present', p)
  BY <1>1, RemovesAre DEF Present
<1>3. DOMAIN Present.features = 1..Len(doc.features)
  BY <1>1, PlainIs, PlainAllIs DEF Present
<1>. QED BY <1>2, <1>3 DEF OneChange

\* Moving changes the order.
LEMMA MovesOne ==
    ASSUME GoodInv, GoodInv', MoveFeature
    PROVE  OneChange
<1>. DEFINE s == doc.features
<1>0. /\ s \in Seq(Feature) /\ DOMAIN s = 1..Len(s) /\ doc \in Document /\ doc' \in Document
  BY DocsAre, NextDocIs
<1>1. PICK i \in DOMAIN s, j \in DOMAIN s :
          Mutate([doc EXCEPT !.features = InsertAt(RemoveAt(@, i), j, @[i])])
  BY DEF MoveFeature
<1>. DEFINE t == InsertAt(RemoveAt(s, i), j, s[i])
<1>2. doc' = [features |-> t, param |-> doc.param]
  BY <1>1, MovedIsGood DEF Mutate
<1>3. /\ Len(t) = Len(s)
      /\ \A k \in 1..Len(s) : \E l \in 1..Len(s) : t[k] = s[l]
      /\ \A l \in 1..Len(s) : \E k \in 1..Len(s) : t[k] = s[l]
  BY <1>0, MovedIs
<1>4. doc'.features = t /\ doc'.param = doc.param
  BY <1>2
<1>. HIDE DEF t
<1>5. History!Moves(Present, Present')
  BY <1>0, <1>3, <1>4, MovesAre DEF Present
<1>. QED BY <1>5 DEF OneChange

\* A parameter edit that lands changes the parameter: its draft has the features of the
\* document there is.
LEMMA CascadesOne ==
    ASSUME GoodInv, GoodInv', LandsOver
    PROVE  OneChange /\ Present'.features = Present.features
<1>1. doc \in Document /\ doc' \in Document
  BY DocsAre, NextDocIs
<1>2. SamePlain(doc'.features, doc.features)
  BY DraftOver DEF LandsOver, CommitWithCascade, Mutate
<1>. QED BY <1>1, <1>2, SetsParamIs DEF OneChange, Present

\* A commit that lands finds the objects it has read, so it writes back what is there.
LEMMA LandsOn ==
    ASSUME GoodInv, NamesInv, solving.kind \in {"dimension", "refresh"}, Current # {},
           doc' = Landed(Current)
    PROVE  /\ doc'.param = doc.param /\ doc'.features \in Seq(Feature)
           /\ Len(doc'.features) = Len(doc.features)
           /\ \A i \in 1..Len(doc.features) :
                 \/ doc'.features[i] = doc.features[i] /\ doc.features[i] \notin Current
                 \/ doc'.features[i] = Rewritten(doc.features[i]) /\ doc.features[i] \in Current
<1>1. /\ doc \in Document /\ doc.features \in Seq(Feature) /\ Len(doc.features) \in Nat
      /\ DOMAIN doc.features = 1..Len(doc.features) /\ Apart(doc.features)
  BY DocsAre DEF NamesInv, Docs
<1>. DEFINE t == Landed(Current).features
            n == Len(doc.features)
<1>2. /\ doc'.param = doc.param /\ t \in Seq(Feature) /\ DOMAIN t = 1..n
      /\ \A i \in 1..n :
            \/ t[i] = doc.features[i] /\ \A f \in Current : f.id # doc.features[i].id
            \/ \E f \in Current : f.id = doc.features[i].id /\ t[i] = Rewritten(f)
  BY <1>1, LandedIs DEF Good, Fits, Document
<1>3. Len(t) = n
  BY <1>1, <1>2, LenProperties
<1>4. \A f \in Current : \E k \in 1..n : f = doc.features[k]
  <2>1. Current \subseteq Range(doc.features)
    BY DEF Current
  <2>2. Range(doc.features) = {doc.features[k] : k \in 1..n}
    BY <1>1 DEF Range
  <2>. QED BY <2>1, <2>2
<1>. HIDE DEF t
<1>5. ASSUME NEW i \in 1..n
      PROVE  \/ t[i] = doc.features[i] /\ doc.features[i] \notin Current
             \/ t[i] = Rewritten(doc.features[i]) /\ doc.features[i] \in Current
  <2>1. CASE t[i] = doc.features[i] /\ \A f \in Current : f.id # doc.features[i].id
    BY <2>1
  <2>2. ASSUME NEW f \in Current, f.id = doc.features[i].id, t[i] = Rewritten(f)
        PROVE  t[i] = Rewritten(doc.features[i]) /\ doc.features[i] \in Current
    <3>1. PICK k \in 1..n : f = doc.features[k]
      BY <1>4
    <3>2. k = i
      BY <1>1, <2>2, <3>1 DEF Apart
    <3>. QED BY <2>2, <3>1, <3>2
  <2>. QED BY <1>2, <2>1, <2>2
<1>. QED BY <1>2, <1>3, <1>5 DEF t

DimensionsInv ==
    /\ solving.kind = "dimension" => \A f, g \in solving.seen : f.id = g.id
    /\ \A i \in 1..Len(paramChain) :
          paramChain[i].kind = "dimension" => \A x, y \in paramChain[i].ids : x = y

\* A dimension that lands changes one sketch.
LEMMA LandsOne ==
    ASSUME GoodInv, GoodInv', NamesInv, DimensionsInv, solving.kind = "dimension", Current # {},
           doc' = Landed(Current)
    PROVE  OneChange
<1>. DEFINE n == Len(doc.features)
<1>1. /\ doc.features \in Seq(Feature) /\ n \in Nat /\ DOMAIN doc.features = 1..n /\ Apart(doc.features)
      /\ \A i \in 1..n : doc.features[i] \in Feature
  BY DocsAre DEF NamesInv, Docs
<1>2. /\ doc'.param = doc.param /\ Len(doc'.features) = n
      /\ \A i \in 1..n :
            \/ doc'.features[i] = doc.features[i] /\ doc.features[i] \notin Current
            \/ doc'.features[i] = Rewritten(doc.features[i]) /\ doc.features[i] \in Current
  BY LandsOn
<1>3. Current \subseteq solving.seen /\ Range(doc.features) = {doc.features[k] : k \in 1..n}
  BY <1>1 DEF Current, Range
<1>4. PICK i \in 1..n : doc.features[i] \in Current
  <2>1. PICK f \in Current : TRUE
    OBVIOUS
  <2>2. f \in Range(doc.features)
    BY <2>1 DEF Current
  <2>. QED BY <1>3, <2>1, <2>2
<1>5. \A j \in 1..n : j # i => doc.features[j] \notin Current
  BY <1>1, <1>3, <1>4 DEF DimensionsInv, Apart
<1>6. \A j \in 1..n : j # i => doc'.features[j] = doc.features[j]
  BY <1>2, <1>5
<1>7. /\ Rewritten(doc.features[i]).id = doc.features[i].id
      /\ Rewritten(doc.features[i]).born = doc.features[i].born
  <2>1. doc.features[i] \in Feature
    BY <1>1
  <2>. QED BY <2>1, RewrittenIs
<1>8. doc'.features[i].id = doc.features[i].id /\ doc'.features[i].born = doc.features[i].born
  BY <1>2, <1>4, <1>7
<1>. QED BY <1>2, <1>6, <1>8, EditsOne

\* The curves of a sketch are not the user's.
LEMMA RefreshIsNone ==
    ASSUME GoodInv, GoodInv', NamesInv, solving.kind = "refresh", Current # {},
           doc' = Landed(Current)
    PROVE  Present' = Present
<1>. DEFINE n == Len(doc.features)
<1>1. /\ doc \in Document /\ doc' \in Document
      /\ doc.features \in Seq(Feature) /\ n \in Nat
      /\ \A i \in 1..n : doc.features[i] \in Feature
  BY DocsAre, NextDocIs
<1>2. /\ doc'.param = doc.param /\ doc'.features \in Seq(Feature) /\ Len(doc'.features) = n
      /\ \A i \in 1..n :
            \/ doc'.features[i] = doc.features[i]
            \/ doc'.features[i] = Rewritten(doc.features[i])
  BY LandsOn
<1>3. \A f \in Feature : PlainOf(Rewritten(f)) = PlainOf(f)
  <2>. SUFFICES ASSUME NEW f \in Feature PROVE PlainOf(Rewritten(f)) = PlainOf(f)
    OBVIOUS
  <2>1. Rewritten(f) = [id |-> f.id, born |-> f.born, val |-> f.val, at |-> solving.at]
    BY RewrittenIs
  <2>. QED BY <2>1 DEF PlainOf
<1>4. \A i \in 1..n : PlainOf(doc'.features[i]) = PlainOf(doc.features[i])
  BY <1>1, <1>2, <1>3
<1>5. PlainAll(doc'.features) = PlainAll(doc.features)
  <2>1. /\ PlainAll(doc'.features) \in Seq(PlainFeature) /\ Len(PlainAll(doc'.features)) = n
        /\ \A i \in 1..n : PlainAll(doc'.features)[i] = PlainOf(doc'.features[i])
    BY <1>1, <1>2, PlainAllIs
  <2>2. /\ PlainAll(doc.features) \in Seq(PlainFeature) /\ Len(PlainAll(doc.features)) = n
        /\ \A i \in 1..n : PlainAll(doc.features)[i] = PlainOf(doc.features[i])
    BY <1>1, PlainAllIs
  <2>. QED BY <1>4, <2>1, <2>2, SeqEqual
<1>. QED BY <1>1, <1>2, <1>5, PlainIs DEF Present

\* What made a feature has happened, and it made that one.
BornsInv ==
    /\ \A d \in Docs : \A i \in 1..Len(d.features) : d.features[i].born <= changes
    /\ \A d, e \in Docs : \A i \in 1..Len(d.features), j \in 1..Len(e.features) :
          d.features[i].born = e.features[j].born => d.features[i].id = e.features[j].id

\* The features of the document a step leaves were there before, or the step made it.
Made1(f, x) == f.born = changes + 1 /\ f.id = x /\ changes' = changes + 1
WasThere(f) ==
    \E d \in Docs : \E i \in 1..Len(d.features) :
        f.born = d.features[i].born /\ f.id = d.features[i].id

Came(f, x) == WasThere(f) \/ Made1(f, x)
NothingElse == \E x : \A k \in 1..Len(doc'.features) : Came(doc'.features[k], x)

\* The features of the document are there,
LEMMA IsThere ==
    ASSUME NEW i \in 1..Len(doc.features), NEW f, f.born = doc.features[i].born,
           f.id = doc.features[i].id
    PROVE  WasThere(f)
BY DEF WasThere, Docs

\* and the one an addition makes is made now.
LEMMA AddedBorns ==
    ASSUME GoodInv, GoodInv', NEW id, Inserted(doc.features, Slot, Made(id), doc'.features),
           changes' = changes + 1
    PROVE  NothingElse
<1>. SUFFICES ASSUME NEW k \in 1..Len(doc'.features)
              PROVE  Came(doc'.features[k], id)
  BY DEF NothingElse
<1>. DEFINE p == Slot
            s == doc.features
            t == doc'.features
            f == Made(id)
<1>1. f.born = changes + 1 /\ f.id = id
  BY DEF Made, Stamp
<1>. HIDE DEF f, p
<1>2. /\ Len(s) \in Nat /\ Len(t) = Len(s) + 1 /\ p \in 1..Len(s) + 1
      /\ \A j \in 1..Len(s) + 1 : t[j] = IF j < p THEN s[j] ELSE IF j = p THEN f ELSE s[j - 1]
  BY DocsAre DEF Inserted, f, p
<1>. HIDE DEF s, t
<1>3. CASE k < p
  <2>1. k \in 1..Len(s) /\ t[k] = s[k]
    BY <1>2, <1>3
  <2>. QED BY <2>1, IsThere DEF s, t, Came
<1>4. CASE k = p
  BY <1>1, <1>2, <1>4 DEF Made1, Came, t
<1>5. CASE k > p
  <2>1. k - 1 \in 1..Len(s) /\ t[k] = s[k - 1]
    BY <1>2, <1>5 DEF t
  <2>. QED BY <2>1, IsThere DEF s, t, Came
<1>. QED BY <1>2, <1>3, <1>4, <1>5 DEF t

\* The other changes make none.
LEMMA SameBorns ==
    ASSUME Len(doc'.features) = Len(doc.features),
           \A i \in 1..Len(doc.features) : /\ doc'.features[i].born = doc.features[i].born
                                           /\ doc'.features[i].id = doc.features[i].id
    PROVE  NothingElse
BY IsThere DEF NothingElse, Came

\* So what is in the document after a change was there, or is made now,
LEMMA ChangeBorns ==
    ASSUME GoodInv, GoodInv', NamesInv
    PROVE  (AddFeature \/ AddsFree \/ ImportRead \/ EditFeature \/ RemoveFeature \/ MoveFeature
               \/ LandsOver \/ CommitSketchDimension \/ CommitProjectionRefresh) => NothingElse
<1>0. /\ doc.features \in Seq(Feature) /\ DOMAIN doc.features = 1..Len(doc.features)
      /\ Len(doc.features) \in Nat /\ doc \in Document
      /\ \A i \in 1..Len(doc.features) : doc.features[i] \in Feature
  BY DocsAre
<1>1. CASE AddFeature
  BY <1>1, IdIsFree, AddsOne, AddedBorns DEF AddFeature, MayChange, Mutate, Changed, Stamp
<1>2. CASE AddsFree
  <2>1. tool \in Name /\ tool \notin Ids(doc.features)
    BY <1>2 DEF AddsFree, Doubles, CommitTool, GoodInv, NamesAreGood
  <2>. QED BY <1>2, <2>1, AddsOne, AddedBorns DEF AddsFree, CommitTool, MayChange, Mutate, Changed, Stamp
<1>3. CASE ImportRead
  BY <1>3, IdIsFree, AddsOne, AddedBorns DEF ImportRead, MayChange, Changed, Stamp
<1>4. CASE EditFeature
  <2>1. PICK i \in DOMAIN doc.features :
            Mutate([doc EXCEPT !.features[i].val = Stamp, !.features[i].at = doc.param])
    BY <1>4 DEF EditFeature
  <2>. DEFINE f == [id |-> doc.features[i].id, born |-> doc.features[i].born,
                    val |-> Stamp, at |-> doc.param]
              t == [doc.features EXCEPT ![i] = f]
  <2>2. f \in Feature /\ doc' = [features |-> t, param |-> doc.param]
    BY <1>4, <2>1, EditedIsGood DEF EditFeature, MayChange, Mutate
  <2>3. f.born = doc.features[i].born /\ f.id = doc.features[i].id /\ i \in 1..Len(doc.features)
    BY <1>0
  <2>. HIDE DEF f
  <2>4. /\ Len(t) = Len(doc.features)
        /\ \A j \in 1..Len(doc.features) : t[j] = IF j = i THEN f ELSE doc.features[j]
    BY <1>0, <2>2, <2>3, ExceptSeq
  <2>5. \A j \in 1..Len(doc.features) :
            t[j].born = doc.features[j].born /\ t[j].id = doc.features[j].id
    BY <2>3, <2>4
  <2>6. doc'.features = t
    BY <2>2
  <2>. HIDE DEF t
  <2>. QED BY <2>4, <2>5, <2>6, SameBorns
<1>5. CASE RemoveFeature
  <2>1. PICK p \in DOMAIN doc.features : Mutate([doc EXCEPT !.features = RemoveAt(@, p)])
    BY <1>5 DEF RemoveFeature
  <2>2. doc'.features = RemoveAt(doc.features, p)
    BY <2>1, RemovedIsGood DEF Mutate
  <2>3. /\ Len(doc'.features) = Len(doc.features) - 1 /\ p \in 1..Len(doc.features)
        /\ \A j \in 1..Len(doc.features) - 1 :
              doc'.features[j] = IF j < p THEN doc.features[j] ELSE doc.features[j + 1]
    <3>. DEFINE s == doc.features
                r == RemoveAt(s, p)
    <3>1. s \in Seq(Feature) /\ p \in 1..Len(s)
      BY <1>0
    <3>2. /\ Len(r) = Len(s) - 1
          /\ \A j \in 1..Len(s) - 1 : r[j] = IF j < p THEN s[j] ELSE s[j + 1]
      BY <3>1, RemoveAtIs
    <3>3. doc'.features = r
      BY <2>2
    <3>. HIDE DEF r
    <3>. QED BY <3>1, <3>2, <3>3
  <2>4. ASSUME NEW k \in 1..Len(doc'.features) PROVE WasThere(doc'.features[k])
    <3>1. k \in 1..Len(doc.features) /\ k + 1 \in 1..Len(doc.features)
      BY <1>0, <2>3
    <3>. QED BY <2>3, <3>1, IsThere
  <2>. QED BY <2>4 DEF NothingElse, Came
<1>6. CASE MoveFeature
  <2>. DEFINE s == doc.features
  <2>1. PICK i \in DOMAIN s, j \in DOMAIN s :
            Mutate([doc EXCEPT !.features = InsertAt(RemoveAt(@, i), j, @[i])])
    BY <1>6 DEF MoveFeature
  <2>. DEFINE t == InsertAt(RemoveAt(s, i), j, s[i])
  <2>2. doc' = [features |-> t, param |-> doc.param]
    BY <2>1, MovedIsGood DEF Mutate
  <2>3. Len(t) = Len(s) /\ \A k \in 1..Len(s) : \E l \in 1..Len(s) : t[k] = s[l]
    BY <1>0, MovedIs
  <2>4. doc'.features = t
    BY <2>2
  <2>. HIDE DEF t
  <2>5. ASSUME NEW k \in 1..Len(doc'.features) PROVE WasThere(doc'.features[k])
    <3>1. PICK l \in 1..Len(s) : doc'.features[k] = s[l]
      BY <2>3, <2>4
    <3>. QED BY <3>1, IsThere
  <2>. QED BY <2>5 DEF NothingElse, Came
<1>7. CASE LandsOver
  <2>1. SamePlain(doc'.features, doc.features)
    BY <1>7, DraftOver DEF LandsOver, CommitWithCascade, Mutate
  <2>. QED BY <2>1, SameBorns DEF SamePlain
<1>8. CASE CommitSketchDimension \/ CommitProjectionRefresh
  <2>1. /\ solving.kind \in {"dimension", "refresh"} /\ Current # {} /\ doc' = Landed(Current)
    BY <1>8 DEF CommitSketchDimension, CommitProjectionRefresh, Mutate
  <2>2. /\ Len(doc'.features) = Len(doc.features)
        /\ \A i \in 1..Len(doc.features) :
              \/ doc'.features[i] = doc.features[i]
              \/ doc'.features[i] = Rewritten(doc.features[i])
    BY <2>1, LandsOn
  <2>3. ASSUME NEW i \in 1..Len(doc.features)
        PROVE  /\ doc'.features[i].born = doc.features[i].born
               /\ doc'.features[i].id = doc.features[i].id
    <3>1. doc.features[i] \in Feature
      BY <1>0
    <3>2. /\ Rewritten(doc.features[i]).born = doc.features[i].born
          /\ Rewritten(doc.features[i]).id = doc.features[i].id
      BY <3>1, RewrittenIs
    <3>. QED BY <2>2, <3>2
  <2>. QED BY <2>2, <2>3, SameBorns
<1>. QED BY <1>1, <1>2, <1>3, <1>4, <1>5, <1>6, <1>7, <1>8

\* and what made it has happened.
LEMMA BornsAreKept ==
    ASSUME GoodInv, GoodInv', NamesInv, BornsInv, [OrderlyNext]_vars
    PROVE  BornsInv'
<1>0. [Next]_vars
  BY OrderlyIsStep
<1>1. changes \in Nat /\ (changes' = changes \/ changes' = changes + 1)
  <2>1. changes \in Nat
    BY BoundsAssumption DEF GoodInv, NamesAreGood
  <2>2. changes' = changes \/ changes' = changes + 1
    BY <1>0
       DEF Next, Others, vars, AddFeature, EditFeature, RemoveFeature, MoveFeature, Undo, Redo,
           Replace, SetRollback, ToggleSuppress, SetParam, SetSketchDimension, RefreshProjections,
           CommitWithCascade, CommitSketchDimension, CommitProjectionRefresh, CommitIsDropped,
           GoOn, StartTool, CommitTool, CancelTool, StartImport, ImportRead, ImportEnds,
           WithdrawFeature, Changed, Stamp
  <2>. QED BY <2>1, <2>2
<1>2. ASSUME NEW f, WasThere(f) PROVE f.born \in Nat /\ f.born <= changes
  <2>1. \A d \in Docs : Good(d)
    BY DEF GoodInv, StacksAreGood
  <2>d. PICK d \in Docs : \E i \in 1..Len(d.features) : f.born = d.features[i].born
    BY <1>2 DEF WasThere
  <2>2. PICK i \in 1..Len(d.features) : f.born = d.features[i].born
    BY <2>d
  <2>3. d.features[i] \in Feature
    <3>1. d.features \in Seq(Feature)
      BY <2>1 DEF Good, Fits, Document
    <3>. QED BY <3>1, LenProperties
  <2>. QED BY <2>2, <2>3 DEF BornsInv, Feature
<1>3. ASSUME NEW d \in Docs, NEW i \in 1..Len(d.features) PROVE WasThere(d.features[i])
  BY DEF WasThere
<1>4. ASSUME NEW d \in Docs, NEW i \in 1..Len(Without(d).features)
      PROVE  WasThere(Without(d).features[i])
  <2>1. Fits(d)
    BY DEF GoodInv, StacksAreGood, Good
  <2>2. /\ Without(d).features = Filtered(d.features, Kept(d))
        /\ Kept(d) \in SUBSET DOMAIN d.features /\ d.features \in Seq(Feature)
    BY <2>1, WithoutIs DEF Fits, Document
  <2>. DEFINE t == Filtered(d.features, Kept(d))
  <2>3. /\ DOMAIN d.features = 1..Len(d.features)
        /\ \A k \in 1..Len(t) : t[k] = d.features[Nth(Kept(d), k)] /\ Nth(Kept(d), k) \in Kept(d)
    <3>1. /\ Len(t) = Cardinality(Kept(d))
          /\ \A k \in 1..Cardinality(Kept(d)) :
                t[k] = d.features[Nth(Kept(d), k)] /\ Nth(Kept(d), k) \in Kept(d)
      BY <2>2, FilteredIs
    <3>. HIDE DEF t
    <3>. QED BY <2>2, <3>1, LenProperties
  <2>. HIDE DEF t
  <2>4. t = Without(d).features
    BY <2>2 DEF t
  <2>5. Nth(Kept(d), i) \in 1..Len(d.features) /\ t[i] = d.features[Nth(Kept(d), i)]
    BY <2>2, <2>3, <2>4
  <2>. QED BY <1>3, <2>4, <2>5
<1>5. NothingElse
  <2>1. CASE AddFeature \/ AddsFree \/ ImportRead \/ EditFeature \/ RemoveFeature \/ MoveFeature
               \/ LandsOver \/ CommitSketchDimension \/ CommitProjectionRefresh
    BY <2>1, ChangeBorns
  <2>2. CASE doc' \in Docs
    BY <1>3, <2>2 DEF NothingElse, Came
  <2>3. CASE Undo
    <3>1. undoStack # <<>> /\ doc' = undoStack[Len(undoStack)].doc
      BY <2>3 DEF Undo
    <3>2. Len(undoStack) \in 1..Len(undoStack)
      BY <3>1, FrontIs DEF GoodInv, StacksAreGood
    <3>. QED BY <2>2, <3>1, <3>2, EntriesIn DEF GoodInv
  <2>4. CASE Redo
    <3>1. redoStack # <<>> /\ doc' = redoStack[Len(redoStack)]
      BY <2>4 DEF Redo
    <3>2. Len(redoStack) \in 1..Len(redoStack)
      BY <3>1, FrontIs DEF GoodInv, StacksAreGood
    <3>. QED BY <2>2, <3>1, <3>2, EntriesIn DEF GoodInv
  <2>5. CASE Replace
    <3>. DEFINE f == [Made(1) EXCEPT !.at = 0]
    <3>1. f.born = changes + 1 /\ f.id = 1
      BY DEF Made, Stamp
    <3>. HIDE DEF f
    <3>2. doc'.features = <<>> \/ doc'.features = <<f>>
      <4>1. doc' = [features |-> <<>>, param |-> 0] \/ doc' = [features |-> <<f>>, param |-> 0]
        BY <2>5 DEF Replace, f
      <4>. QED BY <4>1
    <3>3. changes' = changes + 1
      BY <2>5 DEF Replace, Changed, Stamp
    <3>4. \A k \in 1..Len(doc'.features) : doc'.features[k] = f
      BY <3>2
    <3>5. Came(f, 1)
      BY <3>1, <3>3 DEF Came, Made1
    <3>. QED BY <3>4, <3>5 DEF NothingElse
  <2>6. CASE WithdrawFeature
    <3>1. doc' = Without(doc) /\ doc \in Docs
      BY <2>6 DEF WithdrawFeature, Docs
    <3>. QED BY <1>4, <3>1 DEF NothingElse, Came
  <2>7. (SetRollback \/ ToggleSuppress \/ SetParam \/ SetSketchDimension \/ RefreshProjections
         \/ CommitIsDropped \/ StartTool \/ CancelTool \/ StartImport \/ ImportEnds
         \/ UNCHANGED vars) => doc' \in Docs
    BY DEF vars, SetRollback, ToggleSuppress, SetParam, SetSketchDimension, RefreshProjections,
           Queue, CommitIsDropped, GoOn, StartTool, CancelTool, StartImport, ImportEnds, Docs
  <2>. QED BY <2>1, <2>2, <2>3, <2>4, <2>5, <2>6, <2>7
           DEF OrderlyNext, Others, LandsOver, AddsFree
<1>6. PICK x : \A k \in 1..Len(doc'.features) : Came(doc'.features[k], x)
  BY <1>5 DEF NothingElse
<1>7. ASSUME NEW d \in Docs', NEW i \in 1..Len(d.features) PROVE Came(d.features[i], x)
  <2>1. Left(d)
    BY <1>0, StepDocs
  <2>. QED BY <1>3, <1>4, <1>6, <2>1 DEF Left, Came
<1>8. ASSUME NEW f, Came(f, x) PROVE f.born <= changes'
  BY <1>1, <1>2, <1>8 DEF Came, Made1
<1>9. ASSUME NEW f, NEW g, Came(f, x), Came(g, x), f.born = g.born PROVE f.id = g.id
  <2>1. CASE WasThere(f) /\ WasThere(g)
    <3>1. PICK d \in Docs :
              \E i \in 1..Len(d.features) : f.born = d.features[i].born /\ f.id = d.features[i].id
      BY <2>1 DEF WasThere
    <3>2. PICK i \in 1..Len(d.features) : f.born = d.features[i].born /\ f.id = d.features[i].id
      BY <3>1
    <3>3. PICK e \in Docs :
              \E j \in 1..Len(e.features) : g.born = e.features[j].born /\ g.id = e.features[j].id
      BY <2>1 DEF WasThere
    <3>4. PICK j \in 1..Len(e.features) : g.born = e.features[j].born /\ g.id = e.features[j].id
      BY <3>3
    <3>5. d.features[i].born = e.features[j].born => d.features[i].id = e.features[j].id
      BY DEF BornsInv
    <3>. QED BY <1>9, <3>2, <3>4, <3>5
  <2>2. CASE Made1(f, x) /\ Made1(g, x)
    BY <2>2 DEF Made1
  <2>3. ASSUME NEW a, NEW b, WasThere(a), Made1(b, x) PROVE a.born # b.born
    <3>1. a.born \in Nat /\ a.born <= changes
      BY <1>2, <2>3
    <3>2. b.born = changes + 1
      BY <2>3 DEF Made1
    <3>. QED BY <1>1, <3>1, <3>2
  <2>4. CASE WasThere(f) /\ Made1(g, x)
    BY <1>9, <2>3, <2>4
  <2>5. CASE Made1(f, x) /\ WasThere(g)
    <3>1. g.born # f.born
      BY <2>3, <2>5
    <3>. QED BY <1>9, <3>1
  <2>6. (WasThere(f) \/ Made1(f, x)) /\ (WasThere(g) \/ Made1(g, x))
    BY <1>9 DEF Came
  <2>. QED BY <2>1, <2>2, <2>4, <2>5, <2>6
<1>. QED BY <1>7, <1>8, <1>9 DEF BornsInv

\* A dimension belongs to one sketch.
OneId(ids) == \A x, y \in ids : x = y

\* A commit waits and is solved for the sketch it was asked for.
LEMMA DimensionsAreKept ==
    ASSUME GoodInv, DimensionsInv, [Next]_vars
    PROVE  DimensionsInv'
<1>1. ASSUME NEW c, NEW d, c.kind = "dimension" => OneId(c.ids)
      PROVE  LET b == Begin(c, d) IN
                 b.kind = "dimension" => \A f, g \in b.seen : f.id = g.id
  <2>. DEFINE b == Begin(c, d)
  <2>1. b.kind = c.kind /\ \A f \in b.seen : f.id \in c.ids
    BY DEF Begin
  <2>. HIDE DEF b
  <2>2. b.kind = "dimension" => \A f, g \in b.seen : f.id = g.id
    BY <1>1, <2>1 DEF OneId
  <2>. QED BY <2>2 DEF b
<1>2. paramChain \in Seq(Commit) /\ Len(paramChain) \in Nat
      /\ \A i \in 1..Len(paramChain) : paramChain[i].kind = "dimension" => OneId(paramChain[i].ids)
  BY LenProperties DEF GoodInv, ChainIsGood, DimensionsInv, OneId
<1>3. CASE GoOn
  <2>1. CASE paramChain = <<>>
    BY <1>3, <2>1 DEF GoOn, Resting, DimensionsInv
  <2>2. CASE paramChain # <<>>
    <3>1. solving' = Begin(Head(paramChain), doc') /\ paramChain' = Tail(paramChain)
      BY <1>3, <2>2 DEF GoOn
    <3>. DEFINE c == Head(paramChain)
    <3>2. /\ Len(Tail(paramChain)) = Len(paramChain) - 1
          /\ \A i \in 1..Len(Tail(paramChain)) : Tail(paramChain)[i] = paramChain[i + 1]
      BY <1>2, <2>2, HeadTailProperties
    <3>3. c = paramChain[1] /\ 1 \in 1..Len(paramChain)
      BY <1>2, <2>2
    <3>4. c.kind = "dimension" => OneId(c.ids)
      BY <1>2, <3>3
    <3>. HIDE DEF c
    <3>5. solving'.kind = "dimension" => \A f, g \in solving'.seen : f.id = g.id
      BY <1>1, <3>1, <3>4 DEF c
    <3>6. \A i \in 1..Len(paramChain') : paramChain'[i].kind = "dimension" => OneId(paramChain'[i].ids)
      <4>. SUFFICES ASSUME NEW i \in 1..Len(paramChain'), paramChain'[i].kind = "dimension"
                    PROVE  OneId(paramChain'[i].ids)
        OBVIOUS
      <4>1. i + 1 \in 1..Len(paramChain) /\ paramChain'[i] = paramChain[i + 1]
        BY <1>2, <3>1, <3>2
      <4>. QED BY <1>2, <4>1
    <3>. QED BY <3>5, <3>6 DEF DimensionsInv, OneId
  <2>. QED BY <2>1, <2>2
<1>4. ASSUME NEW c \in Commit, c.kind = "dimension" => OneId(c.ids), Queue(c)
      PROVE  DimensionsInv'
  <2>1. CASE solving = Resting
    <3>1. solving' = Begin(c, doc) /\ paramChain' = paramChain
      BY <1>4, <2>1 DEF Queue
    <3>2. solving'.kind = "dimension" => \A f, g \in solving'.seen : f.id = g.id
      BY <1>1, <1>4, <3>1
    <3>. QED BY <3>1, <3>2 DEF DimensionsInv
  <2>2. CASE solving # Resting
    <3>1. solving' = solving /\ paramChain' = Append(paramChain, c)
      BY <1>4, <2>2 DEF Queue
    <3>2. /\ Len(paramChain') = Len(paramChain) + 1
          /\ \A i \in 1..Len(paramChain) : paramChain'[i] = paramChain[i]
          /\ paramChain'[Len(paramChain) + 1] = c
      BY <1>2, <3>1, AppendProperties
    <3>3. \A i \in 1..Len(paramChain') : paramChain'[i].kind = "dimension" => OneId(paramChain'[i].ids)
      <4>. SUFFICES ASSUME NEW i \in 1..Len(paramChain'), paramChain'[i].kind = "dimension"
                    PROVE  OneId(paramChain'[i].ids)
        OBVIOUS
      <4>1. i \in 1..Len(paramChain) \/ i = Len(paramChain) + 1
        BY <1>2, <3>2
      <4>. QED BY <1>2, <1>4, <3>2, <4>1
    <3>. QED BY <3>1, <3>3 DEF DimensionsInv, OneId
  <2>. QED BY <2>1, <2>2
<1>5. CASE SetParam \/ SetSketchDimension \/ RefreshProjections
  <2>1. /\ changes \in 0..MaxChanges /\ MaxChanges \in Nat /\ Ids(doc.features) \subseteq Name
    BY DocsAre, IdsAre, BoundsAssumption DEF GoodInv, NamesAreGood
  <2>2. CASE SetParam
    <3>1. [kind |-> "param", value |-> Stamp, ids |-> {}] \in Commit
      BY <2>1, <2>2 DEF SetParam, Stamp, Commit, CommitKind
    <3>. QED BY <1>4, <2>2, <3>1 DEF SetParam
  <2>3. CASE SetSketchDimension
    <3>1. PICK id \in Ids(doc.features) : Queue([kind |-> "dimension", value |-> Stamp, ids |-> {id}])
      BY <2>3 DEF SetSketchDimension
    <3>. DEFINE c == [kind |-> "dimension", value |-> Stamp, ids |-> {id}]
    <3>2. c \in Commit /\ OneId(c.ids)
      BY <2>1, <2>3 DEF SetSketchDimension, Stamp, Commit, CommitKind, OneId
    <3>3. Queue(c)
      BY <3>1
    <3>. HIDE DEF c
    <3>. QED BY <1>4, <3>2, <3>3
  <2>4. CASE RefreshProjections
    <3>1. PICK ids \in SUBSET Ids(doc.features) : Queue([kind |-> "refresh", value |-> 0, ids |-> ids])
      BY <2>4 DEF RefreshProjections
    <3>2. [kind |-> "refresh", value |-> 0, ids |-> ids] \in Commit
      BY <2>1 DEF Commit, CommitKind
    <3>. QED BY <1>4, <3>1, <3>2
  <2>. QED BY <1>5, <2>2, <2>3, <2>4
<1>6. CASE Undo \/ Redo \/ Replace
  <2>1. solving' = Swapped /\ paramChain' = paramChain
    BY <1>6 DEF Undo, Redo, Replace
  <2>2. Swapped.kind = solving.kind /\ Swapped.seen = solving.seen
    BY SwappedIs DEF GoodInv
  <2>. QED BY <2>1, <2>2 DEF DimensionsInv
<1>7. CASE UNCHANGED <<solving, paramChain>>
  BY <1>7 DEF DimensionsInv
<1>8. (AddFeature \/ EditFeature \/ RemoveFeature \/ MoveFeature \/ CommitTool \/ ImportRead
         \/ WithdrawFeature \/ SetRollback \/ ToggleSuppress \/ StartTool \/ CancelTool
         \/ StartImport \/ ImportEnds \/ UNCHANGED vars) => UNCHANGED <<solving, paramChain>>
  BY DEF AddFeature, EditFeature, RemoveFeature, MoveFeature, CommitTool, ImportRead,
         WithdrawFeature, SetRollback, ToggleSuppress, StartTool, CancelTool, StartImport,
         ImportEnds, vars
<1>9. (CommitWithCascade \/ CommitSketchDimension \/ CommitProjectionRefresh \/ CommitIsDropped) => GoOn
  BY DEF CommitWithCascade, CommitSketchDimension, CommitProjectionRefresh, CommitIsDropped
<1>. QED BY <1>3, <1>5, <1>6, <1>7, <1>8, <1>9 DEF Next, Others

------------------------------------------------------------------------
\* The import that can be called off.

\* The documents of the line.
LineDoc(k) == IF k <= Len(undoStack) THEN undoStack[k].doc ELSE doc

\* The step that a mark is on added the import's feature.
MarkedAt(at) ==
    LET d == Plain(LineDoc(at))
        e == Plain(LineDoc(at + 1))
    IN \E p \in 1..Len(d.features) + 1 : History!Adds(d, e, p) /\ e.features[p].id = import.id

\* There is one mark at most, on the step of the import that builds.
MarksInv ==
    /\ \A at \in 1..Len(undoStack) : undoStack[at].added => import.pc = "building" /\ MarkedAt(at)
    /\ \A i, j \in 1..Len(undoStack) : undoStack[i].added /\ undoStack[j].added => i = j

\* The stack as it was, from the stack after a push.
LEMMA PushedFrom ==
    ASSUME GoodInv
    PROVE  \E n \in Nat, m \in Nat, x \in {0, 1} :
              /\ n = Len(undoStack) /\ m = Len(Pushed) /\ m + x = n + 1 /\ m >= 1
              /\ \A k \in 1..m : Pushed[k].doc = LineDoc(k + x)
              /\ \A k \in 1..m - 1 : Pushed[k] = undoStack[k + x]
              /\ Pushed[m] = [doc |-> doc, added |-> FALSE]
<1>. DEFINE n == Len(undoStack)
            m == Len(Pushed)
            e == [doc |-> doc, added |-> FALSE]
            stack == Append(undoStack, e)
            x == IF n + 1 > UndoCap THEN 1 ELSE 0
<1>1. /\ undoStack \in Seq(Entry) /\ doc \in Document /\ Len(undoStack) <= UndoCap
  BY DEF GoodInv, StacksAreGood, Docs, Good, Fits
<1>2. /\ Len(stack) = n + 1 /\ \A i \in 1..n : stack[i] = undoStack[i]
      /\ stack[n + 1] = e
      /\ m = IF Len(stack) > UndoCap THEN n ELSE n + 1
      /\ \A i \in 1..m : Pushed[i] = IF Len(stack) > UndoCap THEN stack[i + 1] ELSE stack[i]
      /\ n \in Nat /\ UndoCap \in Nat \ {0} /\ m >= 1
  BY <1>1, PushedIs, LenProperties, BoundsAssumption
<1>3. e.doc = doc
  OBVIOUS
<1>4. n \in Nat /\ m \in Nat /\ x \in {0, 1} /\ m + x = n + 1 /\ m >= 1
  BY <1>2
<1>. HIDE DEF stack, m, e
<1>5. \A i \in 1..m : Pushed[i] = stack[i + x] /\ i + x \in 1..n + 1
  <2>1. CASE n + 1 > UndoCap
    <3>1. x = 1 /\ m = n /\ \A i \in 1..m : Pushed[i] = stack[i + 1]
      BY <1>2, <2>1
    <3>2. \A i \in 1..m : i + 1 \in 1..n + 1
      BY <1>2, <3>1
    <3>. HIDE DEF x
    <3>. QED BY <3>1, <3>2
  <2>2. CASE ~(n + 1 > UndoCap)
    <3>1. x = 0 /\ m = n + 1 /\ \A i \in 1..m : Pushed[i] = stack[i]
      BY <1>2, <2>2
    <3>2. \A i \in 1..m : i + 0 = i
      OBVIOUS
    <3>. HIDE DEF x
    <3>. QED BY <3>1, <3>2
  <2>. QED BY <2>1, <2>2
<1>. HIDE DEF x
<1>6. \A k \in 1..m - 1 : Pushed[k] = undoStack[k + x]
  <2>. SUFFICES ASSUME NEW k \in 1..m - 1 PROVE Pushed[k] = undoStack[k + x]
    OBVIOUS
  <2>1. k \in 1..m /\ k + x \in 1..n
    BY <1>4
  <2>. QED BY <1>2, <1>5, <2>1
<1>7. Pushed[m] = e
  <2>1. m \in 1..m /\ m + x = n + 1
    BY <1>4
  <2>. QED BY <1>2, <1>5, <2>1
<1>8. \A k \in 1..m : Pushed[k].doc = LineDoc(k + x)
  <2>. SUFFICES ASSUME NEW k \in 1..m PROVE Pushed[k].doc = LineDoc(k + x)
    OBVIOUS
  <2>1. CASE k = m
    <3>1. ~(k + x <= n)
      BY <1>4, <2>1
    <3>. QED BY <1>3, <1>7, <2>1, <3>1 DEF LineDoc
  <2>2. CASE k # m
    <3>1. k \in 1..m - 1 /\ k + x <= n
      BY <1>4, <2>2
    <3>. QED BY <1>6, <3>1 DEF LineDoc
  <2>. QED BY <2>1, <2>2
<1>9. Pushed[m] = [doc |-> doc, added |-> FALSE]
  BY <1>7 DEF e
<1>. QED BY <1>4, <1>6, <1>8, <1>9 DEF m

\* A document more on the line keeps the marks.
LEMMA PushedMarks ==
    ASSUME GoodInv, MarksInv, undoStack' = Pushed, import' = import
    PROVE  MarksInv'
<1>1. PICK n \in Nat, m \in Nat, x \in {0, 1} :
              /\ n = Len(undoStack) /\ m = Len(Pushed) /\ m + x = n + 1 /\ m >= 1
              /\ \A k \in 1..m : Pushed[k].doc = LineDoc(k + x)
              /\ \A k \in 1..m - 1 : Pushed[k] = undoStack[k + x]
              /\ Pushed[m] = [doc |-> doc, added |-> FALSE]
  BY PushedFrom
<1>2. Len(undoStack') = m /\ \A k \in 1..m : undoStack'[k] = Pushed[k]
  BY <1>1
<1>3. \A k \in 1..m : LineDoc(k)' = LineDoc(k + x)
  BY <1>1, <1>2 DEF LineDoc
<1>4. ASSUME NEW at \in 1..m, undoStack'[at].added
      PROVE  at \in 1..m - 1 /\ at + x \in 1..n /\ undoStack[at + x].added
  <2>1. at # m
    BY <1>1, <1>2, <1>4
  <2>2. at \in 1..m - 1 /\ at + x \in 1..n
    BY <1>1, <2>1
  <2>. QED BY <1>1, <1>2, <1>4, <2>2
<1>5. ASSUME NEW at \in 1..m, undoStack'[at].added
      PROVE  import'.pc = "building" /\ MarkedAt(at)'
  <2>. DEFINE j == at + x
  <2>1. j \in 1..n /\ at + 1 \in 1..m /\ at + 1 + x = j + 1 /\ undoStack[j].added
    <3>1. at \in 1..m - 1 /\ j \in 1..n /\ undoStack[j].added
      BY <1>4, <1>5
    <3>. QED BY <1>1, <3>1
  <2>2. LineDoc(at)' = LineDoc(j) /\ LineDoc(at + 1)' = LineDoc(j + 1)
    BY <1>3, <2>1
  <2>. HIDE DEF j
  <2>3. import.pc = "building" /\ MarkedAt(j)
    BY <1>1, <2>1 DEF MarksInv
  <2>. QED BY <2>2, <2>3 DEF MarkedAt, Plain
<1>6. ASSUME NEW i \in 1..m, NEW j \in 1..m, undoStack'[i].added, undoStack'[j].added
      PROVE  i = j
  <2>1. /\ i + x \in 1..n /\ undoStack[i + x].added
        /\ j + x \in 1..n /\ undoStack[j + x].added
    BY <1>4, <1>6
  <2>2. i + x = j + x
    BY <1>1, <2>1 DEF MarksInv
  <2>. QED BY <2>2
<1>. QED BY <1>2, <1>5, <1>6 DEF MarksInv

\* No step is marked.
NoMarks == \A at \in 1..Len(undoStack) : ~undoStack[at].added

\* Without an import that builds there are no marks.
LEMMA NotBuilding ==
    ASSUME MarksInv, import.pc # "building"
    PROVE  NoMarks
BY DEF MarksInv, NoMarks

\* A step that leaves the line, but for what the program derives, leaves the marks.
LEMMA SameMarks ==
    ASSUME GoodInv, MarksInv, Present' = Present, UNCHANGED <<undoStack, import>>
    PROVE  MarksInv'
<1>. DEFINE n == Len(undoStack)
<1>1. n \in Nat
  BY PastIs DEF PastFits
<1>2. \A k \in 1..n : LineDoc(k)' = LineDoc(k)
  BY DEF LineDoc
<1>3. LineDoc(n + 1) = doc /\ LineDoc(n + 1)' = doc'
  BY <1>1 DEF LineDoc
<1>4. \A k \in 1..n + 1 : Plain(LineDoc(k)') = Plain(LineDoc(k))
  <2>. SUFFICES ASSUME NEW k \in 1..n + 1 PROVE Plain(LineDoc(k)') = Plain(LineDoc(k))
    OBVIOUS
  <2>1. CASE k = n + 1
    BY <1>3, <2>1 DEF Present
  <2>2. CASE k # n + 1
    <3>1. k \in 1..n
      BY <1>1, <2>2
    <3>. QED BY <1>2, <3>1
  <2>. QED BY <2>1, <2>2
<1>5. ASSUME NEW at \in 1..n, undoStack[at].added
      PROVE  import.pc = "building" /\ MarkedAt(at)'
  <2>1. import.pc = "building" /\ MarkedAt(at)
    BY <1>5 DEF MarksInv
  <2>2. at \in 1..n + 1 /\ at + 1 \in 1..n + 1
    BY <1>1
  <2>3. Plain(LineDoc(at)') = Plain(LineDoc(at)) /\ Plain(LineDoc(at + 1)') = Plain(LineDoc(at + 1))
    BY <1>4, <2>2
  <2>. QED BY <2>1, <2>3 DEF MarkedAt
<1>. QED BY <1>5 DEF MarksInv

\* Undo leaves the marks before the document it brings back.
LEMMA UndoMarks ==
    ASSUME GoodInv, MarksInv, Undo
    PROVE  MarksInv'
<1>. DEFINE n == Len(undoStack)
<1>1. /\ undoStack # <<>> /\ doc' = undoStack[n].doc /\ undoStack' = Front(undoStack)
      /\ import' = import
  BY DEF Undo
<1>2. undoStack \in Seq(Entry)
  BY DEF GoodInv, StacksAreGood
<1>3. /\ n \in Nat /\ n >= 1 /\ Len(undoStack') = n - 1
      /\ \A i \in 1..n - 1 : undoStack'[i] = undoStack[i]
  BY <1>1, <1>2, FrontIs
<1>5. \A k \in 1..n : LineDoc(k)' = LineDoc(k)
  <2>. SUFFICES ASSUME NEW k \in 1..n PROVE LineDoc(k)' = LineDoc(k)
    OBVIOUS
  <2>0. LineDoc(k) = undoStack[k].doc
    BY <1>3 DEF LineDoc
  <2>1. CASE k = n
    <3>1. ~(k <= n - 1)
      BY <1>3, <2>1
    <3>. QED BY <1>1, <1>3, <2>0, <2>1, <3>1 DEF LineDoc
  <2>2. CASE k # n
    <3>1. k \in 1..n - 1 /\ k <= n - 1
      BY <1>3, <2>2
    <3>. QED BY <1>3, <2>0, <3>1 DEF LineDoc
  <2>. QED BY <2>1, <2>2
<1>6. ASSUME NEW at \in 1..n - 1, undoStack'[at].added
      PROVE  import'.pc = "building" /\ MarkedAt(at)'
  <2>1. at \in 1..n /\ at + 1 \in 1..n /\ undoStack[at].added
    BY <1>3, <1>6
  <2>2. import.pc = "building" /\ MarkedAt(at)
    BY <2>1 DEF MarksInv
  <2>3. LineDoc(at)' = LineDoc(at) /\ LineDoc(at + 1)' = LineDoc(at + 1)
    BY <1>5, <2>1
  <2>. QED BY <1>1, <2>2, <2>3 DEF MarkedAt, Plain
<1>7. ASSUME NEW i \in 1..n - 1, NEW j \in 1..n - 1, undoStack'[i].added, undoStack'[j].added
      PROVE  i = j
  <2>1. i \in 1..n /\ j \in 1..n /\ undoStack[i].added /\ undoStack[j].added
    BY <1>3, <1>7
  <2>. QED BY <2>1 DEF MarksInv
<1>. QED BY <1>3, <1>6, <1>7 DEF MarksInv

\* The import marks the step that adds its feature.
LEMMA ImportMarks ==
    ASSUME GoodInv, GoodInv', MarksInv, ImportRead
    PROVE  MarksInv'
<1>. DEFINE id == NextId(doc.features)
            stack == [Pushed EXCEPT ![Len(Pushed)].added = TRUE]
<1>1. /\ import.pc = "reading" /\ changes < MaxChanges
      /\ import' = [pc |-> "building", id |-> id] /\ doc' = Added(id) /\ redoStack' = <<>>
      /\ undoStack' = stack
  BY DEF ImportRead, MayChange
<1>2. id \in Name /\ id \notin Ids(doc.features)
  BY IdIsFree
<1>. HIDE DEF id
<1>3. PICK n \in Nat, m \in Nat, x \in {0, 1} :
              /\ n = Len(undoStack) /\ m = Len(Pushed) /\ m + x = n + 1 /\ m >= 1
              /\ \A k \in 1..m : Pushed[k].doc = LineDoc(k + x)
              /\ \A k \in 1..m - 1 : Pushed[k] = undoStack[k + x]
              /\ Pushed[m] = [doc |-> doc, added |-> FALSE]
  BY PushedFrom
<1>4. /\ Len(stack) = m
      /\ \A k \in 1..m : stack[k].doc = Pushed[k].doc
      /\ \A k \in 1..m - 1 : stack[k] = Pushed[k]
  BY <1>3, MarkedIs
<1>. HIDE DEF stack
<1>5. NoMarks
  BY <1>1, NotBuilding
<1>6. ASSUME NEW at \in 1..m, undoStack'[at].added PROVE at = m
  <2>. SUFFICES ASSUME at # m PROVE FALSE
    OBVIOUS
  <2>1. at \in 1..m - 1 /\ at + x \in 1..n
    BY <1>3
  <2>2. undoStack'[at] = undoStack[at + x]
    BY <1>1, <1>3, <1>4, <2>1
  <2>. QED BY <1>3, <1>5, <1>6, <2>1, <2>2 DEF NoMarks
<1>7. LineDoc(m)' = doc /\ LineDoc(m + 1)' = doc'
  <2>1. m <= m /\ ~(m + 1 <= m) /\ m \in 1..m
    BY <1>3
  <2>2. Pushed[m].doc = doc
    BY <1>3
  <2>. QED BY <1>1, <1>4, <2>1, <2>2 DEF LineDoc
<1>8. \E p \in 1..Len(Present.features) + 1 :
          History!Adds(Present, Present', p) /\ Present'.features[p] = PlainOf(Made(id))
  BY <1>1, <1>2, AddsOne
<1>9. PICK p \in 1..Len(Present.features) + 1 :
          History!Adds(Present, Present', p) /\ Present'.features[p] = PlainOf(Made(id))
  BY <1>8
<1>10. Present'.features[p].id = import'.id
  <2>1. PlainOf(Made(id)).id = id
    BY DEF PlainOf, Made
  <2>. QED BY <1>1, <1>9, <2>1
<1>11. /\ Plain(LineDoc(m))' = Present /\ Plain(LineDoc(m + 1))' = Present'
  BY <1>7 DEF Present, Plain
<1>12. MarkedAt(m)'
  BY <1>9, <1>10, <1>11 DEF MarkedAt
<1>. QED BY <1>1, <1>4, <1>6, <1>12 DEF MarksInv

\* An import that is called off leaves no mark.
LEMMA WithdrawMarks ==
    ASSUME GoodInv, MarksInv, WithdrawFeature
    PROVE  NoMarks'
<1>. DEFINE n == Len(undoStack)
<1>1. PICK at \in DOMAIN undoStack :
          /\ undoStack[at].added
          /\ undoStack' = [k \in 1..n - 1 |->
                IF k < at THEN undoStack[k]
                ELSE [doc |-> Without(undoStack[k + 1].doc), added |-> FALSE]]
  BY DEF WithdrawFeature
<1>2. n \in Nat /\ DOMAIN undoStack = 1..n
  BY PastIs DEF PastFits
<1>3. Len(undoStack') = n - 1
  <2>1. n >= 1
    BY <1>1, <1>2
  <2>2. DOMAIN undoStack' = 1..n - 1
    BY <1>1
  <2>. QED BY <1>1, <1>2, <2>1, <2>2
<1>4. ASSUME NEW k \in 1..n - 1, undoStack'[k].added PROVE FALSE
  <2>1. CASE k < at
    <3>1. k \in 1..n /\ at \in 1..n
      BY <1>2
    <3>2. undoStack'[k] = undoStack[k]
      BY <1>1, <2>1
    <3>3. k = at
      BY <1>1, <1>4, <3>1, <3>2 DEF MarksInv
    <3>. QED BY <2>1, <3>1, <3>3
  <2>2. CASE ~(k < at)
    <3>1. undoStack'[k] = [doc |-> Without(undoStack[k + 1].doc), added |-> FALSE]
      BY <1>1, <2>2
    <3>2. PICK v : v = FALSE
      OBVIOUS
    <3>3. undoStack'[k] = [doc |-> Without(undoStack[k + 1].doc), added |-> v]
      BY <3>1, <3>2
    <3>4. undoStack'[k].added = v
      BY <3>3
    <3>. QED BY <1>4, <3>2, <3>4
  <2>. QED BY <2>1, <2>2
<1>. QED BY <1>3, <1>4 DEF NoMarks

\* MarksInv is inductive relative to the others.
LEMMA MarksAreKept ==
    ASSUME GoodInv, GoodInv', NamesInv, MarksInv, [Next]_vars
    PROVE  MarksInv'
<1>1. CASE AddFeature \/ CommitTool \/ EditFeature \/ RemoveFeature \/ MoveFeature
               \/ CommitWithCascade \/ CommitSketchDimension \/ Redo
  <2>1. undoStack' = Pushed /\ import' = import
    BY <1>1 DEF AddFeature, CommitTool, EditFeature, RemoveFeature, MoveFeature,
                CommitWithCascade, CommitSketchDimension, GoOn, Mutate, Redo
  <2>. QED BY <2>1, PushedMarks
<1>2. CASE CommitProjectionRefresh
  <2>1. /\ solving.kind = "refresh" /\ Current # {} /\ doc' = Landed(Current)
        /\ UNCHANGED <<undoStack, import>>
    BY <1>2 DEF CommitProjectionRefresh, GoOn
  <2>2. Present' = Present
    BY <2>1, RefreshIsNone
  <2>. QED BY <2>1, <2>2, SameMarks
<1>3. CASE Undo
  BY <1>3, UndoMarks
<1>5. CASE ImportRead
  BY <1>5, ImportMarks
<1>6. CASE WithdrawFeature
  <2>1. NoMarks'
    BY <1>6, WithdrawMarks
  <2>. QED BY <2>1 DEF NoMarks, MarksInv
<1>7. CASE ImportEnds
  <2>1. /\ Len(undoStack') = Len(undoStack)
        /\ DOMAIN undoStack = 1..Len(undoStack)
        /\ \A i \in DOMAIN undoStack : undoStack'[i] = [doc |-> undoStack[i].doc, added |-> FALSE]
    BY <1>7, UnmarkedIs, PastIs DEF ImportEnds, PastFits, GoodInv, StacksAreGood
  <2>2. PICK v : v = FALSE
    OBVIOUS
  <2>3. \A i \in 1..Len(undoStack) : undoStack'[i] = [doc |-> undoStack[i].doc, added |-> v]
    BY <2>1, <2>2
  <2>4. ASSUME NEW i \in 1..Len(undoStack) PROVE undoStack'[i].added = v
    <3>1. undoStack'[i] = [doc |-> undoStack[i].doc, added |-> v]
      BY <2>3
    <3>. QED BY <3>1
  <2>. QED BY <2>1, <2>2, <2>4 DEF MarksInv
<1>8. CASE StartImport
  <2>1. import.pc # "building" /\ undoStack' = undoStack
    BY <1>8 DEF StartImport
  <2>2. NoMarks
    BY <2>1, NotBuilding
  <2>. QED BY <2>1, <2>2 DEF NoMarks, MarksInv
<1>9. CASE Replace
  BY <1>9 DEF Replace, MarksInv
<1>10. CASE UNCHANGED <<doc, undoStack, import>>
  <2>1. Present' = Present
    BY <1>10 DEF Present
  <2>. QED BY <1>10, <2>1, SameMarks
<1>11. (SetRollback \/ ToggleSuppress \/ SetParam \/ SetSketchDimension \/ RefreshProjections
         \/ CommitIsDropped \/ StartTool \/ CancelTool \/ UNCHANGED vars)
           => UNCHANGED <<doc, undoStack, import>>
  BY DEF vars, SetRollback, ToggleSuppress, SetParam, SetSketchDimension, RefreshProjections,
         Queue, CommitIsDropped, GoOn, StartTool, CancelTool
<1>. QED BY <1>1, <1>2, <1>3, <1>5, <1>6, <1>7, <1>8, <1>9, <1>10, <1>11 DEF Next, Others

\* In the list the name belongs to the feature made as b, and to no other.
Tells(s, id, b) == \A k \in 1..Len(s) : s[k].id = id <=> s[k].born = b

\* So it is in all documents from the step on that is marked.
Since(at, id, b) ==
    /\ \A k \in at + 1..Len(undoStack) + 1 : Tells(LineDoc(k).features, id, b)
    /\ \A i \in 1..Len(redoStack) : Tells(redoStack[i].features, id, b)

\* An import that is not called off by mistake finds it so.
LEMMA SinceIs ==
    ASSUME GoodInv, BornsInv, CallsOff, NEW at \in 1..Len(undoStack), undoStack[at].added,
           NEW p \in 1..Len(LineDoc(at + 1).features),
           LineDoc(at + 1).features[p].id = import.id
    PROVE  Since(at, import.id, LineDoc(at + 1).features[p].born)
<1>. DEFINE n == Len(undoStack)
            a == LineDoc(at + 1)
            b == a.features[p].born
<1>1. /\ n \in Nat /\ DOMAIN undoStack = 1..n /\ DOMAIN redoStack = 1..Len(redoStack)
      /\ \A k \in 1..n : undoStack[k].doc \in Docs
      /\ \A k \in 1..Len(redoStack) : redoStack[k] \in Docs
      /\ doc \in Docs
  BY EntriesIn DEF GoodInv
<1>2. \A d \in Docs : d.features \in Seq(Feature)
  BY DEF GoodInv, StacksAreGood, Good, Fits, Document
<1>3. ASSUME NEW k \in at + 1..n + 1 PROVE LineDoc(k) \in SinceAdd /\ LineDoc(k) \in Docs
  <2>1. CASE k = n + 1
    <3>1. LineDoc(k) = doc
      BY <1>1, <2>1 DEF LineDoc
    <3>. QED BY <1>1, <3>1 DEF SinceAdd
  <2>2. CASE k # n + 1
    <3>1. k \in DOMAIN undoStack /\ k \in 1..n /\ k <= n /\ at \in 1..(k - 1)
      BY <1>1, <2>2
    <3>2. LineDoc(k) = undoStack[k].doc
      BY <3>1 DEF LineDoc
    <3>. QED BY <1>1, <3>1, <3>2 DEF SinceAdd
  <2>. QED BY <2>1, <2>2
<1>4. ASSUME NEW k \in 1..Len(redoStack) PROVE redoStack[k] \in SinceAdd
  BY <1>1 DEF SinceAdd, Range
<1>5. at + 1 \in at + 1..n + 1 /\ a \in SinceAdd /\ a \in Docs
  <2>1. at + 1 \in at + 1..n + 1
    BY <1>1
  <2>. QED BY <1>3, <2>1
<1>. HIDE DEF a
<1>6. ASSUME NEW d, NEW e, d \in SinceAdd, e \in SinceAdd, NEW f, NEW g,
             f \in Range(d.features), g \in Range(e.features),
             f.id = import.id, g.id = import.id
      PROVE  f.born = g.born
  BY <1>6 DEF CallsOff, Mistakes
<1>7. a.features[p] \in Range(a.features) /\ p \in 1..Len(a.features) /\ a.features[p].id = import.id
  BY <1>2, <1>5, LenProperties DEF Range, a
<1>8. ASSUME NEW d, d \in SinceAdd, d \in Docs PROVE Tells(d.features, import.id, b)
  <2>. SUFFICES ASSUME NEW k \in 1..Len(d.features)
                PROVE  d.features[k].id = import.id <=> d.features[k].born = b
    BY DEF Tells
  <2>1. d.features[k] \in Range(d.features)
    BY <1>2, <1>8, LenProperties DEF Range
  <2>2. ASSUME d.features[k].id = import.id PROVE d.features[k].born = b
    BY <1>5, <1>6, <1>7, <1>8, <2>1, <2>2
  <2>3. ASSUME d.features[k].born = b PROVE d.features[k].id = import.id
    BY <1>5, <1>7, <1>8, <2>3 DEF BornsInv
  <2>. QED BY <2>2, <2>3
<1>. QED BY <1>1, <1>3, <1>4, <1>8 DEF Since, a

\* Leaving the feature out by its name is leaving it out by when it was made.
LEMMA PlainWithout ==
    ASSUME NEW d, Fits(d), NEW b, Tells(d.features, import.id, b)
    PROVE  Plain(Without(d)) = History!Without(Plain(d), b)
<1>. DEFINE s == d.features
            K == Kept(d)
            a == PlainAll(s)
            t == Filtered(s, K)
            L == {i \in DOMAIN a : a[i].born # b}
<1>1. /\ d \in Document /\ s \in Seq(Feature)
      /\ Without(d) = [features |-> t, param |-> d.param]
      /\ K \in SUBSET DOMAIN s /\ Without(d) \in Document
  BY WithoutIs DEF Fits, Document
<1>2. Without(d).features = t /\ Without(d).param = d.param
  BY <1>1
<1>3. /\ Plain(d) \in PlainDocument /\ Plain(d).features = a /\ Plain(d).param = d.param
      /\ Plain(Without(d)) = [features |-> PlainAll(t), param |-> d.param]
  BY <1>1, <1>2, PlainIs
<1>4. PlainAll(t) = Filtered(a, K)
  BY <1>1, PlainFiltered
<1>5. L = K
  <2>1. /\ DOMAIN a = DOMAIN s /\ DOMAIN s = 1..Len(s)
        /\ \A i \in 1..Len(s) : a[i].born = s[i].born
    BY <1>1, PlainAllIs
  <2>2. \A i \in 1..Len(s) : s[i].id # import.id <=> s[i].born # b
    BY DEF Tells
  <2>3. K = {i \in DOMAIN s : s[i].id # import.id}
    BY DEF Kept
  <2>. HIDE DEF s, a, K
  <2>. QED BY <2>1, <2>2, <2>3
<1>. HIDE DEF K, L
<1>6. History!Without(Plain(d), b) = [features |-> Filtered(a, L), param |-> d.param]
  <2>. DEFINE e == Plain(d)
  <2>1. History!Without(e, b) =
          [e EXCEPT !.features = History!Filtered(e.features, {i \in DOMAIN e.features : e.features[i].born # b})]
    BY DEF History!Without
  <2>2. {i \in DOMAIN e.features : e.features[i].born # b} = L
    BY <1>3 DEF L
  <2>3. History!Filtered(e.features, L) = Filtered(a, L)
    BY <1>3, HistoryOperators
  <2>4. [e EXCEPT !.features = Filtered(a, L)] = [features |-> Filtered(a, L), param |-> e.param]
    BY <1>3, ExceptPlain
  <2>. HIDE DEF e
  <2>5. History!Without(e, b) = [features |-> Filtered(a, L), param |-> e.param]
    BY <2>1, <2>2, <2>3, <2>4
  <2>. QED BY <1>3, <2>5 DEF e
<1>. QED BY <1>3, <1>4, <1>5, <1>6

\* What calling off is, for the feature made as b.
LEMMA WithdrawsBorn ==
    ASSUME NEW i, NEW j, NEW b, Append(Past, Present)[i + 1].features[j].born = b,
           History!Adds(Past[i], Append(Past, Present)[i + 1], j),
           Past' = [k \in DOMAIN RemoveAt(Past, i) |->
                      IF k < i THEN Past[k] ELSE History!Without(Past[k + 1], b)],
           Present' = History!Without(Present, b),
           Future' = [k \in DOMAIN Future |-> History!Without(Future[k], b)]
    PROVE  Withdraws(i, j)
BY DEF Withdraws

\* Calling an import off takes its step out of the line, and its feature out of every
\* document since.
LEMMA WithdrawStep ==
    ASSUME GoodInv, GoodInv', BornsInv, MarksInv, CallsOff
    PROVE  History!Next
<1>. DEFINE n == Len(undoStack)
            m == Len(redoStack)
            line == Append(Past, Present)
<1>1. PICK at \in DOMAIN undoStack :
          /\ undoStack[at].added
          /\ undoStack' = [k \in 1..n - 1 |->
                IF k < at THEN undoStack[k]
                ELSE [doc |-> Without(undoStack[k + 1].doc), added |-> FALSE]]
  BY DEF CallsOff, WithdrawFeature
<1>2. doc' = Without(doc) /\ redoStack' = [k \in DOMAIN redoStack |-> Without(redoStack[k])]
  BY DEF CallsOff, WithdrawFeature
<1>3. PastFits /\ PastFits'
  BY PastIs, PTL
<1>4. /\ n \in Nat /\ m \in Nat /\ DOMAIN undoStack = 1..n /\ DOMAIN redoStack = 1..m
      /\ Past \in Seq(PlainDocument) /\ Len(Past) = n /\ Present \in PlainDocument
      /\ \A i \in 1..n : Past[i] = Plain(undoStack[i].doc)
      /\ DOMAIN Future = 1..m
      /\ \A i \in 1..m : Future[i] = Plain(redoStack[m + 1 - i])
  BY <1>3 DEF PastFits
<1>5. /\ Fits(doc)
      /\ \A i \in 1..n : Fits(undoStack[i].doc)
      /\ \A i \in 1..m : Fits(redoStack[i])
  BY EntriesIn DEF GoodInv, StacksAreGood, Good
<1>6. at \in 1..n
  BY <1>1, <1>4
<1>7. PICK p \in 1..Len(Plain(LineDoc(at)).features) + 1 :
          /\ History!Adds(Plain(LineDoc(at)), Plain(LineDoc(at + 1)), p)
          /\ Plain(LineDoc(at + 1)).features[p].id = import.id
  BY <1>1, <1>6 DEF MarksInv, MarkedAt
<1>8. /\ \A k \in 1..n : LineDoc(k) = undoStack[k].doc
      /\ LineDoc(n + 1) = doc
  BY <1>4 DEF LineDoc
<1>9. \A k \in 1..n + 1 : Fits(LineDoc(k)) /\ line[k] = Plain(LineDoc(k))
  <2>0. Past \in Seq(PlainDocument) /\ Present \in PlainDocument /\ Len(Past) = n
    BY <1>4
  <2>1. /\ \A i \in 1..n : line[i] = Past[i]
        /\ line[n + 1] = Present
    <3>1. /\ \A i \in 1..Len(Past) : line[i] = Past[i]
          /\ line[Len(Past) + 1] = Present
      BY <2>0, AppendProperties
    <3>. HIDE DEF line
    <3>. QED BY <2>0, <3>1
  <2>. HIDE DEF line
  <2>. SUFFICES ASSUME NEW k \in 1..n + 1 PROVE Fits(LineDoc(k)) /\ line[k] = Plain(LineDoc(k))
    OBVIOUS
  <2>2. CASE k = n + 1
    BY <1>5, <1>8, <2>1, <2>2 DEF Present
  <2>3. CASE k # n + 1
    <3>1. k \in 1..n
      BY <1>4, <2>3
    <3>. QED BY <1>4, <1>5, <1>8, <2>1, <3>1
  <2>. QED BY <2>2, <2>3
<1>. HIDE DEF line
<1>10. at \in 1..n + 1 /\ at + 1 \in 1..n + 1 /\ at + 1 \in at + 1..n + 1 /\ n + 1 \in at + 1..n + 1
  BY <1>4, <1>6
<1>11. Past[at] = Plain(LineDoc(at)) /\ line[at + 1] = Plain(LineDoc(at + 1))
  BY <1>4, <1>6, <1>8, <1>9, <1>10
<1>12. \E c : line[at + 1].features[p].born = c /\ Since(at, import.id, c)
  <2>. DEFINE d == LineDoc(at + 1)
              s == d.features
  <2>1. d \in Document
    BY <1>9, <1>10 DEF Fits
  <2>2. /\ Plain(d).features = PlainAll(s) /\ s \in Seq(Feature)
    BY <2>1, PlainIs
  <2>3. /\ DOMAIN PlainAll(s) = 1..Len(s)
        /\ \A i \in 1..Len(s) : PlainAll(s)[i].id = s[i].id /\ PlainAll(s)[i].born = s[i].born
    BY <2>2, PlainAllIs
  <2>4. p \in 1..Len(s)
    <3>1. p \in DOMAIN Plain(d).features
      BY <1>7 DEF History!Adds
    <3>. QED BY <2>2, <2>3, <3>1
  <2>. HIDE DEF d
  <2>5. s[p].id = import.id
    BY <1>7, <2>2, <2>3, <2>4 DEF d
  <2>6. Since(at, import.id, s[p].born)
    BY <1>1, <1>6, <2>4, <2>5, SinceIs DEF d
  <2>7. Plain(d).features[p].born = s[p].born
    BY <2>2, <2>3, <2>4
  <2>. QED BY <1>11, <2>6, <2>7 DEF d
<1>a. PICK b : line[at + 1].features[p].born = b /\ Since(at, import.id, b)
  BY <1>12
<1>13. History!Adds(Past[at], line[at + 1], p)
  BY <1>7, <1>11
<1>14. p \in 1..Len(Past[at].features) + 1 /\ at \in DOMAIN Past
  BY <1>3, <1>6, <1>11 DEF PastFits
<1>15. Past' = [k \in DOMAIN RemoveAt(Past, at) |->
                  IF k < at THEN Past[k] ELSE History!Without(Past[k + 1], b)]
  <2>1. DOMAIN RemoveAt(Past, at) = 1..n - 1
    <3>. DEFINE r == RemoveAt(Past, at)
    <3>1. r \in Seq(PlainDocument) /\ Len(r) = n - 1
      BY <1>4, <1>6, RemoveAtIs
    <3>. HIDE DEF r
    <3>2. DOMAIN r = 1..n - 1
      BY <3>1, LenProperties
    <3>. QED BY <3>2 DEF r
  <2>2. Past' = [k \in 1..n - 1 |-> Plain(undoStack'[k].doc)]
    <3>1. DOMAIN undoStack' = 1..n - 1
      BY <1>1
    <3>. QED BY <3>1 DEF Past, Plain
  <2>3. ASSUME NEW k \in 1..n - 1
        PROVE  Plain(undoStack'[k].doc) =
                  IF k < at THEN Past[k] ELSE History!Without(Past[k + 1], b)
    <3>0. k \in 1..n /\ k + 1 \in 1..n
      BY <1>4
    <3>1. CASE k < at
      BY <1>1, <1>4, <3>0, <3>1
    <3>2. CASE ~(k < at)
      <4>1. undoStack'[k] = [doc |-> Without(undoStack[k + 1].doc), added |-> FALSE]
        BY <1>1, <3>2
      <4>2. undoStack'[k].doc = Without(undoStack[k + 1].doc)
        BY <4>1
      <4>3. k + 1 \in at + 1..n + 1
        BY <1>4, <1>6, <3>0, <3>2
      <4>4. Tells(undoStack[k + 1].doc.features, import.id, b)
        BY <1>a, <1>8, <3>0, <4>3 DEF Since
      <4>5. Plain(Without(undoStack[k + 1].doc)) = History!Without(Past[k + 1], b)
        BY <1>4, <1>5, <3>0, <4>4, PlainWithout
      <4>. QED BY <3>2, <4>2, <4>5
    <3>. QED BY <3>1, <3>2
  <2>. QED BY <2>1, <2>2, <2>3, Zenon
<1>16. Present' = History!Without(Present, b)
  <2>1. Tells(doc.features, import.id, b)
    BY <1>a, <1>8, <1>10 DEF Since
  <2>2. Plain(Without(doc)) = History!Without(Plain(doc), b)
    BY <1>5, <2>1, PlainWithout
  <2>3. Present' = Plain(doc')
    BY DEF Present, Plain
  <2>. QED BY <1>2, <2>2, <2>3 DEF Present
<1>17. Future' = [k \in DOMAIN Future |-> History!Without(Future[k], b)]
  <2>1. DOMAIN redoStack' = 1..m /\ Len(redoStack') = m
    <3>1. DOMAIN redoStack' = 1..m
      BY <1>2, <1>4
    <3>2. DOMAIN redoStack' = 1..Len(redoStack') /\ Len(redoStack') \in Nat
      BY <1>3 DEF PastFits
    <3>. QED BY <1>4, <3>1, <3>2
  <2>2. Future' = [k \in 1..m |-> Plain(redoStack'[m + 1 - k])]
    <3>1. /\ DOMAIN Future' = 1..m
          /\ \A k \in 1..m : Future'[k] = Plain(redoStack'[m + 1 - k])
          /\ Future' = [k \in DOMAIN Future' |-> Future'[k]]
      BY <1>3, <2>1 DEF PastFits
    <3>. QED BY <3>1
  <2>3. ASSUME NEW k \in 1..m
        PROVE  Plain(redoStack'[m + 1 - k]) = History!Without(Future[k], b)
    <3>1. m + 1 - k \in 1..m
      BY <1>4
    <3>. DEFINE l == m + 1 - k
    <3>. HIDE DEF l
    <3>2. l \in 1..m /\ Future[k] = Plain(redoStack[l])
      BY <1>4, <3>1 DEF l
    <3>3. redoStack'[l] = Without(redoStack[l])
      BY <1>2, <1>4, <3>2
    <3>4. Tells(redoStack[l].features, import.id, b)
      BY <1>a, <3>2 DEF Since
    <3>5. Plain(Without(redoStack[l])) = History!Without(Plain(redoStack[l]), b)
      BY <1>5, <3>2, <3>4, PlainWithout
    <3>. QED BY <3>2, <3>3, <3>5 DEF l
  <2>. QED BY <1>4, <2>2, <2>3, Zenon
<1>18. Withdraws(at, p)
  BY <1>a, <1>13, <1>15, <1>16, <1>17, WithdrawsBorn DEF line
<1>. QED BY <1>14, <1>18, WithdrawIs

------------------------------------------------------------------------
\* Every step of the store is a step of the history.

Line == <<Past, Present, Future>>

\* An edit is of one feature.
LEMMA EditsStep ==
    ASSUME GoodInv, GoodInv', EditFeature
    PROVE  OneChange
<1>. DEFINE s == doc.features
<1>0. /\ s \in Seq(Feature) /\ DOMAIN s = 1..Len(s)
  BY DocsAre
<1>1. PICK i \in DOMAIN s :
          Mutate([doc EXCEPT !.features[i].val = Stamp, !.features[i].at = doc.param])
  BY DEF EditFeature
<1>. DEFINE f == [id |-> s[i].id, born |-> s[i].born, val |-> Stamp, at |-> doc.param]
            t == [s EXCEPT ![i] = f]
<1>2. f \in Feature /\ doc' = [features |-> t, param |-> doc.param]
  BY <1>1, EditedIsGood DEF EditFeature, MayChange, Mutate
<1>3. f.id = s[i].id /\ f.born = s[i].born /\ i \in 1..Len(s)
  BY <1>0
<1>. HIDE DEF f
<1>4. Len(t) = Len(s) /\ \A j \in 1..Len(s) : t[j] = IF j = i THEN f ELSE s[j]
  BY <1>0, <1>2, <1>3, ExceptSeq
<1>5. doc'.features = t /\ doc'.param = doc.param
  BY <1>2
<1>. HIDE DEF t
<1>6. /\ \A j \in 1..Len(s) : j # i => t[j] = s[j]
      /\ t[i].id = s[i].id /\ t[i].born = s[i].born
  BY <1>3, <1>4
<1>. QED BY <1>3, <1>4, <1>5, <1>6, EditsOne

\* A change of the store changes one thing,
LEMMA ChangesOne ==
    ASSUME GoodInv, GoodInv', NamesInv, DimensionsInv
    PROVE  (AddFeature \/ AddsFree \/ ImportRead \/ EditFeature \/ RemoveFeature \/ MoveFeature
               \/ LandsOver \/ CommitSketchDimension) => OneChange
<1>1. CASE AddFeature
  BY <1>1, IdIsFree, AddsOne DEF AddFeature, MayChange, Mutate
<1>2. CASE AddsFree
  <2>1. tool \in Name /\ tool \notin Ids(doc.features)
    BY <1>2 DEF AddsFree, Doubles, CommitTool, GoodInv, NamesAreGood
  <2>. QED BY <1>2, <2>1, AddsOne DEF AddsFree, CommitTool, MayChange, Mutate
<1>3. CASE ImportRead
  BY <1>3, IdIsFree, AddsOne DEF ImportRead, MayChange
<1>4. CASE EditFeature
  BY <1>4, EditsStep
<1>5. CASE RemoveFeature
  <2>1. PICK p \in DOMAIN doc.features : Mutate([doc EXCEPT !.features = RemoveAt(@, p)])
    BY <1>5 DEF RemoveFeature
  <2>2. doc' = [features |-> RemoveAt(doc.features, p), param |-> doc.param]
    BY <2>1, RemovedIsGood DEF Mutate
  <2>3. p \in 1..Len(doc.features)
    BY DocsAre
  <2>4. doc'.features = RemoveAt(doc.features, p) /\ doc'.param = doc.param
    BY <2>2
  <2>. QED BY <2>3, <2>4, RemovesOne
<1>6. CASE MoveFeature
  BY <1>6, MovesOne
<1>7. CASE LandsOver
  BY <1>7, CascadesOne
<1>8. CASE CommitSketchDimension
  BY <1>8, LandsOne DEF CommitSketchDimension, Mutate
<1>. QED BY <1>1, <1>2, <1>3, <1>4, <1>5, <1>6, <1>7, <1>8

\* is one step on the line, and ends the future.
LEMMA ChangesStep ==
    ASSUME GoodInv, GoodInv', NamesInv, DimensionsInv
    PROVE  (AddFeature \/ AddsFree \/ ImportRead \/ EditFeature \/ RemoveFeature \/ MoveFeature
               \/ LandsOver \/ CommitSketchDimension) => History!Next
<1>. SUFFICES ASSUME AddFeature \/ AddsFree \/ ImportRead \/ EditFeature \/ RemoveFeature
                         \/ MoveFeature \/ LandsOver \/ CommitSketchDimension
              PROVE  History!Next
  OBVIOUS
<1>1. PushesPast /\ redoStack' = <<>>
  <2>1. CASE ImportRead
    <3>1. undoStack' = [Pushed EXCEPT ![Len(Pushed)].added = TRUE] /\ redoStack' = <<>>
      BY <2>1 DEF ImportRead
    <3>. DEFINE stack == [Pushed EXCEPT ![Len(Pushed)].added = TRUE]
    <3>2. /\ stack \in Seq(Entry) /\ Len(stack) = Len(Pushed)
          /\ \A i \in 1..Len(Pushed) : stack[i].doc = Pushed[i].doc
      BY MarkedIs
    <3>3. undoStack' = stack
      BY <3>1
    <3>. HIDE DEF stack
    <3>. QED BY <3>1, <3>2, <3>3 DEF PushesPast
  <2>2. CASE ~ImportRead
    <3>1. undoStack' = Pushed /\ redoStack' = <<>>
      BY <2>2 DEF AddFeature, AddsFree, CommitTool, EditFeature, RemoveFeature, MoveFeature,
                  LandsOver, CommitWithCascade, CommitSketchDimension, Mutate
    <3>. QED BY <3>1, SameStack
  <2>. QED BY <2>1, <2>2
<1>2. Past' = History!Capped(Append(Past, Present)) /\ Future' = <<>>
  BY <1>1, PushedPast, NoFuture
<1>3. OneChange
  BY ChangesOne
<1>. QED BY <1>2, <1>3, ChangeIs

\* Another document has features of its own.
LEMMA ReplaceStep ==
    ASSUME GoodInv, GoodInv', BornsInv, Replace
    PROVE  History!Next
<1>. DEFINE f == [Made(1) EXCEPT !.at = 0]
<1>1. /\ undoStack' = <<>> /\ redoStack' = <<>>
      /\ doc' = [features |-> <<>>, param |-> 0] \/ doc' = [features |-> <<f>>, param |-> 0]
  BY DEF Replace
<1>2. f.born = changes + 1
  BY DEF Made, Stamp
<1>. HIDE DEF f
<1>3. doc'.features = <<>> \/ doc'.features = <<f>>
  BY <1>1
<1>4. \A g \in Range(Present'.features) : g.born = changes + 1
  <2>. DEFINE t == doc'.features
  <2>1. /\ Present'.features = PlainAll(t) /\ t \in Seq(Feature)
    BY NextDocIs, PlainIs DEF Present
  <2>2. /\ DOMAIN PlainAll(t) = 1..Len(t)
        /\ \A i \in 1..Len(t) : PlainAll(t)[i].born = t[i].born
    BY <2>1, PlainAllIs
  <2>3. \A i \in 1..Len(t) : t[i].born = changes + 1
    BY <1>2, <1>3
  <2>. QED BY <2>1, <2>2, <2>3 DEF Range
<1>5. ASSUME NEW d \in Docs, NEW g \in Range(Plain(d).features)
      PROVE  g.born # changes + 1
  <2>1. d \in Document /\ changes \in Nat
    BY BoundsAssumption DEF GoodInv, StacksAreGood, NamesAreGood, Good, Fits
  <2>2. /\ Plain(d).features = PlainAll(d.features) /\ d.features \in Seq(Feature)
    BY <2>1, PlainIs
  <2>3. /\ DOMAIN PlainAll(d.features) = 1..Len(d.features)
        /\ \A i \in 1..Len(d.features) : PlainAll(d.features)[i].born = d.features[i].born
    BY <2>2, PlainAllIs
  <2>4. PICK i \in 1..Len(d.features) : g.born = d.features[i].born
    BY <2>2, <2>3 DEF Range
  <2>5. d.features[i].born \in Nat /\ d.features[i].born <= changes
    <3>1. d.features[i] \in Feature
      BY <2>2, LenProperties
    <3>. QED BY <3>1 DEF Feature, BornsInv
  <2>. QED BY <2>1, <2>4, <2>5
<1>6. \A e \in {Present} \cup Range(Past) \cup Range(Future) : \E d \in Docs : e = Plain(d)
  <2>1. PastFits
    BY PastIs
  <2>2. /\ \A i \in 1..Len(undoStack) : undoStack[i].doc \in Docs
        /\ \A i \in 1..Len(redoStack) : redoStack[i] \in Docs
        /\ doc \in Docs
    BY EntriesIn DEF GoodInv
  <2>3. \A e \in Range(Past) : \E d \in Docs : e = Plain(d)
    BY <2>1, <2>2 DEF PastFits, Range
  <2>4. \A e \in Range(Future) : \E d \in Docs : e = Plain(d)
    <3>1. \A i \in 1..Len(redoStack) : Len(redoStack) + 1 - i \in 1..Len(redoStack)
      BY <2>1 DEF PastFits
    <3>. QED BY <2>1, <2>2, <3>1 DEF PastFits, Range
  <2>. QED BY <2>2, <2>3, <2>4 DEF Present
<1>7. Past' = <<>> /\ Future' = <<>>
  BY <1>1 DEF Past, Future
<1>8. \A e \in {Present} \cup Range(Past) \cup Range(Future) :
          \A x \in Range(e.features), g \in Range(Present'.features) : x.born # g.born
  <2>. SUFFICES ASSUME NEW e \in {Present} \cup Range(Past) \cup Range(Future),
                       NEW x \in Range(e.features), NEW g \in Range(Present'.features)
                PROVE  x.born # g.born
    OBVIOUS
  <2>1. PICK d \in Docs : e = Plain(d)
    BY <1>6
  <2>2. x.born # changes + 1
    BY <1>5, <2>1
  <2>3. g.born = changes + 1
    BY <1>4
  <2>. QED BY <2>2, <2>3
<1>. QED BY <1>7, <1>8, ReplaceIs

\* What else the store does is not seen on the line.
LEMMA HiddenStep ==
    ASSUME GoodInv, GoodInv', NamesInv
    PROVE  (SetRollback \/ ToggleSuppress \/ SetParam \/ SetSketchDimension \/ RefreshProjections
               \/ CommitProjectionRefresh \/ CommitIsDropped \/ StartTool \/ CancelTool
               \/ StartImport \/ ImportEnds \/ UNCHANGED vars) => UNCHANGED Line
<1>1. CASE UNCHANGED <<doc, undoStack, redoStack>>
  BY <1>1 DEF Line, Past, Present, Future
<1>2. CASE CommitProjectionRefresh
  <2>1. /\ solving.kind = "refresh" /\ Current # {} /\ doc' = Landed(Current)
        /\ UNCHANGED <<undoStack, redoStack>>
    BY <1>2 DEF CommitProjectionRefresh
  <2>2. Present' = Present
    BY <2>1, RefreshIsNone
  <2>3. Past' = Past /\ Future' = Future
    BY <2>1 DEF Past, Future
  <2>. QED BY <2>2, <2>3 DEF Line
<1>3. CASE ImportEnds
  <2>1. undoStack' = Unmarked(undoStack) /\ UNCHANGED <<doc, redoStack>>
    BY <1>3 DEF ImportEnds
  <2>2. undoStack \in Seq(Entry)
    BY DEF GoodInv, StacksAreGood
  <2>3. /\ DOMAIN undoStack' = 1..Len(undoStack)
        /\ \A i \in 1..Len(undoStack) : undoStack'[i].doc = undoStack[i].doc
    BY <2>1, <2>2, UnmarkedDocs
  <2>4. DOMAIN undoStack = 1..Len(undoStack)
    BY <2>2, LenProperties
  <2>5. Past' = [i \in 1..Len(undoStack) |-> Plain(undoStack'[i].doc)]
    BY <2>3 DEF Past, Plain
  <2>6. Past = [i \in 1..Len(undoStack) |-> Plain(undoStack[i].doc)]
    BY <2>4 DEF Past
  <2>7. Past' = Past
    BY <2>3, <2>5, <2>6
  <2>8. Present' = Present /\ Future' = Future
    BY <2>1 DEF Present, Future
  <2>. QED BY <2>7, <2>8 DEF Line
<1>4. (SetRollback \/ ToggleSuppress \/ SetParam \/ SetSketchDimension \/ RefreshProjections
         \/ CommitIsDropped \/ StartTool \/ CancelTool \/ StartImport \/ UNCHANGED vars)
           => UNCHANGED <<doc, undoStack, redoStack>>
  BY DEF vars, SetRollback, ToggleSuppress, SetParam, SetSketchDimension, RefreshProjections,
         Queue, CommitIsDropped, GoOn, StartTool, CancelTool, StartImport
<1>. QED BY <1>1, <1>2, <1>3, <1>4

HistoryInv == GoodInv /\ NamesInv /\ BornsInv /\ DimensionsInv /\ MarksInv

\* An empty document has an empty line.
LEMMA InitHistory == Init => HistoryInv /\ History!Init
<1>. SUFFICES ASSUME Init PROVE HistoryInv /\ History!Init
  OBVIOUS
<1>1. GoodInv /\ NamesInv
  BY InitGood, InitNames
<1>2. BornsInv
  <2>1. Docs = {doc} /\ Len(doc.features) = 0
    BY DEF Init, Docs, Range
  <2>. QED BY <2>1 DEF BornsInv
<1>3. DimensionsInv
  BY DEF Init, Resting, DimensionsInv
<1>4. MarksInv
  BY DEF Init, MarksInv
<1>5. Past = <<>> /\ Future = <<>>
  BY DEF Init, Past, Future
<1>6. Present = [features |-> <<>>, param |-> 0]
  <2>1. doc \in Document /\ doc.features = <<>> /\ doc.param = 0
    BY <1>1, DocsAre DEF Init
  <2>2. PlainAll(<<>>) = <<>>
    BY DEF PlainAll
  <2>. QED BY <2>1, <2>2, PlainIs DEF Present
<1>7. History!Init
  BY <1>5, <1>6 DEF History!Init, Past, Present, Future
<1>. QED BY <1>1, <1>2, <1>3, <1>4, <1>7 DEF HistoryInv

\* The invariant is inductive, and under it a step is one of the history or none.
LEMMA HistoryStep ==
    HistoryInv /\ [OrderlyNext]_vars => HistoryInv' /\ (History!Next \/ UNCHANGED Line)
<1>. SUFFICES ASSUME HistoryInv, [OrderlyNext]_vars
              PROVE  HistoryInv' /\ (History!Next \/ UNCHANGED Line)
  OBVIOUS
<1>0. [Next]_vars
  BY OrderlyIsStep
<1>1. GoodInv /\ NamesInv /\ BornsInv /\ DimensionsInv /\ MarksInv
  BY DEF HistoryInv
<1>2. GoodInv' /\ NamesInv'
  BY <1>0, <1>1, GoodIsKept, NamesAreKept
<1>3. BornsInv' /\ DimensionsInv' /\ MarksInv'
  BY <1>0, <1>1, <1>2, BornsAreKept, DimensionsAreKept, MarksAreKept
<1>4. History!Next \/ UNCHANGED Line
  <2>1. (AddFeature \/ AddsFree \/ ImportRead \/ EditFeature \/ RemoveFeature \/ MoveFeature
            \/ LandsOver \/ CommitSketchDimension) => History!Next
    BY <1>1, <1>2, ChangesStep
  <2>2. Undo \/ Redo \/ Replace \/ CallsOff => History!Next
    BY <1>1, <1>2, UndoStep, RedoStep, ReplaceStep, WithdrawStep
  <2>3. (SetRollback \/ ToggleSuppress \/ SetParam \/ SetSketchDimension \/ RefreshProjections
            \/ CommitProjectionRefresh \/ CommitIsDropped \/ StartTool \/ CancelTool
            \/ StartImport \/ ImportEnds \/ UNCHANGED vars) => UNCHANGED Line
    BY <1>1, <1>2, HiddenStep
  <2>. QED BY <2>1, <2>2, <2>3 DEF OrderlyNext, Others, LandsOver, AddsFree, CallsOff
<1>. QED BY <1>2, <1>3, <1>4 DEF HistoryInv

\* Whatever the user does and however late a commit lands, the store keeps the history the
\* user is promised, or it takes one of three steps: a parameter edit lands over a document
\* that is not the one it was solved for, a tool commits under a name that was taken, or an
\* import is called off when its name belongs to another feature.  As long as it takes none
\* of them every change is one step on the line that changes one thing, undo and redo walk
\* the line, and an import that is called off leaves it as if it had never been.
THEOREM HistoryIsImplemented == Spec /\ [][~Departs]_vars => ImplementsHistory
<1>1. Init => HistoryInv /\ History!Init
  BY InitHistory
<1>2. HistoryInv /\ [OrderlyNext]_vars => HistoryInv' /\ [History!Next]_Line
  BY HistoryStep
<1>3. Orderly => ImplementsHistory
  BY <1>1, <1>2, PTL DEF Orderly, ImplementsHistory, History!Spec, Line, Past, Present, Future
<1>. QED BY <1>3, OrderlyIs, PTL
=============================================================================
