-------------------------- MODULE ParamTableProofs --------------------------
(***************************************************************************)
(* For every set of names, fields and typed expressions, every loaded      *)
(* document and every bound: the table stays one (TypeOK), a recompute     *)
(* leaves each name with the value of its expression or an issue that is   *)
(* true of it, and each bound field with what it makes of the value        *)
(* (TableIsConsistent), undo and redo bring back nothing else              *)
(* (EveryTableHolds), and what a check accepted does what it promised      *)
(* (EditsKeepMeaning).                                                     *)
(*                                                                         *)
(* The argument follows the evaluation.  Its ranks grow and come to rest   *)
(* after as many steps as there are names, so the last one is a fixpoint:  *)
(* a rank more would change nothing.  The names outside it lead to a       *)
(* cycle, the ones in it have the values of their expressions.  Values     *)
(* that are settled already, with all that they refer to, stay what they   *)
(* are; a second recompute changes no number for that reason, and neither  *)
(* does a rename, nor a commit to what the new expression leads to.        *)
(***************************************************************************)
EXTENDS ParamTable, FiniteSetTheorems, SequenceTheorems, WellFoundedInduction, TLAPS

------------------------------------------------------------------------
\* What an induction would give.

\* Every set of naturals that is not empty has a least element; what would be an
\* induction over data is proved from its least counterexample.
LEMMA Least == ASSUME NEW X \in SUBSET Nat, X # {}
               PROVE \E n \in X : \A m \in X : n <= m
<1>. DEFINE less == OpToRel(<, Nat)
<1>1. IsWellFoundedOn(less, Nat)
  BY NatLessThanWellFounded
<1>2. \A x, y \in Nat : x < y => <<x, y>> \in less
  BY DEF OpToRel
<1>. HIDE DEF less
<1>3. \E x \in X : \A y \in X : <<y, x>> \notin less
  BY <1>1, WFMin
<1>4. PICK n \in X : \A y \in X : <<y, n>> \notin less
  BY <1>3
<1>5. \A m \in X : ~(m < n)
  BY <1>2, <1>4
<1>. QED BY <1>5

\* What holds of 0 and passes from k - 1 to k holds up to N: X are the numbers it holds of.
LEMMA UpTo ==
    ASSUME NEW N \in Nat, NEW X, 0 \in X, \A k \in 1..N : k - 1 \in X => k \in X
    PROVE  \A k \in 0..N : k \in X
<1>. DEFINE Y == {k \in 0..N : k \notin X}
<1>1. Y = {}
  <2>. SUFFICES ASSUME Y # {} PROVE FALSE
    OBVIOUS
  <2>1. Y \in SUBSET Nat
    OBVIOUS
  <2>2. PICK k \in Y : \A m \in Y : k <= m
    <3>. HIDE DEF Y
    <3>. QED BY <2>1, Least
  <2>3. k \in 1..N /\ k - 1 \notin Y /\ k - 1 \in 0..N
    BY <2>2
  <2>. QED BY <2>3
<1>. QED BY <1>1

\* g are the steps F from b, one after the other.
Steps(T, b, F, N, g) ==
    g \in [0..N -> T] /\ g[0] = b /\ \A k \in 1..N : g[k] = F[g[k - 1]]

LEMMA Recursion ==
    ASSUME NEW T, NEW b \in T, NEW F \in [T -> T], NEW N \in Nat
    PROVE  \E g : Steps(T, b, F, N, g)
<1>. DEFINE Run(n, g) == g \in [0..n -> T] /\ g[0] = b /\ \A k \in 1..n : g[k] = F[g[k - 1]]
            X == {n \in 0..N : \E g : Run(n, g)}
<1>1. 0 \in X
  <2>1. Run(0, [k \in 0..0 |-> b])
    OBVIOUS
  <2>2. \E g : Run(0, g)
    BY <2>1
  <2>. HIDE DEF Run
  <2>. QED BY <2>2
<1>2. ASSUME NEW n \in 1..N, n - 1 \in X PROVE n \in X
  <2>1. PICK g : Run(n - 1, g)
    BY <1>2
  <2>. DEFINE h == [k \in 0..n |-> IF k = n THEN F[g[n - 1]] ELSE g[k]]
  <2>2. n \in Nat /\ n - 1 \in 0..n - 1 /\ 0 \in 0..n /\ n # 0 /\ n \in 0..N
    OBVIOUS
  <2>3. \A k \in 0..n : k = n \/ k \in 0..n - 1
    OBVIOUS
  <2>4. h \in [0..n -> T]
    BY <2>1, <2>2, <2>3
  <2>5. h[0] = b
    BY <2>1, <2>2
  <2>6. ASSUME NEW k \in 1..n PROVE h[k] = F[h[k - 1]]
    <3>1. k - 1 \in 0..n /\ k - 1 # n /\ k \in 0..n
      OBVIOUS
    <3>2. h[k - 1] = g[k - 1]
      BY <3>1
    <3>3. CASE k = n
      BY <3>1, <3>2, <3>3
    <3>4. CASE k # n
      <4>1. k \in 1..n - 1
        BY <3>4
      <4>2. h[k] = g[k]
        BY <3>1, <3>4
      <4>. QED BY <2>1, <3>2, <4>1, <4>2
    <3>. QED BY <3>3, <3>4
  <2>. HIDE DEF h
  <2>7. Run(n, h)
    BY <2>4, <2>5, <2>6
  <2>. HIDE DEF Run
  <2>. QED BY <2>2, <2>7
<1>. HIDE DEF X
<1>3. N \in X
  BY <1>1, <1>2, UpTo
<1>. QED BY <1>3 DEF X, Steps

\* A growing chain of subsets of D has come to rest after as many steps as D has members.
LEMMA Saturation ==
    ASSUME NEW D, IsFiniteSet(D), NEW G \in [SUBSET D -> SUBSET D],
           NEW f \in [0..Cardinality(D) -> SUBSET D],
           \A k \in 1..Cardinality(D) : f[k] = G[f[k - 1]],
           \A k \in 0..Cardinality(D) : f[k] \subseteq G[f[k]]
    PROVE  G[f[Cardinality(D)]] = f[Cardinality(D)]
<1>. DEFINE N == Cardinality(D)
            X == {k \in 0..N : G[f[k]] = f[k] \/ Cardinality(f[k]) >= k}
<1>1. N \in Nat /\ 0 \in 0..N /\ N \in 0..N
  BY FS_CardinalityType
<1>2. \A A \in SUBSET D : IsFiniteSet(A) /\ Cardinality(A) \in Nat /\ Cardinality(A) <= N
  BY FS_Subset, FS_CardinalityType
<1>3. 0 \in X
  BY <1>1, <1>2
<1>4. ASSUME NEW k \in 1..N, k - 1 \in X PROVE k \in X
  <2>1. k - 1 \in 0..N /\ k \in 0..N
    BY <1>1
  <2>2. f[k] = G[f[k - 1]] /\ f[k - 1] \in SUBSET D /\ f[k] \in SUBSET D
    BY <2>1
  <2>3. CASE G[f[k - 1]] = f[k - 1]
    BY <2>1, <2>2, <2>3
  <2>4. CASE G[f[k - 1]] # f[k - 1]
    <3>1. Cardinality(f[k - 1]) >= k - 1
      BY <1>4, <2>4
    <3>2. f[k - 1] \subseteq f[k] /\ f[k - 1] # f[k]
      BY <2>1, <2>2, <2>4
    <3>3. Cardinality(f[k - 1]) < Cardinality(f[k])
      <4>1. IsFiniteSet(f[k]) /\ IsFiniteSet(f[k - 1])
        BY <1>2, <2>2
      <4>2. Cardinality(f[k - 1]) <= Cardinality(f[k])
        BY <3>2, <4>1, FS_Subset
      <4>3. Cardinality(f[k - 1]) # Cardinality(f[k])
        BY <3>2, <4>1, FS_Subset
      <4>. QED BY <1>2, <2>2, <4>2, <4>3
    <3>4. Cardinality(f[k]) >= k
      BY <1>2, <2>2, <3>1, <3>3
    <3>. QED BY <2>1, <3>4
  <2>. QED BY <2>3, <2>4
<1>5. N \in X
  <2>. HIDE DEF X, N
  <2>. QED BY <1>1, <1>3, <1>4, UpTo
<1>6. f[N] \in SUBSET D
  BY <1>1
<1>7. CASE Cardinality(f[N]) >= N
  <2>1. Cardinality(f[N]) = Cardinality(D)
    BY <1>1, <1>2, <1>6, <1>7
  <2>2. f[N] = D
    BY <1>6, <2>1, FS_Subset
  <2>. QED BY <1>1, <1>6, <2>2
<1>. QED BY <1>5, <1>7

------------------------------------------------------------------------
\* Tables and their evaluation.

IsTable(defs) == defs \in [DOMAIN defs -> ParamDef] /\ DOMAIN defs \subseteq Name

\* A field has one parameter at most.
Apart(defs) ==
    \A m, n \in DOMAIN defs : defs[m].target = defs[n].target /\ defs[m].target # Null => m = n

LEMMA DefsOf ==
    ASSUME NEW d, IsDocument(d)
    PROVE  /\ IsTable(d.defs) /\ Apart(d.defs)
           /\ d.fields \in [DOMAIN d.fields -> Int] /\ DOMAIN d.fields \subseteq Field
BY DEF IsDocument, IsTable, Apart

\* A table is finite and its parameters have the parts of one.
LEMMA TableIs ==
    ASSUME NEW defs, IsTable(defs)
    PROVE  /\ IsFiniteSet(DOMAIN defs) /\ Cardinality(DOMAIN defs) \in Nat
           /\ \A n \in DOMAIN defs :
                 /\ defs[n] = [expr |-> defs[n].expr, value |-> defs[n].value,
                               target |-> defs[n].target]
                 /\ defs[n].expr \in Expr /\ defs[n].value \in Number
                 /\ defs[n].target \in Field \cup {Null}
           /\ Values(defs) \in [DOMAIN defs -> Number]
           /\ \A n \in DOMAIN defs : Values(defs)[n] = defs[n].value
<1>1. IsFiniteSet(Name)
  <2>1. IsFiniteSet(1..MaxAuto)
    <3>1. 1 \in Int /\ MaxAuto \in Int
      BY BoundsAreNumbers
    <3>. QED BY <3>1, FS_Interval
  <2>. QED BY <2>1, NamesAreApart, FS_Union DEF Name
<1>2. IsFiniteSet(DOMAIN defs) /\ Cardinality(DOMAIN defs) \in Nat
  BY <1>1, FS_Subset, FS_CardinalityType DEF IsTable
<1>3. \A n \in DOMAIN defs : defs[n] \in ParamDef
  BY DEF IsTable
<1>4. \A n \in DOMAIN defs :
         /\ defs[n] = [expr |-> defs[n].expr, value |-> defs[n].value,
                       target |-> defs[n].target]
         /\ defs[n].expr \in Expr /\ defs[n].value \in Number
         /\ defs[n].target \in Field \cup {Null}
  BY <1>3 DEF ParamDef
<1>. QED BY <1>2, <1>4 DEF Values

\* What a field takes: a number that fits the value, on the side the field was on.
Took(f, was, value, number) ==
    /\ number \in Int /\ Fits(f, number, value)
    /\ f \in Signed /\ number # 0 => (number < 0 <=> was < 0)

LEMMA TakenIs ==
    ASSUME NEW f, NEW was \in Int, NEW value \in Int
    PROVE  Took(f, was, value, Taken(f, was, value))
<1>1. CASE f \in DOMAIN Minimum
  <2>1. PICK m \in Int : m = Minimum[f] /\ m % 2 = 0
    BY <1>1, KindsAreApart
  <2>2. PICK r \in Int : r = 2 * ((value + 1) \div 2)
    OBVIOUS
  <2>3. r % 2 = 0 /\ r \in {value, value + 1}
    BY <2>2
  <2>4. PICK x \in Int : x = IF r < m THEN m ELSE r
    OBVIOUS
  <2>5. Taken(f, was, value) = x
    <3>1. Taken(f, was, value) = Whole(f, value)
      BY <1>1, KindsAreApart DEF Taken
    <3>. QED BY <2>1, <2>2, <2>4, <3>1 DEF Whole
  <2>6. x >= m /\ x % 2 = 0 /\ x \in IF value < m THEN {m} ELSE {value, value + 1}
    BY <2>1, <2>3, <2>4
  <2>7. f \notin Signed
    BY <1>1, KindsAreApart
  <2>. QED BY <1>1, <2>1, <2>5, <2>6, <2>7 DEF Took, Fits
<1>2. CASE f \in Signed
  <2>1. f \notin DOMAIN Minimum
    BY <1>2, KindsAreApart
  <2>. QED BY <1>2, <2>1 DEF Took, Fits, Taken
<1>3. CASE f \notin DOMAIN Minimum \cup Signed
  BY <1>3 DEF Took, Fits, Taken
<1>. QED BY <1>1, <1>2, <1>3

LEMMA NumbersAreIntegers == Number \subseteq Int
BY BoundsAreNumbers DEF Number

\* The value of an expression depends on the values of the names it mentions.
LEMMA SameSum ==
    ASSUME NEW expr, NEW v, NEW u,
           Range(expr.refs) \subseteq DOMAIN v <=> Range(expr.refs) \subseteq DOMAIN u,
           \A r \in Range(expr.refs) : r \in DOMAIN v /\ r \in DOMAIN u => v[r] = u[r]
    PROVE  /\ Fault(expr, v) = Fault(expr, u)
           /\ Fault(expr, v) = "none" => Sum(expr, v) = Sum(expr, u)
<1>1. CASE Range(expr.refs) \subseteq DOMAIN v
  <2>1. \A i \in DOMAIN expr.refs : v[expr.refs[i]] = u[expr.refs[i]]
    <3>1. \A i \in DOMAIN expr.refs : expr.refs[i] \in Range(expr.refs)
      BY DEF Range
    <3>. QED BY <1>1, <3>1
  <2>2. [i \in DOMAIN expr.refs |-> v[expr.refs[i]]] = [i \in DOMAIN expr.refs |-> u[expr.refs[i]]]
    BY <2>1
  <2>3. Sum(expr, v) = Sum(expr, u)
    BY <2>2 DEF Sum
  <2>. QED BY <2>3 DEF Fault
<1>2. CASE ~(Range(expr.refs) \subseteq DOMAIN v)
  BY <1>2 DEF Fault
<1>. QED BY <1>1, <1>2

\* An expression has no fault just when it parses, its names are known and its sum is a number.
LEMMA NoFault ==
    ASSUME NEW expr, NEW v
    PROVE  /\ Fault(expr, v) \in {"invalid", "unknown", "not finite", "none"}
           /\ Fault(expr, v) = "none" => Sum(expr, v) \in Number
           /\ Fault(expr, v) \in {"not finite", "none"} <=>
                 expr.parses /\ Range(expr.refs) \subseteq DOMAIN v
           /\ Fault(expr, v) = "none" <=>
                 expr.parses /\ Range(expr.refs) \subseteq DOMAIN v /\ Sum(expr, v) \in Number
BY DEF Fault

\* The states between the ranks.
Phase(defs) == [order : SUBSET DOMAIN defs, values : [DOMAIN defs -> Number]]

Ready(defs, A) == {n \in DOMAIN defs : Deps(defs, n) \subseteq A}

\* The value of n, if those of the ranks before are v.
ValueOf(defs, n, A, v) ==
    IF n \in Ready(defs, A) /\ Fault(defs[n].expr, v) = "none"
    THEN Sum(defs[n].expr, v) ELSE defs[n].value

\* What one rank does.
LEMMA AdvancedIs ==
    ASSUME NEW defs, IsTable(defs), NEW before \in Phase(defs)
    PROVE  /\ Advanced(defs, before) \in Phase(defs)
           /\ Advanced(defs, before).order = Ready(defs, before.order)
           /\ \A n \in DOMAIN defs : Advanced(defs, before).values[n] =
                 ValueOf(defs, n, before.order, before.values)
<1>. DEFINE D == DOMAIN defs
            o == Ready(defs, before.order)
            v == [n \in DOMAIN defs |-> ValueOf(defs, n, before.order, before.values)]
<1>1. Advanced(defs, before) = [order |-> o, values |-> v]
  BY DEF Advanced, Ready, ValueOf
<1>2. o \in SUBSET D
  BY DEF Ready
<1>3. \A n \in D : ValueOf(defs, n, before.order, before.values) \in Number
  BY TableIs, NoFault DEF ValueOf
<1>4. v \in [D -> Number]
  BY <1>3
<1>. QED BY <1>1, <1>2, <1>4 DEF Phase

\* The ranks g, the last of which Evaluated returns.
Ranks(defs, g) ==
    /\ g \in [0..Cardinality(DOMAIN defs) -> Phase(defs)]
    /\ g[0] = [order |-> {}, values |-> Values(defs)]
    /\ \A k \in 1..Cardinality(DOMAIN defs) : g[k] = Advanced(defs, g[k - 1])
    /\ Evaluated(defs) = g[Cardinality(DOMAIN defs)]

LEMMA RanksAre ==
    ASSUME NEW defs, IsTable(defs)
    PROVE  \E g : Ranks(defs, g)
<1>. DEFINE N == Cardinality(DOMAIN defs)
            T == Phase(defs)
            b == [order |-> {}, values |-> Values(defs)]
            F == [s \in T |-> Advanced(defs, s)]
<1>1. N \in Nat /\ b \in T
  BY TableIs DEF Phase
<1>2. F \in [T -> T]
  BY AdvancedIs
<1>3. \E g : Steps(T, b, F, N, g)
  <2>. HIDE DEF N, T, b, F
  <2>. QED BY <1>1, <1>2, Recursion
<1>4. PICK g \in [0..N -> T] : g[0] = b /\ \A k \in 1..N : g[k] = F[g[k - 1]]
  BY <1>3 DEF Steps
<1>5. \A k \in 1..N : k - 1 \in 0..N /\ k # 0
  BY <1>1
<1>6. \A k \in 1..N : g[k] = Advanced(defs, g[k - 1])
  BY <1>4, <1>5
<1>. DEFINE Is(h) == h = [k \in 0..N |-> IF k = 0 THEN b ELSE Advanced(defs, h[k - 1])]
            R == CHOOSE h : Is(h)
<1>7. Is(g)
  <2>1. \A k \in 0..N : k = 0 \/ k \in 1..N
    BY <1>1
  <2>2. \A k \in 0..N : g[k] = IF k = 0 THEN b ELSE Advanced(defs, g[k - 1])
    BY <1>4, <1>6, <2>1
  <2>3. g = [k \in 0..N |-> g[k]]
    BY <1>4
  <2>. HIDE DEF b, N
  <2>. QED BY <2>2, <2>3
<1>8. Is(R)
  <2>. HIDE DEF Is
  <2>. QED BY <1>7
<1>9. Evaluated(defs) = R[N]
  BY DEF Evaluated
<1>. HIDE DEF R
<1>10. R = g
  <2>. DEFINE X == {k \in 0..N : R[k] = g[k]}
  <2>1. 0 \in X
    BY <1>1, <1>7, <1>8
  <2>2. ASSUME NEW k \in 1..N, k - 1 \in X PROVE k \in X
    <3>1. k \in 0..N
      BY <1>5
    <3>2. R[k] = Advanced(defs, R[k - 1])
      BY <1>5, <1>8, <3>1
    <3>. QED BY <1>6, <2>2, <3>1, <3>2
  <2>3. \A k \in 0..N : k \in X
    <3>. HIDE DEF X, N
    <3>. QED BY <1>1, <2>1, <2>2, UpTo
  <2>. QED BY <1>7, <1>8, <2>3
<1>. QED BY <1>4, <1>6, <1>9, <1>10 DEF Ranks

\* Evaluated comes to rest: a rank more would change nothing.
LEMMA EvaluatedRests ==
    ASSUME NEW defs, IsTable(defs)
    PROVE  /\ Evaluated(defs) \in Phase(defs)
           /\ Evaluated(defs).order = Ready(defs, Evaluated(defs).order)
           /\ \A n \in DOMAIN defs : Evaluated(defs).values[n] =
                 ValueOf(defs, n, Evaluated(defs).order, Evaluated(defs).values)
<1>. DEFINE D == DOMAIN defs
            N == Cardinality(D)
            e == Evaluated(defs)
<1>1. N \in Nat /\ IsFiniteSet(D)
  BY TableIs
<1>2. PICK g : Ranks(defs, g)
  BY RanksAre
<1>3. \A k \in 0..N : g[k] \in Phase(defs) /\ g[k].order \in SUBSET D
                      /\ g[k].values \in [D -> Number]
  BY <1>2 DEF Ranks, Phase
<1>4. \A k \in 1..N : k - 1 \in 0..N /\ k \in 0..N
  BY <1>1
<1>5. ASSUME NEW k \in 1..N
      PROVE  /\ g[k].order = Ready(defs, g[k - 1].order)
             /\ \A n \in D : g[k].values[n] = ValueOf(defs, n, g[k - 1].order, g[k - 1].values)
  <2>1. g[k - 1] \in Phase(defs) /\ g[k] = Advanced(defs, g[k - 1])
    BY <1>2, <1>3, <1>4 DEF Ranks
  <2>. QED BY <2>1, AdvancedIs
<1>6. g[0].order = {} /\ g[0].values = Values(defs) /\ 0 \in 0..N /\ N \in 0..N
  BY <1>1, <1>2 DEF Ranks
<1>7. \A A, B \in SUBSET D : A \subseteq B => Ready(defs, A) \subseteq Ready(defs, B)
  BY DEF Ready
\* A name that is ready stays so.
<1>8. \A k \in 0..N : g[k].order \subseteq Ready(defs, g[k].order)
  <2>. DEFINE X == {k \in 0..N : g[k].order \subseteq Ready(defs, g[k].order)}
  <2>1. 0 \in X
    BY <1>6
  <2>2. ASSUME NEW k \in 1..N, k - 1 \in X PROVE k \in X
    <3>1. g[k - 1].order \subseteq g[k].order
      BY <1>5, <2>2
    <3>. QED BY <1>3, <1>4, <1>5, <1>7, <3>1
  <2>3. \A k \in 0..N : k \in X
    <3>. HIDE DEF X, N
    <3>. QED BY <1>1, <2>1, <2>2, UpTo
  <2>. QED BY <2>3
\* And has the value that a rank more would give it.
<1>9. \A k \in 0..N : \A n \in g[k].order :
         g[k].values[n] = ValueOf(defs, n, g[k].order, g[k].values)
  <2>. DEFINE X == {k \in 0..N : \A n \in g[k].order :
                       g[k].values[n] = ValueOf(defs, n, g[k].order, g[k].values)}
  <2>1. 0 \in X
    BY <1>6
  <2>2. ASSUME NEW k \in 1..N, k - 1 \in X PROVE k \in X
    <3>1. k - 1 \in 0..N /\ k \in 0..N
      BY <1>4
    <3>2. SUFFICES ASSUME NEW n \in g[k].order
                   PROVE  g[k].values[n] = ValueOf(defs, n, g[k].order, g[k].values)
      BY <3>1
    <3>3. n \in D /\ n \in Ready(defs, g[k - 1].order) /\ n \in Ready(defs, g[k].order)
      BY <1>3, <1>5, <1>8, <3>1
    <3>4. g[k].values[n] = ValueOf(defs, n, g[k - 1].order, g[k - 1].values)
      BY <1>5, <3>3
    <3>5. DOMAIN g[k - 1].values = D /\ DOMAIN g[k].values = D
      BY <1>3, <3>1
    <3>6. ASSUME NEW r \in Range(defs[n].expr.refs) \cap D
          PROVE  g[k - 1].values[r] = g[k].values[r]
      <4>1. r \in g[k - 1].order
        BY <3>3 DEF Ready, Deps
      <4>2. g[k].values[r] = ValueOf(defs, r, g[k - 1].order, g[k - 1].values)
        BY <1>5
      <4>. QED BY <2>2, <4>1, <4>2
    <3>7. /\ Fault(defs[n].expr, g[k - 1].values) = Fault(defs[n].expr, g[k].values)
          /\ Fault(defs[n].expr, g[k - 1].values) = "none" =>
                Sum(defs[n].expr, g[k - 1].values) = Sum(defs[n].expr, g[k].values)
      BY <3>5, <3>6, SameSum
    <3>. QED BY <3>3, <3>4, <3>7 DEF ValueOf
  <2>3. \A k \in 0..N : k \in X
    <3>. HIDE DEF X, N
    <3>. QED BY <1>1, <2>1, <2>2, UpTo
  <2>. QED BY <2>3
<1>10. Ready(defs, g[N].order) = g[N].order
  <2>. DEFINE f == [k \in 0..N |-> g[k].order]
              G == [A \in SUBSET D |-> Ready(defs, A)]
  <2>1. G \in [SUBSET D -> SUBSET D]
    BY DEF Ready
  <2>2. f \in [0..N -> SUBSET D]
    BY <1>3
  <2>3. \A k \in 1..N : f[k] = G[f[k - 1]]
    BY <1>3, <1>4, <1>5
  <2>4. \A k \in 0..N : f[k] \subseteq G[f[k]]
    BY <1>3, <1>8
  <2>5. G[f[N]] = f[N]
    <3>. HIDE DEF f, G
    <3>. QED BY <1>1, <2>1, <2>2, <2>3, <2>4, Saturation
  <2>. QED BY <1>3, <1>6, <2>5
<1>11. e = g[N]
  BY <1>2 DEF Ranks
<1>12. ASSUME NEW n \in D, n \notin g[N].order
       PROVE  g[N].values[n] = defs[n].value
  <2>1. CASE N = 0
    BY <1>6, <2>1, TableIs
  <2>2. CASE N # 0
    <3>1. N \in 1..N
      BY <1>1, <2>2
    <3>2. n \notin Ready(defs, g[N - 1].order)
      BY <1>5, <1>12, <3>1
    <3>. QED BY <1>5, <3>1, <3>2 DEF ValueOf
  <2>. QED BY <2>1, <2>2
<1>13. \A n \in D : g[N].values[n] = ValueOf(defs, n, g[N].order, g[N].values)
  <2>1. \A n \in D : n \notin g[N].order =>
           ValueOf(defs, n, g[N].order, g[N].values) = defs[n].value
    BY <1>10 DEF ValueOf
  <2>. QED BY <1>6, <1>9, <1>12, <2>1
<1>. HIDE DEF N, e
<1>. QED BY <1>3, <1>6, <1>10, <1>11, <1>13 DEF e

\* The names in the order are the ones that lead to no cycle.
LEMMA OrderIs ==
    ASSUME NEW defs, IsTable(defs)
    PROVE  Evaluated(defs).order = DOMAIN defs \ Stuck(defs)
<1>. DEFINE D == DOMAIN defs
            N == Cardinality(D)
            o == Evaluated(defs).order
<1>1. o \in SUBSET D /\ o = Ready(defs, o)
  BY EvaluatedRests DEF Phase
<1>2. ASSUME NEW n \in D \ o PROVE n \in Stuck(defs)
  <2>1. \A m \in D \ o : Deps(defs, m) \cap (D \ o) # {}
    BY <1>1 DEF Ready, Deps
  <2>. HIDE DEF o
  <2>. QED BY <2>1 DEF Stuck
<1>3. ASSUME NEW S \in SUBSET D, \A n \in S : Deps(defs, n) \cap S # {}
      PROVE  o \cap S = {}
  <2>1. PICK g : Ranks(defs, g)
    BY RanksAre
  <2>2. N \in Nat
    BY TableIs
  <2>. DEFINE X == {k \in 0..N : g[k].order \cap S = {}}
  <2>3. 0 \in X
    BY <2>1, <2>2 DEF Ranks
  <2>4. ASSUME NEW k \in 1..N, k - 1 \in X PROVE k \in X
    <3>1. g[k - 1] \in Phase(defs) /\ g[k] = Advanced(defs, g[k - 1]) /\ k \in 0..N
      BY <2>1, <2>2 DEF Ranks
    <3>2. g[k].order = Ready(defs, g[k - 1].order)
      BY <3>1, AdvancedIs
    <3>3. g[k].order \cap S = {}
      BY <1>3, <2>4, <3>2 DEF Ready
    <3>. QED BY <3>1, <3>3
  <2>5. \A k \in 0..N : k \in X
    <3>. HIDE DEF X, N
    <3>. QED BY <2>2, <2>3, <2>4, UpTo
  <2>. QED BY <2>1, <2>2, <2>5 DEF Ranks
<1>4. \A n \in Stuck(defs) : n \in D /\ n \notin o
  <2>. HIDE DEF o
  <2>. QED BY <1>3 DEF Stuck
<1>. QED BY <1>1, <1>2, <1>4

\* R has no references out of it.
Closed(defs, R) == R \subseteq DOMAIN defs /\ \A n \in R : Deps(defs, n) \subseteq R

\* The numbers of R are those of its expressions, as far as they have one.
Settled(defs, R) ==
    \A n \in R : Fault(defs[n].expr, Values(defs)) = "none" =>
                    defs[n].value = Sum(defs[n].expr, Values(defs))

\* What is settled and refers to nothing else keeps its numbers.
LEMMA Stays ==
    ASSUME NEW defs, IsTable(defs), NEW R, Closed(defs, R), Settled(defs, R)
    PROVE  \A n \in R : Evaluated(defs).values[n] = defs[n].value
<1>. DEFINE D == DOMAIN defs
            N == Cardinality(D)
<1>1. PICK g : Ranks(defs, g)
  BY RanksAre
<1>2. N \in Nat /\ R \subseteq D
  BY TableIs DEF Closed
<1>. DEFINE X == {k \in 0..N : \A n \in R : g[k].values[n] = defs[n].value}
<1>3. 0 \in X
  BY <1>1, <1>2, TableIs DEF Ranks
<1>4. ASSUME NEW k \in 1..N, k - 1 \in X PROVE k \in X
  <2>1. g[k - 1] \in Phase(defs) /\ g[k] = Advanced(defs, g[k - 1]) /\ k \in 0..N
    BY <1>1, <1>2 DEF Ranks
  <2>2. SUFFICES ASSUME NEW n \in R PROVE g[k].values[n] = defs[n].value
    BY <2>1
  <2>3. n \in D /\ g[k].values[n] = ValueOf(defs, n, g[k - 1].order, g[k - 1].values)
    BY <1>2, <2>1, AdvancedIs
  <2>4. DOMAIN g[k - 1].values = D /\ DOMAIN Values(defs) = D
    BY <2>1, TableIs DEF Phase
  <2>5. \A r \in Range(defs[n].expr.refs) \cap D : r \in R
    BY DEF Closed, Deps
  <2>6. \A r \in Range(defs[n].expr.refs) \cap D : g[k - 1].values[r] = Values(defs)[r]
    BY <1>4, <2>5, TableIs
  <2>7. /\ Fault(defs[n].expr, g[k - 1].values) = Fault(defs[n].expr, Values(defs))
        /\ Fault(defs[n].expr, g[k - 1].values) = "none" =>
              Sum(defs[n].expr, g[k - 1].values) = Sum(defs[n].expr, Values(defs))
    BY <2>4, <2>6, SameSum
  <2>. QED BY <2>3, <2>7 DEF ValueOf, Settled
<1>5. \A k \in 0..N : k \in X
  <2>. HIDE DEF X, N
  <2>. QED BY <1>2, <1>3, <1>4, UpTo
<1>. QED BY <1>1, <1>2, <1>5 DEF Ranks

\* What findCycle finds is all that the references lead to.
LEMMA ReachesIs ==
    ASSUME NEW defs, IsTable(defs), NEW refs
    PROVE  /\ refs \subseteq Reaches(defs, refs)
           /\ Closed(defs, Reaches(defs, refs) \cap DOMAIN defs)
<1>. DEFINE D == DOMAIN defs
            N == Cardinality(D)
            T == SUBSET (refs \cup D)
            F == [A \in T |-> A \cup References(defs, A)]
<1>1. N \in Nat /\ IsFiniteSet(D)
  BY TableIs
<1>2. \A A : References(defs, A) \subseteq D /\ References(defs, A \cap D) = References(defs, A)
  BY DEF References, Deps
<1>3. F \in [T -> T] /\ refs \in T
  BY <1>2
<1>4. PICK g : Steps(T, refs, F, N, g)
  <2>1. \E g : Steps(T, refs, F, N, g)
    <3>. HIDE DEF N, T, F
    <3>. QED BY <1>1, <1>3, Recursion
  <2>. QED BY <2>1
<1>5. g \in [0..N -> T] /\ g[0] = refs /\ \A k \in 1..N : g[k] = F[g[k - 1]]
  BY <1>4 DEF Steps
<1>6. \A k \in 1..N : k - 1 \in 0..N /\ k \in 0..N /\ k # 0
  BY <1>1
<1>7. \A k \in 1..N : g[k] = g[k - 1] \cup References(defs, g[k - 1])
  BY <1>5, <1>6
<1>. DEFINE Is(h) == h = [k \in 0..N |-> IF k = 0 THEN refs ELSE h[k - 1] \cup References(defs, h[k - 1])]
            W == CHOOSE h : Is(h)
<1>8. Is(g)
  <2>1. \A k \in 0..N : k = 0 \/ k \in 1..N
    BY <1>1
  <2>2. \A k \in 0..N : g[k] = IF k = 0 THEN refs ELSE g[k - 1] \cup References(defs, g[k - 1])
    BY <1>5, <1>7, <2>1
  <2>3. g = [k \in 0..N |-> g[k]]
    BY <1>5
  <2>. HIDE DEF N
  <2>. QED BY <2>2, <2>3
<1>9. Is(W)
  <2>. HIDE DEF Is
  <2>. QED BY <1>8
<1>10. Reaches(defs, refs) = W[N]
  BY DEF Reaches
<1>. HIDE DEF W
<1>11. \A k \in 0..N : W[k] = g[k]
  <2>. DEFINE X == {k \in 0..N : W[k] = g[k]}
  <2>1. 0 \in X
    BY <1>1, <1>5, <1>9
  <2>2. ASSUME NEW k \in 1..N, k - 1 \in X PROVE k \in X
    <3>1. W[k] = W[k - 1] \cup References(defs, W[k - 1])
      BY <1>6, <1>9
    <3>. QED BY <1>6, <1>7, <2>2, <3>1
  <2>3. \A k \in 0..N : k \in X
    <3>. HIDE DEF X, N
    <3>. QED BY <1>1, <2>1, <2>2, UpTo
  <2>. QED BY <2>3
<1>12. N \in 0..N /\ 0 \in 0..N
  BY <1>1
<1>13. Reaches(defs, refs) = g[N]
  BY <1>10, <1>11, <1>12
<1>14. refs \subseteq g[N]
  <2>. DEFINE X == {k \in 0..N : refs \subseteq g[k]}
  <2>1. 0 \in X
    BY <1>5, <1>12
  <2>2. ASSUME NEW k \in 1..N, k - 1 \in X PROVE k \in X
    BY <1>6, <1>7, <2>2
  <2>3. \A k \in 0..N : k \in X
    <3>. HIDE DEF X, N
    <3>. QED BY <1>1, <2>1, <2>2, UpTo
  <2>. QED BY <1>12, <2>3
<1>15. References(defs, g[N] \cap D) \subseteq g[N] \cap D
  <2>. DEFINE f == [k \in 0..N |-> g[k] \cap D]
              G == [A \in SUBSET D |-> A \cup References(defs, A)]
  <2>1. G \in [SUBSET D -> SUBSET D]
    BY <1>2
  <2>2. f \in [0..N -> SUBSET D]
    OBVIOUS
  <2>3. \A k \in 1..N : f[k] = G[f[k - 1]]
    <3>. SUFFICES ASSUME NEW k \in 1..N PROVE f[k] = G[f[k - 1]]
      OBVIOUS
    <3>1. f[k] = g[k] \cap D /\ f[k - 1] = g[k - 1] \cap D
      BY <1>6
    <3>2. G[f[k - 1]] = (g[k - 1] \cap D) \cup References(defs, g[k - 1] \cap D)
      BY <3>1
    <3>3. g[k] = g[k - 1] \cup References(defs, g[k - 1])
      BY <1>7
    <3>4. /\ References(defs, g[k - 1]) \subseteq D
          /\ References(defs, g[k - 1] \cap D) = References(defs, g[k - 1])
      BY <1>2
    <3>. HIDE DEF f, G, D
    <3>. QED BY <3>1, <3>2, <3>3, <3>4
  <2>4. \A k \in 0..N : f[k] \subseteq G[f[k]]
    BY <2>2
  <2>5. G[f[N]] = f[N]
    <3>. HIDE DEF f, G
    <3>. QED BY <1>1, <2>1, <2>2, <2>3, <2>4, Saturation
  <2>6. f[N] = g[N] \cap D
    BY <1>12
  <2>7. (g[N] \cap D) \cup References(defs, g[N] \cap D) = g[N] \cap D
    BY <2>5, <2>6
  <2>. QED BY <2>7
<1>16. \A n \in g[N] \cap D : Deps(defs, n) \subseteq References(defs, g[N] \cap D)
  BY DEF References
<1>. QED BY <1>13, <1>14, <1>15, <1>16 DEF Closed

------------------------------------------------------------------------
\* The recompute.

Kept(d) == Less(d.defs, Collected(d))
After(d) == Recompute(d).doc

\* The table of a document is one, and so is what the recompute keeps of it.
LEMMA KeptIs ==
    ASSUME NEW d, IsDocument(d)
    PROVE  /\ IsTable(d.defs) /\ IsTable(Kept(d))
           /\ DOMAIN Kept(d) = DOMAIN d.defs \ Collected(d)
           /\ \A n \in DOMAIN Kept(d) :
                 /\ Kept(d)[n] = d.defs[n]
                 /\ Deps(Kept(d), n) = Deps(d.defs, n)
                 /\ Range(d.defs[n].expr.refs) \subseteq DOMAIN Kept(d) <=>
                       Range(d.defs[n].expr.refs) \subseteq DOMAIN d.defs
<1>1. IsTable(d.defs)
  BY DEF IsDocument, IsTable
<1>2. /\ DOMAIN Kept(d) = DOMAIN d.defs \ Collected(d)
      /\ \A n \in DOMAIN Kept(d) : Kept(d)[n] = d.defs[n]
      /\ Kept(d) = [n \in DOMAIN Kept(d) |-> Kept(d)[n]]
  BY DEF Kept, Less
<1>3. IsTable(Kept(d))
  BY <1>1, <1>2 DEF IsTable
<1>4. ASSUME NEW n \in DOMAIN Kept(d)
      PROVE  /\ Deps(Kept(d), n) = Deps(d.defs, n)
             /\ Range(d.defs[n].expr.refs) \subseteq DOMAIN Kept(d) <=>
                   Range(d.defs[n].expr.refs) \subseteq DOMAIN d.defs
  <2>1. n \in DOMAIN d.defs
    BY <1>2
  <2>2. Deps(d.defs, n) \cap Collected(d) = {}
    BY <2>1 DEF Collected, References
  <2>. QED BY <1>2, <2>2 DEF Deps
<1>. QED BY <1>1, <1>2, <1>3, <1>4

\* Why a name keeps the value it had.
Why(d, n) ==
    LET e == Evaluated(Kept(d))
        fault == Fault(d.defs[n].expr, e.values)
    IN IF n \in e.order /\ fault # "none" THEN fault
       ELSE IF n \in Dangling(d) THEN "target gone"
       ELSE IF n \notin e.order THEN "circular" ELSE "none"

LEMMA RecomputeIs ==
    ASSUME NEW d, IsDocument(d)
    PROVE  /\ After(d) = [defs |-> After(d).defs, fields |-> Written(d.fields, After(d).defs)]
           /\ After(d).defs = [n \in DOMAIN Kept(d) |->
                 [expr |-> d.defs[n].expr, value |-> Evaluated(Kept(d)).values[n],
                  target |-> d.defs[n].target]]
           /\ Recompute(d).issues =
                 [n \in {m \in DOMAIN Kept(d) : Why(d, m) # "none"} |-> Why(d, n)]
<1>. DEFINE defs == Kept(d)
            end == Evaluated(defs)
            new == [n \in DOMAIN defs |-> [defs[n] EXCEPT !.value = end.values[n]]]
            Because(n) == LET fault == Fault(defs[n].expr, end.values) IN
                  IF n \in end.order /\ fault # "none" THEN fault
                  ELSE IF n \in Dangling(d) THEN "target gone"
                  ELSE IF n \notin end.order THEN "circular" ELSE "none"
<1>1. Recompute(d) = [doc |-> [defs |-> new, fields |-> Written(d.fields, new)],
                      issues |-> [n \in {m \in DOMAIN defs : Because(m) # "none"} |-> Because(n)]]
  BY DEF Recompute, Kept
<1>2. \A n \in DOMAIN defs : defs[n] = d.defs[n] /\
         defs[n] = [expr |-> defs[n].expr, value |-> defs[n].value, target |-> defs[n].target]
  BY KeptIs, TableIs
<1>3. \A n \in DOMAIN defs : Because(n) = Why(d, n)
  BY <1>2 DEF Why
<1>4. \A n \in DOMAIN defs : [defs[n] EXCEPT !.value = end.values[n]] =
         [expr |-> d.defs[n].expr, value |-> end.values[n], target |-> d.defs[n].target]
  <2>. SUFFICES ASSUME NEW n \in DOMAIN defs, NEW v
                PROVE  [defs[n] EXCEPT !.value = v] =
                          [expr |-> d.defs[n].expr, value |-> v, target |-> d.defs[n].target]
    OBVIOUS
  <2>1. PICK p : p = d.defs[n]
    OBVIOUS
  <2>2. defs[n] = p /\ p = [expr |-> p.expr, value |-> p.value, target |-> p.target]
    BY <1>2, <2>1
  <2>3. [p EXCEPT !.value = v] = [expr |-> p.expr, value |-> v, target |-> p.target]
    BY <2>2
  <2>. QED BY <2>1, <2>2, <2>3
<1>. HIDE DEF Because, defs, end
<1>5. new = [n \in DOMAIN defs |->
                [expr |-> d.defs[n].expr, value |-> end.values[n], target |-> d.defs[n].target]]
  BY <1>4
<1>6. [n \in {m \in DOMAIN defs : Because(m) # "none"} |-> Because(n)] =
         [n \in {m \in DOMAIN defs : Why(d, m) # "none"} |-> Why(d, n)]
  BY <1>3
<1>. HIDE DEF new
<1>7. After(d) = [defs |-> new, fields |-> Written(d.fields, new)] /\
      Recompute(d).issues = [n \in {m \in DOMAIN defs : Because(m) # "none"} |-> Because(n)]
  BY <1>1 DEF After
<1>8. After(d).defs = new
  BY <1>7
<1>. QED BY <1>5, <1>6, <1>7, <1>8 DEF defs, end

\* A cycle is one in any table that has its names with the same references.
LEMMA StuckGrows ==
    ASSUME NEW defs, NEW more, DOMAIN defs \subseteq DOMAIN more,
           \A n \in DOMAIN defs : Deps(defs, n) \subseteq Deps(more, n)
    PROVE  Stuck(defs) \subseteq Stuck(more)
<1>1. ASSUME NEW S \in SUBSET DOMAIN defs, \A n \in S : Deps(defs, n) \cap S # {}
      PROVE  S \in SUBSET DOMAIN more /\ \A n \in S : Deps(more, n) \cap S # {}
  BY <1>1
<1>. QED BY <1>1 DEF Stuck

\* The document after a recompute: the names that were kept, with the values of the
\* evaluation, and the bound fields with theirs.
LEMMA AfterIs ==
    ASSUME NEW d, IsDocument(d)
    PROVE  /\ IsDocument(After(d))
           /\ DOMAIN After(d).defs = DOMAIN Kept(d)
           /\ DOMAIN After(d).defs = DOMAIN d.defs \ Collected(d)
           /\ DOMAIN After(d).fields = DOMAIN d.fields
           /\ \A n \in DOMAIN After(d).defs :
                 /\ After(d).defs[n].expr = d.defs[n].expr
                 /\ After(d).defs[n].target = d.defs[n].target
                 /\ After(d).defs[n].value = Evaluated(Kept(d)).values[n]
                 /\ Deps(After(d).defs, n) = Deps(d.defs, n)
                 /\ Deps(After(d).defs, n) = Deps(Kept(d), n)
                 /\ After(d).defs[n].target \in DOMAIN d.fields =>
                       After(d).fields[After(d).defs[n].target] =
                          Taken(After(d).defs[n].target, d.fields[After(d).defs[n].target],
                                After(d).defs[n].value)
           /\ \A f \in DOMAIN d.fields :
                 (\A n \in DOMAIN After(d).defs : d.defs[n].target # f) =>
                    After(d).fields[f] = d.fields[f]
           /\ Values(After(d).defs) = Evaluated(Kept(d)).values
           /\ Stuck(After(d).defs) = Stuck(Kept(d))
           /\ Dangling(After(d)) = Dangling(d) \cap DOMAIN After(d).defs
<1>. DEFINE defs == After(d).defs
            fields == After(d).fields
            v == Evaluated(Kept(d)).values
            D == DOMAIN Kept(d)
<1>1. /\ After(d) = [defs |-> defs, fields |-> Written(d.fields, defs)]
      /\ defs = [n \in D |->
            [expr |-> d.defs[n].expr, value |-> v[n], target |-> d.defs[n].target]]
  BY RecomputeIs
<1>2. /\ IsTable(d.defs) /\ IsTable(Kept(d)) /\ D = DOMAIN d.defs \ Collected(d)
      /\ \A n \in D : Kept(d)[n] = d.defs[n] /\ Deps(Kept(d), n) = Deps(d.defs, n)
  BY KeptIs
<1>3. v \in [D -> Number]
  BY <1>2, EvaluatedRests DEF Phase
<1>4. fields = Written(d.fields, defs)
  <2>. HIDE DEF defs
  <2>1. PICK t : t = Written(d.fields, defs)
    OBVIOUS
  <2>2. After(d).fields = t
    BY <1>1, <2>1
  <2>. QED BY <2>1, <2>2
<1>. HIDE DEF defs, fields, v
<1>5. DOMAIN defs = D /\ \A n \in D : /\ defs[n].expr = d.defs[n].expr
                                      /\ defs[n].value = v[n]
                                      /\ defs[n].target = d.defs[n].target
  BY <1>1
<1>6. \A n \in D : defs[n] \in ParamDef
  <2>. SUFFICES ASSUME NEW n \in D PROVE defs[n] \in ParamDef
    OBVIOUS
  <2>1. defs[n] = [expr |-> d.defs[n].expr, value |-> v[n], target |-> d.defs[n].target]
    BY <1>1
  <2>2. d.defs[n].expr \in Expr /\ v[n] \in Number /\ d.defs[n].target \in Field \cup {Null}
    BY <1>2, <1>3, TableIs
  <2>. QED BY <2>1, <2>2 DEF ParamDef
<1>7. IsTable(defs)
  <2>1. defs = [n \in D |-> defs[n]]
    BY <1>1
  <2>2. D \subseteq Name
    BY <1>2 DEF IsTable
  <2>. QED BY <1>5, <1>6, <2>1, <2>2 DEF IsTable
<1>8. \A m, n \in D : defs[m].target = defs[n].target /\ defs[m].target # Null => m = n
  <2>1. \A m, n \in DOMAIN d.defs :
           d.defs[m].target = d.defs[n].target /\ d.defs[m].target # Null => m = n
    BY DEF IsDocument
  <2>. QED BY <1>2, <1>5, <2>1
<1>9. /\ d.fields \in [DOMAIN d.fields -> Int] /\ DOMAIN d.fields \subseteq Field
      /\ Null \notin Field
  BY NamesAreApart DEF IsDocument
<1>10. /\ DOMAIN fields = DOMAIN d.fields /\ fields = [f \in DOMAIN fields |-> fields[f]]
       /\ \A f \in DOMAIN fields :
             fields[f] = IF \E n \in DOMAIN defs : defs[n].target = f
                         THEN Taken(f, d.fields[f],
                                    defs[CHOOSE n \in DOMAIN defs : defs[n].target = f].value)
                         ELSE d.fields[f]
  BY <1>4 DEF Written
<1>11. ASSUME NEW n \in D, defs[n].target \in DOMAIN d.fields
       PROVE  fields[defs[n].target] =
                 Taken(defs[n].target, d.fields[defs[n].target], defs[n].value)
  <2>. DEFINE f == defs[n].target
  <2>1. f # Null /\ f \in DOMAIN fields
    BY <1>9, <1>10, <1>11
  <2>2. PICK m : m = CHOOSE k \in DOMAIN defs : defs[k].target = f
    OBVIOUS
  <2>3. m \in D /\ defs[m].target = f
    BY <1>5, <2>2
  <2>4. m = n
    BY <1>8, <2>1, <2>3
  <2>. QED BY <1>5, <1>10, <2>1, <2>2, <2>4
<1>12. ASSUME NEW f \in DOMAIN d.fields, \A n \in D : defs[n].target # f
       PROVE  fields[f] = d.fields[f]
  BY <1>5, <1>10, <1>12
<1>13. fields \in [DOMAIN fields -> Int]
  <2>1. ASSUME NEW f \in DOMAIN fields PROVE fields[f] \in Int
    <3>1. CASE \E n \in D : defs[n].target = f
      <4>1. PICK n \in D : defs[n].target = f
        BY <3>1
      <4>2. defs[n].value \in Int /\ d.fields[f] \in Int
        BY <1>3, <1>5, <1>9, <1>10, NumbersAreIntegers
      <4>3. Taken(f, d.fields[f], defs[n].value) \in Int
        BY <4>2, TakenIs DEF Took
      <4>. QED BY <1>10, <1>11, <2>1, <4>1, <4>3
    <3>2. CASE ~ \E n \in D : defs[n].target = f
      BY <1>9, <1>10, <1>12, <3>2
    <3>. QED BY <3>1, <3>2
  <2>. QED BY <1>10, <2>1
<1>14. After(d).defs = defs /\ After(d).fields = fields
  BY DEF defs, fields
<1>15. After(d) = [defs |-> defs, fields |-> fields]
  BY <1>1, <1>4
<1>16. IsDocument(After(d))
  <2>1. After(d) = [defs |-> After(d).defs, fields |-> After(d).fields]
    BY <1>14, <1>15
  <2>. QED BY <1>5, <1>7, <1>8, <1>9, <1>10, <1>13, <1>14, <2>1 DEF IsDocument, IsTable
<1>17. \A n \in D : Deps(defs, n) = Deps(Kept(d), n)
  BY <1>2, <1>5 DEF Deps
<1>18. Values(defs) = v
  <2>1. v = [n \in D |-> v[n]]
    BY <1>3
  <2>. QED BY <1>5, <2>1 DEF Values
<1>19. Stuck(defs) = Stuck(Kept(d))
  <2>1. Stuck(defs) \subseteq Stuck(Kept(d))
    BY <1>5, <1>17, StuckGrows
  <2>2. Stuck(Kept(d)) \subseteq Stuck(defs)
    BY <1>5, <1>17, StuckGrows
  <2>. QED BY <2>1, <2>2
<1>20. Dangling(After(d)) = Dangling(d) \cap D
  BY <1>2, <1>5, <1>10, <1>14 DEF Dangling
<1>. QED BY <1>2, <1>5, <1>10, <1>11, <1>12, <1>14, <1>16, <1>17, <1>18, <1>19, <1>20 DEF v

\* After a recompute each name has the value of its expression, or an issue that is true of
\* it and the value it had.
IsTrue(d, n) ==
    LET defs == After(d).defs
        why == Recompute(d).issues
        v == Values(defs)
    IN /\ n \in Stuck(defs) =>
             /\ n \in DOMAIN why
             /\ why[n] = "circular" \/ (why[n] = "target gone" /\ n \in Dangling(After(d)))
             /\ v[n] = d.defs[n].value
       /\ n \notin Stuck(defs) =>
             /\ Fault(defs[n].expr, v) # "none" =>
                   /\ n \in DOMAIN why /\ why[n] = Fault(defs[n].expr, v)
                   /\ v[n] = d.defs[n].value
             /\ Fault(defs[n].expr, v) = "none" =>
                   /\ v[n] = Sum(defs[n].expr, v)
                   /\ n \in DOMAIN why <=> n \in Dangling(After(d))
                   /\ n \in DOMAIN why => why[n] = "target gone"

LEMMA RecomputeIsTrue ==
    ASSUME NEW d, IsDocument(d), NEW n \in DOMAIN After(d).defs
    PROVE  IsTrue(d, n)
<1>a. PICK defs : defs = After(d).defs
  OBVIOUS
<1>b. PICK why : why = Recompute(d).issues
  OBVIOUS
<1>c. PICK v : v = Values(defs)
  OBVIOUS
<1>n. n \in DOMAIN defs
  BY <1>a
<1>. DEFINE k == Kept(d)
            e == Evaluated(k)
<1>1. /\ DOMAIN defs = DOMAIN k /\ v = e.values /\ Stuck(defs) = Stuck(k)
      /\ defs[n].expr = d.defs[n].expr
      /\ Dangling(After(d)) = Dangling(d) \cap DOMAIN defs
  BY <1>a, <1>c, <1>n, AfterIs
<1>2. IsTable(k) /\ k[n] = d.defs[n]
  BY <1>1, <1>n, KeptIs
<1>3. /\ e.order = DOMAIN k \ Stuck(k)
      /\ e.order = Ready(k, e.order)
      /\ e.values[n] = ValueOf(k, n, e.order, e.values)
  BY <1>1, <1>2, <1>n, EvaluatedRests, OrderIs
<1>4. why = [m \in {m \in DOMAIN k : Why(d, m) # "none"} |-> Why(d, m)]
  BY <1>b, RecomputeIs
<1>5. /\ n \in DOMAIN why <=> Why(d, n) # "none"
      /\ n \in DOMAIN why => why[n] = Why(d, n)
  BY <1>1, <1>4, <1>n
<1>6. Why(d, n) = IF n \in e.order /\ Fault(defs[n].expr, v) # "none" THEN Fault(defs[n].expr, v)
                  ELSE IF n \in Dangling(d) THEN "target gone"
                  ELSE IF n \notin e.order THEN "circular" ELSE "none"
  BY <1>1 DEF Why
<1>. HIDE DEF k, e
<1>7. ASSUME n \in Stuck(defs)
      PROVE  /\ n \in DOMAIN why
             /\ why[n] = "circular" \/ (why[n] = "target gone" /\ n \in Dangling(After(d)))
             /\ v[n] = d.defs[n].value
  <2>1. n \notin e.order
    BY <1>1, <1>3, <1>7
  <2>2. v[n] = d.defs[n].value
    BY <1>1, <1>2, <1>3, <1>n, <2>1 DEF ValueOf
  <2>. QED BY <1>1, <1>5, <1>6, <1>7, <1>n, <2>1, <2>2
<1>8. ASSUME n \notin Stuck(defs)
      PROVE  /\ Fault(defs[n].expr, v) # "none" =>
                   /\ n \in DOMAIN why /\ why[n] = Fault(defs[n].expr, v)
                   /\ v[n] = d.defs[n].value
             /\ Fault(defs[n].expr, v) = "none" =>
                   /\ v[n] = Sum(defs[n].expr, v)
                   /\ n \in DOMAIN why <=> n \in Dangling(After(d))
                   /\ n \in DOMAIN why => why[n] = "target gone"
  <2>1. n \in e.order /\ n \in Ready(k, e.order)
    BY <1>1, <1>3, <1>8, <1>n
  <2>2. v[n] = IF Fault(defs[n].expr, v) = "none" THEN Sum(defs[n].expr, v) ELSE d.defs[n].value
    BY <1>1, <1>2, <1>3, <1>n, <2>1 DEF ValueOf
  <2>. QED BY <1>1, <1>5, <1>6, <1>8, <1>n, <2>1, <2>2
<1>. QED BY <1>7, <1>8, <1>a, <1>b, <1>c DEF IsTrue

\* The cycles of what is kept are those there were.
LEMMA StuckKept ==
    ASSUME NEW d, IsDocument(d)
    PROVE  Stuck(Kept(d)) = Stuck(d.defs) \cap DOMAIN Kept(d)
<1>. DEFINE k == Kept(d)
            D == DOMAIN k
<1>1. /\ IsTable(k) /\ D = DOMAIN d.defs \ Collected(d)
      /\ \A n \in D : Deps(k, n) = Deps(d.defs, n)
  BY KeptIs
<1>. HIDE DEF k
<1>2. Stuck(k) \subseteq Stuck(d.defs)
  BY <1>1, StuckGrows
<1>3. Stuck(k) \subseteq D
  BY DEF Stuck
<1>4. ASSUME NEW S \in SUBSET DOMAIN d.defs, \A n \in S : Deps(d.defs, n) \cap S # {}
      PROVE  S \cap D \subseteq Stuck(k)
  <2>1. \A n \in S \cap D : Deps(k, n) \cap (S \cap D) # {}
    <3>1. \A n \in S \cap D : Deps(k, n) \subseteq D
      BY DEF Deps
    <3>. QED BY <1>1, <1>4, <3>1
  <2>2. S \cap D \in SUBSET D
    OBVIOUS
  <2>. QED BY <2>1, <2>2 DEF Stuck
<1>5. Stuck(d.defs) \cap D \subseteq Stuck(k)
  <2>. SUFFICES ASSUME NEW n \in Stuck(d.defs), n \in D PROVE n \in Stuck(k)
    OBVIOUS
  <2>1. PICK S \in SUBSET DOMAIN d.defs : (\A m \in S : Deps(d.defs, m) \cap S # {}) /\ n \in S
    BY DEF Stuck
  <2>. QED BY <1>4, <2>1
<1>. QED BY <1>2, <1>3, <1>5 DEF k

\* A second recompute changes no number.
LEMMA RecomputeOnce ==
    ASSUME NEW c, IsDocument(c), NEW d, d = After(c)
    PROVE  \A n \in DOMAIN After(d).defs : After(d).defs[n].value = d.defs[n].value
<1>. DEFINE k == Kept(d)
            R == DOMAIN k \ Stuck(k)
<1>1. IsDocument(d)
  BY AfterIs
<1>2. /\ IsTable(k) /\ IsTable(d.defs) /\ DOMAIN k \subseteq DOMAIN d.defs
      /\ \A n \in DOMAIN k :
            /\ k[n] = d.defs[n] /\ Deps(k, n) = Deps(d.defs, n)
            /\ Range(d.defs[n].expr.refs) \subseteq DOMAIN k <=>
                  Range(d.defs[n].expr.refs) \subseteq DOMAIN d.defs
  BY <1>1, KeptIs
<1>3. Stuck(k) = Stuck(d.defs) \cap DOMAIN k
  BY <1>1, StuckKept
<1>4. R = Evaluated(k).order /\ Evaluated(k).order = Ready(k, Evaluated(k).order)
  BY <1>2, OrderIs, EvaluatedRests
<1>5. Closed(k, R)
  <2>1. \A n \in R : Deps(k, n) \subseteq R
    BY <1>4 DEF Ready
  <2>. QED BY <2>1 DEF Closed
<1>6. Settled(k, R)
  <2>. SUFFICES ASSUME NEW n \in R, Fault(k[n].expr, Values(k)) = "none"
                PROVE  k[n].value = Sum(k[n].expr, Values(k))
    BY DEF Settled
  <2>1. n \in DOMAIN d.defs /\ n \notin Stuck(d.defs) /\ k[n] = d.defs[n]
    BY <1>2, <1>3
  <2>2. DOMAIN Values(k) = DOMAIN k /\ DOMAIN Values(d.defs) = DOMAIN d.defs
    BY DEF Values
  <2>3. \A r \in DOMAIN k : Values(k)[r] = Values(d.defs)[r]
    BY <1>2, TableIs
  <2>4. Range(k[n].expr.refs) \subseteq DOMAIN k <=> Range(k[n].expr.refs) \subseteq DOMAIN d.defs
    BY <1>2, <2>1
  <2>5. /\ Fault(k[n].expr, Values(k)) = Fault(k[n].expr, Values(d.defs))
        /\ Fault(k[n].expr, Values(k)) = "none" =>
              Sum(k[n].expr, Values(k)) = Sum(k[n].expr, Values(d.defs))
    BY <2>2, <2>3, <2>4, SameSum
  <2>6. Values(d.defs)[n] = Sum(d.defs[n].expr, Values(d.defs))
    BY <2>1, <2>5, RecomputeIsTrue DEF IsTrue
  <2>7. Values(d.defs)[n] = d.defs[n].value
    BY <1>2, <2>1, TableIs
  <2>. QED BY <2>1, <2>5, <2>6, <2>7
<1>7. \A n \in R : Evaluated(k).values[n] = k[n].value
  <2>. HIDE DEF k, R
  <2>. QED BY <1>2, <1>5, <1>6, Stays
<1>8. \A n \in DOMAIN k : n \notin R => Evaluated(k).values[n] = k[n].value
  BY <1>2, <1>4, EvaluatedRests DEF ValueOf
<1>9. /\ DOMAIN After(d).defs = DOMAIN k
      /\ \A n \in DOMAIN k : After(d).defs[n].value = Evaluated(k).values[n]
  BY <1>1, AfterIs
<1>. HIDE DEF k, R
<1>. QED BY <1>2, <1>7, <1>8, <1>9

\* The numbers in d that no commit has made are those of before.
Carries(before, d) ==
    \A n \in DOMAIN d.defs :
        /\ /\ n \in DOMAIN before.defs
           /\ before.defs[n].expr = d.defs[n].expr /\ before.defs[n].target = d.defs[n].target
           => d.defs[n].value = before.defs[n].value
        /\ d.defs[n].target \in DOMAIN d.fields \cap DOMAIN before.fields =>
              d.fields[d.defs[n].target] = before.fields[d.defs[n].target]

\* The bound fields of `after` fit, on the sides they were on.
FieldsFit(before, after) ==
    \A n \in DOMAIN after.defs : after.defs[n].target \in DOMAIN after.fields =>
        LET f == after.defs[n].target
            number == after.fields[f]
        IN /\ Fits(f, number, after.defs[n].value)
           /\ f \in Signed \cap DOMAIN before.fields /\ number # 0 =>
                  (number < 0 <=> before.fields[f] < 0)

LEMMA MutateFits ==
    ASSUME NEW before, NEW d, IsDocument(d), Carries(before, d)
    PROVE  FieldsFit(before, After(d))
<1>. DEFINE a == After(d)
<1>1. /\ IsDocument(a) /\ DOMAIN a.defs \subseteq DOMAIN d.defs
      /\ DOMAIN a.fields = DOMAIN d.fields
      /\ \A n \in DOMAIN a.defs :
            /\ a.defs[n].target = d.defs[n].target
            /\ a.defs[n].target \in DOMAIN d.fields =>
                  a.fields[a.defs[n].target] =
                     Taken(a.defs[n].target, d.fields[a.defs[n].target], a.defs[n].value)
  BY AfterIs
<1>. HIDE DEF a
<1>2. SUFFICES ASSUME NEW n \in DOMAIN a.defs, NEW f, f = a.defs[n].target, f \in DOMAIN a.fields
               PROVE  /\ Fits(f, a.fields[f], a.defs[n].value)
                      /\ f \in Signed \cap DOMAIN before.fields /\ a.fields[f] # 0 =>
                            (a.fields[f] < 0 <=> before.fields[f] < 0)
  BY DEF FieldsFit, a
<1>3. a.defs[n].value \in Int
  BY <1>1, DefsOf, TableIs, NumbersAreIntegers
<1>4. d.fields[f] \in Int
  BY <1>1, <1>2, DefsOf
<1>5. Took(f, d.fields[f], a.defs[n].value, a.fields[f])
  BY <1>1, <1>2, <1>3, <1>4, TakenIs
<1>6. f \in DOMAIN before.fields => d.fields[f] = before.fields[f]
  BY <1>1, <1>2 DEF Carries
<1>. QED BY <1>5, <1>6 DEF Took

\* A field that takes a value twice takes it.
LEMMA CommitFits ==
    ASSUME NEW before, NEW c, IsDocument(c), Carries(before, c)
    PROVE  FieldsFit(before, After(After(c)))
<1>. DEFINE d == After(c)
            a == After(d)
<1>1. IsDocument(d) /\ FieldsFit(before, d)
  BY AfterIs, MutateFits
<1>2. \A n \in DOMAIN a.defs : a.defs[n].value = d.defs[n].value
  BY RecomputeOnce
<1>. HIDE DEF d
<1>3. /\ IsDocument(a) /\ DOMAIN a.defs \subseteq DOMAIN d.defs
      /\ DOMAIN a.fields = DOMAIN d.fields
      /\ \A n \in DOMAIN a.defs :
            /\ a.defs[n].target = d.defs[n].target
            /\ a.defs[n].target \in DOMAIN d.fields =>
                  a.fields[a.defs[n].target] =
                     Taken(a.defs[n].target, d.fields[a.defs[n].target], a.defs[n].value)
  BY <1>1, AfterIs
<1>. HIDE DEF a
<1>4. SUFFICES ASSUME NEW n \in DOMAIN a.defs, NEW f, f = a.defs[n].target, f \in DOMAIN a.fields
               PROVE  /\ Fits(f, a.fields[f], a.defs[n].value)
                      /\ f \in Signed \cap DOMAIN before.fields /\ a.fields[f] # 0 =>
                            (a.fields[f] < 0 <=> before.fields[f] < 0)
  BY DEF FieldsFit, a, d
<1>5. a.defs[n].value \in Int
  BY <1>3, DefsOf, TableIs, NumbersAreIntegers
<1>6. d.fields[f] \in Int
  BY <1>1, <1>3, <1>4, DefsOf
<1>7. Took(f, d.fields[f], a.defs[n].value, a.fields[f])
  BY <1>3, <1>4, <1>5, <1>6, TakenIs
<1>8. /\ Fits(f, d.fields[f], a.defs[n].value)
      /\ f \in Signed \cap DOMAIN before.fields /\ d.fields[f] # 0 =>
            (d.fields[f] < 0 <=> before.fields[f] < 0)
  BY <1>1, <1>2, <1>3, <1>4 DEF FieldsFit
<1>9. f \in Signed /\ a.fields[f] # 0 => d.fields[f] # 0
  <2>1. f \in Signed => f \notin DOMAIN Minimum
    BY KindsAreApart
  <2>. QED BY <1>5, <1>6, <1>7, <1>8, <2>1 DEF Took, Fits
<1>. QED BY <1>7, <1>8, <1>9 DEF Took

\* What a change at once leaves is consistent,
LEMMA MutateIsConsistent ==
    ASSUME NEW before, NEW d, IsDocument(d), Carries(before, d)
    PROVE  Consistent(before, After(d), Recompute(d).issues)
<1>. DEFINE a == After(d)
            why == Recompute(d).issues
            v == Values(a.defs)
<1>1. /\ IsDocument(a) /\ DOMAIN a.defs \subseteq DOMAIN d.defs
      /\ DOMAIN a.fields = DOMAIN d.fields
      /\ \A n \in DOMAIN a.defs :
            /\ a.defs[n].expr = d.defs[n].expr /\ a.defs[n].target = d.defs[n].target
            /\ v[n] = a.defs[n].value
  <2>1. \A n \in DOMAIN a.defs : v[n] = a.defs[n].value
    BY DEF Values
  <2>. HIDE DEF v
  <2>. QED BY <2>1, AfterIs
<1>2. ASSUME NEW n \in DOMAIN a.defs
      PROVE  /\ n \in Stuck(a.defs) =>
                   /\ n \in DOMAIN why
                   /\ why[n] = "circular" \/ (why[n] = "target gone" /\ n \in Dangling(a))
                   /\ v[n] = d.defs[n].value
             /\ n \notin Stuck(a.defs) =>
                   /\ Fault(a.defs[n].expr, v) # "none" =>
                         /\ n \in DOMAIN why /\ why[n] = Fault(a.defs[n].expr, v)
                         /\ v[n] = d.defs[n].value
                   /\ Fault(a.defs[n].expr, v) = "none" =>
                         /\ v[n] = Sum(a.defs[n].expr, v)
                         /\ n \in DOMAIN why <=> n \in Dangling(a)
  BY RecomputeIsTrue DEF IsTrue
<1>3. ASSUME NEW n \in DOMAIN a.defs, v[n] = d.defs[n].value, n \in DOMAIN before.defs,
             before.defs[n].expr = a.defs[n].expr, before.defs[n].target = a.defs[n].target
      PROVE  v[n] = before.defs[n].value
  BY <1>1, <1>3 DEF Carries
<1>4. Stuck(a.defs) \subseteq DOMAIN a.defs
  BY DEF Stuck
<1>6. FieldsFit(before, a)
  BY MutateFits
<1>. HIDE DEF a, why, v
<1>. SUFFICES Consistent(before, a, why)
  BY DEF a, why
<1>5. v = Values(a.defs)
  BY DEF v
<1>. QED BY <1>1, <1>2, <1>3, <1>4, <1>5, <1>6 DEF Consistent, FieldsFit

\* and so is what a commit leaves, which is recomputed twice.
LEMMA CommitIsConsistent ==
    ASSUME NEW before, NEW c, IsDocument(c), Carries(before, c)
    PROVE  Consistent(before, After(After(c)), Recompute(After(c)).issues)
<1>. DEFINE d == After(c)
            a == After(d)
            why == Recompute(d).issues
            v == Values(a.defs)
            u == Values(d.defs)
<1>1. IsDocument(d)
  BY AfterIs
<1>2. /\ DOMAIN a.defs \subseteq DOMAIN d.defs /\ DOMAIN d.defs \subseteq DOMAIN c.defs
      /\ DOMAIN a.fields = DOMAIN d.fields
      /\ \A n \in DOMAIN a.defs :
            /\ a.defs[n].expr = d.defs[n].expr /\ a.defs[n].target = d.defs[n].target
            /\ v[n] = a.defs[n].value /\ Deps(a.defs, n) = Deps(d.defs, n)
      /\ \A n \in DOMAIN d.defs :
            /\ d.defs[n].expr = c.defs[n].expr /\ d.defs[n].target = c.defs[n].target
            /\ u[n] = d.defs[n].value
  <2>1. /\ \A n \in DOMAIN a.defs : v[n] = a.defs[n].value
        /\ \A n \in DOMAIN d.defs : u[n] = d.defs[n].value
    BY DEF Values
  <2>2. /\ DOMAIN d.defs \subseteq DOMAIN c.defs
        /\ \A n \in DOMAIN d.defs :
              d.defs[n].expr = c.defs[n].expr /\ d.defs[n].target = c.defs[n].target
    BY AfterIs
  <2>. HIDE DEF v, u, d
  <2>. QED BY <1>1, <2>1, <2>2, AfterIs
<1>3. \A n \in DOMAIN a.defs : a.defs[n].value = d.defs[n].value
  BY RecomputeOnce
<1>4. ASSUME NEW n \in DOMAIN a.defs
      PROVE  /\ n \in Stuck(a.defs) =>
                   /\ n \in DOMAIN why
                   /\ why[n] = "circular" \/ (why[n] = "target gone" /\ n \in Dangling(a))
             /\ n \notin Stuck(a.defs) =>
                   /\ Fault(a.defs[n].expr, v) # "none" =>
                         n \in DOMAIN why /\ why[n] = Fault(a.defs[n].expr, v)
                   /\ Fault(a.defs[n].expr, v) = "none" =>
                         /\ v[n] = Sum(a.defs[n].expr, v)
                         /\ n \in DOMAIN why <=> n \in Dangling(a)
  BY <1>1, RecomputeIsTrue DEF IsTrue
<1>5. \A n \in DOMAIN d.defs :
         /\ n \in Stuck(d.defs) => u[n] = c.defs[n].value
         /\ n \notin Stuck(d.defs) /\ Fault(d.defs[n].expr, u) # "none" => u[n] = c.defs[n].value
  BY RecomputeIsTrue DEF IsTrue
<1>6. ASSUME NEW n \in DOMAIN a.defs
      PROVE  Fault(a.defs[n].expr, v) = Fault(d.defs[n].expr, u)
  <2>1. DOMAIN v = DOMAIN a.defs /\ DOMAIN u = DOMAIN d.defs
    BY DEF Values
  <2>2. /\ DOMAIN a.defs = DOMAIN Kept(d)
        /\ Range(d.defs[n].expr.refs) \subseteq DOMAIN Kept(d) <=>
              Range(d.defs[n].expr.refs) \subseteq DOMAIN d.defs
    BY <1>1, <1>6, AfterIs, KeptIs
  <2>3. a.defs[n].expr = d.defs[n].expr
    BY <1>2
  <2>4. \A r \in DOMAIN a.defs : v[r] = u[r]
    BY <1>2, <1>3
  <2>. HIDE DEF v, u, a, d
  <2>. QED BY <2>1, <2>2, <2>3, <2>4, SameSum
<1>7. Stuck(a.defs) \subseteq Stuck(d.defs) /\ Stuck(a.defs) \subseteq DOMAIN a.defs
  <2>1. Stuck(a.defs) \subseteq DOMAIN a.defs
    BY DEF Stuck
  <2>. QED BY <1>2, <2>1, StuckGrows
<1>8. ASSUME NEW n \in DOMAIN a.defs, n \in Stuck(a.defs) \/ Fault(a.defs[n].expr, v) # "none",
             n \in DOMAIN before.defs,
             before.defs[n].expr = a.defs[n].expr, before.defs[n].target = a.defs[n].target
      PROVE  v[n] = before.defs[n].value
  <2>1. u[n] = c.defs[n].value
    BY <1>2, <1>5, <1>6, <1>7, <1>8
  <2>2. v[n] = c.defs[n].value
    BY <1>2, <1>3, <2>1
  <2>3. c.defs[n].value = before.defs[n].value
    BY <1>2, <1>8 DEF Carries
  <2>. QED BY <2>2, <2>3
<1>10. FieldsFit(before, a)
  BY CommitFits
<1>. HIDE DEF a, why, v, u, d
<1>. SUFFICES Consistent(before, a, why)
  BY DEF a, why, d
<1>9. v = Values(a.defs)
  BY DEF v
<1>. QED BY <1>2, <1>4, <1>7, <1>8, <1>9, <1>10 DEF Consistent, FieldsFit

\* A recompute leaves the names with the values of their expressions.
LEMMA AfterHolds ==
    ASSUME NEW d, IsDocument(d)
    PROVE  Holds(After(d))
<1>. DEFINE a == After(d)
<1>1. Carries(d, d)
  BY DEF Carries
<1>2. FieldsFit(d, a)
  BY <1>1, MutateFits
<1>3. ASSUME NEW n \in DOMAIN a.defs \ Stuck(a.defs),
             Fault(a.defs[n].expr, Values(a.defs)) = "none"
      PROVE  a.defs[n].value = Sum(a.defs[n].expr, Values(a.defs))
  <2>1. IsTrue(d, n)
    BY RecomputeIsTrue
  <2>2. Values(a.defs)[n] = a.defs[n].value
    BY DEF Values
  <2>. QED BY <1>3, <2>1, <2>2 DEF IsTrue
<1>. HIDE DEF a
<1>. SUFFICES Holds(a)
  BY DEF a
<1>. QED BY <1>2, <1>3 DEF Holds, FieldsFit

------------------------------------------------------------------------
\* Edits of a table.

\* A document is its table and its fields.
LEMMA DocumentIs ==
    ASSUME NEW defs, IsTable(defs), Apart(defs),
           NEW fields, fields \in [DOMAIN fields -> Int], DOMAIN fields \subseteq Field,
           NEW d, d = [defs |-> defs, fields |-> fields]
    PROVE  IsDocument(d) /\ d.defs = defs /\ d.fields = fields
<1>1. d.defs = defs /\ d.fields = fields
  OBVIOUS
<1>2. d = [defs |-> d.defs, fields |-> d.fields]
  BY <1>1
<1>. QED BY <1>1, <1>2 DEF IsDocument, IsTable, Apart

\* The document with another table, or with other fields.
LEMMA NewDefs ==
    ASSUME NEW d, IsDocument(d), NEW defs, IsTable(defs), Apart(defs)
    PROVE  LET e == [d EXCEPT !.defs = defs]
           IN IsDocument(e) /\ e.defs = defs /\ e.fields = d.fields
<1>1. PICK fields : fields = d.fields
  OBVIOUS
<1>2. [d EXCEPT !.defs = defs] = [defs |-> defs, fields |-> fields]
  BY <1>1 DEF IsDocument
<1>3. fields \in [DOMAIN fields -> Int] /\ DOMAIN fields \subseteq Field
  BY <1>1 DEF IsDocument
<1>. QED BY <1>1, <1>2, <1>3, DocumentIs

LEMMA NewFields ==
    ASSUME NEW d, IsDocument(d),
           NEW fields, fields \in [DOMAIN fields -> Int], DOMAIN fields \subseteq Field
    PROVE  LET e == [d EXCEPT !.fields = fields]
           IN IsDocument(e) /\ e.defs = d.defs /\ e.fields = fields
<1>1. PICK defs : defs = d.defs
  OBVIOUS
<1>2. [d EXCEPT !.fields = fields] = [defs |-> defs, fields |-> fields]
  BY <1>1 DEF IsDocument
<1>3. IsTable(defs) /\ Apart(defs)
  BY <1>1 DEF IsDocument, IsTable, Apart
<1>. QED BY <1>1, <1>2, <1>3, DocumentIs

\* The table without the names S.
LEMMA LessIs ==
    ASSUME NEW defs, IsTable(defs), Apart(defs), NEW S
    PROVE  /\ IsTable(Less(defs, S)) /\ Apart(Less(defs, S))
           /\ DOMAIN Less(defs, S) = DOMAIN defs \ S
           /\ \A n \in DOMAIN defs \ S : Less(defs, S)[n] = defs[n]
<1>1. /\ DOMAIN Less(defs, S) = DOMAIN defs \ S
      /\ \A n \in DOMAIN defs \ S : Less(defs, S)[n] = defs[n]
      /\ Less(defs, S) = [n \in DOMAIN Less(defs, S) |-> Less(defs, S)[n]]
  BY DEF Less
<1>. QED BY <1>1 DEF IsTable, Apart

\* The table with n -> p.
IsOver(defs, n, p, new) ==
    /\ IsTable(new) /\ DOMAIN new = DOMAIN defs \cup {n}
    /\ new[n] = p /\ \A m \in DOMAIN defs : m # n => new[m] = defs[m]

LEMMA OverIs ==
    ASSUME NEW defs, IsTable(defs), NEW n \in Name, NEW p \in ParamDef
    PROVE  IsOver(defs, n, p, Over(defs, One(n, p)))
<1>. DEFINE o == Over(defs, One(n, p))
<1>1. DOMAIN One(n, p) = {n} /\ One(n, p)[n] = p
  BY DEF One
<1>2. /\ DOMAIN o = DOMAIN defs \cup {n}
      /\ \A m \in DOMAIN o : o[m] = IF m = n THEN p ELSE defs[m]
      /\ o = [m \in DOMAIN o |-> o[m]]
  BY <1>1 DEF Over
<1>. HIDE DEF o
<1>3. IsTable(o)
  BY <1>2 DEF IsTable
<1>. QED BY <1>2, <1>3 DEF o, IsOver

\* n may be bound to the target: it is in the table, or no other name has that target.
MayTake(defs, n, target) ==
    n \in DOMAIN defs \/ target = Null \/ \A m \in DOMAIN defs : defs[m].target # target

\* What a commit writes: n has the expression, and is bound to the target if it is new.
IsWithExpr(defs, n, expr, target, new) ==
    /\ IsTable(new) /\ Apart(new)
    /\ DOMAIN new = DOMAIN defs \cup {n}
    /\ new[n].expr = expr
    /\ n \in DOMAIN defs => new[n].value = defs[n].value /\ new[n].target = defs[n].target
    /\ n \notin DOMAIN defs => new[n].value = 0 /\ new[n].target = target
    /\ \A m \in DOMAIN defs : m # n => new[m] = defs[m]

LEMMA WithExprIs ==
    ASSUME NEW defs, IsTable(defs), Apart(defs), NEW n \in Name, NEW expr \in Expr,
           NEW target \in Field \cup {Null}, MayTake(defs, n, target)
    PROVE  IsWithExpr(defs, n, expr, target, WithExpr(defs, n, expr, target))
<1>. DEFINE p == IF n \in DOMAIN defs THEN [defs[n] EXCEPT !.expr = expr]
                 ELSE [expr |-> expr, value |-> 0, target |-> target]
            new == WithExpr(defs, n, expr, target)
<1>1. /\ p \in ParamDef /\ p.expr = expr
      /\ n \in DOMAIN defs => p.value = defs[n].value /\ p.target = defs[n].target
      /\ n \notin DOMAIN defs => p.value = 0 /\ p.target = target
  <2>1. CASE n \in DOMAIN defs
    <3>1. defs[n] \in ParamDef
      BY <2>1 DEF IsTable
    <3>. QED BY <2>1, <3>1 DEF ParamDef
  <2>2. CASE n \notin DOMAIN defs
    <3>1. 0 \in Number
      BY BoundsAreNumbers DEF Number
    <3>2. p = [expr |-> expr, value |-> 0, target |-> target]
      BY <2>2
    <3>. HIDE DEF p
    <3>. QED BY <2>2, <3>1, <3>2 DEF ParamDef
  <2>. QED BY <2>1, <2>2
<1>2. new = Over(defs, One(n, p))
  BY DEF WithExpr
<1>. HIDE DEF p, new
<1>3. /\ IsTable(new) /\ DOMAIN new = DOMAIN defs \cup {n} /\ new[n] = p
      /\ \A m \in DOMAIN defs : m # n => new[m] = defs[m]
  <2>1. p \in ParamDef
    BY <1>1
  <2>2. IsOver(defs, n, p, new)
    BY <2>1, <1>2, OverIs
  <2>. QED BY <2>2 DEF IsOver
<1>4. Apart(new)
  <2>. SUFFICES ASSUME NEW l \in DOMAIN new, NEW m \in DOMAIN new,
                       new[l].target = new[m].target, new[l].target # Null
                PROVE  l = m
    BY DEF Apart
  <2>1. CASE l = n /\ n \notin DOMAIN defs
    BY <1>1, <1>3, <2>1 DEF MayTake
  <2>2. CASE m = n /\ n \notin DOMAIN defs
    BY <1>1, <1>3, <2>2 DEF MayTake
  <2>3. CASE n \in DOMAIN defs \/ (l # n /\ m # n)
    <3>1. /\ l \in DOMAIN defs /\ m \in DOMAIN defs
          /\ new[l].target = defs[l].target /\ new[m].target = defs[m].target
      BY <1>1, <1>3, <2>3
    <3>. QED BY <3>1 DEF Apart
  <2>. QED BY <2>1, <2>2, <2>3
<1>. QED BY <1>1, <1>3, <1>4 DEF new, IsWithExpr

\* The expression with `to` for `from`.
LEMMA RenamedExprIs ==
    ASSUME NEW e \in Expr, NEW from, NEW to \in Name
    PROVE  LET r == RenamedExpr(e, from, to)
           IN /\ r \in Expr /\ r.plus = e.plus /\ r.parses = e.parses
              /\ DOMAIN r.refs = DOMAIN e.refs
              /\ \A i \in DOMAIN e.refs :
                    r.refs[i] = IF e.refs[i] = from THEN to ELSE e.refs[i]
<1>. DEFINE s == [i \in DOMAIN e.refs |-> IF e.refs[i] = from THEN to ELSE e.refs[i]]
<1>1. /\ e.refs \in Seq(Name) /\ e.plus \in Int /\ e.parses \in BOOLEAN
      /\ e.parses \/ e.refs = <<>>
      /\ e = [refs |-> e.refs, plus |-> e.plus, parses |-> e.parses]
  BY DEF Expr
<1>2. DOMAIN e.refs = 1..Len(e.refs) /\ Len(e.refs) \in Nat
      /\ \A i \in DOMAIN e.refs : e.refs[i] \in Name
  BY <1>1
<1>3. s \in Seq(Name) /\ Len(s) = Len(e.refs)
  BY <1>2
<1>4. e.refs = <<>> => s = <<>>
  BY <1>2, <1>3
<1>5. DOMAIN s = DOMAIN e.refs
      /\ \A i \in DOMAIN e.refs : s[i] = IF e.refs[i] = from THEN to ELSE e.refs[i]
  OBVIOUS
<1>6. RenamedExpr(e, from, to) = [e EXCEPT !.refs = s]
  BY DEF RenamedExpr
<1>. HIDE DEF s
<1>7. [e EXCEPT !.refs = s] = [refs |-> s, plus |-> e.plus, parses |-> e.parses]
  BY <1>1
<1>8. PICK r : r = [refs |-> s, plus |-> e.plus, parses |-> e.parses]
  OBVIOUS
<1>9. r \in Expr
  BY <1>1, <1>3, <1>4, <1>8 DEF Expr
<1>. QED BY <1>5, <1>6, <1>7, <1>8, <1>9

\* commitRenameParam: `to` is what `from` was, and every reference follows.
IsRenamed(defs, from, to, new) ==
    /\ IsTable(new) /\ Apart(new)
    /\ DOMAIN new = (DOMAIN defs \ {from}) \cup {to}
    /\ \A n \in DOMAIN new \ {to} :
          /\ new[n].expr = RenamedExpr(defs[n].expr, from, to)
          /\ new[n].value = defs[n].value /\ new[n].target = defs[n].target
    /\ new[to].expr = RenamedExpr(defs[from].expr, from, to)
    /\ new[to].value = defs[from].value /\ new[to].target = defs[from].target

LEMMA RenamedIs ==
    ASSUME NEW defs, IsTable(defs), Apart(defs), NEW from \in DOMAIN defs, NEW to \in Name,
           from # to
    PROVE  IsRenamed(defs, from, to, Renamed(defs, from, to))
<1>. DEFINE P(n) == [defs[n] EXCEPT !.expr = RenamedExpr(@, from, to)]
            now == [n \in DOMAIN defs |-> P(n)]
            less == Less(now, {from})
            new == Over(less, One(to, now[from]))
<1>1. new = Renamed(defs, from, to)
  BY DEF Renamed
<1>2. ASSUME NEW n \in DOMAIN defs
      PROVE  /\ P(n).expr = RenamedExpr(defs[n].expr, from, to)
             /\ P(n).value = defs[n].value /\ P(n).target = defs[n].target
             /\ P(n) \in ParamDef
  <2>1. PICK p : p = defs[n]
    OBVIOUS
  <2>2. /\ p = [expr |-> p.expr, value |-> p.value, target |-> p.target]
        /\ p.expr \in Expr /\ p.value \in Number /\ p.target \in Field \cup {Null}
    BY <2>1, TableIs
  <2>3. PICK q : q = RenamedExpr(p.expr, from, to)
    OBVIOUS
  <2>4. q \in Expr
    BY <2>2, <2>3, RenamedExprIs
  <2>5. P(n) = [p EXCEPT !.expr = q]
    BY <2>1, <2>3
  <2>6. [p EXCEPT !.expr = q] = [expr |-> q, value |-> p.value, target |-> p.target]
    BY <2>2
  <2>. HIDE DEF P
  <2>. QED BY <2>1, <2>2, <2>3, <2>4, <2>5, <2>6 DEF ParamDef
<1>3. /\ DOMAIN now = DOMAIN defs /\ \A n \in DOMAIN defs : now[n] = P(n)
      /\ now = [n \in DOMAIN now |-> now[n]]
  OBVIOUS
<1>. HIDE DEF P, now
<1>5. /\ \A n \in DOMAIN defs : /\ now[n].expr = RenamedExpr(defs[n].expr, from, to)
                                /\ now[n].value = defs[n].value
                                /\ now[n].target = defs[n].target
                                /\ now[n] \in ParamDef
  BY <1>2, <1>3
<1>6. IsTable(now) /\ Apart(now)
  BY <1>3, <1>5 DEF IsTable, Apart
<1>7. /\ IsTable(less) /\ Apart(less)
      /\ DOMAIN less = DOMAIN defs \ {from}
      /\ \A n \in DOMAIN defs \ {from} : less[n] = now[n]
  BY <1>3, <1>6, LessIs
<1>8. /\ IsTable(new) /\ DOMAIN new = (DOMAIN defs \ {from}) \cup {to} /\ new[to] = now[from]
      /\ \A n \in DOMAIN defs \ {from} : n # to => new[n] = now[n]
  <2>1. now[from] \in ParamDef
    BY <1>5
  <2>2. IsOver(less, to, now[from], new)
    <3>. HIDE DEF less
    <3>. QED BY <1>7, <2>1, OverIs
  <2>. HIDE DEF less, new
  <2>. QED BY <1>7, <2>2 DEF IsOver
<1>. HIDE DEF new, less
<1>9. Apart(new)
  <2>. SUFFICES ASSUME NEW l \in DOMAIN new, NEW m \in DOMAIN new,
                       new[l].target = new[m].target, new[l].target # Null
                PROVE  l = m
    BY DEF Apart
  <2>. DEFINE was(n) == IF n = to THEN from ELSE n
  <2>1. \A n \in DOMAIN new : was(n) \in DOMAIN defs /\ new[n].target = now[was(n)].target
    BY <1>8
  <2>2. was(l) = was(m)
    BY <1>3, <1>6, <2>1 DEF Apart
  <2>. QED BY <1>8, <2>2
<1>10. /\ \A n \in DOMAIN new \ {to} :
             /\ new[n].expr = RenamedExpr(defs[n].expr, from, to)
             /\ new[n].value = defs[n].value /\ new[n].target = defs[n].target
       /\ new[to].expr = RenamedExpr(defs[from].expr, from, to)
       /\ new[to].value = defs[from].value /\ new[to].target = defs[from].target
  BY <1>5, <1>8
<1>. QED BY <1>1, <1>8, <1>9, <1>10 DEF IsRenamed

------------------------------------------------------------------------
\* Commits.

\* A bounded set of naturals has a greatest element: Max is it.
LEMMA MaxOfBounded ==
    ASSUME NEW n \in Nat, NEW X \in SUBSET (0..n), X # {}
    PROVE  /\ Max(X) \in X
           /\ \A m \in X : m <= Max(X)
<1>. DEFINE Y == {n - x : x \in X}
<1>1. Y \in SUBSET Nat /\ Y # {}
  <2>1. \A x \in X : n - x \in Nat
    OBVIOUS
  <2>. QED BY <2>1
<1>2. PICK y \in Y : \A z \in Y : y <= z
  <2>. HIDE DEF Y
  <2>. QED BY <1>1, Least
<1>3. PICK x \in X : y = n - x
  BY <1>2
<1>4. \A m \in X : x >= m
  BY <1>2, <1>3
<1>. QED BY <1>4 DEF Max

\* The name minted is not in the table.
LEMMA NextIs ==
    ASSUME NEW defs
    PROVE  /\ NextDName(defs) \in Nat
           /\ NextDName(defs) <= MaxAuto => NextDName(defs) \in Name \ DOMAIN defs
<1>. DEFINE X == {0} \cup (DOMAIN defs \cap 1..MaxAuto)
<1>1. MaxAuto \in Nat
  BY BoundsAreNumbers
<1>2. X \in SUBSET (0..MaxAuto) /\ X # {}
  BY <1>1
<1>. HIDE DEF X
<1>3. Max(X) \in X /\ \A m \in X : m <= Max(X)
  BY <1>1, <1>2, MaxOfBounded
<1>4. NextDName(defs) = Max(X) + 1
  BY DEF NextDName, X
<1>5. PICK k : k = Max(X)
  OBVIOUS
<1>6. k \in 0..MaxAuto /\ NextDName(defs) = k + 1
  BY <1>2, <1>3, <1>4, <1>5
<1>7. k + 1 \in Nat /\ (k + 1 <= MaxAuto => k + 1 \in 1..MaxAuto)
  BY <1>1, <1>6
<1>8. k + 1 <= MaxAuto => k + 1 \notin DOMAIN defs
  <2>1. SUFFICES ASSUME k + 1 <= MaxAuto, k + 1 \in DOMAIN defs PROVE FALSE
    OBVIOUS
  <2>2. k + 1 \in X
    BY <1>7, <2>1 DEF X
  <2>. QED BY <1>3, <1>5, <1>6, <2>2
<1>. QED BY <1>6, <1>7, <1>8 DEF Name

\* The parameter bound to a field, if there is one.
LEMMA BoundIs ==
    ASSUME NEW defs, IsTable(defs), NEW f \in Field
    PROVE  LET b == BoundParam(defs, f)
           IN /\ b = Null => \A m \in DOMAIN defs : defs[m].target # f
              /\ b # Null => b \in DOMAIN defs /\ defs[b].target = f
<1>1. Null \notin DOMAIN defs
  BY NamesAreApart DEF IsTable
<1>2. CASE BoundTo(defs, f) = {}
  BY <1>2 DEF BoundParam, BoundTo
<1>3. CASE BoundTo(defs, f) # {}
  <2>1. BoundParam(defs, f) \in BoundTo(defs, f)
    BY <1>3 DEF BoundParam
  <2>. QED BY <1>1, <2>1 DEF BoundTo
<1>. QED BY <1>2, <1>3

\* The table of a commit, and the name it writes.
NewTable(defs, c) ==
    CASE c.kind = "param" -> CommitParamExpr(defs, c)
      [] c.kind = "field" -> CommitFieldExpr(defs, c)
      [] c.kind = "named" -> CommitNamedFieldExpr(defs, c)

Into(defs, c) ==
    IF c.kind = "field"
    THEN IF BoundParam(defs, c.target) = Null THEN NextDName(defs) ELSE BoundParam(defs, c.target)
    ELSE c.name

\* The parameter a commit is about.
About(defs, c) == IF c.kind = "param" THEN c.name ELSE BoundParam(defs, c.target)

LEMMA CommitIs ==
    ASSUME NEW c \in Commit
    PROVE  /\ c.kind \in {"param", "field", "named"} /\ c.expr \in Expr
           /\ c.alone \in BOOLEAN
           /\ c.kind = "param" => c.name \in Name /\ c.target = Null
           /\ c.kind = "field" => c.target \in Field
           /\ c.kind = "named" => c.target \in Field /\ c.name \in Name
BY InputsAreTyped DEF Commit, Name

\* A commit writes its expression under one name; the others keep what they had, but for
\* the references that follow a rename.
IsCommitted(defs, new, c) ==
    LET w == Into(defs, c)
    IN /\ IsTable(new) /\ Apart(new) /\ w \in DOMAIN new /\ w \in Name
       /\ new[w].expr = c.expr
       /\ c.kind = "param" /\ w \in DOMAIN defs =>
             new[w].value = defs[w].value /\ new[w].target = defs[w].target
       /\ c.kind # "param" =>
             /\ new[w].target = c.target
             /\ w \in DOMAIN defs /\ defs[w].target = c.target => new[w].value = defs[w].value
       /\ DOMAIN new \ {w} = DOMAIN defs \ {w, About(defs, c)}
       /\ \A n \in DOMAIN new \ {w} :
             /\ new[n].value = defs[n].value /\ new[n].target = defs[n].target
             /\ new[n].expr = IF c.kind = "named" /\ About(defs, c) # Null
                              THEN RenamedExpr(defs[n].expr, About(defs, c), w)
                              ELSE defs[n].expr

LEMMA ParamCommit ==
    ASSUME NEW defs, IsTable(defs), Apart(defs), NEW c \in Commit, c.kind = "param"
    PROVE  IsCommitted(defs, NewTable(defs, c), c)
<1>. DEFINE new == WithExpr(defs, c.name, c.expr, Null)
<1>1. c.name \in Name /\ c.expr \in Expr
  BY CommitIs
<1>2. NewTable(defs, c) = new
  BY DEF NewTable, CommitParamExpr
<1>3. /\ IsTable(new) /\ Apart(new)
      /\ DOMAIN new = DOMAIN defs \cup {c.name}
      /\ new[c.name].expr = c.expr
      /\ c.name \in DOMAIN defs =>
            new[c.name].value = defs[c.name].value /\ new[c.name].target = defs[c.name].target
      /\ \A m \in DOMAIN defs : m # c.name => new[m] = defs[m]
  <2>1. MayTake(defs, c.name, Null)
    BY DEF MayTake
  <2>2. IsWithExpr(defs, c.name, c.expr, Null, new)
    BY <1>1, <2>1, WithExprIs
  <2>. HIDE DEF new
  <2>. QED BY <2>2 DEF IsWithExpr
<1>. HIDE DEF new
<1>4. Into(defs, c) = c.name /\ About(defs, c) = c.name
  BY DEF Into, About
<1>. QED BY <1>1, <1>2, <1>3, <1>4 DEF IsCommitted

LEMMA FieldCommit ==
    ASSUME NEW defs, IsTable(defs), Apart(defs), NEW c \in Commit, c.kind = "field",
           ~Fails(defs, c)
    PROVE  IsCommitted(defs, NewTable(defs, c), c)
<1>. DEFINE w == Into(defs, c)
            new == WithExpr(defs, w, c.expr, c.target)
<1>1. c.target \in Field /\ c.expr \in Expr
  BY CommitIs
<1>2. NewTable(defs, c) = new
  BY DEF NewTable, CommitFieldExpr, Into
<1>3. PICK b : b = BoundParam(defs, c.target)
  OBVIOUS
<1>4. /\ b = Null => \A m \in DOMAIN defs : defs[m].target # c.target
      /\ b # Null => b \in DOMAIN defs /\ defs[b].target = c.target
  BY <1>1, <1>3, BoundIs
<1>5. /\ b = Null => w \in Name \ DOMAIN defs
      /\ b # Null => w = b
  <2>2. NextDName(defs) <= MaxAuto
    BY NextIs, BoundsAreNumbers DEF Fails
  <2>. QED BY <1>3, <2>2, NextIs DEF Into
<1>6. w \in Name
  BY <1>4, <1>5 DEF IsTable
<1>7. About(defs, c) = b
  BY <1>3 DEF About
<1>. HIDE DEF w
<1>8. /\ IsTable(new) /\ Apart(new)
      /\ DOMAIN new = DOMAIN defs \cup {w}
      /\ new[w].expr = c.expr
      /\ w \in DOMAIN defs =>
            new[w].value = defs[w].value /\ new[w].target = defs[w].target
      /\ w \notin DOMAIN defs => new[w].target = c.target
      /\ \A m \in DOMAIN defs : m # w => new[m] = defs[m]
  <2>1. MayTake(defs, w, c.target)
    BY <1>4, <1>5 DEF MayTake
  <2>2. c.target \in Field \cup {Null}
    BY <1>1
  <2>3. IsWithExpr(defs, w, c.expr, c.target, new)
    BY <1>1, <1>6, <2>1, <2>2, WithExprIs
  <2>. HIDE DEF new
  <2>. QED BY <2>3 DEF IsWithExpr
<1>. HIDE DEF new
<1>9. Null \notin DOMAIN defs
  BY NamesAreApart DEF IsTable
<1>10. DOMAIN new \ {w} = DOMAIN defs \ {w, b}
  BY <1>4, <1>5, <1>8, <1>9
<1>11. new[w].target = c.target
  BY <1>4, <1>5, <1>8
<1>. QED BY <1>2, <1>6, <1>7, <1>8, <1>10, <1>11 DEF IsCommitted, w

LEMMA NamedCommit ==
    ASSUME NEW defs, IsTable(defs), Apart(defs), NEW c \in Commit, c.kind = "named",
           ~Fails(defs, c)
    PROVE  IsCommitted(defs, NewTable(defs, c), c)
<1>. DEFINE b == BoundParam(defs, c.target)
            mid == IF b = Null THEN Less(defs, {c.name}) ELSE Renamed(defs, b, c.name)
            new == WithExpr(mid, c.name, c.expr, c.target)
<1>1. c.target \in Field /\ c.expr \in Expr /\ c.name \in Name
  BY CommitIs
<1>2. NewTable(defs, c) = new
  BY DEF NewTable, CommitNamedFieldExpr
<1>3. Into(defs, c) = c.name /\ About(defs, c) = b
  BY DEF Into, About
<1>4. /\ b = Null => \A m \in DOMAIN defs : defs[m].target # c.target
      /\ b # Null => b \in DOMAIN defs /\ defs[b].target = c.target
  BY <1>1, BoundIs
<1>5. b # c.name
  BY DEF Fails
<1>6. Null \notin DOMAIN defs /\ c.target # Null
  BY <1>1, NamesAreApart DEF IsTable
<1>. HIDE DEF b
<1>7. CASE b = Null
  <2>1. /\ IsTable(mid) /\ Apart(mid)
        /\ DOMAIN mid = DOMAIN defs \ {c.name}
        /\ \A n \in DOMAIN defs \ {c.name} : mid[n] = defs[n]
    BY <1>7, LessIs
  <2>. HIDE DEF mid
  <2>2. MayTake(mid, c.name, c.target)
    BY <1>4, <1>7, <2>1 DEF MayTake
  <2>3. /\ IsTable(new) /\ Apart(new)
        /\ DOMAIN new = DOMAIN mid \cup {c.name}
        /\ new[c.name].expr = c.expr
        /\ new[c.name].target = c.target
        /\ \A m \in DOMAIN mid : m # c.name => new[m] = mid[m]
    <3>1. c.target \in Field \cup {Null} /\ IsTable(mid) /\ Apart(mid)
      BY <1>1, <2>1
    <3>2. IsWithExpr(mid, c.name, c.expr, c.target, new)
      BY <1>1, <2>2, <3>1, WithExprIs
    <3>. HIDE DEF new
    <3>. QED BY <2>1, <3>2 DEF IsWithExpr
  <2>. HIDE DEF new
  <2>4. DOMAIN new \ {c.name} = DOMAIN defs \ {c.name, b}
    BY <1>6, <1>7, <2>1, <2>3
  <2>5. \A n \in DOMAIN new \ {c.name} : new[n] = defs[n]
    BY <2>1, <2>3
  <2>6. c.name \in DOMAIN defs => defs[c.name].target # c.target
    BY <1>4, <1>7
  <2>. QED BY <1>1, <1>2, <1>3, <1>7, <2>3, <2>4, <2>5, <2>6 DEF IsCommitted
<1>8. CASE b # Null
  <2>1. /\ IsTable(mid) /\ Apart(mid)
        /\ DOMAIN mid = (DOMAIN defs \ {b}) \cup {c.name}
        /\ \A n \in DOMAIN mid \ {c.name} :
              /\ mid[n].expr = RenamedExpr(defs[n].expr, b, c.name)
              /\ mid[n].value = defs[n].value /\ mid[n].target = defs[n].target
        /\ mid[c.name].target = defs[b].target
    <3>1. mid = Renamed(defs, b, c.name)
      BY <1>8
    <3>2. b \in DOMAIN defs
      BY <1>4, <1>8
    <3>. HIDE DEF mid
    <3>3. IsRenamed(defs, b, c.name, mid)
      BY <1>1, <1>5, <3>1, <3>2, RenamedIs
    <3>. QED BY <3>3 DEF IsRenamed
  <2>. HIDE DEF mid
  <2>2. c.name \in DOMAIN mid
    BY <2>1
  <2>3. /\ IsTable(new) /\ Apart(new)
        /\ DOMAIN new = DOMAIN mid \cup {c.name}
        /\ new[c.name].expr = c.expr
        /\ new[c.name].target = mid[c.name].target
        /\ \A m \in DOMAIN mid : m # c.name => new[m] = mid[m]
    <3>1. c.target \in Field \cup {Null} /\ IsTable(mid) /\ Apart(mid)
      BY <1>1, <2>1
    <3>2. MayTake(mid, c.name, c.target)
      BY <2>2 DEF MayTake
    <3>3. IsWithExpr(mid, c.name, c.expr, c.target, new)
      BY <1>1, <3>1, <3>2, WithExprIs
    <3>. HIDE DEF new
    <3>. QED BY <2>2, <3>3 DEF IsWithExpr
  <2>. HIDE DEF new
  <2>4. DOMAIN new \ {c.name} = DOMAIN defs \ {c.name, b}
    BY <2>1, <2>3
  <2>5. \A n \in DOMAIN new \ {c.name} :
            /\ new[n].expr = RenamedExpr(defs[n].expr, b, c.name)
            /\ new[n].value = defs[n].value /\ new[n].target = defs[n].target
    BY <2>1, <2>3
  <2>6. c.name \in DOMAIN defs => defs[c.name].target # c.target
    BY <1>4, <1>5, <1>6, <1>8 DEF Apart
  <2>7. new[c.name].target = c.target
    BY <1>4, <1>8, <2>1, <2>3
  <2>. QED BY <1>1, <1>2, <1>3, <1>8, <2>3, <2>4, <2>5, <2>6, <2>7 DEF IsCommitted
<1>. QED BY <1>7, <1>8

\* What lands is a document whose numbers are those of before.
LEMMA CommittedIs ==
    ASSUME NEW d, IsDocument(d), NEW c \in Commit, ~Fails(d.defs, c)
    PROVE  LET e == Committed(d, c)
           IN /\ IsDocument(e) /\ e.fields = d.fields /\ IsCommitted(d.defs, e.defs, c)
              /\ Carries(d, e)
<1>. DEFINE new == NewTable(d.defs, c)
            e == Committed(d, c)
<1>1. IsTable(d.defs) /\ Apart(d.defs)
  BY DefsOf
<1>2. IsCommitted(d.defs, new, c)
  <2>. HIDE DEF new
  <2>1. c.kind \in {"param", "field", "named"}
    BY CommitIs
  <2>. QED BY <1>1, <2>1, ParamCommit, FieldCommit, NamedCommit DEF new
<1>3. e = [d EXCEPT !.defs = new]
  BY DEF Committed, NewTable
<1>. HIDE DEF new
<1>4. IsDocument(e) /\ e.fields = d.fields /\ e.defs = new
  <2>1. IsTable(new) /\ Apart(new)
    BY <1>2 DEF IsCommitted
  <2>. QED BY <1>3, <2>1, NewDefs
<1>. HIDE DEF e
<1>5. Carries(d, e)
  <2>. SUFFICES ASSUME NEW n \in DOMAIN new, n \in DOMAIN d.defs,
                       d.defs[n].target = new[n].target
                PROVE  new[n].value = d.defs[n].value
    BY <1>4 DEF Carries
  <2>. QED BY <1>2 DEF IsCommitted
<1>. QED BY <1>2, <1>4, <1>5 DEF e

------------------------------------------------------------------------
\* Steps.

\* Every change of the document is the recompute of a table whose numbers are those of
\* before, once or twice; without a table it leaves the issues.
IsChange(d) ==
    /\ IsDocument(d) /\ Carries(doc, d)
    /\ Mutate(d) \/ Mutate(After(d)) \/ (d.defs = <<>> /\ Recomputed(d) /\ UNCHANGED issues)

LEMMA RenameChanges ==
    ASSUME IsDocument(doc), NEW from \in DOMAIN doc.defs, NEW to \in User \ DOMAIN doc.defs,
           RenameParam(from, to)
    PROVE  IsChange([doc EXCEPT !.defs = Renamed(@, from, to)])
<1>. DEFINE new == Renamed(doc.defs, from, to)
            e == [doc EXCEPT !.defs = new]
<1>1. IsTable(doc.defs) /\ Apart(doc.defs) /\ to \in Name /\ from # to
  BY DefsOf DEF Name
<1>2. /\ IsTable(new) /\ Apart(new)
      /\ DOMAIN new = (DOMAIN doc.defs \ {from}) \cup {to}
      /\ \A n \in DOMAIN new \ {to} : new[n].value = doc.defs[n].value
  <2>1. IsRenamed(doc.defs, from, to, new)
    BY <1>1, RenamedIs
  <2>. HIDE DEF new
  <2>. QED BY <2>1 DEF IsRenamed
<1>3. Mutate(e)
  BY DEF RenameParam
<1>. HIDE DEF new
<1>4. IsDocument(e) /\ e.defs = new /\ e.fields = doc.fields
  BY <1>2, NewDefs
<1>. HIDE DEF e
<1>5. Carries(doc, e)
  BY <1>2, <1>4 DEF Carries
<1>. QED BY <1>3, <1>4, <1>5 DEF IsChange, e, new

LEMMA DeleteChanges ==
    ASSUME IsDocument(doc), NEW name, DeleteParam(name)
    PROVE  IsChange([doc EXCEPT !.defs = Less(@, {name})])
<1>. DEFINE new == Less(doc.defs, {name})
            e == [doc EXCEPT !.defs = new]
<1>1. IsTable(doc.defs) /\ Apart(doc.defs)
  BY DefsOf
<1>2. /\ IsTable(new) /\ Apart(new) /\ DOMAIN new = DOMAIN doc.defs \ {name}
      /\ \A n \in DOMAIN doc.defs \ {name} : new[n] = doc.defs[n]
  BY <1>1, LessIs
<1>3. Mutate(e)
  BY DEF DeleteParam
<1>. HIDE DEF new
<1>4. IsDocument(e) /\ e.defs = new /\ e.fields = doc.fields
  BY <1>2, NewDefs
<1>. HIDE DEF e
<1>5. Carries(doc, e)
  BY <1>2, <1>4 DEF Carries
<1>. QED BY <1>3, <1>4, <1>5 DEF IsChange, e, new

\* A change of the fields leaves the table, and the bound fields.
LEMMA FieldsChange ==
    ASSUME IsDocument(doc),
           NEW fields, fields \in [DOMAIN fields -> Int], DOMAIN fields \subseteq Field,
           \A n \in DOMAIN doc.defs : doc.defs[n].target \in DOMAIN fields \cap DOMAIN doc.fields =>
               fields[doc.defs[n].target] = doc.fields[doc.defs[n].target],
           MutateFields(fields)
    PROVE  \E d : IsChange(d)
<1>. DEFINE e == [doc EXCEPT !.fields = fields]
<1>1. IsDocument(e) /\ e.defs = doc.defs /\ e.fields = fields
  BY NewFields
<1>2. Recomputed(e) /\ (issues' = Recompute(e).issues \/ (doc.defs = <<>> /\ UNCHANGED issues))
  BY DEF MutateFields
<1>. HIDE DEF e
<1>3. Carries(doc, e)
  BY <1>1 DEF Carries
<1>. QED BY <1>1, <1>2, <1>3 DEF IsChange, Mutate

LEMMA LandChanges ==
    ASSUME IsDocument(doc), Head(chain) \in Commit, Land
    PROVE  /\ IsChange(Committed(doc, Head(chain)))
           /\ Mutate(After(Committed(doc, Head(chain))))
<1>. DEFINE c == Head(chain)
            e == Committed(doc, c)
<1>1. ~Fails(doc.defs, c) /\ Mutate(After(e))
  BY DEF Land, After
<1>2. c \in Commit
  OBVIOUS
<1>. HIDE DEF c
<1>3. IsDocument(e) /\ Carries(doc, e)
  BY <1>1, <1>2, CommittedIs
<1>. HIDE DEF e
<1>. QED BY <1>1, <1>3 DEF IsChange, e, c

LEMMA SetChanges ==
    ASSUME IsDocument(doc), SetTargetValue
    PROVE  \E d : IsChange(d)
<1>1. PICK f \in DOMAIN doc.fields, v \in Entered :
          /\ BoundParam(doc.defs, f) = Null
          /\ MutateFields(Over(doc.fields, One(f, Taken(f, doc.fields[f], v))))
  BY DEF SetTargetValue
<1>2. PICK x : x = Taken(f, doc.fields[f], v)
  OBVIOUS
<1>3. IsTable(doc.defs) /\ doc.fields \in [DOMAIN doc.fields -> Int] /\ DOMAIN doc.fields \subseteq Field
  BY DefsOf
<1>4. x \in Int
  <2>1. doc.fields[f] \in Int /\ v \in Int
    BY <1>3, InputsAreTyped, NumbersAreIntegers
  <2>. QED BY <1>2, <2>1, TakenIs DEF Took
<1>. DEFINE fields == Over(doc.fields, One(f, x))
<1>5. /\ DOMAIN fields = DOMAIN doc.fields /\ fields = [g \in DOMAIN fields |-> fields[g]]
      /\ \A g \in DOMAIN fields : fields[g] = IF g = f THEN x ELSE doc.fields[g]
  BY DEF Over, One
<1>6. MutateFields(fields)
  BY <1>1, <1>2
<1>. HIDE DEF fields
<1>7. fields \in [DOMAIN fields -> Int] /\ DOMAIN fields \subseteq Field
  BY <1>3, <1>4, <1>5
<1>8. \A n \in DOMAIN doc.defs : doc.defs[n].target # f
  BY <1>1, <1>3, BoundIs
<1>9. \A n \in DOMAIN doc.defs : doc.defs[n].target \in DOMAIN fields \cap DOMAIN doc.fields =>
         fields[doc.defs[n].target] = doc.fields[doc.defs[n].target]
  BY <1>5, <1>8
<1>. QED BY <1>6, <1>7, <1>9, FieldsChange

LEMMA RemoveChanges ==
    ASSUME IsDocument(doc), RemoveField
    PROVE  \E d : IsChange(d)
<1>1. PICK f \in DOMAIN doc.fields : MutateFields(Less(doc.fields, {f}))
  BY DEF RemoveField
<1>2. doc.fields \in [DOMAIN doc.fields -> Int] /\ DOMAIN doc.fields \subseteq Field
  BY DefsOf
<1>. DEFINE fields == Less(doc.fields, {f})
<1>3. /\ fields \in [DOMAIN fields -> Int] /\ DOMAIN fields \subseteq Field
      /\ \A g \in DOMAIN fields : fields[g] = doc.fields[g]
  BY <1>2 DEF Less
<1>4. MutateFields(fields)
  BY <1>1
<1>. HIDE DEF fields
<1>. QED BY <1>3, <1>4, FieldsChange

LEMMA AddChanges ==
    ASSUME IsDocument(doc), AddField
    PROVE  \E d : IsChange(d)
<1>1. PICK f \in Field \ DOMAIN doc.fields, v \in Entered :
          MutateFields(Over(doc.fields, One(f, Taken(f, v, v))))
  BY DEF AddField
<1>2. PICK x : x = Taken(f, v, v)
  OBVIOUS
<1>3. doc.fields \in [DOMAIN doc.fields -> Int] /\ DOMAIN doc.fields \subseteq Field
  BY DefsOf
<1>4. x \in Int
  BY <1>2, InputsAreTyped, NumbersAreIntegers, TakenIs DEF Took
<1>. DEFINE fields == Over(doc.fields, One(f, x))
<1>5. /\ DOMAIN fields = DOMAIN doc.fields \cup {f} /\ fields = [g \in DOMAIN fields |-> fields[g]]
      /\ \A g \in DOMAIN fields : fields[g] = IF g = f THEN x ELSE doc.fields[g]
  BY DEF Over, One
<1>6. MutateFields(fields)
  BY <1>1, <1>2
<1>. HIDE DEF fields
<1>7. fields \in [DOMAIN fields -> Int] /\ DOMAIN fields \subseteq Field
  BY <1>3, <1>4, <1>5
<1>8. \A g \in DOMAIN fields \cap DOMAIN doc.fields : fields[g] = doc.fields[g]
  BY <1>5
<1>. QED BY <1>6, <1>7, <1>8, FieldsChange

LEMMA Changes ==
    ASSUME TypeOK, [Next]_vars
    PROVE  UNCHANGED document \/ (\E d : IsChange(d)) \/ Restores
<1>1. IsDocument(doc) /\ chain \in Seq(Commit)
  BY DEF TypeOK
<1>2. CASE SetParamExpr \/ SetTargetExpr \/ NameTarget
  BY <1>2 DEF SetParamExpr, SetTargetExpr, NameTarget, Queue
<1>3. CASE Land
  <2>1. Head(chain) \in Commit
    BY <1>1, <1>3 DEF Land
  <2>. QED BY <1>1, <1>3, <2>1, LandChanges
<1>4. CASE Refused
  BY <1>4 DEF Refused
<1>5. CASE Rename
  <2>1. PICK from \in DOMAIN doc.defs, to \in User \ DOMAIN doc.defs : RenameParam(from, to)
    BY <1>5 DEF Rename
  <2>. QED BY <1>1, <2>1, RenameChanges
<1>6. CASE Delete
  <2>1. PICK name \in DOMAIN doc.defs : DeleteParam(name)
    BY <1>6 DEF Delete
  <2>. QED BY <1>1, <2>1, DeleteChanges
<1>7. CASE SetTargetValue
  BY <1>1, <1>7, SetChanges
<1>8. CASE RemoveField
  BY <1>1, <1>8, RemoveChanges
<1>9. CASE AddField
  BY <1>1, <1>9, AddChanges
<1>10. CASE UNCHANGED vars
  BY <1>10 DEF vars
<1>. QED
  BY <1>2, <1>3, <1>4, <1>5, <1>6, <1>7, <1>8, <1>9, <1>10 DEF Next, Restores

\* The issues of a recompute are about the names it keeps.
LEMMA IssuesAre ==
    ASSUME NEW d, IsDocument(d)
    PROVE  LET why == Recompute(d).issues
           IN why \in [DOMAIN why -> Reason] /\ DOMAIN why \subseteq DOMAIN After(d).defs
<1>. DEFINE why == Recompute(d).issues
            X == {m \in DOMAIN Kept(d) : Why(d, m) # "none"}
<1>1. why = [n \in X |-> Why(d, n)]
  BY RecomputeIs
<1>2. \A n \in X : Why(d, n) \in Reason
  <2>. TAKE n \in X
  <2>1. Fault(d.defs[n].expr, Evaluated(Kept(d)).values) \in {"invalid", "unknown", "not finite", "none"}
    BY NoFault
  <2>2. Why(d, n) # "none"
    OBVIOUS
  <2>. QED BY <2>1, <2>2 DEF Why, Reason
<1>3. X \subseteq DOMAIN After(d).defs
  BY AfterIs
<1>. HIDE DEF X
<1>. QED BY <1>1, <1>2, <1>3

LEMMA ChangeIs ==
    ASSUME NEW d, IsChange(d)
    PROVE  /\ IsDocument(doc')
           /\ \/ UNCHANGED issues
              \/ issues' \in [DOMAIN issues' -> Reason] /\ DOMAIN issues' \subseteq DOMAIN doc'.defs
           /\ Consistent(doc, doc', issues')
<1>1. CASE Mutate(d)
  <2>1. IsDocument(d) /\ Carries(doc, d) /\ doc' = After(d) /\ issues' = Recompute(d).issues
    BY <1>1 DEF IsChange, Mutate, Recomputed, After
  <2>. QED BY <2>1, AfterIs, IssuesAre, MutateIsConsistent
<1>2. CASE Mutate(After(d))
  <2>1. /\ IsDocument(d) /\ Carries(doc, d)
        /\ doc' = After(After(d)) /\ issues' = Recompute(After(d)).issues
    BY <1>2 DEF IsChange, Mutate, Recomputed, After
  <2>2. IsDocument(After(d))
    BY <2>1, AfterIs
  <2>. QED BY <2>1, <2>2, AfterIs, IssuesAre, CommitIsConsistent
<1>3. CASE d.defs = <<>> /\ Recomputed(d) /\ UNCHANGED issues
  <2>1. IsDocument(d) /\ doc' = After(d) /\ UNCHANGED issues
    BY <1>3 DEF IsChange, Recomputed, After
  <2>2. DOMAIN After(d).defs = {} /\ IsDocument(After(d))
    BY <1>3, <2>1, AfterIs
  <2>3. Stuck(After(d).defs) = {}
    BY <2>2 DEF Stuck
  <2>4. Consistent(doc, After(d), issues')
    BY <2>2, <2>3 DEF Consistent
  <2>. QED BY <2>1, <2>2, <2>4
<1>. QED BY <1>1, <1>2, <1>3 DEF IsChange

------------------------------------------------------------------------
\* What undo and redo bring back.

\* A sequence is one over its own members, and so is what a step makes of a stack.
LEMMA StackIs ==
    ASSUME NEW S, NEW s \in Seq(S)
    PROVE  s \in Seq(Range(s)) /\ Range(s) \subseteq S
<1>1. /\ s = [i \in 1..Len(s) |-> s[i]] /\ Len(s) \in Nat /\ DOMAIN s = 1..Len(s)
      /\ \A i \in 1..Len(s) : s[i] \in S
  OBVIOUS
<1>2. \A i \in 1..Len(s) : s[i] \in Range(s)
  BY <1>1 DEF Range
<1>3. s \in Seq(Range(s))
  BY <1>1, <1>2
<1>. QED BY <1>1, <1>3 DEF Range

LEMMA TopIs ==
    ASSUME NEW s, IsStack(s), s # <<>>
    PROVE  /\ s[Len(s)] \in Range(s)
           /\ SubSeq(s, 1, Len(s) - 1) \in Seq(Range(s))
           /\ Len(SubSeq(s, 1, Len(s) - 1)) = Len(s) - 1
<1>1. PICK S : S = Range(s)
  OBVIOUS
<1>2. s \in Seq(S) /\ Len(s) \in Nat \ {0} /\ Len(s) \in 1..Len(s)
  BY <1>1 DEF IsStack
<1>3. s[Len(s)] \in S
  BY <1>2
<1>4. /\ SubSeq(s, 1, Len(s) - 1) \in Seq(S)
      /\ Len(SubSeq(s, 1, Len(s) - 1)) = Len(s) - 1
  <2>1. PICK n \in Int : n = Len(s) - 1
    BY <1>2
  <2>2. \A i \in 1..n : s[i] \in S
    BY <1>2, <2>1
  <2>3. /\ SubSeq(s, 1, n) \in Seq(S)
        /\ Len(SubSeq(s, 1, n)) = IF 1 <= n THEN n - 1 + 1 ELSE 0
    BY <2>2, SubSeqProperties
  <2>. QED BY <1>2, <2>1, <2>3
<1>. QED BY <1>1, <1>3, <1>4

LEMMA PushedIs ==
    ASSUME IsStack(past), Len(past) <= UndoCap
    PROVE  Pushed \in Seq(Range(past) \cup {doc}) /\ Len(Pushed) <= UndoCap
<1>1. PICK S : S = Range(past) \cup {doc}
  OBVIOUS
<1>2. past \in Seq(S) /\ doc \in S /\ Len(past) \in Nat /\ UndoCap \in Nat
  BY <1>1, BoundsAreNumbers DEF IsStack
<1>3. PICK longer : longer = Append(past, doc)
  OBVIOUS
<1>4. longer \in Seq(S) /\ Len(longer) = Len(past) + 1 /\ longer # <<>>
  BY <1>2, <1>3
<1>5. Tail(longer) \in Seq(S) /\ Len(Tail(longer)) = Len(past)
  BY <1>2, <1>4
<1>. QED BY <1>1, <1>2, <1>3, <1>4, <1>5 DEF Pushed

\* The documents on screen or on a stack.
Documents == {doc} \cup Range(past) \cup Range(future)

\* A step puts no document on a stack that was not there, and shows one of those, one that
\* is loaded or one that was recomputed.
Inherits ==
    /\ past' \in Seq(Documents) /\ future' \in Seq(Documents) /\ Len(past') <= UndoCap
    /\ doc' \in Documents \cup Loaded \/ \E d : IsDocument(d) /\ doc' = After(d)

LEMMA Inheritance ==
    ASSUME TypeOK, [Next]_vars
    PROVE  Inherits
<1>1. IsStack(past) /\ IsStack(future) /\ Len(past) <= UndoCap /\ UndoCap \in Nat
  BY BoundsAreNumbers DEF TypeOK
<1>2. PICK D : D = Documents
  OBVIOUS
<1>3. doc \in D /\ Range(past) \subseteq D /\ Range(future) \subseteq D
  BY <1>2 DEF Documents
<1>4. past \in Seq(D) /\ future \in Seq(D) /\ Pushed \in Seq(D) /\ Len(Pushed) <= UndoCap
  <2>1. \A S : S \subseteq D => Seq(S) \subseteq Seq(D)
    OBVIOUS
  <2>2. past \in Seq(Range(past)) /\ future \in Seq(Range(future))
    BY <1>1 DEF IsStack
  <2>3. Pushed \in Seq(Range(past) \cup {doc}) /\ Len(Pushed) <= UndoCap
    BY <1>1, PushedIs
  <2>4. Range(past) \cup {doc} \subseteq D
    BY <1>3
  <2>. QED BY <1>3, <2>1, <2>2, <2>3, <2>4
<1>5. <<>> \in Seq(D) /\ Len(<<>>) = 0
  OBVIOUS
<1>6. CASE UNCHANGED document
  BY <1>1, <1>2, <1>3, <1>4, <1>6 DEF document, Inherits
<1>7. ASSUME NEW d, IsChange(d) PROVE Inherits
  <2>1. PICK e : IsDocument(e) /\ Recomputed(e)
    BY <1>7, AfterIs DEF IsChange, Mutate
  <2>2. doc' = After(e) /\ past' = Pushed /\ future' = <<>>
    BY <2>1 DEF Recomputed, After
  <2>. QED BY <1>2, <1>4, <1>5, <2>1, <2>2 DEF Inherits
<1>8. CASE Undo
  <2>1. past # <<>> /\ doc' = past[Len(past)] /\ past' = SubSeq(past, 1, Len(past) - 1)
        /\ future' = Append(future, doc)
    BY <1>8 DEF Undo
  <2>2. doc' \in D /\ Len(past') = Len(past) - 1 /\ Len(past) \in Nat
    BY <1>1, <1>3, <2>1, TopIs DEF IsStack
  <2>3. past' \in Seq(D)
    <3>1. past' \in Seq(Range(past))
      BY <1>1, <2>1, TopIs
    <3>. QED BY <1>3, <3>1
  <2>4. future' \in Seq(D)
    BY <1>3, <1>4, <2>1
  <2>. QED BY <1>1, <1>2, <2>2, <2>3, <2>4 DEF Inherits
<1>9. CASE Redo
  <2>1. future # <<>> /\ doc' = future[Len(future)]
        /\ future' = SubSeq(future, 1, Len(future) - 1) /\ past' = Pushed
    BY <1>9 DEF Redo
  <2>2. doc' \in D
    BY <1>1, <1>3, <2>1, TopIs
  <2>3. future' \in Seq(D)
    <3>1. future' \in Seq(Range(future))
      BY <1>1, <2>1, TopIs
    <3>. QED BY <1>3, <3>1
  <2>. QED BY <1>2, <1>4, <2>1, <2>2, <2>3 DEF Inherits
<1>10. CASE Replace
  <2>1. doc' \in Loaded /\ past' = <<>> /\ future' = <<>>
    BY <1>10 DEF Replace
  <2>. QED BY <1>1, <1>2, <1>5, <2>1 DEF Inherits
<1>. QED BY <1>6, <1>7, <1>8, <1>9, <1>10, Changes DEF Restores

------------------------------------------------------------------------
\* Theorems.

\* A commit is queued with the types it has.
LEMMA QueueIs ==
    ASSUME TypeOK, NEW kind, NEW target, NEW name, NEW expr, Queue(kind, target, name, expr),
           [kind |-> kind, target |-> target, name |-> name, expr |-> expr,
            alone |-> chain = <<>>] \in Commit
    PROVE  TypeOK'
<1>. DEFINE c == [kind |-> kind, target |-> target, name |-> name, expr |-> expr,
                  alone |-> chain = <<>>]
<1>1. /\ chain' = Append(chain, c) /\ Len(chain) < MaxQueued /\ UNCHANGED document
      /\ edits' = edits + 1 /\ edits < MaxEdits
  BY DEF Queue, Edited, MayEdit
<1>2. c \in Commit
  OBVIOUS
<1>. HIDE DEF c
<1>3. chain \in Seq(Commit) /\ edits \in 0..MaxEdits /\ Len(chain) <= MaxQueued
  BY DEF TypeOK
<1>4. MaxEdits \in Nat /\ MaxQueued \in Nat
  BY BoundsAreNumbers
<1>5. chain' \in Seq(Commit) /\ Len(chain') <= MaxQueued /\ edits' \in 0..MaxEdits
  BY <1>1, <1>2, <1>3, <1>4
<1>. QED BY <1>1, <1>5 DEF TypeOK, document

\* TypeOK: the document on screen and those on the stacks stay documents, in which a field
\* has one parameter at most; the undo stack keeps to its length.
THEOREM TypeCorrect == Spec => []TypeOK
<1>1. Init => TypeOK
  <2>. SUFFICES ASSUME Init PROVE TypeOK
    OBVIOUS
  <2>1. IsDocument(doc)
    BY InputsAreTyped DEF Init
  <2>2. issues \in [DOMAIN issues -> Reason] /\ DOMAIN issues \subseteq Name
    BY DEF Init
  <2>3. IsStack(past) /\ IsStack(future) /\ Len(past) <= UndoCap
    <3>1. past = <<>> /\ future = <<>> /\ Range(<<>>) = {} /\ UndoCap \in Nat
      BY BoundsAreNumbers DEF Init, Range
    <3>. QED BY <3>1 DEF IsStack
  <2>4. chain \in Seq(Commit) /\ Len(chain) = 0 /\ edits = 0
    BY DEF Init
  <2>. QED BY <2>1, <2>2, <2>3, <2>4, BoundsAreNumbers DEF TypeOK
<1>2. TypeOK /\ [Next]_vars => TypeOK'
  <2>. SUFFICES ASSUME TypeOK, [Next]_vars PROVE TypeOK'
    OBVIOUS
  <2>1. /\ IsDocument(doc') /\ IsStack(past') /\ IsStack(future') /\ Len(past') <= UndoCap
        /\ issues' \in [DOMAIN issues' -> Reason] /\ DOMAIN issues' \subseteq Name
    <3>1. Inherits
      BY Inheritance
    <3>2. \A d \in Documents : IsDocument(d)
      BY DEF Documents, TypeOK, IsStack
    <3>3. IsDocument(doc')
      BY <3>1, <3>2, AfterIs, InputsAreTyped DEF Inherits
    <3>4. IsStack(past') /\ IsStack(future') /\ Len(past') <= UndoCap
      BY <3>1, <3>2, StackIs DEF Inherits, IsStack
    <3>5. issues' \in [DOMAIN issues' -> Reason] /\ DOMAIN issues' \subseteq Name
      <4>1. CASE UNCHANGED issues
        BY <4>1 DEF TypeOK
      <4>2. CASE \E d : IsChange(d)
        <5>1. \/ UNCHANGED issues
              \/ issues' \in [DOMAIN issues' -> Reason] /\ DOMAIN issues' \subseteq DOMAIN doc'.defs
          BY <4>2, ChangeIs
        <5>2. DOMAIN doc'.defs \subseteq Name
          BY <3>3, DefsOf DEF IsTable
        <5>. QED BY <4>1, <5>1, <5>2
      <4>. QED BY <4>1, <4>2, Changes DEF document, Restores, Undo, Redo, Replace
    <3>. QED BY <3>3, <3>4, <3>5
  <2>2. /\ chain \in Seq(Commit) /\ Len(chain) <= MaxQueued /\ edits \in 0..MaxEdits
        /\ MaxEdits \in Nat /\ MaxQueued \in Nat
    BY BoundsAreNumbers DEF TypeOK
  <2>3. CASE UNCHANGED <<chain, edits>>
    BY <2>1, <2>2, <2>3 DEF TypeOK
  <2>4. CASE MayEdit /\ Edited /\ UNCHANGED chain
    <3>1. edits' \in 0..MaxEdits
      BY <2>2, <2>4 DEF MayEdit, Edited
    <3>. QED BY <2>1, <2>2, <2>4, <3>1 DEF TypeOK
  <2>5. CASE chain # <<>> /\ chain' = Tail(chain) /\ UNCHANGED edits
    <3>1. chain' \in Seq(Commit) /\ Len(chain') <= MaxQueued
      BY <2>2, <2>5
    <3>. QED BY <2>1, <2>2, <2>5, <3>1 DEF TypeOK
  <2>6. CASE SetParamExpr
    <3>1. PICK name \in DOMAIN doc.defs \cup User, expr \in Typed : Queue("param", Null, name, expr)
      BY <2>6 DEF SetParamExpr
    <3>2. name \in Name
      BY DefsOf DEF TypeOK, Name, IsTable
    <3>. QED BY <3>1, <3>2, QueueIs DEF Commit
  <2>7. CASE SetTargetExpr
    <3>1. PICK f \in DOMAIN doc.fields, expr \in Typed : Queue("field", f, Null, expr)
      BY <2>7 DEF SetTargetExpr
    <3>2. f \in Field
      BY DefsOf DEF TypeOK
    <3>. QED BY <3>1, <3>2, QueueIs DEF Commit
  <2>8. CASE NameTarget
    <3>1. PICK f \in DOMAIN doc.fields, name \in User \ DOMAIN doc.defs, expr \in Typed :
              Queue("named", f, name, expr)
      BY <2>8 DEF NameTarget
    <3>2. f \in Field
      BY DefsOf DEF TypeOK
    <3>. QED BY <3>1, <3>2, QueueIs DEF Commit
  <2>. QED
    BY <2>3, <2>4, <2>5, <2>6, <2>7, <2>8
    DEF Next, vars, Land, Refused, Rename, RenameParam, Delete, DeleteParam, SetTargetValue,
        RemoveField, AddField, Undo, Redo, Replace, AtOnce
<1>. QED BY <1>1, <1>2, PTL DEF Spec

\* TableIsConsistent: after every change but undo, redo and Open each name has the value of
\* its expression, or an issue that is true of it and the value it had, and a bound field
\* holds the value as it takes it, on the side it was on.
THEOREM Consistency == Spec => TableIsConsistent
<1>1. TypeOK /\ [Next]_vars =>
          (<<doc, issues>>' # <<doc, issues>> /\ ~Restores => Consistent(doc, doc', issues'))
  BY Changes, ChangeIs DEF document
<1>. QED BY <1>1, TypeCorrect, PTL DEF Spec, TableIsConsistent

\* EveryTableHolds: whatever is on screen, or comes back by undo or redo, is as a recompute
\* left it or as it was loaded.
THEOREM TablesHold == Spec => []EveryTableHolds
<1>1. Init => EveryTableHolds
  BY DEF Init, EveryTableHolds, Range
<1>2. TypeOK /\ EveryTableHolds /\ [Next]_vars => EveryTableHolds'
  <2>. SUFFICES ASSUME TypeOK, EveryTableHolds, [Next]_vars PROVE EveryTableHolds'
    OBVIOUS
  <2>1. Inherits
    BY Inheritance
  <2>2. \A d \in Documents : d \in Loaded \/ Holds(d)
    BY DEF EveryTableHolds, Documents
  <2>3. Range(past') \subseteq Documents /\ Range(future') \subseteq Documents
    BY <2>1, StackIs DEF Inherits
  <2>4. doc' \in Loaded \/ Holds(doc')
    BY <2>1, <2>2, AfterHolds DEF Inherits
  <2>5. \A d \in {doc'} \cup Range(past') \cup Range(future') : d \in Loaded \/ Holds(d)
    BY <2>2, <2>3, <2>4
  <2>. QED BY <2>5 DEF EveryTableHolds
<1>. QED BY <1>1, <1>2, TypeCorrect, PTL DEF Spec

------------------------------------------------------------------------
\* Healthy tables.

\* Every expression parses and mentions names of the table only.
Known(defs) ==
    \A n \in DOMAIN defs : defs[n].expr.parses /\ Range(defs[n].expr.refs) \subseteq DOMAIN defs

LEMMA BrokenIs ==
    ASSUME NEW d
    PROVE  Broken(d) = {} <=> Stuck(d.defs) = {} /\ Known(d.defs)
<1>1. \A n \in DOMAIN d.defs :
         Fault(d.defs[n].expr, Values(d.defs)) \in {"invalid", "unknown"} <=>
            ~(d.defs[n].expr.parses /\ Range(d.defs[n].expr.refs) \subseteq DOMAIN d.defs)
  <2>. TAKE n \in DOMAIN d.defs
  <2>1. DOMAIN Values(d.defs) = DOMAIN d.defs
    BY DEF Values
  <2>2. /\ Fault(d.defs[n].expr, Values(d.defs)) \in {"invalid", "unknown", "not finite", "none"}
        /\ Fault(d.defs[n].expr, Values(d.defs)) \in {"not finite", "none"} <=>
              d.defs[n].expr.parses /\ Range(d.defs[n].expr.refs) \subseteq DOMAIN Values(d.defs)
    BY NoFault
  <2>. QED BY <2>1, <2>2
<1>. QED BY <1>1 DEF Broken, Known

\* A recompute breaks nothing.
LEMMA SoundAfter ==
    ASSUME NEW d, IsDocument(d), Broken(d) = {}
    PROVE  Broken(After(d)) = {}
<1>1. Stuck(d.defs) = {} /\ Known(d.defs)
  BY BrokenIs
<1>2. Stuck(After(d).defs) = {}
  BY <1>1, AfterIs, StuckKept
<1>3. Known(After(d).defs)
  <2>. SUFFICES ASSUME NEW n \in DOMAIN After(d).defs
                PROVE  /\ After(d).defs[n].expr.parses
                       /\ Range(After(d).defs[n].expr.refs) \subseteq DOMAIN After(d).defs
    BY DEF Known
  <2>1. /\ DOMAIN After(d).defs = DOMAIN Kept(d) /\ n \in DOMAIN d.defs
        /\ After(d).defs[n].expr = d.defs[n].expr
    BY AfterIs
  <2>2. d.defs[n].expr.parses /\ Range(d.defs[n].expr.refs) \subseteq DOMAIN d.defs
    BY <1>1, <2>1 DEF Known
  <2>3. Range(d.defs[n].expr.refs) \subseteq DOMAIN Kept(d)
    BY <2>1, <2>2, KeptIs
  <2>. QED BY <2>1, <2>2, <2>3
<1>. QED BY <1>2, <1>3, BrokenIs

\* In a healthy document a recompute has nothing to do.
LEMMA HealthyIs ==
    ASSUME NEW d, IsDocument(d), Healthy(d)
    PROVE  /\ Stuck(d.defs) = {} /\ Known(d.defs) /\ Settled(d.defs, DOMAIN d.defs)
           /\ Collected(d) = {}
           /\ \A n \in DOMAIN d.defs : d.defs[n].target \in DOMAIN d.fields =>
                 d.fields[d.defs[n].target] =
                    Taken(d.defs[n].target, d.fields[d.defs[n].target], d.defs[n].value)
<1>1. After(d) = d /\ Stuck(d.defs) = {} /\ Known(d.defs)
  BY BrokenIs DEF Healthy, After
<1>2. Settled(d.defs, DOMAIN d.defs)
  <2>. SUFFICES ASSUME NEW n \in DOMAIN d.defs, Fault(d.defs[n].expr, Values(d.defs)) = "none"
                PROVE  d.defs[n].value = Sum(d.defs[n].expr, Values(d.defs))
    BY DEF Settled
  <2>1. IsTrue(d, n)
    BY <1>1, RecomputeIsTrue
  <2>2. Values(d.defs)[n] = d.defs[n].value
    BY DEF Values
  <2>. QED BY <1>1, <2>1, <2>2 DEF IsTrue
<1>3. Collected(d) = {}
  <2>1. DOMAIN d.defs = DOMAIN d.defs \ Collected(d)
    BY <1>1, AfterIs
  <2>. QED BY <2>1 DEF Collected, Dangling
<1>4. \A n \in DOMAIN d.defs : d.defs[n].target \in DOMAIN d.fields =>
         d.fields[d.defs[n].target] =
            Taken(d.defs[n].target, d.fields[d.defs[n].target], d.defs[n].value)
  BY <1>1, AfterIs
<1>. QED BY <1>1, <1>2, <1>3, <1>4

\* What is settled and closed keeps its numbers in a recompute.
LEMMA AfterStays ==
    ASSUME NEW d, IsDocument(d), NEW R, Closed(d.defs, R), Settled(d.defs, R),
           NEW n \in R, n \in DOMAIN After(d).defs
    PROVE  After(d).defs[n].value = d.defs[n].value
<1>. DEFINE k == Kept(d)
            P == R \cap DOMAIN k
            v == Values(k)
            u == Values(d.defs)
<1>1. /\ IsTable(k) /\ DOMAIN k \subseteq DOMAIN d.defs
      /\ \A m \in DOMAIN k :
            /\ k[m] = d.defs[m] /\ Deps(k, m) = Deps(d.defs, m)
            /\ Range(d.defs[m].expr.refs) \subseteq DOMAIN k <=>
                  Range(d.defs[m].expr.refs) \subseteq DOMAIN d.defs
  BY KeptIs
<1>2. DOMAIN v = DOMAIN k /\ DOMAIN u = DOMAIN d.defs
      /\ (\A m \in DOMAIN k : v[m] = k[m].value) /\ (\A m \in DOMAIN d.defs : u[m] = d.defs[m].value)
  BY DEF Values
<1>3. \A m \in DOMAIN k : Deps(k, m) \subseteq DOMAIN k
  BY DEF Deps
<1>4. n \in DOMAIN k /\ After(d).defs[n].value = Evaluated(k).values[n]
  BY AfterIs
<1>. HIDE DEF k, v, u
<1>5. Closed(k, P)
  BY <1>1, <1>3 DEF Closed
<1>6. Settled(k, P)
  <2>. SUFFICES ASSUME NEW m \in P, Fault(k[m].expr, v) = "none"
                PROVE  k[m].value = Sum(k[m].expr, v)
    BY DEF Settled, v
  <2>1. k[m].expr = d.defs[m].expr /\ k[m].value = d.defs[m].value
    BY <1>1
  <2>2. \A r \in DOMAIN k : v[r] = u[r]
    BY <1>1, <1>2
  <2>3. Fault(k[m].expr, v) = Fault(k[m].expr, u) /\ Sum(k[m].expr, v) = Sum(k[m].expr, u)
    BY <1>1, <1>2, <2>1, <2>2, SameSum
  <2>. QED BY <2>1, <2>3 DEF Settled, u
<1>7. Evaluated(k).values[n] = k[n].value
  BY <1>1, <1>4, <1>5, <1>6, Stays
<1>. QED BY <1>1, <1>4, <1>7

------------------------------------------------------------------------
\* A commit that the check has accepted.

\* Without a name to change an expression stays what it is.
LEMMA RenamedExprSame ==
    ASSUME NEW e \in Expr, NEW from, NEW to \in Name, from \notin Range(e.refs) \/ from = to
    PROVE  RenamedExpr(e, from, to) = e
<1>. DEFINE r == RenamedExpr(e, from, to)
<1>1. /\ r \in Expr /\ r.plus = e.plus /\ r.parses = e.parses
      /\ DOMAIN r.refs = DOMAIN e.refs
      /\ \A i \in DOMAIN e.refs : r.refs[i] = IF e.refs[i] = from THEN to ELSE e.refs[i]
  BY RenamedExprIs
<1>. HIDE DEF r
<1>2. \A i \in DOMAIN e.refs : r.refs[i] = e.refs[i]
  BY <1>1 DEF Range
<1>3. /\ r = [refs |-> r.refs, plus |-> r.plus, parses |-> r.parses] /\ r.refs \in Seq(Name)
      /\ e = [refs |-> e.refs, plus |-> e.plus, parses |-> e.parses] /\ e.refs \in Seq(Name)
  BY <1>1 DEF Expr
<1>4. r.refs = e.refs
  <2>1. /\ r.refs = [i \in DOMAIN r.refs |-> r.refs[i]]
        /\ e.refs = [i \in DOMAIN e.refs |-> e.refs[i]]
    BY <1>3
  <2>. QED BY <1>1, <1>2, <2>1
<1>. QED BY <1>1, <1>3, <1>4 DEF r

\* The expression of `from`, or of none, is replaced by one that is called w.
IsReplaced(defs, new, from, w, expr) ==
    /\ w = from \/ w \notin DOMAIN defs
    /\ w \in DOMAIN new /\ DOMAIN new \ {w} = DOMAIN defs \ {w, from}
    /\ new[w].expr = expr
    /\ \A n \in DOMAIN new \ {w} :
          /\ new[n].value = defs[n].value /\ new[n].expr.parses = defs[n].expr.parses
          /\ from \notin Range(defs[n].expr.refs) => new[n].expr = defs[n].expr
          /\ \A r \in Range(new[n].expr.refs) :
                r = w \/ r \in Range(defs[n].expr.refs) \ {from}

\* What was true of a commit when it was checked.
Accepted(c) ==
    /\ ValidateExpr(Of(doc, c), c.expr)
    /\ c.target # Null => c.target \in DOMAIN doc.fields
    /\ c.kind = "named" => c.name \notin DOMAIN doc.defs

LEMMA CommitReplaces ==
    ASSUME NEW c \in Commit, NEW defs, NEW new, IsTable(defs), IsCommitted(defs, new, c),
           ~Fails(defs, c), c.kind = "named" => c.name \notin DOMAIN defs
    PROVE  IsReplaced(defs, new, About(defs, c), Into(defs, c), c.expr)
<1>. DEFINE w == Into(defs, c)
            from == About(defs, c)
<1>1. /\ c.kind \in {"param", "field", "named"}
      /\ c.kind # "param" => c.target \in Field
  BY CommitIs
<1>2. w = from \/ (w \notin DOMAIN defs /\ (from # Null => c.kind = "named"))
  <2>1. CASE c.kind = "param"
    BY <2>1 DEF Into, About
  <2>2. CASE c.kind = "named"
    BY <2>2 DEF Into
  <2>3. CASE c.kind = "field"
    <3>1. NextDName(defs) <= MaxAuto
      BY <2>3, NextIs, BoundsAreNumbers DEF Fails
    <3>2. NextDName(defs) \notin DOMAIN defs
      BY <3>1, NextIs
    <3>. QED BY <2>3, <3>2 DEF Into, About
  <2>. QED BY <1>1, <2>1, <2>2, <2>3
<1>. HIDE DEF w, from
<1>3. /\ w \in DOMAIN new /\ w \in Name /\ new[w].expr = c.expr
      /\ DOMAIN new \ {w} = DOMAIN defs \ {w, from}
      /\ \A n \in DOMAIN new \ {w} :
            /\ new[n].value = defs[n].value
            /\ new[n].expr = IF c.kind = "named" /\ from # Null
                             THEN RenamedExpr(defs[n].expr, from, w) ELSE defs[n].expr
  BY DEF IsCommitted, w, from
<1>4. ASSUME NEW n \in DOMAIN new \ {w}
      PROVE  /\ new[n].expr.parses = defs[n].expr.parses
             /\ from \notin Range(defs[n].expr.refs) => new[n].expr = defs[n].expr
             /\ \A r \in Range(new[n].expr.refs) :
                   r = w \/ r \in Range(defs[n].expr.refs) \ {from}
  <2>1. PICK e \in Expr : e = defs[n].expr
    BY <1>3, TableIs
  <2>2. CASE new[n].expr = e
    <3>1. \A r \in Range(e.refs) : r \in Name
      BY DEF Range, Expr
    <3>2. from = w \/ from = Null \/ c.kind = "named"
      BY <1>2
    <3>3. c.kind = "named" /\ from # Null => RenamedExpr(e, from, w) = e
      BY <1>3, <2>1, <2>2
    <3>4. ASSUME NEW r \in Range(e.refs), r = from
          PROVE  r = w
      <4>1. from # Null
        BY <3>1, <3>4, NamesAreApart
      <4>2. CASE from = w
        BY <3>4, <4>2
      <4>3. CASE c.kind = "named"
        <5>1. PICK i \in DOMAIN e.refs : e.refs[i] = from
          BY <3>4 DEF Range
        <5>2. RenamedExpr(e, from, w).refs[i] = w
          BY <1>3, <5>1, RenamedExprIs
        <5>. QED BY <3>3, <3>4, <4>1, <4>3, <5>1, <5>2
      <4>. QED BY <3>2, <4>1, <4>2, <4>3
    <3>. QED BY <2>1, <2>2, <3>4
  <2>3. CASE new[n].expr = RenamedExpr(e, from, w)
    <3>. DEFINE q == RenamedExpr(e, from, w)
    <3>1. /\ q.parses = e.parses /\ DOMAIN q.refs = DOMAIN e.refs
          /\ \A i \in DOMAIN e.refs : q.refs[i] = IF e.refs[i] = from THEN w ELSE e.refs[i]
      BY <1>3, RenamedExprIs
    <3>2. from \notin Range(e.refs) => q = e
      BY <1>3, RenamedExprSame
    <3>. HIDE DEF q
    <3>3. ASSUME NEW r \in Range(q.refs)
          PROVE  r = w \/ r \in Range(e.refs) \ {from}
      BY <3>1, <3>3 DEF Range
    <3>. QED BY <2>1, <2>3, <3>1, <3>2, <3>3 DEF q
  <2>. QED BY <1>3, <2>1, <2>2, <2>3
<1>. QED BY <1>2, <1>3, <1>4 DEF IsReplaced, w, from

\* The new expression closes no cycle and mentions nothing that is unknown.
LEMMA ReplacedIsSound ==
    ASSUME NEW defs, NEW new, NEW from, NEW w, NEW expr, NEW R,
           IsReplaced(defs, new, from, w, expr),
           Stuck(defs) = {}, Known(defs), Closed(defs, R), from \notin R,
           Range(expr.refs) \subseteq R, expr.parses
    PROVE  /\ Stuck(new) = {} /\ Known(new)
           /\ \A n \in R : /\ n \in DOMAIN new /\ n # w
                           /\ new[n].expr = defs[n].expr /\ new[n].value = defs[n].value
           /\ Closed(new, R)
<1>1. /\ w = from \/ w \notin DOMAIN defs
      /\ w \in DOMAIN new /\ DOMAIN new \ {w} = DOMAIN defs \ {w, from}
      /\ new[w].expr = expr
      /\ \A n \in DOMAIN new \ {w} :
            /\ new[n].value = defs[n].value /\ new[n].expr.parses = defs[n].expr.parses
            /\ from \notin Range(defs[n].expr.refs) => new[n].expr = defs[n].expr
            /\ \A r \in Range(new[n].expr.refs) :
                  r = w \/ r \in Range(defs[n].expr.refs) \ {from}
  BY DEF IsReplaced
<1>2. R \subseteq DOMAIN defs /\ \A n \in R : Range(defs[n].expr.refs) \subseteq R
  BY DEF Closed, Known, Deps
<1>3. ASSUME NEW n \in R
      PROVE  /\ n \in DOMAIN new \ {w}
             /\ new[n].expr = defs[n].expr /\ new[n].value = defs[n].value
  <2>1. n \in DOMAIN new \ {w}
    BY <1>1, <1>2
  <2>2. from \notin Range(defs[n].expr.refs)
    BY <1>2
  <2>. QED BY <1>1, <2>1, <2>2
<1>4. Known(new)
  <2>. SUFFICES ASSUME NEW n \in DOMAIN new
                PROVE  new[n].expr.parses /\ Range(new[n].expr.refs) \subseteq DOMAIN new
    BY DEF Known
  <2>1. CASE n = w
    BY <1>1, <1>3, <2>1
  <2>2. CASE n # w
    <3>1. defs[n].expr.parses /\ Range(defs[n].expr.refs) \subseteq DOMAIN defs
      BY <1>1, <2>2 DEF Known
    <3>. QED BY <1>1, <2>2, <3>1
  <2>. QED BY <2>1, <2>2
<1>5. ASSUME NEW S \in SUBSET DOMAIN new, \A n \in S : Deps(new, n) \cap S # {}
      PROVE  S = {}
  <2>1. \A T \in SUBSET DOMAIN defs : (\A n \in T : Deps(defs, n) \cap T # {}) => T = {}
    BY DEF Stuck
  <2>2. S \cap R = {}
    <3>1. \A n \in S \cap R : Deps(defs, n) \cap (S \cap R) # {}
      <4>. TAKE n \in S \cap R
      <4>1. PICK m \in S : m \in Range(new[n].expr.refs)
        BY <1>5 DEF Deps
      <4>2. m \in Range(defs[n].expr.refs) /\ m \in R
        BY <1>2, <1>3, <4>1
      <4>3. m \in DOMAIN defs
        BY <1>2, <4>2
      <4>. QED BY <4>1, <4>2, <4>3 DEF Deps
    <3>2. S \cap R \in SUBSET DOMAIN defs
      BY <1>2
    <3>. QED BY <2>1, <3>1, <3>2
  <2>3. w \notin S
    <3>. SUFFICES ASSUME w \in S PROVE FALSE
      OBVIOUS
    <3>1. PICK m \in S : m \in Range(new[w].expr.refs)
      BY <1>5 DEF Deps
    <3>. QED BY <1>1, <2>2, <3>1
  <2>4. \A n \in S : Deps(defs, n) \cap S # {}
    <3>. TAKE n \in S
    <3>1. PICK m \in S : m \in Range(new[n].expr.refs)
      BY <1>5 DEF Deps
    <3>2. n # w /\ m # w
      BY <2>3, <3>1
    <3>3. m \in Range(defs[n].expr.refs) /\ m \in DOMAIN defs
      BY <1>1, <3>1, <3>2
    <3>. QED BY <3>1, <3>3 DEF Deps
  <2>5. S \in SUBSET DOMAIN defs
    BY <1>1, <2>3
  <2>. QED BY <2>1, <2>4, <2>5
<1>6. Stuck(new) = {}
  BY <1>5 DEF Stuck
<1>7. Closed(new, R)
  BY <1>2, <1>3 DEF Closed, Deps
<1>. QED BY <1>3, <1>4, <1>6, <1>7

\* What an accepted commit makes of a healthy document: nothing is broken, and what the
\* expression leads to keeps its numbers.
LEMMA AcceptedIs ==
    ASSUME IsDocument(doc), Healthy(doc), NEW c \in Commit, ~Fails(doc.defs, c), Accepted(c)
    PROVE  LET e == Committed(doc, c)
               w == Into(doc.defs, c)
               R == Reaches(doc.defs, Range(c.expr.refs)) \cap DOMAIN doc.defs
           IN /\ IsDocument(e) /\ e.fields = doc.fields /\ Broken(e) = {}
              /\ Closed(e.defs, R) /\ Settled(e.defs, R) /\ Range(c.expr.refs) \subseteq R
              /\ \A r \in R : r \in DOMAIN e.defs /\ e.defs[r].value = doc.defs[r].value
              /\ w \in DOMAIN e.defs /\ e.defs[w].expr = c.expr
              /\ c.kind # "param" => e.defs[w].target = c.target
<1>. DEFINE defs == doc.defs
            e == Committed(doc, c)
            new == e.defs
            w == Into(defs, c)
            from == About(defs, c)
            R == Reaches(defs, Range(c.expr.refs)) \cap DOMAIN defs
<1>1. IsTable(defs)
  BY DefsOf
<1>2. IsDocument(e) /\ e.fields = doc.fields /\ IsCommitted(defs, new, c)
  BY CommittedIs
<1>3. Stuck(defs) = {} /\ Known(defs) /\ Settled(defs, DOMAIN defs)
  BY HealthyIs
<1>4. /\ Fault(c.expr, Values(defs)) = "none" /\ from \notin R
      /\ c.kind = "named" => c.name \notin DOMAIN defs
  BY DEF Accepted, ValidateExpr, Of, About
<1>5. /\ Range(c.expr.refs) \subseteq Reaches(defs, Range(c.expr.refs)) /\ Closed(defs, R)
  BY <1>1, ReachesIs
<1>6. c.expr.parses /\ Range(c.expr.refs) \subseteq R
  <2>1. c.expr.parses /\ Range(c.expr.refs) \subseteq DOMAIN Values(defs)
    BY <1>4, NoFault
  <2>2. DOMAIN Values(defs) = DOMAIN defs
    BY DEF Values
  <2>. QED BY <1>5, <2>1, <2>2
<1>7. IsReplaced(defs, new, from, w, c.expr)
  <2>. HIDE DEF new, defs
  <2>. QED BY <1>1, <1>2, <1>4, CommitReplaces DEF defs
<1>. HIDE DEF e, new, w, from, R
<1>8. /\ Stuck(new) = {} /\ Known(new) /\ Closed(new, R)
      /\ \A n \in R : /\ n \in DOMAIN new /\ n # w
                      /\ new[n].expr = defs[n].expr /\ new[n].value = defs[n].value
  <2>. HIDE DEF defs
  <2>. QED BY <1>3, <1>4, <1>5, <1>6, <1>7, ReplacedIsSound
<1>9. Settled(new, R)
  <2>. SUFFICES ASSUME NEW n \in R, Fault(new[n].expr, Values(new)) = "none"
                PROVE  new[n].value = Sum(new[n].expr, Values(new))
    BY DEF Settled
  <2>. DEFINE v == Values(new)
              u == Values(defs)
  <2>1. /\ DOMAIN v = DOMAIN new /\ DOMAIN u = DOMAIN defs
        /\ \A m \in DOMAIN new : v[m] = new[m].value
        /\ \A m \in DOMAIN defs : u[m] = defs[m].value
    BY DEF Values
  <2>2. n \in DOMAIN defs /\ Range(defs[n].expr.refs) \subseteq R
    BY <1>3, <1>5 DEF Closed, Known, Deps
  <2>3. R \subseteq DOMAIN defs /\ R \subseteq DOMAIN new
    BY <1>5, <1>8 DEF Closed
  <2>4. \A r \in R : v[r] = u[r]
    BY <1>8, <2>1, <2>3
  <2>. HIDE DEF v, u, defs
  <2>5. Fault(new[n].expr, v) = Fault(new[n].expr, u) /\ Sum(new[n].expr, v) = Sum(new[n].expr, u)
    <3>1. Range(new[n].expr.refs) \subseteq R
      BY <1>8, <2>2
    <3>. QED BY <2>1, <2>3, <2>4, <3>1, SameSum DEF v
  <2>6. defs[n].value = Sum(defs[n].expr, u)
    BY <1>3, <1>8, <2>2, <2>5 DEF Settled, u, v
  <2>. QED BY <1>8, <2>5, <2>6 DEF v
<1>10. /\ w \in DOMAIN new /\ new[w].expr = c.expr
       /\ c.kind # "param" => new[w].target = c.target
  BY <1>2 DEF IsCommitted, w
<1>11. Broken(e) = {}
  BY <1>8, BrokenIs DEF new
<1>. QED BY <1>2, <1>6, <1>8, <1>9, <1>10, <1>11 DEF e, new, w, R

\* The parameter of a field is the one with that target.
LEMMA BoundIsOne ==
    ASSUME NEW defs, IsTable(defs), Apart(defs), NEW f \in Field, NEW w \in DOMAIN defs,
           defs[w].target = f
    PROVE  BoundParam(defs, f) = w
<1>1. PICK b : b = BoundParam(defs, f)
  OBVIOUS
<1>2. b # Null /\ b \in DOMAIN defs /\ defs[b].target = f
  BY <1>1, BoundIs
<1>3. f # Null
  BY NamesAreApart
<1>. QED BY <1>1, <1>2, <1>3 DEF Apart

LEMMA LandsWell ==
    ASSUME IsDocument(doc), Healthy(doc), NEW c \in Commit, ~Fails(doc.defs, c), Accepted(c)
    PROVE  LET d == After(Committed(doc, c))
               why == Recompute(d).issues
           IN /\ Broken(After(d)) = {}
              /\ Of(After(d), c) \in DOMAIN why => why[Of(After(d), c)] = "target gone"
<1>. DEFINE e == Committed(doc, c)
            d == After(e)
            a == After(d)
            why == Recompute(d).issues
            w == Into(doc.defs, c)
            R == Reaches(doc.defs, Range(c.expr.refs)) \cap DOMAIN doc.defs
            v == Values(a.defs)
            u == Values(doc.defs)
<1>1. /\ IsDocument(e) /\ e.fields = doc.fields /\ Broken(e) = {}
      /\ Closed(e.defs, R) /\ Settled(e.defs, R) /\ Range(c.expr.refs) \subseteq R
      /\ \A r \in R : r \in DOMAIN e.defs /\ e.defs[r].value = doc.defs[r].value
      /\ w \in DOMAIN e.defs /\ e.defs[w].expr = c.expr
      /\ c.kind # "param" => e.defs[w].target = c.target
  BY AcceptedIs
<1>2. R \subseteq DOMAIN doc.defs
  OBVIOUS
<1>3. Fault(c.expr, u) = "none"
  BY DEF Accepted, ValidateExpr
<1>4. DOMAIN u = DOMAIN doc.defs /\ \A n \in DOMAIN doc.defs : u[n] = doc.defs[n].value
  BY DEF Values
<1>5. DOMAIN v = DOMAIN a.defs /\ \A n \in DOMAIN a.defs : v[n] = a.defs[n].value
  BY DEF Values
<1>. HIDE DEF R, e, w, u
<1>6. IsDocument(d) /\ Broken(d) = {}
  BY <1>1, AfterIs, SoundAfter
<1>7. IsDocument(a) /\ Broken(a) = {}
  <2>. HIDE DEF d
  <2>. QED BY <1>6, AfterIs, SoundAfter
<1>8. Stuck(a.defs) = {} /\ Known(a.defs)
  BY <1>7, BrokenIs
<1>9. /\ DOMAIN d.defs = DOMAIN e.defs \ Collected(e) /\ DOMAIN d.fields = DOMAIN e.fields
      /\ \A n \in DOMAIN d.defs :
            d.defs[n].expr = e.defs[n].expr /\ d.defs[n].target = e.defs[n].target
  BY <1>1, AfterIs
<1>10. /\ DOMAIN a.defs = DOMAIN d.defs \ Collected(d) /\ DOMAIN a.fields = DOMAIN d.fields
       /\ \A n \in DOMAIN a.defs :
             a.defs[n].expr = d.defs[n].expr /\ a.defs[n].target = d.defs[n].target
  <2>. HIDE DEF d
  <2>. QED BY <1>6, AfterIs
<1>11. \A n \in DOMAIN a.defs : a.defs[n].value = d.defs[n].value
  BY <1>1, RecomputeOnce
<1>12. \A r \in R : r \in DOMAIN d.defs => d.defs[r].value = e.defs[r].value
  BY <1>1, AfterStays
<1>13. why \in [DOMAIN why -> Reason] /\ DOMAIN why \subseteq DOMAIN a.defs
  <2>. HIDE DEF d
  <2>. QED BY <1>6, IssuesAre
<1>14. ASSUME w \in DOMAIN why
       PROVE  why[w] = "target gone"
  <2>1. w \in DOMAIN a.defs
    BY <1>13, <1>14
  <2>2. a.defs[w].expr = c.expr
    BY <1>1, <1>9, <1>10, <2>1
  <2>3. Range(c.expr.refs) \subseteq DOMAIN a.defs
    BY <1>8, <2>1, <2>2 DEF Known
  <2>4. \A r \in Range(c.expr.refs) : v[r] = u[r]
    <3>. TAKE r \in Range(c.expr.refs)
    <3>1. r \in R /\ r \in DOMAIN a.defs /\ r \in DOMAIN d.defs /\ r \in DOMAIN doc.defs
      BY <1>1, <1>2, <1>10, <2>3
    <3>2. a.defs[r].value = doc.defs[r].value
      BY <1>1, <1>11, <1>12, <3>1
    <3>3. v[r] = a.defs[r].value /\ u[r] = doc.defs[r].value
      BY <1>4, <1>5, <3>1
    <3>. QED BY <3>2, <3>3
  <2>5. IsTrue(d, w)
    <3>. HIDE DEF d
    <3>. QED BY <1>6, <2>1, RecomputeIsTrue
  <2>6. Fault(c.expr, v) = "none"
    <3>1. Range(c.expr.refs) \subseteq DOMAIN v /\ Range(c.expr.refs) \subseteq DOMAIN u
      BY <1>1, <1>2, <1>4, <1>5, <2>3
    <3>. HIDE DEF v
    <3>. QED BY <1>3, <2>4, <3>1, SameSum
  <2>7. w \notin Stuck(a.defs)
    BY <1>8
  <2>8. Fault(a.defs[w].expr, v) = "none"
    BY <2>2, <2>6
  <2>. QED BY <1>14, <2>5, <2>7, <2>8 DEF IsTrue
<1>15. Of(a, c) = w
  <2>1. CASE c.kind = "param"
    BY <2>1 DEF Of, w, Into
  <2>2. CASE c.kind # "param"
    <3>1. c.target \in Field /\ c.target # Null
      BY <2>2, CommitIs, NamesAreApart
    <3>2. c.target \in DOMAIN doc.fields
      BY <3>1 DEF Accepted
    <3>3. w \in DOMAIN d.defs /\ d.defs[w].target = c.target
      <4>1. w \notin Collected(e)
        BY <1>1, <2>2, <3>2 DEF Collected, Dangling
      <4>. QED BY <1>1, <1>9, <2>2, <4>1
    <3>4. w \in DOMAIN a.defs /\ a.defs[w].target = c.target
      <4>1. w \notin Collected(d)
        <5>1. c.target \in DOMAIN d.fields
          BY <1>1, <1>9, <3>2
        <5>. HIDE DEF d
        <5>. QED BY <3>3, <5>1 DEF Collected, Dangling
      <4>. QED BY <1>10, <3>3, <4>1
    <3>5. IsTable(a.defs) /\ Apart(a.defs)
      BY <1>7, DefsOf
    <3>6. BoundParam(a.defs, c.target) = w
      <4>. HIDE DEF a
      <4>. QED BY <3>1, <3>4, <3>5, BoundIsOne
    <3>. QED BY <2>2, <3>6 DEF Of
  <2>. QED BY <2>1, <2>2
<1>. QED BY <1>7, <1>14, <1>15 DEF e

------------------------------------------------------------------------
\* A rename and a deletion.

LEMMA DeletesWell ==
    ASSUME IsDocument(doc), Broken(doc) = {}, NEW name \in DOMAIN doc.defs, DeleteParam(name)
    PROVE  Broken(doc') = {}
<1>. DEFINE new == Less(doc.defs, {name})
            e == [doc EXCEPT !.defs = new]
<1>1. IsTable(doc.defs) /\ Apart(doc.defs) /\ Stuck(doc.defs) = {} /\ Known(doc.defs)
  BY DefsOf, BrokenIs
<1>2. /\ IsTable(new) /\ Apart(new) /\ DOMAIN new = DOMAIN doc.defs \ {name}
      /\ \A n \in DOMAIN doc.defs \ {name} : new[n] = doc.defs[n]
  BY <1>1, LessIs
<1>3. doc' = After(e) /\ \A n \in DOMAIN doc.defs \ {name} : name \notin Deps(doc.defs, n)
  BY DEF DeleteParam, DeleteAllowed, Mutate, Recomputed, After
<1>. HIDE DEF new
<1>4. IsDocument(e) /\ e.defs = new
  BY <1>2, NewDefs
<1>. HIDE DEF e
<1>5. Known(new)
  BY <1>1, <1>2, <1>3 DEF Known, Deps
<1>6. Stuck(new) = {}
  <2>1. \A n \in DOMAIN new : Deps(new, n) \subseteq Deps(doc.defs, n)
    BY <1>2 DEF Deps
  <2>. QED BY <1>1, <1>2, <2>1, StuckGrows
<1>. QED BY <1>3, <1>4, <1>5, <1>6, BrokenIs, SoundAfter

\* An expression in the renamed table adds up to what it did.
LEMMA RenamedSum ==
    ASSUME NEW defs, NEW from \in DOMAIN defs, NEW to \in Name \ DOMAIN defs,
           NEW expr \in Expr, Range(expr.refs) \subseteq DOMAIN defs,
           NEW v, NEW u, \A r \in DOMAIN defs : v[r] = IF r = from THEN u[to] ELSE u[r]
    PROVE  Sum(RenamedExpr(expr, from, to), u) = Sum(expr, v)
<1>. DEFINE q == RenamedExpr(expr, from, to)
<1>1. /\ q.plus = expr.plus /\ DOMAIN q.refs = DOMAIN expr.refs
      /\ \A i \in DOMAIN expr.refs : q.refs[i] = IF expr.refs[i] = from THEN to ELSE expr.refs[i]
  BY RenamedExprIs
<1>. HIDE DEF q
<1>2. \A i \in DOMAIN expr.refs : u[q.refs[i]] = v[expr.refs[i]]
  <2>. TAKE i \in DOMAIN expr.refs
  <2>1. expr.refs[i] \in DOMAIN defs
    BY DEF Range
  <2>. QED BY <1>1, <2>1
<1>3. [i \in DOMAIN q.refs |-> u[q.refs[i]]] = [i \in DOMAIN expr.refs |-> v[expr.refs[i]]]
  BY <1>1, <1>2
<1>. QED BY <1>1, <1>3 DEF Sum, q

LEMMA RenamesWell ==
    ASSUME IsDocument(doc), Healthy(doc), NEW from \in DOMAIN doc.defs,
           NEW to \in User \ DOMAIN doc.defs, RenameParam(from, to)
    PROVE  /\ doc'.fields = doc.fields /\ doc'.defs[to].value = doc.defs[from].value
           /\ \A n \in DOMAIN doc'.defs \ {to} : doc'.defs[n].value = doc.defs[n].value
<1>. DEFINE defs == doc.defs
            new == Renamed(defs, from, to)
            e == [doc EXCEPT !.defs = new]
            a == After(e)
            was(n) == IF n = to THEN from ELSE n
            now(n) == IF n = from THEN to ELSE n
            v == Values(defs)
            u == Values(new)
<1>1. IsTable(defs) /\ Apart(defs) /\ from \in DOMAIN defs /\ to \in Name \ DOMAIN defs /\ from # to
  BY DefsOf DEF Name
<1>2. /\ IsTable(new) /\ Apart(new) /\ DOMAIN new = (DOMAIN defs \ {from}) \cup {to}
      /\ \A n \in DOMAIN new :
            /\ was(n) \in DOMAIN defs /\ new[n].expr = RenamedExpr(defs[was(n)].expr, from, to)
            /\ new[n].value = defs[was(n)].value /\ new[n].target = defs[was(n)].target
  <2>1. IsRenamed(defs, from, to, new)
    BY <1>1, RenamedIs
  <2>. HIDE DEF new, defs
  <2>2. IsTable(new) /\ Apart(new) /\ DOMAIN new = (DOMAIN defs \ {from}) \cup {to}
    BY <2>1 DEF IsRenamed
  <2>3. ASSUME NEW n \in DOMAIN new
        PROVE  /\ was(n) \in DOMAIN defs /\ new[n].expr = RenamedExpr(defs[was(n)].expr, from, to)
               /\ new[n].value = defs[was(n)].value /\ new[n].target = defs[was(n)].target
    <3>1. CASE n = to
      BY <1>1, <2>1, <3>1 DEF IsRenamed
    <3>2. CASE n # to
      BY <2>1, <2>2, <3>2 DEF IsRenamed
    <3>. QED BY <3>1, <3>2
  <2>. HIDE DEF was
  <2>. QED BY <2>2, <2>3
<1>3. doc' = a
  BY DEF RenameParam, Mutate, Recomputed, After
<1>4. /\ Known(defs) /\ Settled(defs, DOMAIN defs) /\ Collected(doc) = {}
      /\ \A n \in DOMAIN defs : defs[n].target \in DOMAIN doc.fields =>
            doc.fields[defs[n].target] =
               Taken(defs[n].target, doc.fields[defs[n].target], defs[n].value)
  BY HealthyIs
<1>. HIDE DEF new
<1>5. IsDocument(e) /\ e.defs = new /\ e.fields = doc.fields
  BY <1>2, NewDefs
<1>6. /\ DOMAIN u = DOMAIN new /\ \A n \in DOMAIN new : u[n] = new[n].value
      /\ DOMAIN v = DOMAIN defs /\ \A n \in DOMAIN defs : v[n] = defs[n].value
  BY DEF Values
<1>7. \A n \in DOMAIN defs : defs[n].expr \in Expr /\ Range(defs[n].expr.refs) \subseteq DOMAIN defs
  BY <1>1, <1>4, TableIs DEF Known
<1>. HIDE DEF e, defs, v, u
<1>8. Settled(new, DOMAIN new) /\ Closed(new, DOMAIN new)
  <2>. SUFFICES ASSUME NEW n \in DOMAIN new, Fault(new[n].expr, u) = "none"
                PROVE  new[n].value = Sum(new[n].expr, u)
    BY DEF Settled, Closed, Deps, u
  <2>1. PICK m \in DOMAIN defs : m = was(n)
    BY <1>2
  <2>2. PICK x \in Expr : x = defs[m].expr /\ Range(x.refs) \subseteq DOMAIN defs
    BY <1>7
  <2>3. new[n].expr = RenamedExpr(x, from, to) /\ new[n].value = defs[m].value
    BY <1>2, <2>1, <2>2
  <2>4. \A r \in DOMAIN defs : v[r] = IF r = from THEN u[to] ELSE u[r]
    <3>. TAKE r \in DOMAIN defs
    <3>1. CASE r = from
      <4>1. to \in DOMAIN new /\ was(to) = from
        BY <1>2
      <4>. QED BY <1>2, <1>6, <3>1, <4>1
    <3>2. CASE r # from
      <4>1. r \in DOMAIN new /\ was(r) = r
        BY <1>1, <1>2, <3>2
      <4>. QED BY <1>2, <1>6, <3>2, <4>1
    <3>. QED BY <3>1, <3>2
  <2>5. Sum(new[n].expr, u) = Sum(x, v)
    <3>. HIDE DEF was
    <3>. QED BY <1>1, <2>2, <2>3, <2>4, RenamedSum
  <2>6. Fault(x, v) = "none"
    <3>1. x.parses
      BY <1>4, <2>2 DEF Known
    <3>2. Sum(x, v) \in Number
      BY <2>5, NoFault
    <3>. QED BY <1>6, <2>2, <3>1, <3>2, NoFault
  <2>. QED BY <1>4, <2>2, <2>3, <2>5, <2>6 DEF Settled, v
<1>9. Collected(e) = {}
  <2>. SUFFICES ASSUME NEW n \in DOMAIN new, n \in Dangling(e)
                PROVE  n \in References(new, DOMAIN new)
    BY <1>5 DEF Collected, Dangling
  <2>1. was(n) \in DOMAIN defs /\ was(n) \in Dangling(doc)
    BY <1>2, <1>5 DEF Dangling, defs
  <2>2. PICK k \in DOMAIN defs : was(n) \in Range(defs[k].expr.refs)
    BY <1>4, <2>1 DEF Collected, References, Deps, defs
  <2>3. PICK x \in Expr : x = defs[k].expr
    BY <1>7
  <2>4. PICK i \in DOMAIN x.refs : x.refs[i] = was(n)
    BY <2>2, <2>3 DEF Range
  <2>5. /\ DOMAIN RenamedExpr(x, from, to).refs = DOMAIN x.refs
        /\ RenamedExpr(x, from, to).refs[i] = now(x.refs[i])
    BY <1>1, RenamedExprIs
  <2>6. now(was(n)) = n
    BY <1>1, <1>2
  <2>7. n \in Range(RenamedExpr(x, from, to).refs)
    BY <2>4, <2>5, <2>6 DEF Range
  <2>8. now(k) \in DOMAIN new /\ was(now(k)) = k
    BY <1>1, <1>2
  <2>9. new[now(k)].expr = RenamedExpr(x, from, to)
    BY <1>2, <2>3, <2>8
  <2>. HIDE DEF now, was
  <2>. QED BY <2>7, <2>8, <2>9 DEF References, Deps
<1>10. /\ DOMAIN a.defs = DOMAIN new /\ IsDocument(a) /\ DOMAIN a.fields = DOMAIN doc.fields
       /\ \A n \in DOMAIN a.defs :
             /\ a.defs[n].target = new[n].target
             /\ a.defs[n].target \in DOMAIN doc.fields =>
                   a.fields[a.defs[n].target] =
                      Taken(a.defs[n].target, doc.fields[a.defs[n].target], a.defs[n].value)
       /\ \A f \in DOMAIN doc.fields :
             (\A n \in DOMAIN a.defs : new[n].target # f) => a.fields[f] = doc.fields[f]
  <2>1. /\ IsDocument(a) /\ DOMAIN a.defs = DOMAIN e.defs \ Collected(e)
        /\ DOMAIN a.fields = DOMAIN e.fields
        /\ \A n \in DOMAIN a.defs :
              /\ a.defs[n].target = e.defs[n].target
              /\ a.defs[n].target \in DOMAIN e.fields =>
                    a.fields[a.defs[n].target] =
                       Taken(a.defs[n].target, e.fields[a.defs[n].target], a.defs[n].value)
        /\ \A f \in DOMAIN e.fields :
              (\A n \in DOMAIN a.defs : e.defs[n].target # f) => a.fields[f] = e.fields[f]
    BY <1>5, AfterIs
  <2>. HIDE DEF a
  <2>. QED BY <1>5, <1>9, <2>1
<1>11. \A n \in DOMAIN new : a.defs[n].value = new[n].value
  BY <1>5, <1>8, <1>10, AfterStays
<1>. HIDE DEF a
<1>12. \A f \in DOMAIN doc.fields : a.fields[f] = doc.fields[f]
  <2>. TAKE f \in DOMAIN doc.fields
  <2>1. CASE \A n \in DOMAIN a.defs : new[n].target # f
    BY <1>10, <2>1
  <2>2. ASSUME NEW n \in DOMAIN new, new[n].target = f
        PROVE  a.fields[f] = doc.fields[f]
    <3>1. a.fields[f] = Taken(f, doc.fields[f], new[n].value)
      BY <1>10, <1>11, <2>2
    <3>2. was(n) \in DOMAIN defs /\ defs[was(n)].target = f /\ new[n].value = defs[was(n)].value
      BY <1>2, <2>2
    <3>3. doc.fields[f] = Taken(f, doc.fields[f], defs[was(n)].value)
      <4>. HIDE DEF was
      <4>. QED BY <1>4, <3>2
    <3>. QED BY <3>1, <3>2, <3>3
  <2>. QED BY <1>10, <2>1, <2>2
<1>13. a.fields = doc.fields
  <2>1. a.fields \in [DOMAIN a.fields -> Int] /\ doc.fields \in [DOMAIN doc.fields -> Int]
    BY <1>10, DefsOf
  <2>. QED BY <1>10, <1>12, <2>1
<1>14. a.defs[to].value = defs[from].value
  BY <1>2, <1>11
<1>15. \A n \in DOMAIN a.defs \ {to} : a.defs[n].value = defs[n].value
  BY <1>2, <1>10, <1>11
<1>. QED BY <1>3, <1>13, <1>14, <1>15 DEF defs

------------------------------------------------------------------------
\* What was checked still holds when it lands: only the commit at the head of the chain
\* may be alone, and nothing has changed the document since it was checked.
ChainInv ==
    /\ \A i \in 2..Len(chain) : ~chain[i].alone
    /\ chain # <<>> /\ Head(chain).alone => Accepted(Head(chain))

LEMMA ChainHolds ==
    ASSUME TypeOK, ChainInv, [Next]_vars
    PROVE  ChainInv'
<1>1. chain \in Seq(Commit) /\ Len(chain) \in Nat
  BY DEF TypeOK
<1>2. \A i \in 2..Len(chain) : ~chain[i].alone
  BY DEF ChainInv
<1>3. CASE chain' = chain /\ (chain = <<>> \/ doc' = doc)
  <2>1. chain # <<>> /\ Head(chain).alone => Accepted(Head(chain))
    BY DEF ChainInv
  <2>. QED BY <1>2, <1>3, <2>1 DEF ChainInv, Accepted, ValidateExpr, Of
<1>4. CASE chain # <<>> /\ chain' = Tail(chain)
  <2>1. /\ Len(chain') = Len(chain) - 1
        /\ \A i \in 1..Len(chain') : chain'[i] = chain[i + 1]
    BY <1>1, <1>4
  <2>2. \A i \in 1..Len(chain') : ~chain'[i].alone
    BY <1>1, <1>2, <2>1
  <2>3. chain' # <<>> => Head(chain') = chain'[1] /\ 1 \in 1..Len(chain')
    BY <1>1, <1>4
  <2>4. \A i \in 2..Len(chain') : i \in 1..Len(chain')
    BY <1>1, <2>1
  <2>. QED BY <2>2, <2>3, <2>4 DEF ChainInv
<1>5. ASSUME NEW c, chain' = Append(chain, c), doc' = doc, c.alone <=> chain = <<>>, Accepted(c)
      PROVE  ChainInv'
  <2>4. Accepted(c)'
    BY <1>5 DEF Accepted, ValidateExpr, Of
  <2>5. CASE chain = <<>>
    <3>1. Len(chain') = 1 /\ Head(chain') = c
      BY <1>1, <1>5, <2>5
    <3>. QED BY <2>4, <3>1 DEF ChainInv
  <2>6. CASE chain # <<>>
    <3>1. /\ Len(chain') = Len(chain) + 1 /\ Head(chain') = Head(chain)
          /\ chain'[Len(chain')] = c
          /\ \A i \in 1..Len(chain) : chain'[i] = chain[i]
      BY <1>1, <1>5, <2>6
    <3>2. ~c.alone
      BY <1>5, <2>6
    <3>3. \A i \in 2..Len(chain') : ~chain'[i].alone
      <4>. TAKE i \in 2..Len(chain')
      <4>1. i = Len(chain') \/ (i \in 2..Len(chain) /\ i \in 1..Len(chain))
        BY <1>1, <3>1
      <4>. QED BY <1>2, <3>1, <3>2, <4>1
    <3>4. Head(chain).alone => Accepted(Head(chain))'
      BY <1>5, <2>6 DEF ChainInv, Accepted, ValidateExpr, Of
    <3>. QED BY <3>1, <3>3, <3>4 DEF ChainInv
  <2>. QED BY <2>5, <2>6
<1>6. CASE SetParamExpr
  <2>1. PICK name \in DOMAIN doc.defs \cup User, expr \in Typed :
            ValidateExpr(name, expr) /\ Queue("param", Null, name, expr)
    BY <1>6 DEF SetParamExpr
  <2>3. PICK c : c = [kind |-> "param", target |-> Null, name |-> name, expr |-> expr,
                      alone |-> chain = <<>>]
    OBVIOUS
  <2>4. Accepted(c)
    BY <2>1, <2>3 DEF Accepted, Of
  <2>5. chain' = Append(chain, c) /\ doc' = doc
    BY <2>1, <2>3 DEF Queue, document
  <2>6. c.alone <=> chain = <<>>
    BY <2>3
  <2>. QED BY <1>5, <2>4, <2>5, <2>6
<1>7. CASE SetTargetExpr
  <2>1. PICK f \in DOMAIN doc.fields, expr \in Typed :
            ValidateExpr(BoundParam(doc.defs, f), expr) /\ Queue("field", f, Null, expr)
    BY <1>7 DEF SetTargetExpr
  <2>3. PICK c : c = [kind |-> "field", target |-> f, name |-> Null, expr |-> expr,
                      alone |-> chain = <<>>]
    OBVIOUS
  <2>4. Accepted(c)
    BY <2>1, <2>3 DEF Accepted, Of
  <2>5. chain' = Append(chain, c) /\ doc' = doc
    BY <2>1, <2>3 DEF Queue, document
  <2>6. c.alone <=> chain = <<>>
    BY <2>3
  <2>. QED BY <1>5, <2>4, <2>5, <2>6
<1>8. CASE NameTarget
  <2>1. PICK f \in DOMAIN doc.fields, name \in User \ DOMAIN doc.defs, expr \in Typed :
            ValidateExpr(BoundParam(doc.defs, f), expr) /\ Queue("named", f, name, expr)
    BY <1>8 DEF NameTarget
  <2>3. PICK c : c = [kind |-> "named", target |-> f, name |-> name, expr |-> expr,
                      alone |-> chain = <<>>]
    OBVIOUS
  <2>4. Accepted(c)
    BY <2>1, <2>3 DEF Accepted, Of
  <2>5. chain' = Append(chain, c) /\ doc' = doc
    BY <2>1, <2>3 DEF Queue, document
  <2>6. c.alone <=> chain = <<>>
    BY <2>3
  <2>. QED BY <1>5, <2>4, <2>5, <2>6
<1>. QED
  BY <1>3, <1>4, <1>6, <1>7, <1>8
  DEF Next, vars, document, Land, Refused, Rename, RenameParam, Delete, DeleteParam,
      SetTargetValue, RemoveField, AddField, Undo, Redo, Replace, AtOnce

\* The check that let the only commit through still holds when it lands.
LEMMA AcceptanceHolds == Spec => []ChainInv
<1>1. Init => ChainInv
  <2>. SUFFICES ASSUME Init PROVE ChainInv
    OBVIOUS
  <2>1. chain = <<>> /\ Len(chain) = 0
    BY DEF Init
  <2>. QED BY <2>1 DEF ChainInv
<1>2. TypeOK /\ ChainInv /\ [Next]_vars => ChainInv'
  BY ChainHolds
<1>. QED BY <1>1, <1>2, TypeCorrect, PTL DEF Spec

\* EditsKeepMeaning: in a healthy document the only commit in the chain does what its check
\* promised, a rename changes no value and a deletion breaks nothing.
THEOREM Meaning == Spec => EditsKeepMeaning
<1>. DEFINE Lands == /\ Broken(doc') = {}
                     /\ Of(doc', Head(chain)) \in DOMAIN issues' =>
                            issues'[Of(doc', Head(chain))] = "target gone"
            Renames(from, to) ==
                /\ doc'.fields = doc.fields /\ doc'.defs[to].value = doc.defs[from].value
                /\ \A n \in DOMAIN doc'.defs \ {to} : doc'.defs[n].value = doc.defs[n].value
            Keeps ==
                Healthy(doc) =>
                   /\ Land /\ doc' # doc /\ Head(chain).alone => Lands
                   /\ \A from \in DOMAIN doc.defs, to \in User \ DOMAIN doc.defs :
                         RenameParam(from, to) => Renames(from, to)
                   /\ \A name \in DOMAIN doc.defs : DeleteParam(name) => Broken(doc') = {}
<1>1. TypeOK /\ ChainInv => Keeps
  <2>. SUFFICES ASSUME TypeOK, ChainInv, Healthy(doc)
                PROVE  /\ Land /\ doc' # doc /\ Head(chain).alone => Lands
                       /\ \A from \in DOMAIN doc.defs, to \in User \ DOMAIN doc.defs :
                             RenameParam(from, to) => Renames(from, to)
                       /\ \A name \in DOMAIN doc.defs :
                             DeleteParam(name) => Broken(doc') = {}
    OBVIOUS
  <2>1. IsDocument(doc) /\ chain \in Seq(Commit) /\ Broken(doc) = {}
    BY DEF TypeOK, Healthy
  <2>2. ASSUME Land, Head(chain).alone
        PROVE  Lands
    <3>1. chain # <<>> /\ ~Fails(doc.defs, Head(chain))
      BY <2>2 DEF Land
    <3>2. PICK c \in Commit : c = Head(chain)
      BY <2>1, <3>1
    <3>3. Accepted(c)
      BY <2>2, <3>1, <3>2 DEF ChainInv
    <3>. DEFINE d == After(Committed(doc, c))
    <3>4. doc' = After(d) /\ issues' = Recompute(d).issues
      BY <2>1, <2>2, <3>2, LandChanges DEF Mutate, Recomputed, After
    <3>5. /\ Broken(After(d)) = {}
          /\ Of(After(d), c) \in DOMAIN Recompute(d).issues =>
                Recompute(d).issues[Of(After(d), c)] = "target gone"
      BY <2>1, <3>1, <3>2, <3>3, LandsWell
    <3>. HIDE DEF d
    <3>. QED BY <3>2, <3>4, <3>5
  <2>3. ASSUME NEW from \in DOMAIN doc.defs, NEW to \in User \ DOMAIN doc.defs,
               RenameParam(from, to)
        PROVE  Renames(from, to)
    BY <2>1, <2>3, RenamesWell
  <2>4. ASSUME NEW name \in DOMAIN doc.defs, DeleteParam(name)
        PROVE  Broken(doc') = {}
    BY <2>1, <2>4, DeletesWell
  <2>. HIDE DEF Lands, Renames
  <2>. QED BY <2>2, <2>3, <2>4
<1>2. [][Keeps]_vars => EditsKeepMeaning
  BY PTL DEF EditsKeepMeaning
<1>. HIDE DEF Keeps
<1>. QED BY <1>1, <1>2, TypeCorrect, AcceptanceHolds, PTL
=============================================================================
