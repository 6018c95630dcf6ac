--------------------------- MODULE SessionProofs ---------------------------
(***************************************************************************)
(* Session for any paths, edits and numbers of tasks, requests and         *)
(* launches: no work is lost, a clean document is in its file, the         *)
(* autosave owes what is unsaved, and the watchdog of the shell never      *)
(* forces a page that is up.                                               *)
(*                                                                         *)
(* The argument for the work follows the fresh edits, those in no file,    *)
(* not given up and not made behind a file operation's back.  They are on  *)
(* screen or in the sketch while a document is open, and in the newest     *)
(* snapshot while none is; a task that is past the question has seen that  *)
(* there are none, and a save under way holds them all.  What is on disk   *)
(* stays there because it is anchored: in a file to which nothing is being *)
(* written that lacks it.  The snapshots are nested, the newer holding     *)
(* what is fresh in the older, so the newest alone is offered.             *)
(***************************************************************************)
EXTENDS Session, FiniteSetTheorems, SequenceTheorems, WellFoundedInduction, TLAPS

------------------------------------------------------------------------
\* What a filter of a list returns.

\* Every set of naturals that is not empty has a least element; what would be an
\* induction over data is proved from its least counterexample.
LEMMA Least == ASSUME NEW X \in SUBSET Nat, X # {}
               PROVE \E n \in X : \A m \in X : n <= m
<1>. DEFINE less == OpToRel(<, Nat)
<1>1. IsWellFoundedOn(less, Nat)
  BY NatLessThanWellFounded
<1>2. \A x, y \in Nat : x < y => <<x, y>> \in less
  BY DEF OpToRel
<1>. HIDE DEF less
<1>3. \E x \in X : \A y \in X : <<y, x>> \notin less
  BY <1>1, WFMin
<1>4. PICK n \in X : \A y \in X : <<y, n>> \notin less
  BY <1>3
<1>5. \A m \in X : ~(m < n)
  BY <1>2, <1>4
<1>. QED BY <1>5

(* How many of K are at most i.                                            *)
Count(K, i) == Cardinality({j \in K : j <= i})

\* The count of the indices up to i goes up by one at each index there is.
LEMMA CountIs ==
    ASSUME NEW n \in Nat, NEW K \in SUBSET (1..n)
    PROVE  /\ IsFiniteSet(K) /\ Cardinality(K) \in Nat
           /\ \A i \in 0..n : Count(K, i) \in Nat
           /\ Count(K, 0) = 0 /\ Count(K, n) = Cardinality(K)
           /\ \A i \in 1..n : Count(K, i) = IF i \in K THEN Count(K, i - 1) + 1
                                                      ELSE Count(K, i - 1)
<1>1. IsFiniteSet(1..n)
  BY FS_Interval
<1>2. IsFiniteSet(K) /\ Cardinality(K) \in Nat
  BY <1>1, FS_Subset, FS_CardinalityType
<1>. DEFINE upTo(i) == {j \in K : j <= i}
<1>3. \A i \in 0..n : IsFiniteSet(upTo(i)) /\ Cardinality(upTo(i)) \in Nat
  <2>1. \A i \in 0..n : upTo(i) \subseteq K
    OBVIOUS
  <2>. HIDE DEF upTo
  <2>. QED BY <1>2, <2>1, FS_Subset, FS_CardinalityType
<1>k. \A j \in K : j \in Int /\ 1 <= j /\ j <= n
  OBVIOUS
<1>4. upTo(0) = {} /\ upTo(n) = K
  <2>1. upTo(0) = {}
    <3>1. \A j \in K : ~(j <= 0)
      BY <1>k
    <3>. QED BY <3>1
  <2>2. upTo(n) = K
    BY <1>k
  <2>. QED BY <2>1, <2>2
<1>5. ASSUME NEW i \in 1..n
      PROVE  upTo(i) = IF i \in K THEN upTo(i - 1) \cup {i} ELSE upTo(i - 1)
  <2>1. \A j \in K : j <= i <=> j <= i - 1 \/ j = i
    BY <1>k
  <2>2. CASE i \in K
    BY <2>1, <2>2
  <2>3. CASE i \notin K
    BY <2>1, <2>3
  <2>. QED BY <2>2, <2>3
<1>6. \A i \in 1..n : i \notin upTo(i - 1) /\ i - 1 \in 0..n
  OBVIOUS
<1>7. \A i \in 0..n : Count(K, i) = Cardinality(upTo(i))
  BY DEF Count
<1>8. ASSUME NEW i \in 1..n
      PROVE  Cardinality(upTo(i)) = IF i \in K THEN Cardinality(upTo(i - 1)) + 1
                                               ELSE Cardinality(upTo(i - 1))
  <2>. HIDE DEF upTo
  <2>. QED BY <1>3, <1>5, <1>6, FS_AddElement
<1>9. Cardinality({}) = 0
  BY FS_EmptySet
<1>. HIDE DEF upTo
<1>10. \A i \in 1..n : i \in 0..n /\ i - 1 \in 0..n
  OBVIOUS
<1>11. 0 \in 0..n /\ n \in 0..n
  OBVIOUS
<1>. QED BY <1>2, <1>3, <1>4, <1>7, <1>8, <1>9, <1>10, <1>11

\* An index behind i counts more.
LEMMA CountGrows ==
    ASSUME NEW n \in Nat, NEW K \in SUBSET (1..n),
           NEW i \in 0..n, NEW j \in K, i < j
    PROVE  Count(K, i) < Count(K, j)
<1>1. /\ \A m \in 0..n : Count(K, m) \in Nat
      /\ \A m \in 1..n : Count(K, m) = IF m \in K THEN Count(K, m - 1) + 1
                                                  ELSE Count(K, m - 1)
  BY CountIs
<1>. DEFINE X == {m \in (i + 1)..n : Count(K, m) < Count(K, i) \/ (m \in K /\ Count(K, m) <= Count(K, i))}
<1>2. X = {}
  <2>. SUFFICES ASSUME X # {} PROVE FALSE
    OBVIOUS
  <2>1. X \in SUBSET Nat
    OBVIOUS
  <2>2. PICK m \in X : \A k \in X : m <= k
    <3>. HIDE DEF X
    <3>. QED BY <2>1, Least
  <2>3. m \in 1..n /\ m - 1 \in 0..n /\ m \in (i + 1)..n
    OBVIOUS
  <2>4. m - 1 = i \/ (m - 1 \in (i + 1)..n /\ m - 1 \notin X)
    BY <2>1, <2>2, <2>3
  <2>5. Count(K, m - 1) >= Count(K, i)
    BY <1>1, <2>3, <2>4
  <2>. QED BY <1>1, <2>2, <2>3, <2>5
<1>3. j \in (i + 1)..n
  OBVIOUS
<1>. QED BY <1>1, <1>2, <1>3

\* There is one k-th index.
LEMMA NthIs ==
    ASSUME NEW n \in Nat, NEW K \in SUBSET (1..n), NEW k \in 1..Cardinality(K)
    PROVE  /\ Nth(K, k) \in K /\ Count(K, Nth(K, k)) = k
           /\ \A i \in K : Count(K, i) = k => i = Nth(K, k)
<1>1. /\ Cardinality(K) \in Nat
      /\ \A m \in 0..n : Count(K, m) \in Nat
      /\ Count(K, 0) = 0 /\ Count(K, n) = Cardinality(K)
      /\ \A m \in 1..n : Count(K, m) = IF m \in K THEN Count(K, m - 1) + 1
                                                  ELSE Count(K, m - 1)
  BY CountIs
<1>. DEFINE X == {m \in 0..n : Count(K, m) >= k}
<1>2. PICK m \in X : \A l \in X : m <= l
  <2>1. X \in SUBSET Nat /\ X # {}
    <3>1. n \in X
      BY <1>1
    <3>. QED BY <3>1
  <2>. HIDE DEF X
  <2>. QED BY <2>1, Least
<1>3. m # 0
  BY <1>1
<1>4. m \in 1..n /\ m - 1 \in 0..n /\ m - 1 \notin X
  BY <1>2, <1>3
<1>5. m \in K /\ Count(K, m) = k
  BY <1>1, <1>4
<1>6. Nth(K, k) \in K /\ Count(K, Nth(K, k)) = k
  BY <1>5 DEF Nth, Count
<1>7. ASSUME NEW i \in K, NEW j \in K, Count(K, i) = k, Count(K, j) = k PROVE i = j
  <2>1. i \in 0..n /\ j \in 0..n
    OBVIOUS
  <2>2. ~(i < j)
    <3>. SUFFICES ASSUME i < j PROVE FALSE
      OBVIOUS
    <3>1. Count(K, i) < Count(K, j)
      BY <2>1, CountGrows
    <3>. QED BY <1>7, <3>1
  <2>3. ~(j < i)
    <3>. SUFFICES ASSUME j < i PROVE FALSE
      OBVIOUS
    <3>1. Count(K, j) < Count(K, i)
      BY <2>1, CountGrows
    <3>. QED BY <1>7, <3>1
  <2>. QED BY <2>1, <2>2, <2>3
<1>. QED BY <1>6, <1>7

\* What Array.filter returns: its length, its elements in terms of Nth, its range.
LEMMA FilteredIs ==
    ASSUME NEW S, NEW s \in Seq(S), NEW K \in SUBSET DOMAIN s
    PROVE  /\ Filtered(s, K) \in Seq(S)
           /\ Len(Filtered(s, K)) = Cardinality(K) /\ Cardinality(K) \in Nat
           /\ Cardinality(K) <= Len(s)
           /\ \A k \in 1..Cardinality(K) : Filtered(s, K)[k] = s[Nth(K, k)] /\ Nth(K, k) \in K
           /\ Range(Filtered(s, K)) = {s[i] : i \in K}
<1>1. Len(s) \in Nat /\ DOMAIN s = 1..Len(s) /\ K \in SUBSET (1..Len(s))
  OBVIOUS
<1>2. /\ IsFiniteSet(K) /\ Cardinality(K) \in Nat
      /\ \A i \in K : Count(K, i) \in Nat
  BY <1>1, CountIs
<1>3. Cardinality(K) <= Len(s)
  <2>1. IsFiniteSet(1..Len(s)) /\ Cardinality(1..Len(s)) = Len(s)
    <3>1. /\ IsFiniteSet(1..Len(s))
          /\ Cardinality(1..Len(s)) = IF 1 > Len(s) THEN 0 ELSE Len(s) - 1 + 1
      <4>1. 1 \in Int /\ Len(s) \in Int
        BY <1>1
      <4>. QED BY <4>1, FS_Interval
    <3>. QED BY <1>1, <3>1
  <2>. QED BY <1>1, <2>1, FS_Subset
<1>4. \A k \in 1..Cardinality(K) : Nth(K, k) \in K
  BY <1>1, NthIs
<1>. DEFINE f == Filtered(s, K)
<1>5. /\ DOMAIN f = 1..Cardinality(K)
      /\ \A k \in 1..Cardinality(K) : f[k] = s[Nth(K, k)]
      /\ f = [k \in 1..Cardinality(K) |-> f[k]]
  BY DEF Filtered
<1>. HIDE DEF f
<1>6. \A k \in 1..Cardinality(K) : f[k] \in S
  BY <1>1, <1>4, <1>5
<1>7. f \in Seq(S) /\ Len(f) = Cardinality(K)
  BY <1>2, <1>5, <1>6
<1>8. \A i \in K : \E k \in 1..Cardinality(K) : Nth(K, k) = i
  <2>. SUFFICES ASSUME NEW i \in K PROVE \E k \in 1..Cardinality(K) : Nth(K, k) = i
    OBVIOUS
  <2>1. Count(K, i) \in 1..Cardinality(K)
    <3>1. /\ Count(K, 0) = 0 /\ Count(K, Len(s)) = Cardinality(K)
          /\ \A m \in 0..Len(s) : Count(K, m) \in Nat
      BY <1>1, CountIs
    <3>2. Count(K, 0) < Count(K, i)
      <4>1. 0 \in 0..Len(s) /\ 0 < i
        BY <1>1
      <4>. QED BY <1>1, <4>1, CountGrows
    <3>3. Count(K, i) <= Cardinality(K)
      BY <1>2, FS_Subset DEF Count
    <3>. QED BY <1>1, <1>2, <3>1, <3>2, <3>3
  <2>2. i = Nth(K, Count(K, i))
    BY <1>1, <2>1, NthIs
  <2>. QED BY <2>1, <2>2
<1>9. Range(f) = {s[i] : i \in K}
  BY <1>4, <1>5, <1>8 DEF Range
<1>. QED BY <1>2, <1>3, <1>4, <1>5, <1>7, <1>9 DEF f

------------------------------------------------------------------------
\* Types.

Document == [content : SUBSET Edit, path : Path \cup {Null}, dirty : BOOLEAN]
Task == {"save", "file", "quit"}
Pc == {"idle", "dialog", "prompt", "writing", "writingAs", "clear", "discard", "go",
       "closing", "reading"}
Step == [pc : Pc, goal : {"none", "new", "quit"} \cup Path, path : Path \cup {Null},
         content : SUBSET Edit]

Types ==
    /\ TypeOK
    /\ tasks \in [Task -> Step]
    /\ edits \subseteq Edit /\ answered \subseteq Edit /\ orphans \subseteq Edit
    /\ unguarded \subseteq Edit /\ lapses \subseteq {"skipped", "failed", "swept"}

\* Null, the name of the untitled slot and "new" are not mistaken for anything else.
LEMMA NullIs ==
    /\ Null \notin Path /\ Untitled \notin Path /\ "new" \notin Path
    /\ \A x \in Snapshot : x # Null
    /\ \A x \in Offer : x # Null
    /\ \A c \in SUBSET Edit : c # Null
<1>1. \A c \in SUBSET Edit : c # Null
  <2>. SUFFICES ASSUME NEW c \in SUBSET Edit PROVE c # Null
    OBVIOUS
  <2>. DEFINE s == [slot |-> Untitled, content |-> c]
  <2>1. s \in Snapshot /\ s.content = c
    BY DEF Snapshot, Slot
  <2>2. s \in Snapshot \cup Offer
    BY <2>1
  <2>. HIDE DEF s
  <2>. QED BY <2>1, <2>2, NamesAssumption
<1>. QED BY <1>1, NamesAssumption

\* The updates of the document, as explicit records.
LEMMA DocIs ==
    ASSUME NEW d \in Document, NEW c, NEW p, NEW b
    PROVE  /\ [d EXCEPT !.content = c, !.dirty = b] = [content |-> c, path |-> d.path, dirty |-> b]
           /\ [d EXCEPT !.path = p, !.dirty = b] = [content |-> d.content, path |-> p, dirty |-> b]
<1>. DEFINE x == [d EXCEPT !.content = c]
            y == [d EXCEPT !.path = p]
<1>1. /\ x = [content |-> c, path |-> d.path, dirty |-> d.dirty]
      /\ y = [content |-> d.content, path |-> p, dirty |-> d.dirty]
  BY DEF Document
<1>2. /\ [d EXCEPT !.content = c, !.dirty = b] = [x EXCEPT !.dirty = b]
      /\ [d EXCEPT !.path = p, !.dirty = b] = [y EXCEPT !.dirty = b]
  OBVIOUS
<1>. HIDE DEF x, y
<1>3. /\ [x EXCEPT !.dirty = b] = [content |-> c, path |-> d.path, dirty |-> b]
      /\ [y EXCEPT !.dirty = b] = [content |-> d.content, path |-> p, dirty |-> b]
  BY <1>1
<1>. QED BY <1>2, <1>3, Zenon

\* The updates of a task's step, as explicit records.
LEMMA StepIs ==
    ASSUME NEW s \in Step, NEW a, NEW p, NEW c
    PROVE  /\ [s EXCEPT !.pc = a] =
                  [pc |-> a, goal |-> s.goal, path |-> s.path, content |-> s.content]
           /\ [s EXCEPT !.pc = a, !.path = p] =
                  [pc |-> a, goal |-> s.goal, path |-> p, content |-> s.content]
           /\ [s EXCEPT !.pc = a, !.path = p, !.content = c] =
                  [pc |-> a, goal |-> s.goal, path |-> p, content |-> c]
<1>. DEFINE x == [s EXCEPT !.pc = a]
            y == [x EXCEPT !.path = p]
<1>1. x = [pc |-> a, goal |-> s.goal, path |-> s.path, content |-> s.content]
  BY DEF Step
<1>2. /\ [s EXCEPT !.pc = a, !.path = p] = y
      /\ [s EXCEPT !.pc = a, !.path = p, !.content = c] = [y EXCEPT !.content = c]
  OBVIOUS
<1>. HIDE DEF x
<1>3. y = [pc |-> a, goal |-> s.goal, path |-> p, content |-> s.content]
  BY <1>1
<1>. HIDE DEF y
<1>4. [y EXCEPT !.content = c] = [pc |-> a, goal |-> s.goal, path |-> p, content |-> c]
  BY <1>1, <1>3
<1>. QED BY <1>1, <1>2, <1>3, <1>4, Zenon DEF x

\* The same for the update that empties a step.
LEMMA EmptiedIs ==
    ASSUME NEW s \in Step, NEW p, NEW c
    PROVE  [s EXCEPT !.path = p, !.content = c] =
                  [pc |-> s.pc, goal |-> s.goal, path |-> p, content |-> c]
<1>. DEFINE z == [s EXCEPT !.path = p]
<1>1. z = [pc |-> s.pc, goal |-> s.goal, path |-> p, content |-> s.content]
  BY DEF Step
<1>2. [s EXCEPT !.path = p, !.content = c] = [z EXCEPT !.content = c]
  OBVIOUS
<1>. HIDE DEF z
<1>3. [z EXCEPT !.content = c] = [pc |-> s.pc, goal |-> s.goal, path |-> p, content |-> c]
  BY <1>1
<1>. QED BY <1>2, <1>3, Zenon

\* Where tasks and documents start.
LEMMA IdleIs ==
    /\ Idle \in Step /\ Idle.pc = "idle" /\ Idle.goal = "none" /\ Idle.path = Null /\ Idle.content = {}
    /\ AllIdle \in [Task -> Step] /\ \A t \in Task : AllIdle[t] = Idle
    /\ Blank \in Document /\ Blank.content = {} /\ Blank.path = Null /\ ~Blank.dirty
BY DEF Idle, AllIdle, Blank, Step, Pc, Task, Document

\* One task moves on, the others stay.
LEMMA ToIs ==
    ASSUME tasks \in [Task -> Step], NEW t \in Task, NEW s \in Step, To(t, s)
    PROVE  /\ tasks' \in [Task -> Step] /\ tasks'[t] = s
           /\ \A u \in Task \ {t} : tasks'[u] = tasks[u]
BY DEF To

\* The steps a save goes through.
LEMMA SavingIs ==
    ASSUME doc \in Document, NEW s \in Step
    PROVE  /\ Saving(s) \in Step /\ Saving(s).goal = s.goal
           /\ \/ Saving(s).pc = "dialog" /\ Saving(s).content = s.content
              \/ /\ Saving(s).pc = "writing" /\ Saving(s).path = doc.path /\ doc.path \in Path
                 /\ Saving(s).content = doc.content
<1>1. CASE doc.path = Null
  <2>1. Saving(s) = [pc |-> "dialog", goal |-> s.goal, path |-> s.path, content |-> s.content]
    BY <1>1, StepIs DEF Saving
  <2>. QED BY <2>1 DEF Step, Pc
<1>2. CASE doc.path # Null
  <2>1. Saving(s) = [pc |-> "writing", goal |-> s.goal, path |-> doc.path, content |-> doc.content]
    BY <1>2, StepIs DEF Saving
  <2>2. doc.path \in Path /\ doc.content \in SUBSET Edit
    BY <1>2 DEF Document
  <2>. QED BY <2>1, <2>2 DEF Step, Pc
<1>. QED BY <1>1, <1>2

\* What a save answers: the way on over a clean document, or an end.
LEMMA SavedIs ==
    ASSUME NEW s \in Step, NEW dirty \in BOOLEAN
    PROVE  /\ Saved(s, dirty) \in Step
           /\ Saved(s, dirty).content = {}
           /\ \/ Saved(s, dirty).pc = "idle" /\ Saved(s, dirty).goal = "none"
              \/ Saved(s, dirty).pc = "go" /\ Saved(s, dirty).goal = s.goal /\ ~dirty
<1>. DEFINE goes == [s EXCEPT !.pc = "go"]
            base == IF s.goal # "none" /\ ~dirty THEN goes ELSE Idle
<1>1. goes = [pc |-> "go", goal |-> s.goal, path |-> s.path, content |-> s.content]
  BY StepIs
<1>2. goes \in Step /\ goes.pc = "go" /\ goes.goal = s.goal
  BY <1>1 DEF Step, Pc
<1>. HIDE DEF goes
<1>3. /\ base \in Step
      /\ \/ base.pc = "idle" /\ base.goal = "none"
         \/ base.pc = "go" /\ base.goal = s.goal /\ ~dirty
  BY <1>2, IdleIs
<1>4. Saved(s, dirty) = [base EXCEPT !.path = Null, !.content = {}]
  BY DEF Saved, goes
<1>. HIDE DEF base
<1>5. Saved(s, dirty) = [pc |-> base.pc, goal |-> base.goal, path |-> Null, content |-> {}]
  <2>1. [base EXCEPT !.path = Null, !.content = {}] =
            [pc |-> base.pc, goal |-> base.goal, path |-> Null, content |-> {}]
    BY <1>3, EmptiedIs
  <2>. QED BY <1>4, <2>1, Zenon
<1>. QED BY <1>3, <1>5 DEF Step

\* The question before unsaved work is asked of a dirty document alone.
LEMMA AskingIs ==
    ASSUME NEW goal \in {"new", "quit"} \cup Path, NEW dirty \in BOOLEAN
    PROVE  /\ Asking(goal, Null, dirty) \in Step
           /\ Asking(goal, Null, dirty).goal = goal /\ Asking(goal, Null, dirty).content = {}
           /\ \/ Asking(goal, Null, dirty).pc = "prompt" /\ dirty
              \/ Asking(goal, Null, dirty).pc = "go" /\ ~dirty
<1>1. Asking(goal, Null, dirty) =
          [pc |-> IF dirty THEN "prompt" ELSE "go", goal |-> goal, path |-> Null, content |-> {}]
  BY DEF Asking
<1>2. CASE dirty
  BY <1>1, <1>2 DEF Step, Pc
<1>3. CASE ~dirty
  BY <1>1, <1>3 DEF Step, Pc
<1>. QED BY <1>2, <1>3

\* The document with an edit in it.
LEMMA CommitIs ==
    ASSUME doc \in Document, NEW E \in SUBSET Edit, Commit(E)
    PROVE  /\ doc' \in Document /\ doc'.content = doc.content \cup E /\ doc'.path = doc.path
           /\ doc'.dirty = (doc.dirty \/ E # {})
<1>. DEFINE c == doc.content \cup E
            b == (doc.dirty \/ E # {})
<1>1. doc' = [doc EXCEPT !.content = c, !.dirty = b]
  BY DEF Commit
<1>2. c \in SUBSET Edit /\ b \in BOOLEAN
  BY DEF Document
<1>. HIDE DEF c, b
<1>3. doc' = [content |-> c, path |-> doc.path, dirty |-> b]
  BY <1>1, DocIs
<1>4. /\ [content |-> c, path |-> doc.path, dirty |-> b].content = c
      /\ [content |-> c, path |-> doc.path, dirty |-> b].path = doc.path
      /\ [content |-> c, path |-> doc.path, dirty |-> b].dirty = b
  OBVIOUS
<1>5. doc' \in Document
  BY <1>2, <1>3 DEF Document
<1>6. doc'.content = c /\ doc'.path = doc.path /\ doc'.dirty = b
  BY <1>3, <1>4, Zenon
<1>. QED BY <1>5, <1>6 DEF c, b

------------------------------------------------------------------------
\* The recovery slots.

\* s is the slots without some, in their order.
Thinned(s, cleared) ==
    /\ s \in Seq(Snapshot)
    /\ \E from \in [1..Len(s) -> 1..Len(slots)] :
          /\ \A k \in 1..Len(s) : s[k] = slots[from[k]] /\ slots[from[k]].slot \notin cleared
          /\ \A k, l \in 1..Len(s) : k < l => from[k] < from[l]
          /\ \A i \in 1..Len(slots) :
                slots[i].slot \notin cleared => \E k \in 1..Len(s) : from[k] = i

\* What recovery_clear leaves of the slots is a thinned list.
LEMMA WithoutIs ==
    ASSUME slots \in Seq(Snapshot), NEW cleared
    PROVE  Thinned(Without(cleared), cleared)
<1>. DEFINE K == {i \in DOMAIN slots : slots[i].slot \notin cleared}
            s == Filtered(slots, K)
            n == Len(slots)
            from == [k \in 1..Cardinality(K) |-> Nth(K, k)]
<1>1. DOMAIN slots = 1..n /\ n \in Nat /\ K \in SUBSET (1..n)
  BY LenProperties
<1>2. /\ s \in Seq(Snapshot) /\ Len(s) = Cardinality(K) /\ Cardinality(K) \in Nat
      /\ \A k \in 1..Cardinality(K) : s[k] = slots[Nth(K, k)] /\ Nth(K, k) \in K
  <2>1. K \in SUBSET DOMAIN slots
    OBVIOUS
  <2>. HIDE DEF K
  <2>. QED BY <2>1, FilteredIs
<1>3. \A i \in K : slots[i].slot \notin cleared
  OBVIOUS
<1>4. \A i \in 1..n : slots[i].slot \notin cleared => i \in K
  BY <1>1
<1>5. Without(cleared) = s
  BY DEF Without
<1>. HIDE DEF K, s
<1>6. \A k \in 1..Cardinality(K) : /\ Count(K, Nth(K, k)) = k
                                   /\ \A i \in K : Count(K, i) = k => i = Nth(K, k)
  BY <1>1, NthIs
<1>7. ASSUME NEW k \in 1..Cardinality(K), NEW l \in 1..Cardinality(K), k < l
      PROVE  Nth(K, k) < Nth(K, l)
  <2>1. Nth(K, k) \in K /\ Nth(K, l) \in K /\ Nth(K, k) \in 0..n /\ Nth(K, l) \in 0..n
    <3>1. \A i \in 1..n : i \in 0..n
      BY <1>1
    <3>2. Nth(K, k) \in K /\ Nth(K, l) \in K
      BY <1>2
    <3>. QED BY <1>1, <3>1, <3>2
  <2>2. Nth(K, l) < Nth(K, k) => Count(K, Nth(K, l)) < Count(K, Nth(K, k))
    BY <1>1, <2>1, CountGrows
  <2>3. Nth(K, l) < Nth(K, k) => l < k
    BY <1>6, <2>2
  <2>4. Nth(K, l) = Nth(K, k) => l = k
    BY <1>6
  <2>. QED BY <1>2, <1>7, <2>1, <2>3, <2>4
<1>8. ASSUME NEW i \in K PROVE \E k \in 1..Cardinality(K) : Nth(K, k) = i
  <2>1. i \in 1..n /\ i \in 0..n /\ 0 \in 0..n
    BY <1>1
  <2>2. Count(K, i) \in Nat /\ Count(K, 0) = 0 /\ Count(K, n) = Cardinality(K)
    BY <1>1, <2>1, CountIs
  <2>3. 0 < Count(K, i)
    BY <1>1, <2>1, <2>2, CountGrows
  <2>4. Count(K, i) <= Cardinality(K)
    <3>. DEFINE A == {j \in K : j <= i}
    <3>1. IsFiniteSet(K) /\ A \subseteq K
      BY <1>1, CountIs
    <3>2. Cardinality(A) <= Cardinality(K)
      BY <3>1, FS_Subset
    <3>. QED BY <3>2 DEF Count
  <2>5. Count(K, i) \in 1..Cardinality(K)
    BY <1>2, <2>2, <2>3, <2>4
  <2>. QED BY <1>6, <2>5
<1>9. from \in [1..Len(s) -> 1..n]
  BY <1>1, <1>2
<1>10. /\ \A k \in 1..Len(s) : s[k] = slots[from[k]] /\ slots[from[k]].slot \notin cleared
       /\ \A k, l \in 1..Len(s) : k < l => from[k] < from[l]
       /\ \A i \in 1..n : slots[i].slot \notin cleared => \E k \in 1..Len(s) : from[k] = i
  <2>1. \A k \in 1..Len(s) : from[k] = Nth(K, k)
    BY <1>2
  <2>2. \A k \in 1..Len(s) : s[k] = slots[from[k]] /\ slots[from[k]].slot \notin cleared
    BY <1>2, <1>3, <2>1
  <2>3. \A k, l \in 1..Len(s) : k < l => from[k] < from[l]
    BY <1>2, <1>7, <2>1
  <2>4. \A i \in 1..n : slots[i].slot \notin cleared => \E k \in 1..Len(s) : from[k] = i
    BY <1>2, <1>4, <1>8, <2>1
  <2>. QED BY <2>2, <2>3, <2>4
<1>. HIDE DEF from
<1>. QED BY <1>2, <1>5, <1>9, <1>10 DEF Thinned

Unique(s) == \A i, j \in DOMAIN s : s[i].slot = s[j].slot => i = j

\* What a snapshot holds of E, the ones that are newer hold too.
Nested(s, E) == \A i, j \in DOMAIN s : i < j => E \cap s[j].content \subseteq s[i].content

\* What the slots hold, index by index.
LEMMA ContentsAre ==
    ASSUME NEW s \in Seq(Snapshot)
    PROVE  /\ DOMAIN s = 1..Len(s) /\ Len(s) \in Nat
           /\ \A e : e \in Contents(s) <=> \E i \in 1..Len(s) : e \in s[i].content
BY LenProperties DEF Contents, Range

\* Thinning takes the cleared slots, adds nothing and keeps the rest.
LEMMA ThinnedIs ==
    ASSUME slots \in Seq(Snapshot), Unique(slots), NEW cleared, NEW s, Thinned(s, cleared)
    PROVE  /\ s \in Seq(Snapshot) /\ Unique(s) /\ DOMAIN s = 1..Len(s) /\ Len(s) \in Nat
           /\ \A k \in 1..Len(s) : /\ s[k].slot \notin cleared
                                   /\ \E i \in 1..Len(slots) : s[k] = slots[i]
           /\ \A i \in 1..Len(slots) : slots[i].slot \notin cleared => \E k \in 1..Len(s) : s[k] = slots[i]
           /\ Contents(s) \subseteq Contents(slots)
<1>1. PICK from \in [1..Len(s) -> 1..Len(slots)] :
          /\ \A k \in 1..Len(s) : s[k] = slots[from[k]] /\ slots[from[k]].slot \notin cleared
          /\ \A k, l \in 1..Len(s) : k < l => from[k] < from[l]
          /\ \A i \in 1..Len(slots) :
                slots[i].slot \notin cleared => \E k \in 1..Len(s) : from[k] = i
  BY DEF Thinned
<1>2. s \in Seq(Snapshot) /\ DOMAIN s = 1..Len(s) /\ DOMAIN slots = 1..Len(slots) /\ Len(s) \in Nat
  BY LenProperties DEF Thinned
<1>3. \A k \in 1..Len(s) : from[k] \in 1..Len(slots)
  OBVIOUS
<1>4. \A k \in 1..Len(s) : s[k].slot \notin cleared /\ \E i \in 1..Len(slots) : s[k] = slots[i]
  BY <1>1, <1>3
<1>5. \A i \in 1..Len(slots) : slots[i].slot \notin cleared => \E k \in 1..Len(s) : s[k] = slots[i]
  BY <1>1
<1>6. Unique(s)
  <2>. SUFFICES ASSUME NEW k \in 1..Len(s), NEW l \in 1..Len(s), s[k].slot = s[l].slot
                PROVE  k = l
    BY <1>2 DEF Unique
  <2>1. from[k] = from[l]
    BY <1>1, <1>2, <1>3 DEF Unique
  <2>2. k < l \/ l < k \/ k = l
    BY <1>2
  <2>. QED BY <1>1, <1>3, <2>1, <2>2
<1>7. Contents(s) \subseteq Contents(slots)
  BY <1>2, <1>4, ContentsAre
<1>. QED BY <1>2, <1>4, <1>5, <1>6, <1>7

\* Thinning keeps the order in which the snapshots hold each other.
LEMMA ThinnedNested ==
    ASSUME slots \in Seq(Snapshot), NEW cleared, NEW s, Thinned(s, cleared), NEW E, Nested(slots, E)
    PROVE  Nested(s, E)
<1>1. PICK from \in [1..Len(s) -> 1..Len(slots)] :
          /\ \A k \in 1..Len(s) : s[k] = slots[from[k]]
          /\ \A k, l \in 1..Len(s) : k < l => from[k] < from[l]
  BY DEF Thinned
<1>2. DOMAIN s = 1..Len(s) /\ DOMAIN slots = 1..Len(slots)
  BY LenProperties DEF Thinned
<1>3. \A k \in 1..Len(s) : from[k] \in 1..Len(slots)
  OBVIOUS
<1>. QED BY <1>1, <1>2, <1>3 DEF Nested

\* What is left beside the slot that a snapshot goes to.
LEMMA RestIs ==
    ASSUME slots \in Seq(Snapshot), Unique(slots), NEW x \in Snapshot
    PROVE  LET r == Without({x.slot}) IN
           /\ r \in Seq(Snapshot) /\ Unique(r) /\ DOMAIN r = 1..Len(r) /\ Len(r) \in Nat
           /\ Contents(r) \subseteq Contents(slots)
           /\ \A k \in 1..Len(r) : r[k].slot # x.slot
           /\ \A k \in 1..Len(r) : \E i \in 1..Len(slots) : r[k] = slots[i]
           /\ \A i \in 1..Len(slots) : slots[i].slot # x.slot => \E k \in 1..Len(r) : r[k] = slots[i]
<1>. DEFINE r == Without({x.slot})
<1>1. Thinned(r, {x.slot})
  BY WithoutIs
<1>. HIDE DEF r
<1>2. /\ r \in Seq(Snapshot) /\ Unique(r) /\ DOMAIN r = 1..Len(r) /\ Len(r) \in Nat
      /\ \A k \in 1..Len(r) : /\ r[k].slot \notin {x.slot}
                               /\ \E i \in 1..Len(slots) : r[k] = slots[i]
      /\ \A i \in 1..Len(slots) : slots[i].slot \notin {x.slot} => \E k \in 1..Len(r) : r[k] = slots[i]
      /\ Contents(r) \subseteq Contents(slots)
  BY <1>1, ThinnedIs
<1>. QED BY <1>2 DEF r

\* A stored snapshot is the first, and moves the rest up by one.
LEMMA PrependIs ==
    ASSUME slots \in Seq(Snapshot), Unique(slots), NEW x \in Snapshot
    PROVE  LET r == Without({x.slot})
               s == Stored(x)
           IN  /\ s \in Seq(Snapshot) /\ DOMAIN s = 1..Len(s) /\ Len(s) \in Nat /\ Len(s) >= 1
               /\ s[1] = x /\ Len(s) = Len(r) + 1
               /\ \A k \in 1..Len(s) : k = 1 \/ (k - 1 \in 1..Len(r) /\ s[k] = r[k - 1])
               /\ \A k \in 1..Len(r) : k + 1 \in 1..Len(s) /\ s[k + 1] = r[k]
<1>. DEFINE r == Without({x.slot})
            s == Stored(x)
            n == Len(r)
<1>1. r \in Seq(Snapshot) /\ n \in Nat
  BY RestIs
<1>2. s = <<x>> \o r
  BY DEF Stored
<1>. HIDE DEF r, s
<1>3. <<x>> \in Seq(Snapshot) /\ Len(<<x>>) = 1 /\ <<x>>[1] = x
  OBVIOUS
<1>4. /\ s \in Seq(Snapshot) /\ Len(s) = 1 + n
      /\ \A k \in 1..Len(s) : s[k] = IF k <= 1 THEN <<x>>[k] ELSE r[k - 1]
  BY <1>1, <1>2, <1>3, ConcatProperties
<1>. HIDE DEF n
<1>5. /\ 1 \in 1..1 + n /\ 1 + n \in Nat /\ 1 + n >= 1 /\ 1 + n = n + 1
      /\ \A k \in 1..1 + n : k <= 1 => k = 1
      /\ \A k \in 1..1 + n : ~(k <= 1) => k - 1 \in 1..n
      /\ \A k \in 1..n : k + 1 \in 1..1 + n /\ ~(k + 1 <= 1) /\ (k + 1) - 1 = k
  BY <1>1
<1>6. s[1] = x
  BY <1>3, <1>4, <1>5
<1>7. \A k \in 1..Len(s) : k = 1 \/ (k - 1 \in 1..n /\ s[k] = r[k - 1])
  BY <1>4, <1>5
<1>8. \A k \in 1..n : k + 1 \in 1..Len(s) /\ s[k + 1] = r[k]
  BY <1>4, <1>5
<1>9. DOMAIN s = 1..Len(s)
  BY <1>4, LenProperties
<1>. QED BY <1>4, <1>5, <1>6, <1>7, <1>8, <1>9 DEF s, r, n

\* recovery_write: the snapshot is the newest, the one it replaces is gone, the rest stays.
LEMMA StoredIs ==
    ASSUME slots \in Seq(Snapshot), Unique(slots), NEW x \in Snapshot
    PROVE  LET s == Stored(x) IN
           /\ s \in Seq(Snapshot) /\ Unique(s) /\ DOMAIN s = 1..Len(s) /\ Len(s) \in Nat
           /\ Len(s) >= 1 /\ s[1] = x
           /\ \A k \in 1..Len(s) : k = 1 \/ \E i \in 1..Len(slots) : s[k] = slots[i]
           /\ \A i \in 1..Len(slots) : slots[i].slot = x.slot \/ \E k \in 1..Len(s) : s[k] = slots[i]
           /\ \A e : e \in Contents(s) => e \in x.content \/ e \in Contents(slots)
           /\ \A e : e \in x.content => e \in Contents(s)
<1>. DEFINE r == Without({x.slot})
            s == Stored(x)
<1>1. /\ r \in Seq(Snapshot) /\ Unique(r) /\ DOMAIN r = 1..Len(r) /\ Len(r) \in Nat
      /\ \A k \in 1..Len(r) : r[k].slot # x.slot
      /\ \A k \in 1..Len(r) : \E i \in 1..Len(slots) : r[k] = slots[i]
      /\ \A i \in 1..Len(slots) : slots[i].slot # x.slot => \E k \in 1..Len(r) : r[k] = slots[i]
  BY RestIs
<1>2. /\ s \in Seq(Snapshot) /\ DOMAIN s = 1..Len(s) /\ Len(s) \in Nat /\ Len(s) >= 1
      /\ s[1] = x
      /\ \A k \in 1..Len(s) : k = 1 \/ (k - 1 \in 1..Len(r) /\ s[k] = r[k - 1])
      /\ \A k \in 1..Len(r) : k + 1 \in 1..Len(s) /\ s[k + 1] = r[k]
  BY PrependIs
<1>. HIDE DEF r, s
<1>3. \A k \in 1..Len(s) : k = 1 \/ \E i \in 1..Len(slots) : s[k] = slots[i]
  <2>. SUFFICES ASSUME NEW k \in 1..Len(s), k # 1 PROVE \E i \in 1..Len(slots) : s[k] = slots[i]
    OBVIOUS
  <2>1. k - 1 \in 1..Len(r) /\ s[k] = r[k - 1]
    BY <1>2
  <2>2. \A j \in 1..Len(r) : \E i \in 1..Len(slots) : r[j] = slots[i]
    BY <1>1
  <2>3. PICK i \in 1..Len(slots) : r[k - 1] = slots[i]
    BY <2>1, <2>2, Zenon
  <2>. QED BY <2>1, <2>3
<1>4. \A i \in 1..Len(slots) : slots[i].slot = x.slot \/ \E k \in 1..Len(s) : s[k] = slots[i]
  BY <1>1, <1>2
<1>5. Unique(s)
  <2>. SUFFICES ASSUME NEW k \in 1..Len(s), NEW l \in 1..Len(s), s[k].slot = s[l].slot
                PROVE  k = l
    BY <1>2 DEF Unique
  <2>1. k = 1 \/ (k - 1 \in 1..Len(r) /\ s[k] = r[k - 1])
    BY <1>2
  <2>2. l = 1 \/ (l - 1 \in 1..Len(r) /\ s[l] = r[l - 1])
    BY <1>2
  <2>3. CASE k = 1 \/ l = 1
    BY <1>1, <1>2, <2>1, <2>2, <2>3
  <2>4. CASE k # 1 /\ l # 1
    <3>1. \A a, b \in 1..Len(r) : r[a].slot = r[b].slot => a = b
      BY <1>1 DEF Unique
    <3>2. k - 1 = l - 1
      BY <2>1, <2>2, <2>4, <3>1
    <3>. QED BY <1>2, <3>2
  <2>. QED BY <2>3, <2>4
<1>6. \A e : e \in Contents(s) => e \in x.content \/ e \in Contents(slots)
  <2>. SUFFICES ASSUME NEW e, e \in Contents(s) PROVE e \in x.content \/ e \in Contents(slots)
    OBVIOUS
  <2>1. PICK k \in 1..Len(s) : e \in s[k].content
    BY <1>2, ContentsAre
  <2>2. CASE k = 1
    BY <1>2, <2>1, <2>2
  <2>3. CASE k # 1
    <3>1. PICK i \in 1..Len(slots) : s[k] = slots[i]
      BY <1>3, <2>3
    <3>2. e \in slots[i].content
      BY <2>1, <3>1
    <3>. QED BY <3>2, ContentsAre
  <2>. QED BY <2>2, <2>3
<1>7. \A e : e \in x.content => e \in Contents(s)
  <2>1. 1 \in 1..Len(s)
    BY <1>2
  <2>. QED BY <1>2, <2>1, ContentsAre
<1>. QED BY <1>2, <1>3, <1>4, <1>5, <1>6, <1>7 DEF s

\* A snapshot of all of E that there was loses none of E, and is the newest of it.
LEMMA StoredNested ==
    ASSUME slots \in Seq(Snapshot), Unique(slots), NEW x \in Snapshot, NEW E,
           Nested(slots, E), E \cap Contents(slots) \subseteq x.content
    PROVE  /\ Nested(Stored(x), E)
           /\ E \cap Contents(slots) \subseteq Contents(Stored(x))
           /\ E \cap Contents(Stored(x)) \subseteq x.content
<1>. DEFINE r == Without({x.slot})
            s == Stored(x)
<1>1. r \in Seq(Snapshot) /\ DOMAIN r = 1..Len(r) /\ Contents(r) \subseteq Contents(slots)
  BY RestIs
<1>2. Nested(r, E)
  BY WithoutIs, ThinnedNested
<1>3. /\ DOMAIN s = 1..Len(s) /\ Len(s) \in Nat /\ s[1] = x
      /\ \A k \in 1..Len(s) : k = 1 \/ (k - 1 \in 1..Len(r) /\ s[k] = r[k - 1])
  BY PrependIs
<1>4. /\ \A e : e \in Contents(s) => e \in x.content \/ e \in Contents(slots)
      /\ \A e : e \in x.content => e \in Contents(s)
  BY StoredIs
<1>. HIDE DEF r, s
<1>5. Nested(s, E)
  <2>. SUFFICES ASSUME NEW i \in 1..Len(s), NEW j \in 1..Len(s), i < j
                PROVE  E \cap s[j].content \subseteq s[i].content
    BY <1>3 DEF Nested
  <2>1. j # 1
    BY <1>3
  <2>2. j - 1 \in 1..Len(r) /\ s[j] = r[j - 1]
    BY <1>3, <2>1
  <2>3. CASE i = 1
    <3>1. s[j].content \subseteq Contents(r)
      BY <1>1, <2>2, ContentsAre
    <3>. QED BY <1>1, <1>3, <2>3, <3>1
  <2>4. CASE i # 1
    <3>1. i - 1 \in 1..Len(r) /\ s[i] = r[i - 1]
      BY <1>3, <2>4
    <3>2. i - 1 < j - 1
      BY <1>3
    <3>. QED BY <1>1, <1>2, <2>2, <3>1, <3>2 DEF Nested
  <2>. QED BY <2>3, <2>4
<1>. QED BY <1>4, <1>5 DEF s

------------------------------------------------------------------------
\* Where the work is.

Safe == OnDisk \cup answered \cup unguarded

\* The edits that the program answers for: in no file, not given up, not made behind
\* the guard's back.
Fresh == edits \ Safe
Unsaved == Fresh \cap doc.content

Offering == offer # Null /\ offer.pc = "prompt"
Away == ~running \/ Offering

\* What is drawn in a sketch is nowhere else.
Held == edits \ sketch
HeldInv ==
    /\ sketch \subseteq edits
    /\ doc.content \subseteq Held
    /\ \A p \in Path : disk[p] # Null => disk[p] \subseteq Held
    /\ Contents(slots) \subseteq Held
    /\ writing # Null => writing.content \subseteq Held
    /\ offer # Null => offer.content \subseteq Held

\* A launch that has not been answered yet has no document.
BlankInv ==
    /\ ~running => offer = Null
    /\ Away => doc = Blank /\ sketch = {} /\ writing = Null
    /\ Offering => Len(slots) >= 1 /\ offer.content = slots[1].content
    /\ offer # Null => writing = Null
    /\ offer # Null /\ ~Offering => offer.slot # Untitled

\* A file holds e, and so will it when what is being written to it is.
Anchored(e, p) ==
    /\ disk[p] # Null /\ e \in disk[p]
    /\ \A t \in Task : tasks[t].pc = "writing" /\ tasks[t].path = p => e \in tasks[t].content

\* No file is overwritten with less than it is needed for.
DiskInv ==
    /\ \A e \in OnDisk : e \in answered \cup unguarded \/ \E p \in Path : Anchored(e, p)
    /\ doc.path # Null /\ disk[doc.path] # Null =>
          \A e \in disk[doc.path] :
             e \in doc.content \cup answered \cup unguarded \/ \E p \in Path \ {doc.path} : Anchored(e, p)

\* A step s of the task t: what it has seen and what has been decided.
TaskOk(t, s) ==
    /\ s.content \subseteq Held
    /\ s.pc \in {"writing", "writingAs"} => s.path \in Path /\ Unsaved \subseteq s.content
    /\ s.pc \in {"clear", "discard", "closing", "reading"} => Unsaved = {}
    /\ t = "file" /\ s.pc = "go" => Unsaved = {}
    /\ t = "file" /\ s.pc # "idle" /\ s.goal \in Path => disk[s.goal] # Null
    /\ t = "file" /\ s.pc = "reading" => s.goal \in Path
    /\ t = "quit" /\ s.pc = "go" => Fresh \subseteq orphans /\ Fresh \subseteq Contents(slots)
    /\ t = "quit" /\ s.pc # "idle" => sketch \subseteq unguarded
    /\ Away => s.pc = "idle" \/ (t = "quit" /\ s.pc = "go")
TasksInv == \A t \in Task : TaskOk(t, tasks[t])

KeptInv ==
    /\ ~Away => Fresh \subseteq doc.content \cup sketch
    /\ Away => /\ Fresh \subseteq orphans
               /\ \A e \in Fresh : Len(slots) >= 1 /\ e \in slots[1].content
    /\ ~doc.dirty => Unsaved = {}

\* The snapshots, the one on its way and the one that is handed over are each of all
\* the fresh work there was.
SlotsInv ==
    /\ Nested(slots, Fresh)
    /\ writing # Null => Fresh \cap Contents(slots) \subseteq writing.content
    /\ offer # Null /\ offer.pc = "hand over" => Fresh \cap Contents(slots) \subseteq offer.content
    /\ offer # Null /\ offer.pc = "clear" =>
          \A e \in Fresh \cap Contents(slots) :
             \E i \in 1..Len(slots) : slots[i].slot # offer.slot /\ e \in slots[i].content

IInv == Types /\ HeldInv /\ BlankInv /\ DiskInv /\ TasksInv /\ KeptInv /\ SlotsInv

\* SnapshotIsOwed, and a snapshot that is relied on is not about to be replaced.
OwedInv ==
    doc.dirty =>
        \/ timer \/ lapses # {}
        \/ writing # Null /\ doc.content \subseteq writing.content
        \/ /\ writing = Null /\ offer = Null
           /\ \E i \in 1..Len(slots) : doc.content \subseteq slots[i].content

\* The type invariant, part by part.
LEMMA TypesAre ==
    ASSUME Types
    PROVE  /\ doc \in Document /\ slots \in Seq(Snapshot) /\ Unique(slots)
           /\ writing \in {Null} \cup Snapshot /\ offer \in {Null} \cup Offer
           /\ tasks \in [Task -> Step] /\ disk \in [Path -> {Null} \cup SUBSET Edit]
           /\ DOMAIN tasks = Task /\ \A t \in Task : tasks[t] \in Step
           /\ DOMAIN slots = 1..Len(slots) /\ Len(slots) \in Nat
           /\ doc.dirty \in BOOLEAN /\ doc.content \subseteq Edit /\ doc.path \in Path \cup {Null}
<1>1. /\ doc \in Document /\ slots \in Seq(Snapshot) /\ Unique(slots)
      /\ writing \in {Null} \cup Snapshot /\ offer \in {Null} \cup Offer
      /\ tasks \in [Task -> Step] /\ disk \in [Path -> {Null} \cup SUBSET Edit]
  BY DEF Types, TypeOK, Document, Unique
<1>. QED BY <1>1, LenProperties DEF Document

\* Nothing that is on disk, given up or unguarded becomes fresh again.
LEMMA FreshShrinks ==
    ASSUME disk' = disk, edits' = edits, answered \subseteq answered', unguarded \subseteq unguarded'
    PROVE  Fresh' \subseteq Fresh /\ OnDisk' = OnDisk
<1>1. OnDisk' = OnDisk
  BY DEF OnDisk
<1>. QED BY <1>1 DEF Fresh, Safe

\* No new writer, no file changed: what a file holds it keeps.
LEMMA AnchorsStay ==
    ASSUME disk' = disk, \A t \in Task : tasks'[t].pc = "writing" => tasks'[t] = tasks[t],
           NEW e, NEW p, Anchored(e, p)
    PROVE  Anchored(e, p)'
BY DEF Anchored

\* The same for all files, while the document only grows or is replaced by one without a path.
LEMMA DiskStays ==
    ASSUME DiskInv, disk' = disk, answered \subseteq answered', unguarded \subseteq unguarded',
           \A t \in Task : tasks'[t].pc = "writing" => tasks'[t] = tasks[t],
           \/ doc'.path = doc.path /\ doc.content \subseteq doc'.content
           \/ doc'.path = Null
    PROVE  DiskInv'
<1>1. OnDisk' = OnDisk
  BY DEF OnDisk
<1>2. \A e, p : Anchored(e, p) => Anchored(e, p)'
  BY AnchorsStay
<1>3. \A e \in OnDisk' : e \in answered' \cup unguarded' \/ \E p \in Path : Anchored(e, p)'
  BY <1>1, <1>2 DEF DiskInv
<1>4. ASSUME doc'.path # Null, disk'[doc'.path] # Null, NEW e \in disk'[doc'.path]
      PROVE  \/ e \in doc'.content \cup answered' \cup unguarded'
             \/ \E p \in Path \ {doc'.path} : Anchored(e, p)'
  BY <1>2, <1>4 DEF DiskInv
<1>. QED BY <1>3, <1>4 DEF DiskInv

\* What a task has decided stays true while there is no more unsaved work than there was.
LEMMA TaskStays ==
    ASSUME NEW t, NEW s, TaskOk(t, s), Held \subseteq Held',
           s.pc = "idle" \/ (t = "quit" /\ s.pc = "go") \/ Unsaved' \subseteq Unsaved,
           t = "file" /\ s.goal \in Path /\ disk[s.goal] # Null => disk'[s.goal] # Null,
           t = "quit" /\ s.pc = "go" => Fresh' \subseteq orphans' /\ Fresh' \subseteq Contents(slots'),
           t = "quit" /\ s.pc # "idle" => sketch' \subseteq unguarded',
           Away' => Away
    PROVE  TaskOk(t, s)'
<1>1. TaskOk(t, s)' <=>
        /\ s.content \subseteq Held'
        /\ s.pc \in {"writing", "writingAs"} => s.path \in Path /\ Unsaved' \subseteq s.content
        /\ s.pc \in {"clear", "discard", "closing", "reading"} => Unsaved' = {}
        /\ t = "file" /\ s.pc = "go" => Unsaved' = {}
        /\ t = "file" /\ s.pc # "idle" /\ s.goal \in Path => disk'[s.goal] # Null
        /\ t = "file" /\ s.pc = "reading" => s.goal \in Path
        /\ t = "quit" /\ s.pc = "go" => Fresh' \subseteq orphans' /\ Fresh' \subseteq Contents(slots')
        /\ t = "quit" /\ s.pc # "idle" => sketch' \subseteq unguarded'
        /\ Away' => s.pc = "idle" \/ (t = "quit" /\ s.pc = "go")
  <2>. HIDE DEF Contents
  <2>. QED BY DEF TaskOk
<1>. QED BY <1>1 DEF TaskOk

\* A fact about a step is a fact about the task that takes it.
LEMMA TaskIs ==
    ASSUME NEW t, NEW s, tasks'[t] = s, TaskOk(t, s)'
    PROVE  TaskOk(t, tasks[t])'
<1>. HIDE DEF Contents
<1>. QED BY DEF TaskOk

\* The tasks that do not move.
LEMMA OthersStay ==
    ASSUME TasksInv, Held \subseteq Held', Away \/ ~Busy \/ Unsaved' \subseteq Unsaved,
           tasks \in [Task -> Step],
           \A p \in Path : disk[p] # Null => disk'[p] # Null,
           tasks["quit"].pc = "go" => Fresh' \subseteq orphans' /\ Fresh' \subseteq Contents(slots'),
           tasks["quit"].pc # "idle" => sketch' \subseteq unguarded',
           Away' => Away
    PROVE  \A t \in Task : tasks'[t] = tasks[t] => TaskOk(t, tasks[t])'
<1>. SUFFICES ASSUME NEW t \in Task, tasks'[t] = tasks[t] PROVE TaskOk(t, tasks[t])'
  OBVIOUS
<1>1. PICK s \in Step : s = tasks[t]
  OBVIOUS
<1>2. TaskOk(t, s)
  BY <1>1 DEF TasksInv
<1>3. s.pc = "idle" \/ (t = "quit" /\ s.pc = "go") \/ Unsaved' \subseteq Unsaved
  <2>1. Away => s.pc = "idle" \/ (t = "quit" /\ s.pc = "go")
    BY <1>2 DEF TaskOk
  <2>2. ~Busy => s.pc = "idle"
    BY <1>1 DEF Busy, Task
  <2>. QED BY <2>1, <2>2
<1>4. TaskOk(t, s)'
  <2>1. /\ t = "quit" /\ s.pc = "go" => Fresh' \subseteq orphans' /\ Fresh' \subseteq Contents(slots')
        /\ t = "quit" /\ s.pc # "idle" => sketch' \subseteq unguarded'
        /\ t = "file" /\ s.goal \in Path /\ disk[s.goal] # Null => disk'[s.goal] # Null
    BY <1>1
  <2>. QED BY <1>2, <1>3, <2>1, TaskStays
<1>. QED BY <1>1, <1>4, TaskIs

\* No snapshot is written or cleared, and nothing in one becomes fresh.
LEMMA SlotsStay ==
    ASSUME SlotsInv, slots \in Seq(Snapshot), slots' = slots, writing' = writing \/ writing' = Null,
           offer' = offer \/ offer' = Null, Fresh' \cap Contents(slots) \subseteq Fresh
    PROVE  SlotsInv'
<1>1. DOMAIN slots = 1..Len(slots)
  BY LenProperties
<1>2. \A j \in 1..Len(slots) : slots[j].content \subseteq Contents(slots)
  BY ContentsAre
<1>3. Nested(slots, Fresh)'
  BY <1>1, <1>2 DEF Nested, SlotsInv
<1>4. writing' # Null => Fresh' \cap Contents(slots') \subseteq writing'.content
  BY DEF SlotsInv
<1>5. offer' # Null /\ offer'.pc = "hand over" => Fresh' \cap Contents(slots') \subseteq offer'.content
  BY DEF SlotsInv
<1>6. offer' # Null /\ offer'.pc = "clear" =>
          \A e \in Fresh' \cap Contents(slots') :
             \E i \in 1..Len(slots') : slots'[i].slot # offer'.slot /\ e \in slots'[i].content
  <2>. HIDE DEF Contents
  <2>. QED BY DEF SlotsInv
<1>. QED BY <1>3, <1>4, <1>5, <1>6 DEF SlotsInv

\* No fresh work is in a snapshot.
LEMMA SlotsEmpty ==
    ASSUME slots' \in Seq(Snapshot), Fresh' \cap Contents(slots') = {}
    PROVE  SlotsInv'
<1>1. DOMAIN slots' = 1..Len(slots')
  BY LenProperties
<1>2. \A j \in 1..Len(slots') : slots'[j].content \subseteq Contents(slots')
  BY ContentsAre
<1>3. Nested(slots, Fresh)'
  BY <1>1, <1>2 DEF Nested
<1>. HIDE DEF Contents
<1>. QED BY <1>3 DEF SlotsInv

\* What is on disk is on screen, given up, unguarded, or held by a file that is not the
\* document's.
LEMMA AnchoredElsewhere ==
    ASSUME DiskInv, NEW e \in OnDisk, e \notin doc.content \cup answered \cup unguarded
    PROVE  \E p \in Path \ {doc.path} : Anchored(e, p)
<1>1. PICK p \in Path : Anchored(e, p)
  BY DEF DiskInv
<1>2. CASE p # doc.path
  BY <1>1, <1>2
<1>3. CASE p = doc.path /\ doc.path # Null
  <2>1. disk[doc.path] # Null /\ e \in disk[doc.path]
    BY <1>1, <1>3 DEF Anchored
  <2>. QED BY <1>3, <2>1 DEF DiskInv
<1>. QED BY <1>2, <1>3, NullIs

\* A task moves on and the rest stays.
LEMMA TaskMoves ==
    ASSUME IInv, NEW t \in Task, NEW s \in Step, To(t, s), TaskOk(t, s)',
           s.pc = "writing" => s.path = doc.path /\ s.content = doc.content,
           answered \subseteq answered', answered' \subseteq Edit,
           UNCHANGED <<running, web, doc, sketch, disk, slots, timer, writing, offer, edits,
                       orphans, unguarded, lapses>>
    PROVE  IInv'
<1>1. /\ Types /\ HeldInv /\ BlankInv /\ DiskInv /\ TasksInv /\ KeptInv /\ SlotsInv
      /\ tasks \in [Task -> Step] /\ slots \in Seq(Snapshot)
  BY TypesAre DEF IInv
<1>2. /\ tasks' \in [Task -> Step] /\ tasks'[t] = s
      /\ \A u \in Task \ {t} : tasks'[u] = tasks[u]
  BY <1>1, ToIs
<1>3. Fresh' \subseteq Fresh /\ OnDisk' = OnDisk
  BY FreshShrinks
<1>4. Held' = Held /\ Unsaved' \subseteq Unsaved /\ (Away' <=> Away) /\ (Offering' <=> Offering)
  BY <1>3 DEF Held, Unsaved, Away, Offering
<1>5. Types'
  BY <1>1, <1>2 DEF Types, TypeOK
<1>6. HeldInv'
  BY <1>1, <1>4 DEF HeldInv, Contents
<1>7. BlankInv'
  BY <1>1, <1>4 DEF BlankInv
<1>8. DiskInv'
  <2>1. ASSUME NEW e, NEW p \in Path, Anchored(e, p), s.pc = "writing" /\ s.path = p => e \in s.content
        PROVE  Anchored(e, p)'
    BY <1>2, <2>1 DEF Anchored
  <2>2. ASSUME NEW e \in OnDisk, e \notin answered' \cup unguarded' PROVE \E p \in Path : Anchored(e, p)'
    <3>1. CASE e \in doc.content
      <4>1. PICK p \in Path : Anchored(e, p)
        BY <1>1, <2>2 DEF DiskInv
      <4>. QED BY <2>1, <3>1, <4>1
    <3>2. CASE e \notin doc.content
      <4>1. PICK p \in Path \ {doc.path} : Anchored(e, p)
        BY <1>1, <2>2, <3>2, AnchoredElsewhere
      <4>. QED BY <2>1, <4>1
    <3>. QED BY <3>1, <3>2
  <2>3. ASSUME doc'.path # Null, disk'[doc'.path] # Null, NEW e \in disk'[doc'.path],
               e \notin doc'.content \cup answered' \cup unguarded'
        PROVE  \E p \in Path \ {doc'.path} : Anchored(e, p)'
    <3>1. PICK p \in Path \ {doc.path} : Anchored(e, p)
      BY <1>1, <2>3 DEF DiskInv
    <3>. QED BY <2>1, <3>1
  <2>. QED BY <1>3, <2>2, <2>3 DEF DiskInv
<1>9. TasksInv'
  <2>1. \A u \in Task : tasks'[u] = tasks[u] => TaskOk(u, tasks[u])'
    <3>1. tasks["quit"].pc = "go" => Fresh' \subseteq orphans' /\ Fresh' \subseteq Contents(slots')
      BY <1>1, <1>3 DEF TasksInv, TaskOk, Task
    <3>2. tasks["quit"].pc # "idle" => sketch' \subseteq unguarded'
      BY <1>1 DEF TasksInv, TaskOk, Task
    <3>. QED BY <1>1, <1>4, <3>1, <3>2, OthersStay
  <2>2. TaskOk(t, tasks[t])'
    BY <1>2, TaskIs
  <2>. QED BY <1>2, <2>1, <2>2 DEF TasksInv
<1>10. KeptInv'
  BY <1>1, <1>3, <1>4 DEF KeptInv
<1>11. SlotsInv'
  BY <1>1, <1>3, SlotsStay
<1>. QED BY <1>5, <1>6, <1>7, <1>8, <1>9, <1>10, <1>11 DEF IInv

------------------------------------------------------------------------
\* The steps of a task that change nothing else.

\* Where a user or a task can act, a document is on screen.
LEMMA AtHome ==
    ASSUME IInv
    PROVE  /\ User => ~Away
           /\ \A t \in Task : Up /\ tasks[t].pc # "idle" /\ tasks[t].pc # "go" => ~Away
           /\ \A t \in Task : Up /\ tasks[t].pc # "idle" /\ t # "quit" => ~Away
           /\ ~Away => Unsaved \cup (Fresh \cap sketch) = Fresh
           /\ Unsaved \subseteq Edit /\ Held \subseteq Edit /\ doc.content \subseteq Held
<1>1. HeldInv /\ BlankInv /\ TasksInv /\ KeptInv /\ edits \subseteq Edit
  BY DEF IInv, Types
<1>2. User => ~Away
  BY DEF User, Up, Modal, Away, Offering
<1>3. ASSUME NEW t \in Task, Up, tasks[t].pc # "idle", Away PROVE t = "quit" /\ tasks[t].pc = "go"
  BY <1>1, <1>3 DEF TasksInv, TaskOk
<1>4. ~Away => Unsaved \cup (Fresh \cap sketch) = Fresh
  BY <1>1 DEF KeptInv, Unsaved
<1>5. Unsaved \subseteq Edit /\ Held \subseteq Edit /\ doc.content \subseteq Held
  BY <1>1 DEF HeldInv, Held, Unsaved, Fresh
<1>. QED BY <1>2, <1>3, <1>4, <1>5

\* The same, for a step that is in order before it is taken.
LEMMA TaskSteps ==
    ASSUME IInv, NEW t \in Task, NEW s \in Step, To(t, s), TaskOk(t, s),
           s.pc = "writing" => s.path = doc.path /\ s.content = doc.content,
           UNCHANGED <<running, web, doc, sketch, disk, slots, timer, writing, offer, guard, bounds, ghosts>>
    PROVE  IInv'
<1>1. UNCHANGED <<edits, answered, orphans, unguarded, lapses>>
  BY DEF bounds, ghosts
<1>2. answered' \subseteq Edit
  BY <1>1 DEF IInv, Types
<1>3. Fresh' = Fresh
  BY <1>1 DEF Fresh, Safe, OnDisk
<1>4. Held' = Held /\ Unsaved' = Unsaved /\ (Away' <=> Away)
  BY <1>1, <1>3 DEF Held, Unsaved, Away, Offering
<1>5. TaskOk(t, s)'
  <2>1. t = "quit" /\ s.pc = "go" => Fresh' \subseteq orphans' /\ Fresh' \subseteq Contents(slots')
    BY <1>1, <1>3 DEF TaskOk
  <2>2. t = "quit" /\ s.pc # "idle" => sketch' \subseteq unguarded'
    BY <1>1 DEF TaskOk
  <2>. QED BY <1>1, <1>4, <2>1, <2>2, TaskStays
<1>. QED BY <1>1, <1>2, <1>5, TaskMoves

\* A document that is clean and not away has nothing unsaved.
LEMMA CleanIs ==
    ASSUME IInv, ~doc.dirty
    PROVE  Unsaved = {} /\ (~Away /\ sketch \subseteq unguarded => Fresh = {})
<1>1. Unsaved = {}
  BY DEF IInv, KeptInv
<1>2. Fresh \cap unguarded = {}
  BY DEF Fresh, Safe
<1>. QED BY <1>1, <1>2, AtHome

\* What a save may become.
LEMMA SavingOk ==
    ASSUME IInv, ~Away, NEW t \in Task, NEW s \in Step, NEW r \in Step, r = Saving(s),
           TaskOk(t, s), s.pc # "idle"
    PROVE  TaskOk(t, r) /\ (r.pc = "writing" => r.path = doc.path /\ r.content = doc.content)
<1>1. doc \in Document
  BY TypesAre DEF IInv
<1>2. /\ r.goal = s.goal
      /\ \/ r.pc = "dialog" /\ r.content = s.content
         \/ /\ r.pc = "writing" /\ r.path = doc.path /\ doc.path \in Path
            /\ r.content = doc.content
  BY <1>1, SavingIs
<1>3. Unsaved \subseteq doc.content /\ doc.content \subseteq Held
  BY AtHome DEF Unsaved
<1>4. TaskOk(t, r)
  <2>1. /\ r.content \subseteq Held
        /\ r.pc \in {"writing", "writingAs"} => r.path \in Path /\ Unsaved \subseteq r.content
    BY <1>2, <1>3 DEF TaskOk
  <2>2. r.pc \notin {"clear", "discard", "closing", "reading", "go"}
    BY <1>2
  <2>3. t = "file" /\ r.pc # "idle" /\ r.goal \in Path => disk[r.goal] # Null
    BY <1>2 DEF TaskOk
  <2>4. t = "quit" /\ r.pc # "idle" => sketch \subseteq unguarded
    BY <1>2 DEF TaskOk
  <2>. HIDE DEF Contents
  <2>. QED BY <2>1, <2>2, <2>3, <2>4 DEF TaskOk
<1>. QED BY <1>2, <1>4

\* What a save may become when it is over.
LEMMA SavedOk ==
    ASSUME IInv, ~Away, NEW t \in Task, NEW s \in Step, NEW r \in Step, r = Saved(s, doc.dirty),
           TaskOk(t, s), s.pc # "idle"
    PROVE  TaskOk(t, r) /\ r.pc # "writing"
<1>1. doc.dirty \in BOOLEAN
  BY TypesAre DEF IInv
<1>2. /\ r.content = {}
      /\ \/ r.pc = "idle" /\ r.goal = "none"
         \/ r.pc = "go" /\ r.goal = s.goal /\ ~doc.dirty
  BY <1>1, SavedIs
<1>3. CASE r.pc = "idle"
  BY <1>2, <1>3 DEF TaskOk
<1>4. CASE r.pc = "go"
  <2>1. r.goal = s.goal /\ Unsaved = {} /\ (sketch \subseteq unguarded => Fresh = {})
    BY <1>2, <1>4, CleanIs
  <2>2. t = "file" /\ r.goal \in Path => disk[r.goal] # Null
    BY <2>1 DEF TaskOk
  <2>3. t = "quit" => sketch \subseteq unguarded
    BY DEF TaskOk
  <2>4. t = "quit" => Fresh \subseteq orphans /\ Fresh \subseteq Contents(slots)
    BY <2>1, <2>3
  <2>. HIDE DEF Contents
  <2>. QED BY <1>2, <1>4, <2>1, <2>2, <2>3, <2>4 DEF TaskOk
<1>. QED BY <1>2, <1>3, <1>4

\* Save and Save As begin.
LEMMA SaveKeeps == IInv /\ Save => IInv'
<1>. SUFFICES ASSUME IInv, Save PROVE IInv'
  OBVIOUS
<1>1. ~Away /\ doc \in Document /\ "save" \in Task
  BY AtHome, TypesAre DEF IInv, Save, Task
<1>2. CASE To("save", Saving(Idle))
  <2>1. PICK r \in Step : r = Saving(Idle)
    BY <1>1, SavingIs, IdleIs
  <2>2. TaskOk("save", r) /\ (r.pc = "writing" => r.path = doc.path /\ r.content = doc.content)
    <3>1. doc.content \subseteq Held /\ Unsaved \subseteq doc.content
      BY AtHome DEF Unsaved
    <3>2. \/ r.pc = "dialog" /\ r.content = {}
          \/ /\ r.pc = "writing" /\ r.path = doc.path /\ doc.path \in Path /\ r.content = doc.content
      BY <1>1, <2>1, SavingIs, IdleIs
    <3>. QED BY <1>1, <3>1, <3>2 DEF TaskOk
  <2>. QED BY <1>1, <1>2, <2>1, <2>2, TaskSteps DEF Save
<1>3. CASE To("save", [Idle EXCEPT !.pc = "dialog"])
  <2>1. PICK r \in Step : r = [Idle EXCEPT !.pc = "dialog"]
    BY IdleIs DEF Step, Pc
  <2>2. r.pc = "dialog" /\ r.content = {}
    BY <2>1 DEF Idle
  <2>3. TaskOk("save", r)
    BY <1>1, <2>2 DEF TaskOk
  <2>. QED BY <1>1, <1>3, <2>1, <2>2, <2>3, TaskSteps DEF Save
<1>. QED BY <1>2, <1>3 DEF Save

\* The file dialog is answered: the document is serialized now.
LEMMA ChoosePathKeeps ==
    ASSUME IInv, NEW t \in Task, NEW path \in Path \cup {Null}, ChoosePath(t, path)
    PROVE  IInv'
<1>1. ~Away /\ doc \in Document /\ tasks[t] \in Step /\ doc.dirty \in BOOLEAN
  BY AtHome, TypesAre DEF IInv, ChoosePath
<1>2. PICK s \in Step : s = tasks[t]
  BY <1>1
<1>3. TaskOk(t, s) /\ s.pc = "dialog"
  BY <1>2 DEF IInv, TasksInv, ChoosePath
<1>4. CASE path = Null
  <2>1. PICK r \in Step : r = Saved(s, doc.dirty)
    BY <1>1, SavedIs
  <2>2. To(t, r)
    BY <1>2, <1>4, <2>1 DEF ChoosePath
  <2>3. TaskOk(t, r) /\ r.pc # "writing"
    BY <1>1, <1>3, <2>1, SavedOk
  <2>. QED BY <2>2, <2>3, TaskSteps DEF ChoosePath
<1>5. CASE path # Null
  <2>1. PICK r : r = [s EXCEPT !.pc = "writingAs", !.path = path, !.content = doc.content]
    OBVIOUS
  <2>2. r = [pc |-> "writingAs", goal |-> s.goal, path |-> path, content |-> doc.content]
    BY <2>1, StepIs
  <2>3. r \in Step /\ path \in Path
    BY <1>1, <1>5, <2>2 DEF Step, Pc, Document
  <2>4. To(t, r)
    BY <1>2, <1>5, <2>1 DEF ChoosePath
  <2>5. TaskOk(t, r)
    <3>1. doc.content \subseteq Held /\ Unsaved \subseteq doc.content
      BY AtHome DEF Unsaved
    <3>2. r.pc = "writingAs" /\ r.path = path /\ r.content = doc.content /\ r.goal = s.goal
      BY <2>2
    <3>3. t = "file" /\ r.goal \in Path => disk[r.goal] # Null
      BY <1>3, <3>2 DEF TaskOk
    <3>4. t = "quit" => sketch \subseteq unguarded
      BY <1>3 DEF TaskOk
    <3>. HIDE DEF Contents
    <3>. QED BY <1>1, <2>3, <3>1, <3>2, <3>3, <3>4 DEF TaskOk
  <2>6. r.pc # "writing"
    BY <2>2
  <2>. QED BY <2>3, <2>4, <2>5, <2>6, TaskSteps DEF ChoosePath
<1>. QED BY <1>4, <1>5

\* The shell could not write.
LEMMA SaveFailsKeeps ==
    ASSUME IInv, NEW t \in Task, SaveFails(t)
    PROVE  IInv'
<1>1. ~Away /\ tasks[t] \in Step /\ doc.dirty \in BOOLEAN
  BY AtHome, TypesAre DEF IInv, SaveFails
<1>2. PICK s \in Step : s = tasks[t]
  BY <1>1
<1>3. TaskOk(t, s) /\ s.pc # "idle"
  BY <1>2 DEF IInv, TasksInv, SaveFails
<1>4. PICK r \in Step : r = Saved(s, doc.dirty)
  BY <1>1, SavedIs
<1>5. To(t, r)
  BY <1>2, <1>4 DEF SaveFails
<1>6. TaskOk(t, r) /\ r.pc # "writing"
  BY <1>1, <1>3, <1>4, SavedOk
<1>. QED BY <1>5, <1>6, TaskSteps DEF SaveFails

\* New and Open begin with the question, if there is one.
LEMMA FileKeeps == IInv /\ File => IInv'
<1>. SUFFICES ASSUME IInv, File PROVE IInv'
  OBVIOUS
<1>1. ~Away /\ doc.dirty \in BOOLEAN /\ "file" \in Task
  BY AtHome, TypesAre DEF IInv, File, Task
<1>2. PICK goal \in {"new"} \cup {p \in Path : disk[p] # Null} : To("file", Asking(goal, Null, doc.dirty))
  BY DEF File
<1>3. goal \in {"new", "quit"} \cup Path
  OBVIOUS
<1>4. PICK r \in Step : r = Asking(goal, Null, doc.dirty)
  BY <1>1, <1>3, AskingIs
<1>5. /\ r.goal = goal /\ r.content = {}
      /\ \/ r.pc = "prompt" /\ doc.dirty
         \/ r.pc = "go" /\ ~doc.dirty
  BY <1>1, <1>3, <1>4, AskingIs
<1>6. TaskOk("file", r)
  <2>1. goal \in Path => disk[goal] # Null
    BY NullIs
  <2>2. r.pc = "go" => Unsaved = {}
    BY <1>5, CleanIs
  <2>. HIDE DEF Contents
  <2>. QED BY <1>1, <1>5, <2>1, <2>2 DEF TaskOk
<1>. QED BY <1>1, <1>2, <1>4, <1>5, <1>6, TaskSteps DEF File

\* The file could not be read.
LEMMA UnreadableKeeps == IInv /\ Unreadable => IInv'
<1>. SUFFICES ASSUME IInv, Unreadable PROVE IInv'
  OBVIOUS
<1>1. PICK r \in Step : r = Idle
  BY IdleIs
<1>2. TaskOk("file", r) /\ r.pc # "writing" /\ "file" \in Task
  BY <1>1, IdleIs DEF TaskOk, Task
<1>. QED BY <1>1, <1>2, TaskSteps DEF Unreadable

\* The question is answered; a Discard gives up what is on screen and in no file.
LEMMA AnswerKeeps ==
    ASSUME IInv, NEW t \in Task, NEW pick \in {"save", "discard", "cancel"}, Answer(t, pick)
    PROVE  IInv'
<1>1. ~Away /\ doc \in Document /\ tasks[t] \in Step /\ doc.path \in Path \cup {Null}
  BY AtHome, TypesAre DEF IInv, Answer
<1>2. PICK s \in Step : s = tasks[t]
  BY <1>1
<1>3. TaskOk(t, s) /\ s.pc = "prompt"
  BY <1>2 DEF IInv, TasksInv, Answer
<1>4. CASE pick = "save"
  <2>1. PICK r \in Step : r = Saving(s)
    BY <1>1, SavingIs
  <2>2. To(t, r)
    BY <1>2, <1>4, <2>1 DEF Answer
  <2>3. TaskOk(t, r) /\ (r.pc = "writing" => r.path = doc.path /\ r.content = doc.content)
    BY <1>1, <1>3, <2>1, SavingOk
  <2>. QED BY <1>4, <2>2, <2>3, TaskSteps DEF Answer, ghosts
<1>5. CASE pick = "cancel"
  <2>1. PICK r \in Step : r = Idle
    BY IdleIs
  <2>2. To(t, r)
    BY <1>5, <2>1 DEF Answer
  <2>3. TaskOk(t, r) /\ r.pc # "writing"
    BY <2>1, IdleIs DEF TaskOk
  <2>. QED BY <1>5, <2>2, <2>3, TaskSteps DEF Answer, ghosts
<1>6. CASE pick = "discard"
  <2>1. PICK r : r = [s EXCEPT !.pc = "discard", !.path = doc.path]
    OBVIOUS
  <2>2. r = [pc |-> "discard", goal |-> s.goal, path |-> doc.path, content |-> s.content]
    BY <2>1, StepIs
  <2>3. r \in Step
    BY <1>1, <2>2 DEF Step, Pc
  <2>4. To(t, r)
    BY <1>2, <1>6, <2>1 DEF Answer
  <2>5. answered' = answered \cup Work
    BY <1>6 DEF Answer
  <2>6. answered' \subseteq Edit
    BY <1>1, <2>5 DEF Work, Document, IInv, Types, TypeOK
  <2>7. UNCHANGED <<running, web, doc, sketch, disk, slots, timer, writing, offer, edits,
                    orphans, unguarded, lapses>>
    BY DEF Answer, bounds
  <2>8. Unsaved' = {}
    <3>1. OnDisk' = OnDisk
      BY <2>7 DEF OnDisk
    <3>. QED BY <2>5, <2>7, <3>1 DEF Unsaved, Fresh, Safe, Work
  <2>9. TaskOk(t, r)'
    <3>1. r.pc = "discard" /\ r.goal = s.goal /\ r.content = s.content
      BY <2>2
    <3>2. Held' = Held /\ ~Away'
      BY <1>1, <2>7 DEF Held, Away, Offering
    <3>3. r.content \subseteq Held'
      BY <1>3, <3>1, <3>2 DEF TaskOk
    <3>4. t = "file" /\ r.goal \in Path => disk'[r.goal] # Null
      BY <1>3, <2>7, <3>1 DEF TaskOk
    <3>5. t = "quit" => sketch' \subseteq unguarded'
      BY <1>3, <2>7 DEF TaskOk
    <3>. HIDE DEF Contents
    <3>. QED BY <2>8, <3>1, <3>2, <3>3, <3>4, <3>5 DEF TaskOk
  <2>10. r.pc # "writing"
    BY <2>2
  <2>. QED BY <2>3, <2>4, <2>5, <2>6, <2>7, <2>9, <2>10, TaskMoves
<1>. QED BY <1>4, <1>5, <1>6

------------------------------------------------------------------------
\* A save that the shell has finished.

\* A finished save, as explicit records: the file, the document, the task.
LEMMA WrittenIs ==
    ASSUME IInv, NEW t \in Task, Written(t)
    PROVE  \E s \in Step, r \in Step :
             /\ tasks[t] = s /\ TaskOk(t, s) /\ s.pc \in {"writing", "writingAs"} /\ s.path \in Path
             /\ disk' = [disk EXCEPT ![s.path] = s.content] /\ disk'[s.path] = s.content
             /\ \A p \in Path \ {s.path} : disk'[p] = disk[p]
             /\ doc' \in Document /\ doc'.content = doc.content /\ ~doc'.dirty
             /\ doc'.path = IF s.pc = "writing" THEN doc.path ELSE s.path
             /\ tasks' \in [Task -> Step] /\ tasks'[t] = r /\ r.pc = "clear"
             /\ r.goal = s.goal /\ r.content = s.content
             /\ \A u \in Task \ {t} : tasks'[u] = tasks[u]
<1>1. doc \in Document /\ tasks[t] \in Step /\ tasks \in [Task -> Step]
      /\ disk \in [Path -> {Null} \cup SUBSET Edit]
  BY TypesAre DEF IInv
<1>2. PICK s \in Step : s = tasks[t]
  BY <1>1
<1>3. TaskOk(t, s) /\ s.pc \in {"writing", "writingAs"}
  BY <1>2 DEF IInv, TasksInv, Written
<1>4. s.path \in Path
  BY <1>3 DEF TaskOk
<1>5. PICK path : path = IF s.pc = "writing" THEN doc.path ELSE s.path
  OBVIOUS
<1>6. path \in Path \cup {Null}
  BY <1>1, <1>4, <1>5 DEF Document
<1>7. PICK b : b = FALSE
  OBVIOUS
<1>8. doc' = [doc EXCEPT !.path = path, !.dirty = b]
  BY <1>2, <1>5, <1>7 DEF Written
<1>9. doc' = [content |-> doc.content, path |-> path, dirty |-> b]
  BY <1>1, <1>8, DocIs
<1>10. doc' \in Document /\ doc'.content = doc.content /\ ~doc'.dirty /\ doc'.path = path
  BY <1>1, <1>6, <1>7, <1>9 DEF Document
<1>11. PICK r : r = [s EXCEPT !.pc = "clear", !.path = path]
  OBVIOUS
<1>12. r = [pc |-> "clear", goal |-> s.goal, path |-> path, content |-> s.content]
  BY <1>11, StepIs
<1>13. r \in Step /\ r.pc = "clear" /\ r.goal = s.goal /\ r.content = s.content
  BY <1>6, <1>12 DEF Step, Pc
<1>14. To(t, r)
  BY <1>2, <1>5, <1>11 DEF Written
<1>15. /\ tasks' \in [Task -> Step] /\ tasks'[t] = r
       /\ \A u \in Task \ {t} : tasks'[u] = tasks[u]
  BY <1>1, <1>13, <1>14, ToIs
<1>16. disk' = [disk EXCEPT ![s.path] = s.content]
  BY <1>2 DEF Written
<1>17. disk'[s.path] = s.content /\ \A p \in Path \ {s.path} : disk'[p] = disk[p]
  BY <1>1, <1>4, <1>16
<1>. QED BY <1>2, <1>3, <1>4, <1>5, <1>10, <1>13, <1>15, <1>16, <1>17

\* The save is in order: it held all that was unsaved when it began, and what was fresh then
\* and is in no other file has its anchor in the new one.  Edits made since are unguarded.
LEMMA WrittenKeeps ==
    ASSUME IInv, NEW t \in Task, Written(t)
    PROVE  IInv'
<1>1. /\ Types /\ HeldInv /\ BlankInv /\ DiskInv /\ TasksInv /\ KeptInv /\ SlotsInv
      /\ slots \in Seq(Snapshot) /\ ~Away
      /\ disk \in [Path -> {Null} \cup SUBSET Edit] /\ tasks \in [Task -> Step]
      /\ doc.path \in Path \cup {Null}
  BY AtHome, TypesAre DEF IInv, Written
<1>2. PICK s \in Step, r \in Step :
             /\ tasks[t] = s /\ TaskOk(t, s) /\ s.pc \in {"writing", "writingAs"} /\ s.path \in Path
             /\ disk' = [disk EXCEPT ![s.path] = s.content] /\ disk'[s.path] = s.content
             /\ \A p \in Path \ {s.path} : disk'[p] = disk[p]
             /\ doc' \in Document /\ doc'.content = doc.content /\ ~doc'.dirty
             /\ doc'.path = IF s.pc = "writing" THEN doc.path ELSE s.path
             /\ tasks' \in [Task -> Step] /\ tasks'[t] = r /\ r.pc = "clear"
             /\ r.goal = s.goal /\ r.content = s.content
             /\ \A u \in Task \ {t} : tasks'[u] = tasks[u]
  BY WrittenIs
<1>3. /\ answered' = IF s.pc = "writingAs" /\ disk[s.path] # Null
                     THEN answered \cup (disk[s.path] \ s.content) ELSE answered
      /\ unguarded' = IF s.pc = "writingAs" /\ ~(s.content \subseteq doc.content)
                      THEN unguarded \cup s.content ELSE unguarded
      /\ timer' = FALSE /\ lapses' = {}
      /\ UNCHANGED <<running, web, sketch, slots, writing, offer, edits, launches, orphans>>
  BY <1>2 DEF Written, bounds
<1>4. s.content \subseteq Held /\ Unsaved \subseteq s.content /\ s.content \in SUBSET Edit /\ s.content # Null
  BY <1>2, NullIs DEF TaskOk, Step
<1>5. answered \subseteq answered' /\ unguarded \subseteq unguarded'
  BY <1>3
<1>6. Types'
  <2>1. disk[s.path] \in {Null} \cup SUBSET Edit /\ disk' \in [Path -> {Null} \cup SUBSET Edit]
    BY <1>1, <1>2, <1>4
  <2>2. answered' \subseteq Edit /\ unguarded' \subseteq Edit
    BY <1>1, <1>3, <1>4, <2>1 DEF Types
  <2>. QED BY <1>1, <1>2, <1>3, <2>1, <2>2 DEF Types, TypeOK, Document
<1>7. Held' = Held /\ ~Away' /\ ~Offering'
  BY <1>1, <1>3 DEF Held, Away, Offering
<1>8. \A x : x \in OnDisk <=> \E p \in Path : disk[p] # Null /\ x \in disk[p]
  BY DEF OnDisk
<1>9. \A x : x \in OnDisk' <=> \E p \in Path : disk'[p] # Null /\ x \in disk'[p]
  BY DEF OnDisk
<1>10. s.content \subseteq OnDisk'
  BY <1>2, <1>4, <1>9
\* An anchor stays, or the new file is one.
<1>11. ASSUME NEW e, NEW q \in Path, Anchored(e, q), e \notin answered'
       PROVE  Anchored(e, q)'
  <2>1. disk[q] # Null /\ e \in disk[q]
    BY <1>11 DEF Anchored
  <2>2. q = s.path => e \in s.content
    BY <1>2, <1>3, <1>11, <2>1 DEF Anchored
  <2>3. disk'[q] # Null /\ e \in disk'[q]
    BY <1>2, <1>4, <2>1, <2>2
  <2>4. \A u \in Task : tasks'[u].pc = "writing" => tasks'[u] = tasks[u]
    BY <1>2
  <2>. QED BY <1>11, <2>3, <2>4 DEF Anchored
<1>12. ASSUME NEW e \in OnDisk, e \notin answered' \cup unguarded'
       PROVE  e \in OnDisk' /\ \E q \in Path : Anchored(e, q)'
  <2>1. PICK q \in Path : Anchored(e, q)
    BY <1>1, <1>5, <1>12 DEF DiskInv
  <2>2. Anchored(e, q)'
    BY <1>11, <1>12, <2>1
  <2>. QED BY <1>9, <2>2 DEF Anchored
<1>13. Fresh' \subseteq Fresh
  BY <1>3, <1>5, <1>12 DEF Fresh, Safe
<1>14. Unsaved' = {}
  BY <1>2, <1>4, <1>10, <1>13 DEF Unsaved, Fresh, Safe
<1>15. HeldInv'
  <2>1. \A p \in Path : disk'[p] # Null => disk'[p] \subseteq Held'
    BY <1>1, <1>2, <1>4, <1>7 DEF HeldInv
  <2>2. Contents(slots)' = Contents(slots)
    BY <1>3 DEF Contents
  <2>. HIDE DEF Contents
  <2>. QED BY <1>1, <1>2, <1>3, <1>7, <2>1, <2>2 DEF HeldInv
<1>16. BlankInv'
  BY <1>1, <1>3, <1>7 DEF BlankInv, Away
<1>17. ASSUME NEW e \in s.content, e \notin OnDisk, e \notin answered' \cup unguarded'
       PROVE  e \in Unsaved /\ Anchored(e, s.path)'
  <2>1. e \in Fresh /\ e \notin sketch
    BY <1>4, <1>5, <1>17 DEF Held, Fresh, Safe
  <2>2. e \in Unsaved
    BY <1>1, <2>1 DEF KeptInv, Unsaved
  <2>3. \A u \in Task : tasks'[u].pc = "writing" => e \in tasks'[u].content
    BY <1>1, <1>2, <2>2 DEF TasksInv, TaskOk
  <2>. QED BY <1>2, <1>4, <1>17, <2>2, <2>3 DEF Anchored
<1>18. DiskInv'
  <2>1. ASSUME NEW e \in OnDisk', e \notin answered' \cup unguarded' PROVE \E q \in Path : Anchored(e, q)'
    <3>1. CASE e \in OnDisk
      BY <1>12, <2>1, <3>1
    <3>2. CASE e \notin OnDisk
      <4>1. e \in s.content
        BY <1>2, <1>8, <1>9, <2>1, <3>2
      <4>. QED BY <1>2, <1>17, <2>1, <3>2, <4>1
    <3>. QED BY <3>1, <3>2
  <2>2. ASSUME doc'.path # Null, disk'[doc'.path] # Null, NEW e \in disk'[doc'.path],
               e \notin doc'.content \cup answered' \cup unguarded'
        PROVE  \E p \in Path \ {doc'.path} : Anchored(e, p)'
    <3>1. s.pc = "writing"
      BY <1>2, <1>3, <2>2
    <3>2. doc'.path = doc.path /\ doc.path \in Path /\ doc'.content = doc.content
      BY <1>1, <1>2, <2>2, <3>1
    <3>3. e \in OnDisk
      <4>1. CASE doc.path = s.path
        <5>1. e \in s.content
          BY <1>2, <2>2, <3>2, <4>1
        <5>2. e \notin Unsaved
          BY <2>2, <3>2 DEF Unsaved
        <5>. QED BY <1>17, <2>2, <5>1, <5>2
      <4>2. CASE doc.path # s.path
        <5>1. disk'[doc.path] = disk[doc.path]
          BY <1>2, <3>2, <4>2
        <5>. QED BY <1>8, <2>2, <3>2, <5>1
      <4>. QED BY <4>1, <4>2
    <3>4. PICK p \in Path \ {doc.path} : Anchored(e, p)
      BY <1>1, <1>5, <2>2, <3>2, <3>3, AnchoredElsewhere
    <3>5. Anchored(e, p)'
      BY <1>11, <2>2, <3>4
    <3>. QED BY <3>2, <3>4, <3>5
  <2>. QED BY <2>1, <2>2 DEF DiskInv
<1>19. TasksInv'
  <2>1. \A p \in Path : disk[p] # Null => disk'[p] # Null
    BY <1>2, <1>4
  <2>2. tasks["quit"].pc = "go" => Fresh' \subseteq orphans' /\ Fresh' \subseteq Contents(slots')
    BY <1>1, <1>3, <1>13 DEF TasksInv, TaskOk, Task
  <2>3. tasks["quit"].pc # "idle" => sketch' \subseteq unguarded'
    BY <1>1, <1>3, <1>5 DEF TasksInv, TaskOk, Task
  <2>4. \A u \in Task : tasks'[u] = tasks[u] => TaskOk(u, tasks[u])'
    <3>1. Held \subseteq Held' /\ Unsaved' \subseteq Unsaved /\ (Away' => Away)
      BY <1>7, <1>14
    <3>. HIDE DEF Contents
    <3>. QED BY <1>1, <2>1, <2>2, <2>3, <3>1, OthersStay
  <2>5. TaskOk(t, r)'
    <3>1. r.content \subseteq Held'
      BY <1>2, <1>4, <1>7
    <3>2. t = "file" /\ r.goal \in Path => disk'[r.goal] # Null
      BY <1>2, <2>1 DEF TaskOk
    <3>3. t = "quit" => sketch' \subseteq unguarded'
      BY <1>2, <2>3
    <3>. HIDE DEF Contents
    <3>. QED BY <1>2, <1>7, <1>14, <3>1, <3>2, <3>3 DEF TaskOk
  <2>6. TaskOk(t, tasks[t])'
    BY <1>2, <2>5, TaskIs
  <2>. QED BY <1>2, <2>4, <2>6 DEF TasksInv
<1>20. KeptInv'
  BY <1>1, <1>2, <1>3, <1>7, <1>13, <1>14 DEF KeptInv
<1>21. SlotsInv'
  BY <1>1, <1>3, <1>13, SlotsStay
<1>. QED BY <1>6, <1>15, <1>16, <1>18, <1>19, <1>20, <1>21 DEF IInv

------------------------------------------------------------------------
\* The steps past the question.

\* A task that is past the question has decided: what is fresh is in the sketch alone.
LEMMA PastIs ==
    ASSUME IInv, ~Away, Unsaved = {}
    PROVE  /\ Fresh \subseteq sketch /\ Fresh \cap Contents(slots) = {}
           /\ sketch \subseteq unguarded => Fresh = {}
<1>1. Fresh \subseteq sketch
  BY AtHome
<1>2. Contents(slots) \cap sketch = {}
  BY DEF IInv, HeldInv, Held
<1>3. Fresh \cap unguarded = {}
  BY DEF Fresh, Safe
<1>. QED BY <1>1, <1>2, <1>3

\* Where a task goes when the snapshot is cleared.
LEMMA ClearIs ==
    ASSUME IInv, NEW t \in Task, Clear(t)
    PROVE  \E s \in Step, r \in Step :
             /\ tasks[t] = s /\ TaskOk(t, s) /\ s.pc \in {"clear", "discard", "closing"}
             /\ To(t, r) /\ r.content \subseteq Held
             /\ \/ r.pc = "idle"
                \/ r.pc = "go" /\ r.goal = s.goal
<1>1. tasks[t] \in Step /\ doc.dirty \in BOOLEAN
  BY TypesAre DEF IInv
<1>2. PICK s \in Step : s = tasks[t]
  BY <1>1
<1>3. TaskOk(t, s) /\ s.pc \in {"clear", "discard", "closing"}
  BY <1>2 DEF IInv, TasksInv, Clear
<1>4. CASE s.pc = "clear"
  <2>1. PICK r \in Step : r = Saved(s, doc.dirty)
    BY <1>1, SavedIs
  <2>2. To(t, r)
    BY <1>2, <1>4, <2>1 DEF Clear
  <2>3. r.content = {} /\ (r.pc = "idle" \/ (r.pc = "go" /\ r.goal = s.goal))
    BY <1>1, <2>1, SavedIs
  <2>. QED BY <1>2, <1>3, <2>2, <2>3
<1>5. CASE s.pc = "discard"
  <2>1. PICK r : r = [s EXCEPT !.pc = "go"]
    OBVIOUS
  <2>2. r = [pc |-> "go", goal |-> s.goal, path |-> s.path, content |-> s.content]
    BY <2>1, StepIs
  <2>3. r \in Step /\ r.pc = "go" /\ r.goal = s.goal /\ r.content = s.content
    BY <2>2 DEF Step, Pc
  <2>4. To(t, r)
    BY <1>2, <1>5, <2>1 DEF Clear
  <2>5. s.content \subseteq Held
    BY <1>3 DEF TaskOk
  <2>. QED BY <1>2, <1>3, <2>3, <2>4, <2>5
<1>6. CASE s.pc = "closing"
  <2>1. PICK r \in Step : r = Idle
    BY IdleIs
  <2>2. To(t, r)
    BY <1>2, <1>6, <2>1 DEF Clear
  <2>. QED BY <1>2, <1>3, <2>1, <2>2, IdleIs
<1>. QED BY <1>3, <1>4, <1>5, <1>6

\* clearRecovery: a task clears a snapshot when nothing fresh is in one.
LEMMA ClearKeeps ==
    ASSUME IInv, NEW t \in Task, Clear(t)
    PROVE  IInv'
<1>1. /\ Types /\ HeldInv /\ BlankInv /\ DiskInv /\ TasksInv /\ KeptInv /\ SlotsInv
      /\ slots \in Seq(Snapshot) /\ Unique(slots) /\ ~Away /\ tasks \in [Task -> Step] /\ doc \in Document
  BY AtHome, TypesAre DEF IInv, Clear
<1>2. PICK s \in Step, r \in Step :
             /\ tasks[t] = s /\ TaskOk(t, s) /\ s.pc \in {"clear", "discard", "closing"}
             /\ To(t, r) /\ r.content \subseteq Held
             /\ \/ r.pc = "idle"
                \/ r.pc = "go" /\ r.goal = s.goal
  BY ClearIs
<1>3. /\ tasks' \in [Task -> Step] /\ tasks'[t] = r
      /\ \A u \in Task \ {t} : tasks'[u] = tasks[u]
  BY <1>1, <1>2, ToIs
<1>4. /\ doc' = Blank \/ doc' = doc
      /\ timer' = (timer /\ doc'.dirty)
      /\ lapses' \in {{}, lapses, lapses \cup {"swept"}}
      /\ UNCHANGED <<running, web, sketch, disk, writing, offer, guard, edits, launches,
                     answered, orphans, unguarded>>
  BY DEF Clear, bounds
<1>5. PICK cleared : slots' = Without(cleared)
  BY DEF Clear
<1>6. /\ slots' \in Seq(Snapshot) /\ Unique(slots') /\ Contents(slots') \subseteq Contents(slots)
  BY <1>1, <1>5, WithoutIs, ThinnedIs
<1>7. Unsaved = {}
  BY <1>2 DEF TaskOk
<1>8. /\ Fresh \subseteq sketch /\ Fresh \cap Contents(slots) = {}
      /\ sketch \subseteq unguarded => Fresh = {}
  BY <1>1, <1>7, PastIs
<1>9. Fresh' = Fresh /\ Held' = Held /\ ~Away' /\ ~Offering'
  BY <1>1, <1>4 DEF Fresh, Safe, OnDisk, Held, Away, Offering
<1>10. doc' \in Document /\ doc'.content \subseteq doc.content
  BY <1>1, <1>4, IdleIs
<1>11. Unsaved' = {}
  BY <1>7, <1>9, <1>10 DEF Unsaved
<1>12. Types'
  BY <1>1, <1>3, <1>4, <1>6, <1>10 DEF Types, TypeOK, Document, Unique
<1>13. HeldInv'
  <2>. HIDE DEF Contents
  <2>. QED BY <1>1, <1>4, <1>6, <1>9, <1>10 DEF HeldInv
<1>14. BlankInv'
  BY <1>1, <1>4, <1>9 DEF BlankInv, Away
<1>15. DiskInv'
  <2>1. \A u \in Task : tasks'[u].pc = "writing" => tasks'[u] = tasks[u]
    BY <1>2, <1>3
  <2>2. \/ doc'.path = doc.path /\ doc.content \subseteq doc'.content
        \/ doc'.path = Null
    BY <1>4, IdleIs
  <2>. QED BY <1>1, <1>4, <2>1, <2>2, DiskStays
<1>16. TasksInv'
  <2>1. tasks["quit"].pc # "idle" => sketch' \subseteq unguarded' /\ Fresh = {}
    BY <1>1, <1>4, <1>8 DEF TasksInv, TaskOk, Task
  <2>2. \A u \in Task : tasks'[u] = tasks[u] => TaskOk(u, tasks[u])'
    <3>1. tasks["quit"].pc = "go" => Fresh' \subseteq orphans' /\ Fresh' \subseteq Contents(slots')
      BY <1>9, <2>1
    <3>. HIDE DEF Contents
    <3>. QED BY <1>1, <1>4, <1>9, <1>11, <2>1, <3>1, OthersStay
  <2>3. TaskOk(t, r)'
    <3>1. t = "file" /\ r.pc # "idle" /\ r.goal \in Path => disk'[r.goal] # Null
      BY <1>2, <1>4 DEF TaskOk
    <3>2. t = "quit" /\ r.pc # "idle" => sketch' \subseteq unguarded' /\ Fresh' = {}
      BY <1>2, <1>9, <2>1
    <3>. HIDE DEF Contents
    <3>. QED BY <1>2, <1>9, <1>11, <3>1, <3>2 DEF TaskOk
  <2>4. TaskOk(t, tasks[t])'
    BY <1>3, <2>3, TaskIs
  <2>. QED BY <1>3, <2>2, <2>4 DEF TasksInv
<1>17. KeptInv'
  BY <1>4, <1>8, <1>9, <1>11 DEF KeptInv
<1>18. SlotsInv'
  BY <1>6, <1>8, <1>9, SlotsEmpty
<1>. QED BY <1>12, <1>13, <1>14, <1>15, <1>16, <1>17, <1>18 DEF IInv

\* New, Close, Open past the question: nothing was unsaved, and the sketch is unguarded.
LEMMA ContinueKeeps == IInv /\ Continue => IInv'
<1>. SUFFICES ASSUME IInv, Continue PROVE IInv'
  OBVIOUS
<1>1. /\ Types /\ HeldInv /\ BlankInv /\ DiskInv /\ TasksInv /\ KeptInv /\ SlotsInv
      /\ slots \in Seq(Snapshot) /\ ~Away /\ tasks \in [Task -> Step] /\ doc \in Document
      /\ tasks["file"] \in Step /\ "file" \in Task
  BY AtHome, TypesAre DEF IInv, Continue, Task
<1>2. PICK s \in Step : s = tasks["file"]
  BY <1>1
<1>3. TaskOk("file", s) /\ s.pc = "go"
  BY <1>1, <1>2 DEF TasksInv, Continue
<1>4. /\ sketch' = {} /\ unguarded' = unguarded \cup sketch
      /\ timer' = (timer /\ doc'.dirty) /\ lapses' = IF doc'.dirty THEN lapses ELSE {}
      /\ UNCHANGED <<running, web, disk, slots, writing, offer, guard, edits, launches, answered, orphans>>
  BY DEF Continue, bounds
<1>5. \E r \in Step :
         /\ To("file", r) /\ r.content \subseteq Held
         /\ doc' = Blank \/ doc' = doc
         /\ r.pc \in {"idle", "closing", "reading"}
         /\ r.pc = "reading" => r.goal \in Path /\ r.goal = s.goal
         /\ r.pc # "idle" => r.goal = s.goal
  <2>1. CASE doc' = Blank /\ To("file", Idle)
    BY <2>1, IdleIs
  <2>2. CASE UNCHANGED doc /\ To("file", [s EXCEPT !.pc = "closing", !.path = doc.path])
    <3>1. PICK r : r = [s EXCEPT !.pc = "closing", !.path = doc.path]
      OBVIOUS
    <3>2. r = [pc |-> "closing", goal |-> s.goal, path |-> doc.path, content |-> s.content]
      BY <3>1, StepIs
    <3>3. r \in Step
      BY <1>1, <3>2 DEF Step, Pc, Document
    <3>4. r.pc = "closing" /\ r.goal = s.goal /\ r.content \subseteq Held
      BY <1>3, <3>2 DEF TaskOk
    <3>. QED BY <2>2, <3>1, <3>3, <3>4
  <2>3. CASE s.goal \in Path /\ UNCHANGED doc /\ To("file", [s EXCEPT !.pc = "reading"])
    <3>1. PICK r : r = [s EXCEPT !.pc = "reading"]
      OBVIOUS
    <3>2. r = [pc |-> "reading", goal |-> s.goal, path |-> s.path, content |-> s.content]
      BY <3>1, StepIs
    <3>3. r \in Step
      BY <3>2 DEF Step, Pc
    <3>4. r.pc = "reading" /\ r.goal = s.goal /\ r.content \subseteq Held
      BY <1>3, <3>2 DEF TaskOk
    <3>. QED BY <2>3, <3>1, <3>3, <3>4
  <2>. QED BY <1>2, <2>1, <2>2, <2>3 DEF Continue
<1>6. PICK r \in Step :
         /\ To("file", r) /\ r.content \subseteq Held
         /\ doc' = Blank \/ doc' = doc
         /\ r.pc \in {"idle", "closing", "reading"}
         /\ r.pc = "reading" => r.goal \in Path /\ r.goal = s.goal
         /\ r.pc # "idle" => r.goal = s.goal
  BY <1>5
<1>7. /\ tasks' \in [Task -> Step] /\ tasks'["file"] = r
      /\ \A u \in Task \ {"file"} : tasks'[u] = tasks[u]
  BY <1>1, <1>6, ToIs
<1>8. Unsaved = {} /\ Fresh \subseteq sketch
  BY <1>1, <1>3, PastIs DEF TaskOk
<1>9. Fresh' = {}
  <2>1. Fresh' \subseteq Fresh
    BY <1>4, FreshShrinks
  <2>. QED BY <1>4, <1>8, <2>1 DEF Fresh, Safe
<1>10. Held \subseteq Held' /\ ~Away' /\ ~Offering' /\ Unsaved' = {}
  BY <1>1, <1>4, <1>9 DEF Held, Away, Offering, Unsaved
<1>11. doc' \in Document /\ doc'.content \subseteq doc.content
  BY <1>1, <1>6, IdleIs
<1>12. Types'
  BY <1>1, <1>4, <1>7, <1>11 DEF Types, TypeOK, Document, Unique
<1>13. HeldInv'
  <2>1. Contents(slots)' = Contents(slots)
    BY <1>4 DEF Contents
  <2>2. doc'.content \subseteq Held'
    BY <1>1, <1>10, <1>11 DEF HeldInv
  <2>3. \A p \in Path : disk[p] # Null => disk[p] \subseteq Held'
    BY <1>1, <1>10 DEF HeldInv
  <2>. HIDE DEF Contents
  <2>. QED BY <1>1, <1>4, <1>10, <2>1, <2>2, <2>3 DEF HeldInv
<1>14. BlankInv'
  BY <1>1, <1>4, <1>10 DEF BlankInv, Away
<1>15. DiskInv'
  <2>1. \A u \in Task : tasks'[u].pc = "writing" => tasks'[u] = tasks[u]
    BY <1>6, <1>7
  <2>2. \/ doc'.path = doc.path /\ doc.content \subseteq doc'.content
        \/ doc'.path = Null
    BY <1>6, IdleIs
  <2>. QED BY <1>1, <1>4, <2>1, <2>2, DiskStays
<1>16. TasksInv'
  <2>1. \A u \in Task : tasks'[u] = tasks[u] => TaskOk(u, tasks[u])'
    <3>1. tasks["quit"].pc = "go" => Fresh' \subseteq orphans' /\ Fresh' \subseteq Contents(slots')
      BY <1>9
    <3>. HIDE DEF Contents
    <3>. QED BY <1>1, <1>4, <1>10, <3>1, OthersStay
  <2>2. TaskOk("file", r)'
    <3>1. r.pc # "idle" /\ r.goal \in Path => disk'[r.goal] # Null
      BY <1>3, <1>4, <1>6 DEF TaskOk
    <3>. HIDE DEF Contents
    <3>. QED BY <1>6, <1>10, <3>1 DEF TaskOk
  <2>3. TaskOk("file", tasks["file"])'
    BY <1>7, <2>2, TaskIs
  <2>. QED BY <1>7, <2>1, <2>3 DEF TasksInv
<1>17. KeptInv'
  BY <1>9, <1>10 DEF KeptInv
<1>18. SlotsInv'
  BY <1>1, <1>4, <1>9, SlotsEmpty
<1>. QED BY <1>12, <1>13, <1>14, <1>15, <1>16, <1>17, <1>18 DEF IInv

\* The document that was read is in its file.
LEMMA LoadKeeps == IInv /\ Load => IInv'
<1>. SUFFICES ASSUME IInv, Load PROVE IInv'
  OBVIOUS
<1>1. /\ Types /\ HeldInv /\ BlankInv /\ DiskInv /\ TasksInv /\ KeptInv /\ SlotsInv
      /\ slots \in Seq(Snapshot) /\ ~Away /\ tasks \in [Task -> Step]
      /\ disk \in [Path -> {Null} \cup SUBSET Edit]
      /\ tasks["file"] \in Step /\ "file" \in Task
  BY AtHome, TypesAre DEF IInv, Load, Task
<1>2. PICK s \in Step : s = tasks["file"]
  BY <1>1
<1>3. TaskOk("file", s) /\ s.pc = "reading"
  BY <1>1, <1>2 DEF TasksInv, Load
<1>4. s.goal \in Path /\ disk[s.goal] # Null /\ disk[s.goal] \in SUBSET Edit
  BY <1>1, <1>3 DEF TaskOk
<1>5. PICK b : b = FALSE
  OBVIOUS
<1>6. doc' = [content |-> disk[s.goal], path |-> s.goal, dirty |-> b]
  BY <1>2, <1>5 DEF Load
<1>7. doc' \in Document /\ doc'.content = disk[s.goal] /\ doc'.path = s.goal /\ ~doc'.dirty
  BY <1>4, <1>5, <1>6 DEF Document
<1>8. /\ timer' = FALSE /\ lapses' = {} /\ To("file", Idle)
      /\ UNCHANGED <<running, web, sketch, disk, slots, writing, offer, guard, edits, launches,
                     answered, orphans, unguarded>>
  BY DEF Load, bounds
<1>9. PICK r \in Step : r = Idle
  BY IdleIs
<1>10. /\ tasks' \in [Task -> Step] /\ tasks'["file"] = r
       /\ \A u \in Task \ {"file"} : tasks'[u] = tasks[u]
  BY <1>1, <1>8, <1>9, ToIs
<1>11. Unsaved = {} /\ Fresh \subseteq sketch
  BY <1>1, <1>3, PastIs DEF TaskOk
<1>12. Fresh' = Fresh /\ OnDisk' = OnDisk /\ Held' = Held /\ ~Away' /\ ~Offering'
  BY <1>1, <1>8 DEF Fresh, Safe, OnDisk, Held, Away, Offering
<1>13. Unsaved' = {}
  <2>1. disk[s.goal] \subseteq OnDisk
    BY <1>4 DEF OnDisk
  <2>. QED BY <1>7, <1>12, <2>1 DEF Unsaved, Fresh, Safe
<1>14. Types'
  BY <1>1, <1>7, <1>8, <1>10 DEF Types, TypeOK, Document
<1>15. HeldInv'
  <2>1. Contents(slots)' = Contents(slots)
    BY <1>8 DEF Contents
  <2>. HIDE DEF Contents
  <2>. QED BY <1>1, <1>4, <1>7, <1>8, <1>12, <2>1 DEF HeldInv
<1>16. BlankInv'
  BY <1>1, <1>8, <1>12 DEF BlankInv, Away
<1>17. DiskInv'
  <2>1. \A u \in Task : tasks'[u].pc = "writing" => tasks'[u] = tasks[u]
    BY <1>9, <1>10, IdleIs
  <2>2. \A e, p : Anchored(e, p) => Anchored(e, p)'
    BY <1>8, <2>1, AnchorsStay
  <2>3. \A e \in OnDisk' : e \in answered' \cup unguarded' \/ \E p \in Path : Anchored(e, p)'
    BY <1>1, <1>8, <1>12, <2>2 DEF DiskInv
  <2>4. \A e \in disk'[doc'.path] : e \in doc'.content
    BY <1>7, <1>8
  <2>. QED BY <2>3, <2>4 DEF DiskInv
<1>18. TasksInv'
  <2>1. \A u \in Task : tasks'[u] = tasks[u] => TaskOk(u, tasks[u])'
    <3>1. tasks["quit"].pc = "go" => Fresh' \subseteq orphans' /\ Fresh' \subseteq Contents(slots')
      BY <1>1, <1>8, <1>12 DEF TasksInv, TaskOk, Task
    <3>2. tasks["quit"].pc # "idle" => sketch' \subseteq unguarded'
      BY <1>1, <1>8 DEF TasksInv, TaskOk, Task
    <3>. HIDE DEF Contents
    <3>. QED BY <1>1, <1>8, <1>12, <1>13, <3>1, <3>2, OthersStay
  <2>2. TaskOk("file", r)'
    BY <1>9, IdleIs DEF TaskOk
  <2>3. TaskOk("file", tasks["file"])'
    BY <1>10, <2>2, TaskIs
  <2>. QED BY <1>10, <2>1, <2>3 DEF TasksInv
<1>19. KeptInv'
  BY <1>7, <1>11, <1>12, <1>13, <1>8 DEF KeptInv
<1>20. SlotsInv'
  BY <1>1, <1>8, <1>12, SlotsStay
<1>. QED BY <1>14, <1>15, <1>16, <1>17, <1>18, <1>19, <1>20 DEF IInv

------------------------------------------------------------------------
\* Editing.

\* An edit is fresh and on screen, or unguarded.
LEMMA ChangeKeeps == IInv /\ Change => IInv'
<1>. SUFFICES ASSUME IInv, Change PROVE IInv'
  OBVIOUS
<1>1. /\ Types /\ HeldInv /\ BlankInv /\ DiskInv /\ TasksInv /\ KeptInv /\ SlotsInv
      /\ slots \in Seq(Snapshot) /\ ~Away /\ tasks \in [Task -> Step] /\ doc \in Document
  BY AtHome, TypesAre DEF IInv, Change
<1>2. PICK e \in Edit \ edits : edits' = edits \cup {e} /\ Commit({e})
  BY DEF Change
<1>3. /\ UNCHANGED <<running, web, sketch, disk, slots, writing, tasks, offer, guard,
                     launches, answered, orphans>>
      /\ timer' = (timer \/ {e} # {}) /\ lapses' = IF {e} = {} THEN lapses ELSE {}
      /\ unguarded' = IF Busy THEN unguarded \cup {e} ELSE unguarded
  BY <1>2 DEF Change, Commit
<1>4. doc' \in Document /\ doc'.content = doc.content \cup {e} /\ doc'.path = doc.path /\ doc'.dirty
  BY <1>1, <1>2, CommitIs
<1>5. OnDisk' = OnDisk
  BY <1>3 DEF OnDisk
<1>6. /\ Fresh' \subseteq Fresh \cup {e} /\ (Busy => Fresh' \subseteq Fresh)
      /\ Unsaved' \subseteq Unsaved \cup {e} /\ (Busy => Unsaved' \subseteq Unsaved)
  BY <1>2, <1>3, <1>4, <1>5 DEF Fresh, Safe, Unsaved
<1>7. Held' = Held \cup {e} /\ e \notin Held /\ ~Away' /\ ~Offering'
  BY <1>1, <1>2, <1>3 DEF Held, HeldInv, Away, Offering
<1>8. Types'
  BY <1>1, <1>2, <1>3, <1>4 DEF Types, TypeOK, Document
<1>9. HeldInv'
  <2>1. Contents(slots)' = Contents(slots)
    BY <1>3 DEF Contents
  <2>2. sketch' \subseteq edits'
    BY <1>1, <1>2, <1>3 DEF HeldInv
  <2>. HIDE DEF Contents
  <2>. QED BY <1>1, <1>3, <1>4, <1>7, <2>1, <2>2 DEF HeldInv
<1>10. BlankInv'
  BY <1>1, <1>3, <1>7 DEF BlankInv, Away
<1>11. DiskInv'
  BY <1>1, <1>3, <1>4, DiskStays
<1>12. TasksInv'
  <2>1. tasks["quit"].pc # "idle" => Busy
    BY <1>1 DEF Busy, Task
  <2>2. tasks["quit"].pc = "go" => Fresh' \subseteq orphans' /\ Fresh' \subseteq Contents(slots')
    <3>1. tasks["quit"].pc = "go" => Fresh' \subseteq Fresh
      BY <1>6, <2>1
    <3>. QED BY <1>1, <1>3, <3>1 DEF TasksInv, TaskOk, Task
  <2>3. tasks["quit"].pc # "idle" => sketch' \subseteq unguarded'
    BY <1>1, <1>3 DEF TasksInv, TaskOk, Task
  <2>. HIDE DEF Contents
  <2>4. \A u \in Task : tasks'[u] = tasks[u] => TaskOk(u, tasks[u])'
    BY <1>1, <1>3, <1>6, <1>7, <2>2, <2>3, OthersStay
  <2>. QED BY <1>3, <2>4 DEF TasksInv
<1>13. KeptInv'
  <2>1. Fresh' \subseteq doc'.content \cup sketch'
    BY <1>1, <1>3, <1>4, <1>6 DEF KeptInv
  <2>. QED BY <1>4, <1>7, <2>1 DEF KeptInv
<1>14. SlotsInv'
  <2>1. e \notin Contents(slots)
    BY <1>1, <1>7 DEF HeldInv
  <2>2. Fresh' \cap Contents(slots) \subseteq Fresh
    BY <1>6, <2>1
  <2>. QED BY <1>1, <1>3, <2>2, SlotsStay
<1>. QED BY <1>8, <1>9, <1>10, <1>11, <1>12, <1>13, <1>14 DEF IInv

\* A curve is fresh and in the sketch, or unguarded.
LEMMA DrawKeeps == IInv /\ Draw => IInv'
<1>. SUFFICES ASSUME IInv, Draw PROVE IInv'
  OBVIOUS
<1>1. /\ Types /\ HeldInv /\ BlankInv /\ DiskInv /\ TasksInv /\ KeptInv /\ SlotsInv
      /\ slots \in Seq(Snapshot) /\ ~Away /\ tasks \in [Task -> Step]
  BY AtHome, TypesAre DEF IInv, Draw
<1>2. PICK e \in Edit \ edits : edits' = edits \cup {e} /\ sketch' = {e}
  BY DEF Draw
<1>3. /\ UNCHANGED <<running, web, doc, disk, slots, timer, writing, tasks, offer, guard,
                     launches, answered, orphans, lapses>>
      /\ unguarded' = IF Busy THEN unguarded \cup {e} ELSE unguarded
      /\ sketch = {}
  BY <1>2 DEF Draw
<1>4. OnDisk' = OnDisk
  BY <1>3 DEF OnDisk
<1>5. Held' = Held /\ e \notin Held /\ ~Away' /\ ~Offering'
  BY <1>1, <1>2, <1>3 DEF Held, Away, Offering
<1>6. e \notin doc.content /\ e \notin Contents(slots)
  BY <1>1, <1>5 DEF HeldInv
<1>7. /\ Fresh' \subseteq Fresh \cup {e} /\ (Busy => Fresh' \subseteq Fresh)
      /\ Unsaved' \subseteq Unsaved
  BY <1>2, <1>3, <1>4, <1>6 DEF Fresh, Safe, Unsaved
<1>8. Types'
  BY <1>1, <1>2, <1>3 DEF Types, TypeOK
<1>9. HeldInv'
  <2>1. Contents(slots)' = Contents(slots)
    BY <1>3 DEF Contents
  <2>. HIDE DEF Contents
  <2>. QED BY <1>1, <1>2, <1>3, <1>5, <2>1 DEF HeldInv
<1>10. BlankInv'
  BY <1>1, <1>3, <1>5 DEF BlankInv, Away
<1>11. DiskInv'
  BY <1>1, <1>3, DiskStays
<1>12. TasksInv'
  <2>1. tasks["quit"].pc # "idle" => Busy
    BY <1>1 DEF Busy, Task
  <2>2. tasks["quit"].pc = "go" => Fresh' \subseteq orphans' /\ Fresh' \subseteq Contents(slots')
    <3>1. tasks["quit"].pc = "go" => Fresh' \subseteq Fresh
      BY <1>7, <2>1
    <3>. QED BY <1>1, <1>3, <3>1 DEF TasksInv, TaskOk, Task
  <2>3. tasks["quit"].pc # "idle" => sketch' \subseteq unguarded'
    BY <1>2, <1>3, <2>1
  <2>. HIDE DEF Contents
  <2>4. \A u \in Task : tasks'[u] = tasks[u] => TaskOk(u, tasks[u])'
    BY <1>1, <1>3, <1>5, <1>7, <2>2, <2>3, OthersStay
  <2>. QED BY <1>3, <2>4 DEF TasksInv
<1>13. KeptInv'
  <2>1. Fresh' \subseteq doc'.content \cup sketch'
    BY <1>1, <1>2, <1>3, <1>7 DEF KeptInv
  <2>. QED BY <1>1, <1>3, <1>5, <1>7, <2>1 DEF KeptInv
<1>14. SlotsInv'
  <2>1. Fresh' \cap Contents(slots) \subseteq Fresh
    BY <1>6, <1>7
  <2>. QED BY <1>1, <1>3, <2>1, SlotsStay
<1>. QED BY <1>8, <1>9, <1>10, <1>11, <1>12, <1>13, <1>14 DEF IInv

------------------------------------------------------------------------
\* The window's close.

\* The guard's own state is no part of it.
LEMMA GuardSteps ==
    ASSUME IInv, web' \in {"up", "deaf"},
           UNCHANGED <<running, page, disk, slots, writing, edits, answered, orphans, unguarded, lapses>>
    PROVE  IInv'
<1>1. UNCHANGED <<doc, sketch, timer, tasks, offer>>
  BY DEF page
<1>2. Fresh' = Fresh /\ OnDisk' = OnDisk /\ Held' = Held /\ (Away' <=> Away) /\ (Offering' <=> Offering)
  BY <1>1 DEF Fresh, Safe, OnDisk, Held, Away, Offering
<1>3. Unsaved' = Unsaved /\ Contents(slots)' = Contents(slots)
  BY <1>1, <1>2 DEF Unsaved, Contents
<1>4. Types' /\ HeldInv'
  <2>. HIDE DEF Contents
  <2>. QED BY <1>1, <1>2, <1>3 DEF IInv, Types, TypeOK, HeldInv
<1>5. BlankInv'
  BY <1>1, <1>2 DEF IInv, BlankInv
<1>6. DiskInv'
  BY <1>1, DiskStays DEF IInv
<1>7. TasksInv'
  <2>1. tasks \in [Task -> Step] /\ TasksInv
    BY TypesAre DEF IInv
  <2>2. /\ tasks["quit"].pc = "go" => Fresh' \subseteq orphans' /\ Fresh' \subseteq Contents(slots')
        /\ tasks["quit"].pc # "idle" => sketch' \subseteq unguarded'
    BY <1>1, <1>2, <1>3, <2>1 DEF TasksInv, TaskOk, Task
  <2>. HIDE DEF Contents
  <2>3. \A u \in Task : tasks'[u] = tasks[u] => TaskOk(u, tasks[u])'
    BY <1>1, <1>2, <1>3, <2>1, <2>2, OthersStay
  <2>. QED BY <1>1, <2>3 DEF TasksInv
<1>8. KeptInv'
  BY <1>1, <1>2, <1>3 DEF IInv, KeptInv
<1>9. SlotsInv'
  <2>1. slots \in Seq(Snapshot)
    BY TypesAre DEF IInv
  <2>. QED BY <1>1, <1>2, <2>1, SlotsStay DEF IInv
<1>. QED BY <1>4, <1>5, <1>6, <1>7, <1>8, <1>9 DEF IInv

\* What the shell's watchdog and the page's stalls do.
LEMMA ShellKeeps == IInv /\ (CloseRequested \/ Acknowledged \/ GoesDeaf \/ Resumes) => IInv'
<1>. SUFFICES ASSUME IInv, CloseRequested \/ Acknowledged \/ GoesDeaf \/ Resumes PROVE IInv'
  OBVIOUS
<1>1. web \in {"up", "deaf"}
  BY DEF IInv, Types, TypeOK
<1>. QED BY <1>1, GuardSteps DEF CloseRequested, Acknowledged, GoesDeaf, Resumes, bounds, ghosts

\* The close handler commits the sketch before it asks.
LEMMA CloseHandlerKeeps == IInv /\ CloseHandler => IInv'
<1>. SUFFICES ASSUME IInv, CloseHandler PROVE IInv'
  OBVIOUS
<1>1. /\ Types /\ HeldInv /\ BlankInv /\ DiskInv /\ TasksInv /\ KeptInv /\ SlotsInv
      /\ slots \in Seq(Snapshot) /\ tasks \in [Task -> Step] /\ doc \in Document /\ doc.dirty \in BOOLEAN
      /\ "quit" \in Task
  BY TypesAre DEF IInv, Task
<1>2. CASE tasks["quit"] # Idle
  <2>1. web \in {"up", "deaf"}
    BY <1>1 DEF Types, TypeOK
  <2>. QED BY <1>2, <2>1, GuardSteps DEF CloseHandler, page, bounds
<1>3. CASE tasks["quit"] = Idle
  <2>1. /\ Commit(sketch) /\ sketch' = {} /\ To("quit", Asking("quit", Null, doc'.dirty))
        /\ UNCHANGED <<running, web, disk, slots, writing, offer, edits, launches, answered, orphans>>
    BY <1>3 DEF CloseHandler, bounds
  <2>2. sketch \in SUBSET Edit
    BY <1>1 DEF Types, TypeOK
  <2>3. /\ timer' = (timer \/ sketch # {}) /\ lapses' = IF sketch = {} THEN lapses ELSE {}
        /\ unguarded' = IF Busy THEN unguarded \cup sketch ELSE unguarded
    BY <2>1 DEF Commit
  <2>4. /\ doc' \in Document /\ doc'.content = doc.content \cup sketch /\ doc'.path = doc.path
        /\ doc'.dirty = (doc.dirty \/ sketch # {}) /\ doc'.dirty \in BOOLEAN
    BY <1>1, <2>1, <2>2, CommitIs
  <2>5. PICK r \in Step : r = Asking("quit", Null, doc'.dirty)
    BY <2>4, AskingIs
  <2>6. /\ r.content = {}
        /\ \/ r.pc = "prompt" /\ doc'.dirty
           \/ r.pc = "go" /\ ~doc'.dirty
    BY <2>4, <2>5, AskingIs
  <2>7. /\ tasks' \in [Task -> Step] /\ tasks'["quit"] = r
        /\ \A u \in Task \ {"quit"} : tasks'[u] = tasks[u]
    BY <1>1, <2>1, <2>5, ToIs
  <2>8. Fresh' \subseteq Fresh /\ OnDisk' = OnDisk
    BY <2>1, <2>3, FreshShrinks
  <2>9. Held \subseteq Held' /\ (Away' <=> Away) /\ (Offering' <=> Offering)
    BY <2>1 DEF Held, Away, Offering
  <2>10. Busy => Unsaved' \subseteq Unsaved
    BY <2>3, <2>4, <2>8 DEF Unsaved, Fresh, Safe
  <2>11. ~doc'.dirty => ~doc.dirty /\ sketch = {} /\ Unsaved' = {} /\ (~Away => Fresh = {})
    <3>1. ~doc'.dirty => ~doc.dirty /\ sketch = {}
      BY <1>1, <2>4
    <3>2. ~doc.dirty /\ sketch = {} => Unsaved = {} /\ (~Away => Fresh = {})
      BY CleanIs
    <3>3. sketch = {} => Unsaved' \subseteq Unsaved
      BY <2>4, <2>8 DEF Unsaved
    <3>. QED BY <3>1, <3>2, <3>3
  <2>12. Away => doc' = doc /\ ~doc'.dirty /\ sketch = {}
    <3>1. Away => sketch = {} /\ ~doc.dirty
      BY <1>1, IdleIs DEF BlankInv
    <3>2. sketch = {} => doc'.content = doc.content /\ doc'.path = doc.path /\ doc'.dirty = doc.dirty
      BY <1>1, <2>4
    <3>3. sketch = {} => doc' = doc
      BY <1>1, <2>4, <3>2 DEF Document
    <3>. QED BY <3>1, <3>2, <3>3
  <2>13. Types'
    BY <1>1, <2>1, <2>2, <2>3, <2>4, <2>7 DEF Types, TypeOK, Document
  <2>14. HeldInv'
    <3>1. Contents(slots)' = Contents(slots)
      BY <2>1 DEF Contents
    <3>2. doc'.content \subseteq Held'
      BY <1>1, <2>1, <2>4 DEF HeldInv, Held
    <3>3. \A p \in Path : disk'[p] # Null => disk'[p] \subseteq Held'
      BY <1>1, <2>1, <2>9 DEF HeldInv
    <3>. HIDE DEF Contents
    <3>. QED BY <1>1, <2>1, <2>9, <3>1, <3>2, <3>3 DEF HeldInv
  <2>15. BlankInv'
    BY <1>1, <2>1, <2>9, <2>12 DEF BlankInv
  <2>16. DiskInv'
    <3>1. \A u \in Task : tasks'[u].pc = "writing" => tasks'[u] = tasks[u]
      BY <2>6, <2>7
    <3>. QED BY <1>1, <2>1, <2>3, <2>4, <3>1, DiskStays
  <2>17. TasksInv'
    <3>1. \A u \in Task : tasks'[u] = tasks[u] => TaskOk(u, tasks[u])'
      <4>1. tasks["quit"].pc = "idle"
        BY <1>3, IdleIs
      <4>2. \A p \in Path : disk[p] # Null => disk'[p] # Null
        BY <2>1
      <4>3. tasks["quit"].pc = "go" => Fresh' \subseteq orphans' /\ Fresh' \subseteq Contents(slots')
        BY <4>1
      <4>4. tasks["quit"].pc # "idle" => sketch' \subseteq unguarded'
        BY <4>1
      <4>. HIDE DEF Contents
      <4>. QED BY <1>1, <2>9, <2>10, <4>2, <4>3, <4>4, OthersStay
    <3>2. TaskOk("quit", r)'
      <4>1. r.pc = "go" => Fresh' \subseteq orphans' /\ Fresh' \subseteq Contents(slots')
        <5>1. CASE Away
          <6>1. Fresh \subseteq orphans
            BY <1>1, <5>1 DEF KeptInv
          <6>2. ASSUME NEW e \in Fresh PROVE e \in Contents(slots)
            <7>1. Len(slots) >= 1 /\ e \in slots[1].content
              BY <1>1, <5>1, <6>2 DEF KeptInv
            <7>2. 1 \in 1..Len(slots)
              BY <1>1, <7>1, LenProperties
            <7>. QED BY <1>1, <7>1, <7>2, ContentsAre
          <6>3. Fresh' \subseteq Contents(slots)
            BY <2>8, <6>2
          <6>. QED BY <2>1, <2>8, <6>1, <6>3
        <5>2. CASE ~Away
          BY <2>6, <2>8, <2>11, <5>2
        <5>. QED BY <5>1, <5>2
      <4>2. Away' => r.pc = "go"
        BY <2>6, <2>9, <2>12
      <4>. HIDE DEF Contents
      <4>. QED BY <2>1, <2>6, <4>1, <4>2 DEF TaskOk
    <3>3. TaskOk("quit", tasks["quit"])'
      BY <2>7, <3>2, TaskIs
    <3>. QED BY <2>7, <3>1, <3>3 DEF TasksInv
  <2>18. KeptInv'
    <3>1. ~Away' => Fresh' \subseteq doc'.content \cup sketch'
      BY <1>1, <2>4, <2>8, <2>9 DEF KeptInv
    <3>2. Away' => /\ Fresh' \subseteq orphans'
                   /\ \A e \in Fresh' : Len(slots') >= 1 /\ e \in slots'[1].content
      BY <1>1, <2>1, <2>8, <2>9 DEF KeptInv
    <3>. QED BY <2>11, <3>1, <3>2 DEF KeptInv
  <2>19. SlotsInv'
    BY <1>1, <2>1, <2>8, SlotsStay
  <2>. QED BY <2>13, <2>14, <2>15, <2>16, <2>17, <2>18, <2>19 DEF IInv
<1>. QED BY <1>2, <1>3

------------------------------------------------------------------------
\* The autosave.

\* The tasks do not depend on the snapshots, except for a close that is about to happen.
LEMMA TasksStay ==
    ASSUME IInv, UNCHANGED <<running, sketch, disk, tasks, edits, unguarded>>,
           answered \subseteq answered', orphans' = orphans, Away \/ Unsaved' \subseteq Unsaved,
           Away' => Away, Fresh' \cap Contents(slots) \subseteq Contents(slots')
    PROVE  TasksInv'
<1>1. TasksInv /\ tasks \in [Task -> Step]
  BY TypesAre DEF IInv
<1>2. Fresh' \subseteq Fresh
  BY FreshShrinks
<1>3. Held' = Held
  BY DEF Held
<1>4. tasks["quit"].pc = "go" => Fresh' \subseteq orphans' /\ Fresh' \subseteq Contents(slots')
  BY <1>1, <1>2 DEF TasksInv, TaskOk, Task
<1>5. tasks["quit"].pc # "idle" => sketch' \subseteq unguarded'
  BY <1>1 DEF TasksInv, TaskOk, Task
<1>. HIDE DEF Contents
<1>6. \A u \in Task : tasks'[u] = tasks[u] => TaskOk(u, tasks[u])'
  BY <1>1, <1>3, <1>4, <1>5, OthersStay
<1>. QED BY <1>6 DEF TasksInv

\* The autosave takes a snapshot of all of the document.
LEMMA AutosaveDueKeeps == IInv /\ AutosaveDue => IInv'
<1>. SUFFICES ASSUME IInv, AutosaveDue PROVE IInv'
  OBVIOUS
<1>1. /\ Types /\ HeldInv /\ BlankInv /\ DiskInv /\ TasksInv /\ KeptInv /\ SlotsInv
      /\ slots \in Seq(Snapshot) /\ doc \in Document /\ running /\ offer = Null /\ ~Away
      /\ DOMAIN slots = 1..Len(slots) /\ Len(slots) \in Nat
  BY TypesAre DEF IInv, AutosaveDue, Up, Away, Offering
<1>2. /\ UNCHANGED <<running, web, doc, sketch, disk, slots, tasks, offer, guard, edits, launches,
                     answered, orphans, unguarded>>
      /\ timer' = FALSE /\ lapses' \in {{}, lapses, lapses \cup {"skipped"}}
  BY DEF AutosaveDue, bounds
<1>3. /\ writing' \in {Null} \cup Snapshot
      /\ writing' = writing \/ (writing' \in Snapshot /\ writing'.content = doc.content)
  <2>1. CASE writing = Null
    <3>1. writing' = [slot |-> SlotFor(doc.path), content |-> doc.content]
      BY <2>1 DEF AutosaveDue
    <3>2. SlotFor(doc.path) \in Slot /\ doc.content \in SUBSET Edit
      BY <1>1 DEF SlotFor, Slot, Document
    <3>. QED BY <3>1, <3>2 DEF Snapshot
  <2>2. CASE writing # Null
    BY <1>1, <2>2 DEF AutosaveDue, Types, TypeOK
  <2>. QED BY <2>1, <2>2
<1>4. Fresh' = Fresh /\ Held' = Held /\ ~Away' /\ ~Offering'
  BY <1>1, <1>2 DEF Fresh, Safe, OnDisk, Held, Away, Offering
<1>5. Unsaved' = Unsaved /\ Contents(slots)' = Contents(slots)
  BY <1>2, <1>4 DEF Unsaved, Contents
<1>6. Types'
  BY <1>1, <1>2, <1>3 DEF Types, TypeOK
<1>7. HeldInv'
  <2>. HIDE DEF Contents
  <2>. QED BY <1>1, <1>2, <1>3, <1>4, <1>5 DEF HeldInv
<1>8. BlankInv'
  BY <1>1, <1>2, <1>4 DEF BlankInv, Away
<1>9. DiskInv'
  BY <1>1, <1>2, DiskStays
<1>10. TasksInv'
  <2>. HIDE DEF Contents
  <2>. QED BY <1>2, <1>4, <1>5, TasksStay
<1>11. KeptInv'
  BY <1>1, <1>2, <1>4, <1>5 DEF KeptInv
<1>12. SlotsInv'
  <2>1. Fresh \cap Contents(slots) \subseteq doc.content
    BY <1>1 DEF KeptInv, HeldInv, Held
  <2>2. writing' # Null => Fresh \cap Contents(slots) \subseteq writing'.content
    BY <1>1, <1>3, <2>1 DEF SlotsInv
  <2>3. Nested(slots, Fresh)'
    BY <1>1, <1>2, <1>4 DEF SlotsInv, Nested
  <2>. HIDE DEF Contents
  <2>. QED BY <1>1, <1>2, <1>4, <1>5, <2>2, <2>3 DEF SlotsInv
<1>. QED BY <1>6, <1>7, <1>8, <1>9, <1>10, <1>11, <1>12 DEF IInv

\* The snapshot is stored, or is lost and owed.
LEMMA AutosaveEndsKeeps == IInv /\ AutosaveEnds => IInv'
<1>. SUFFICES ASSUME IInv, AutosaveEnds PROVE IInv'
  OBVIOUS
<1>1. /\ Types /\ HeldInv /\ BlankInv /\ DiskInv /\ TasksInv /\ KeptInv /\ SlotsInv
      /\ slots \in Seq(Snapshot) /\ Unique(slots) /\ doc.dirty \in BOOLEAN
      /\ running /\ writing # Null /\ writing \in Snapshot
  BY TypesAre DEF IInv, AutosaveEnds
<1>2. offer = Null /\ ~Away
  BY <1>1 DEF BlankInv
<1>3. /\ UNCHANGED <<running, web, doc, sketch, timer, tasks, offer, disk, guard, edits, launches,
                     answered, orphans, unguarded>>
      /\ writing' = Null /\ lapses' \in {lapses, lapses \cup {"failed"}}
  BY <1>1 DEF AutosaveEnds, page, bounds, Types
<1>4. PICK x \in Snapshot : x = writing
  BY <1>1
<1>5. Fresh \cap Contents(slots) \subseteq x.content
  BY <1>1, <1>4 DEF SlotsInv
<1>6. /\ slots' \in Seq(Snapshot) /\ Unique(slots') /\ Nested(slots', Fresh)
      /\ \A e : e \in Contents(slots') => e \in x.content \/ e \in Contents(slots)
      /\ Fresh \cap Contents(slots) \subseteq Contents(slots')
  <2>1. CASE slots' = Stored(writing)
    <3>1. slots' = Stored(x)
      BY <1>4, <2>1
    <3>2. /\ Stored(x) \in Seq(Snapshot) /\ Unique(Stored(x))
          /\ \A e : e \in Contents(Stored(x)) => e \in x.content \/ e \in Contents(slots)
      BY <1>1, StoredIs
    <3>3. Nested(Stored(x), Fresh) /\ Fresh \cap Contents(slots) \subseteq Contents(Stored(x))
      BY <1>1, <1>5, StoredNested DEF SlotsInv
    <3>. QED BY <3>1, <3>2, <3>3
  <2>2. CASE slots' = slots
    BY <1>1, <2>2 DEF SlotsInv
  <2>. QED BY <2>1, <2>2 DEF AutosaveEnds
<1>7. Fresh' = Fresh /\ Held' = Held /\ ~Away' /\ ~Offering'
  BY <1>2, <1>3 DEF Fresh, Safe, OnDisk, Held, Away, Offering
<1>8. Unsaved' = Unsaved
  BY <1>3, <1>7 DEF Unsaved
<1>9. Types'
  BY <1>1, <1>3, <1>6 DEF Types, TypeOK, Unique
<1>10. HeldInv'
  <2>1. Contents(slots') \subseteq Held
    BY <1>1, <1>4, <1>6 DEF HeldInv
  <2>. HIDE DEF Contents
  <2>. QED BY <1>1, <1>2, <1>3, <1>7, <2>1 DEF HeldInv
<1>11. BlankInv'
  BY <1>1, <1>2, <1>3, <1>7 DEF BlankInv, Away
<1>12. DiskInv'
  BY <1>1, <1>3, DiskStays
<1>13. TasksInv'
  <2>. HIDE DEF Contents
  <2>. QED BY <1>3, <1>6, <1>7, <1>8, TasksStay
<1>14. KeptInv'
  BY <1>1, <1>2, <1>3, <1>7, <1>8 DEF KeptInv
<1>15. SlotsInv'
  <2>1. Nested(slots, Fresh)'
    BY <1>6, <1>7 DEF Nested
  <2>. HIDE DEF Contents
  <2>. QED BY <1>2, <1>3, <2>1 DEF SlotsInv
<1>. QED BY <1>9, <1>10, <1>11, <1>12, <1>13, <1>14, <1>15 DEF IInv

------------------------------------------------------------------------
\* The launch.

\* What an answer to the offer finds.
LEMMA OfferedIs ==
    ASSUME IInv, Offering
    PROVE  /\ offer \in Offer /\ offer # Null /\ Away /\ writing = Null /\ doc = Blank /\ sketch = {}
           /\ slots \in Seq(Snapshot) /\ DOMAIN slots = 1..Len(slots) /\ 1 \in 1..Len(slots)
           /\ Unique(slots) /\ Len(slots) \in Nat
           /\ offer.content = slots[1].content /\ offer.content \in SUBSET Edit
           /\ Fresh \subseteq offer.content /\ offer.content \subseteq Contents(slots)
           /\ Fresh \cap Contents(slots) \subseteq offer.content
<1>1. Types /\ BlankInv /\ KeptInv
  BY DEF IInv
<1>2. /\ offer \in Offer /\ offer # Null /\ Away
      /\ slots \in Seq(Snapshot) /\ DOMAIN slots = 1..Len(slots) /\ Len(slots) \in Nat /\ Unique(slots)
  BY <1>1, TypesAre DEF Offering, Away
<1>3. writing = Null /\ doc = Blank /\ sketch = {} /\ Len(slots) >= 1 /\ offer.content = slots[1].content
  BY <1>1, <1>2 DEF BlankInv
<1>4. 1 \in 1..Len(slots)
  BY <1>2, <1>3
<1>5. Fresh \subseteq slots[1].content
  BY <1>1, <1>2 DEF KeptInv
<1>6. slots[1].content \subseteq Contents(slots)
  BY <1>2, <1>4, ContentsAre
<1>7. offer.content \in SUBSET Edit
  BY <1>2 DEF Offer
<1>. QED BY <1>2, <1>3, <1>4, <1>5, <1>6, <1>7

\* The newest snapshot holds all the fresh work there is.
LEMMA RecoverKeeps == IInv /\ Recover => IInv'
<1>. SUFFICES ASSUME IInv, Recover PROVE IInv'
  OBVIOUS
<1>1. /\ Types /\ HeldInv /\ BlankInv /\ DiskInv /\ TasksInv /\ KeptInv /\ SlotsInv /\ Offering /\ running
  BY DEF IInv, Recover, Offering, Up
<1>2. /\ offer \in Offer /\ offer # Null /\ Away /\ writing = Null /\ doc = Blank /\ sketch = {}
      /\ slots \in Seq(Snapshot) /\ DOMAIN slots = 1..Len(slots) /\ 1 \in 1..Len(slots)
      /\ offer.content = slots[1].content /\ offer.content \in SUBSET Edit
      /\ Fresh \subseteq offer.content /\ offer.content \subseteq Contents(slots)
  BY <1>1, OfferedIs
<1>3. /\ UNCHANGED <<running, web, sketch, disk, slots, writing, tasks, guard, edits, launches,
                     answered, orphans, unguarded, lapses>>
      /\ timer' = TRUE
  BY DEF Recover, bounds, ghosts
<1>4. PICK b : b = TRUE
  OBVIOUS
<1>5. doc' = [content |-> offer.content, path |-> Null, dirty |-> b]
  BY <1>4 DEF Recover
<1>6. doc' \in Document /\ doc'.content = offer.content /\ doc'.path = Null /\ doc'.dirty
  BY <1>2, <1>4, <1>5 DEF Document
<1>7. /\ offer' \in {Null} \cup Offer /\ ~Offering'
      /\ offer' # Null => /\ offer'.pc = "hand over" /\ offer'.content = offer.content
                          /\ offer'.slot # Untitled
  <2>1. CASE offer.slot = Untitled
    BY <2>1 DEF Recover, Offering
  <2>2. CASE offer.slot # Untitled
    <3>1. offer' = [offer EXCEPT !.pc = "hand over"]
      BY <2>2 DEF Recover
    <3>2. offer' = [pc |-> "hand over", slot |-> offer.slot, content |-> offer.content]
      BY <1>2, <3>1 DEF Offer
    <3>. QED BY <1>2, <2>2, <3>2 DEF Offering, Offer
  <2>. QED BY <2>1, <2>2
<1>8. Fresh' = Fresh /\ Held' = Held /\ ~Away'
  BY <1>1, <1>3, <1>7 DEF Fresh, Safe, OnDisk, Held, Away
<1>9. Contents(slots)' = Contents(slots)
  BY <1>3 DEF Contents
<1>10. Types'
  BY <1>1, <1>3, <1>6, <1>7 DEF Types, TypeOK, Document
<1>11. HeldInv'
  <2>1. offer.content \subseteq Held
    BY <1>1, <1>2 DEF HeldInv
  <2>. HIDE DEF Contents
  <2>. QED BY <1>1, <1>3, <1>6, <1>7, <1>8, <1>9, <2>1 DEF HeldInv
<1>12. BlankInv'
  BY <1>1, <1>2, <1>3, <1>7, <1>8 DEF BlankInv, Away
<1>13. DiskInv'
  BY <1>1, <1>3, <1>6, DiskStays
<1>14. TasksInv'
  <2>. HIDE DEF Contents
  <2>. QED BY <1>2, <1>3, <1>8, <1>9, TasksStay
<1>15. KeptInv'
  BY <1>2, <1>6, <1>8 DEF KeptInv
<1>16. SlotsInv'
  <2>1. Fresh \cap Contents(slots) \subseteq offer.content
    BY <1>2
  <2>2. Nested(slots, Fresh)'
    BY <1>1, <1>3, <1>8 DEF SlotsInv, Nested
  <2>. HIDE DEF Contents
  <2>. QED BY <1>2, <1>3, <1>7, <1>8, <1>9, <2>1, <2>2 DEF SlotsInv
<1>. QED BY <1>10, <1>11, <1>12, <1>13, <1>14, <1>15, <1>16 DEF IInv

\* Declined, it is given up, all of it.
LEMMA DeclineKeeps == IInv /\ Decline => IInv'
<1>. SUFFICES ASSUME IInv, Decline PROVE IInv'
  OBVIOUS
<1>1. /\ Types /\ HeldInv /\ BlankInv /\ DiskInv /\ TasksInv /\ KeptInv /\ SlotsInv /\ Offering /\ running
  BY DEF IInv, Decline, Offering, Up
<1>2. /\ offer \in Offer /\ offer # Null /\ Away /\ writing = Null /\ doc = Blank /\ sketch = {}
      /\ slots \in Seq(Snapshot) /\ Unique(slots) /\ offer.content \in SUBSET Edit
      /\ Fresh \subseteq offer.content
  BY <1>1, OfferedIs
<1>3. /\ UNCHANGED <<running, web, doc, sketch, disk, timer, writing, tasks, guard, edits, launches,
                     orphans, unguarded, lapses>>
      /\ answered' = answered \cup offer.content /\ offer' = Null
  BY DEF Decline, bounds
<1>4. slots' \in Seq(Snapshot) /\ Unique(slots') /\ Contents(slots') \subseteq Contents(slots)
  <2>1. CASE slots' = Without({offer.slot})
    BY <1>2, <2>1, WithoutIs, ThinnedIs
  <2>2. CASE slots' = slots
    BY <1>2, <2>2
  <2>. QED BY <2>1, <2>2 DEF Decline
<1>5. Fresh' = {} /\ Held' = Held /\ ~Away' /\ ~Offering' /\ Unsaved' = {}
  <2>1. Fresh' \subseteq Fresh
    BY <1>3, FreshShrinks
  <2>2. Fresh' = {}
    BY <1>2, <1>3, <2>1 DEF Fresh, Safe
  <2>. QED BY <1>1, <1>3, <2>2 DEF Held, Away, Offering, Unsaved
<1>6. Types'
  BY <1>1, <1>2, <1>3, <1>4 DEF Types, TypeOK, Unique
<1>7. HeldInv'
  <2>. HIDE DEF Contents
  <2>. QED BY <1>1, <1>2, <1>3, <1>4, <1>5 DEF HeldInv
<1>8. BlankInv'
  BY <1>3, <1>5, <1>1 DEF BlankInv, Away
<1>9. DiskInv'
  BY <1>1, <1>3, DiskStays
<1>10. TasksInv'
  <2>. HIDE DEF Contents
  <2>. QED BY <1>2, <1>3, <1>5, TasksStay
<1>11. KeptInv'
  BY <1>5 DEF KeptInv
<1>12. SlotsInv'
  BY <1>4, <1>5, SlotsEmpty
<1>. QED BY <1>6, <1>7, <1>8, <1>9, <1>10, <1>11, <1>12 DEF IInv

\* Where the snapshot that is handed over is, the fresh work is.
LEMMA HandOverIs ==
    ASSUME IInv, HandOver
    PROVE  /\ offer \in Offer /\ ~Offering /\ ~Away /\ writing = Null
           /\ slots' \in Seq(Snapshot) /\ Unique(slots') /\ Nested(slots', Fresh)
           /\ Contents(slots') \subseteq Contents(slots) \cup offer.content
           /\ Fresh \cap Contents(slots) \subseteq Contents(slots')
           /\ offer' \in {Null} \cup Offer
           /\ offer' # Null =>
                /\ offer'.pc = "clear" /\ offer'.content = offer.content /\ offer'.slot # Untitled
                /\ 1 \in 1..Len(slots') /\ slots'[1].slot = Untitled
                /\ Fresh \cap Contents(slots') \subseteq slots'[1].content
<1>1. /\ Types /\ BlankInv /\ SlotsInv /\ running /\ offer # Null /\ offer.pc # "prompt"
      /\ slots \in Seq(Snapshot) /\ Unique(slots)
  BY TypesAre DEF IInv, HandOver, Up
<1>2. /\ offer \in Offer /\ ~Offering /\ ~Away /\ writing = Null /\ offer.slot # Untitled
      /\ offer.content \in SUBSET Edit
  BY <1>1, TypesAre DEF Offering, Away, BlankInv, Offer
<1>3. CASE /\ offer.pc = "hand over"
           /\ slots' = Stored([slot |-> Untitled, content |-> offer.content])
           /\ offer' = [offer EXCEPT !.pc = "clear"]
  <2>1. PICK x : x = [slot |-> Untitled, content |-> offer.content]
    OBVIOUS
  <2>2. x \in Snapshot /\ x.slot = Untitled /\ x.content = offer.content
    BY <1>2, <2>1 DEF Snapshot, Slot
  <2>3. slots' = Stored(x)
    BY <1>3, <2>1
  <2>4. /\ slots' \in Seq(Snapshot) /\ Unique(slots') /\ Len(slots') \in Nat /\ Len(slots') >= 1
        /\ slots'[1] = x
        /\ \A e : e \in Contents(slots') => e \in x.content \/ e \in Contents(slots)
    BY <1>1, <2>2, <2>3, StoredIs
  <2>5. Fresh \cap Contents(slots) \subseteq x.content
    BY <1>1, <1>3, <2>2 DEF SlotsInv
  <2>6. /\ Nested(slots', Fresh) /\ Fresh \cap Contents(slots) \subseteq Contents(slots')
        /\ Fresh \cap Contents(slots') \subseteq x.content
    BY <1>1, <2>2, <2>3, <2>5, StoredNested DEF SlotsInv
  <2>7. offer' = [pc |-> "clear", slot |-> offer.slot, content |-> offer.content]
    BY <1>2, <1>3 DEF Offer
  <2>8. /\ offer' \in Offer /\ offer'.pc = "clear" /\ offer'.content = offer.content
        /\ offer'.slot # Untitled
    BY <1>2, <2>7 DEF Offer
  <2>9. 1 \in 1..Len(slots')
    BY <2>4
  <2>. QED BY <1>2, <2>2, <2>4, <2>6, <2>8, <2>9
<1>4. CASE /\ offer.pc = "clear"
           /\ slots' = Without({offer.slot})
           /\ offer' = Null
  <2>1. PICK c : c = {offer.slot}
    OBVIOUS
  <2>2. Thinned(slots', c)
    BY <1>1, <1>4, <2>1, WithoutIs
  <2>3. /\ slots' \in Seq(Snapshot) /\ Unique(slots') /\ Contents(slots') \subseteq Contents(slots)
        /\ \A i \in 1..Len(slots) :
              slots[i].slot \notin c => \E k \in 1..Len(slots') : slots'[k] = slots[i]
    BY <1>1, <2>2, ThinnedIs
  <2>4. Nested(slots', Fresh)
    BY <1>1, <2>2, ThinnedNested DEF SlotsInv
  <2>5. ASSUME NEW e \in Fresh \cap Contents(slots) PROVE e \in Contents(slots')
    <3>1. PICK i \in 1..Len(slots) : slots[i].slot # offer.slot /\ e \in slots[i].content
      BY <1>1, <1>4, <2>5 DEF SlotsInv
    <3>2. slots[i].slot \notin c
      BY <2>1, <3>1
    <3>3. PICK k \in 1..Len(slots') : slots'[k] = slots[i]
      BY <2>3, <3>2
    <3>4. k \in 1..Len(slots') /\ e \in slots'[k].content
      BY <3>1, <3>3
    <3>. QED BY <2>3, <3>4, ContentsAre
  <2>. QED BY <1>2, <1>4, <2>3, <2>4, <2>5
<1>5. CASE slots' = slots /\ offer' = Null
  <2>1. Nested(slots', Fresh)
    BY <1>1, <1>5 DEF SlotsInv
  <2>2. Contents(slots') = Contents(slots)
    BY <1>5
  <2>. HIDE DEF Contents
  <2>. QED BY <1>1, <1>2, <1>5, <2>1, <2>2
<1>. QED BY <1>3, <1>4, <1>5 DEF HandOver

\* The recovered snapshot is written to its new slot before the old one is cleared.
LEMMA HandOverKeeps == IInv /\ HandOver => IInv'
<1>. SUFFICES ASSUME IInv, HandOver PROVE IInv'
  OBVIOUS
<1>1. /\ Types /\ HeldInv /\ BlankInv /\ DiskInv /\ TasksInv /\ KeptInv /\ SlotsInv
      /\ offer # Null /\ running
  BY DEF IInv, HandOver, Up
<1>2. /\ offer \in Offer /\ ~Offering /\ ~Away /\ writing = Null
      /\ slots' \in Seq(Snapshot) /\ Unique(slots') /\ Nested(slots', Fresh)
      /\ Contents(slots') \subseteq Contents(slots) \cup offer.content
      /\ Fresh \cap Contents(slots) \subseteq Contents(slots')
      /\ offer' \in {Null} \cup Offer
      /\ offer' # Null =>
           /\ offer'.pc = "clear" /\ offer'.content = offer.content /\ offer'.slot # Untitled
           /\ 1 \in 1..Len(slots') /\ slots'[1].slot = Untitled
           /\ Fresh \cap Contents(slots') \subseteq slots'[1].content
  BY HandOverIs
<1>3. UNCHANGED <<running, web, doc, sketch, disk, timer, writing, tasks, guard, edits, launches,
                  answered, orphans, unguarded, lapses>>
  BY DEF HandOver, bounds, ghosts
<1>4. Fresh' = Fresh /\ Held' = Held /\ ~Away' /\ ~Offering'
  BY <1>1, <1>2, <1>3 DEF Fresh, Safe, OnDisk, Held, Away, Offering
<1>5. Unsaved' = Unsaved
  BY <1>3, <1>4 DEF Unsaved
<1>6. Types'
  BY <1>1, <1>2, <1>3 DEF Types, TypeOK, Unique
<1>7. HeldInv'
  <2>1. offer.content \subseteq Held /\ Contents(slots') \subseteq Held
    BY <1>1, <1>2 DEF HeldInv
  <2>. HIDE DEF Contents
  <2>. QED BY <1>1, <1>2, <1>3, <1>4, <2>1 DEF HeldInv
<1>8. BlankInv'
  BY <1>1, <1>2, <1>3, <1>4 DEF BlankInv, Away
<1>9. DiskInv'
  BY <1>1, <1>3, DiskStays
<1>10. TasksInv'
  <2>. HIDE DEF Contents
  <2>. QED BY <1>2, <1>3, <1>4, <1>5, TasksStay
<1>11. KeptInv'
  BY <1>1, <1>2, <1>3, <1>4, <1>5 DEF KeptInv
<1>12. SlotsInv'
  <2>1. Nested(slots, Fresh)'
    BY <1>2, <1>4 DEF Nested
  <2>. HIDE DEF Contents
  <2>. QED BY <1>2, <1>3, <1>4, <2>1 DEF SlotsInv
<1>. QED BY <1>6, <1>7, <1>8, <1>9, <1>10, <1>11, <1>12 DEF IInv

\* A launch offers the newest snapshot, or has no fresh work to offer.
LEMMA LaunchKeeps == IInv /\ Launch => IInv'
<1>. SUFFICES ASSUME IInv, Launch PROVE IInv'
  OBVIOUS
<1>1. /\ Types /\ HeldInv /\ BlankInv /\ DiskInv /\ TasksInv /\ KeptInv /\ SlotsInv
      /\ slots \in Seq(Snapshot) /\ Len(slots) \in Nat /\ DOMAIN slots = 1..Len(slots)
      /\ ~running /\ Away
  BY TypesAre DEF IInv, Launch, Away
<1>2. /\ offer = Null /\ writing = Null /\ doc = Blank /\ sketch = {}
  BY <1>1 DEF BlankInv
<1>3. /\ UNCHANGED <<web, doc, sketch, disk, slots, timer, writing, tasks, guard, edits,
                     answered, orphans, unguarded, lapses>>
      /\ running' = TRUE
  BY DEF Launch, ghosts
<1>4. /\ offer' \in {Null} \cup Offer
      /\ offer' # Null => Len(slots) >= 1 /\ offer'.pc = "prompt" /\ offer'.content = slots[1].content
      /\ offer' = Null => Len(slots) = 0
  <2>1. CASE slots = <<>>
    BY <2>1 DEF Launch
  <2>2. CASE slots # <<>>
    <3>1. Len(slots) >= 1
      BY <1>1, <2>2
    <3>2. slots[1] \in Snapshot
      BY <1>1, <3>1
    <3>3. PICK x : x = [pc |-> "prompt", slot |-> slots[1].slot, content |-> slots[1].content]
      OBVIOUS
    <3>4. x \in Offer /\ x.pc = "prompt" /\ x.content = slots[1].content
      BY <3>2, <3>3 DEF Offer, Snapshot
    <3>5. x # Null
      BY <3>4, NullIs
    <3>. QED BY <2>2, <3>1, <3>3, <3>4, <3>5 DEF Launch
  <2>. QED BY <2>1, <2>2
<1>5. Fresh' = Fresh /\ Held' = Held /\ (Away' <=> offer' # Null) /\ (Offering' <=> offer' # Null)
  BY <1>3, <1>4 DEF Fresh, Safe, OnDisk, Held, Away, Offering
<1>6. Unsaved' = Unsaved /\ Contents(slots)' = Contents(slots)
  BY <1>3, <1>5 DEF Unsaved, Contents
<1>7. Types'
  BY <1>1, <1>3, <1>4 DEF Types, TypeOK
<1>8. HeldInv'
  <2>1. offer' # Null => offer'.content \subseteq Contents(slots)
    <3>1. Len(slots) >= 1 => 1 \in 1..Len(slots)
      BY <1>1
    <3>2. Len(slots) >= 1 => slots[1].content \subseteq Contents(slots)
      BY <1>1, <3>1, ContentsAre
    <3>. QED BY <1>4, <3>2
  <2>. HIDE DEF Contents
  <2>. QED BY <1>1, <1>3, <1>5, <1>6, <2>1 DEF HeldInv
<1>9. BlankInv'
  BY <1>2, <1>3, <1>4, <1>5 DEF BlankInv
<1>10. DiskInv'
  BY <1>1, <1>3, DiskStays
<1>11. TasksInv'
  <2>1. tasks \in [Task -> Step]
    BY <1>1, TypesAre
  <2>2. tasks["quit"].pc = "go" => Fresh' \subseteq orphans' /\ Fresh' \subseteq Contents(slots')
    BY <1>1, <1>3, <1>5, <1>6 DEF TasksInv, TaskOk, Task
  <2>3. tasks["quit"].pc # "idle" => sketch' \subseteq unguarded'
    BY <1>2, <1>3
  <2>. HIDE DEF Contents
  <2>4. \A u \in Task : tasks'[u] = tasks[u] => TaskOk(u, tasks[u])'
    BY <1>1, <1>3, <1>5, <2>1, <2>2, <2>3, OthersStay
  <2>. QED BY <1>3, <2>4 DEF TasksInv
<1>12. KeptInv'
  <2>1. offer' = Null => Fresh' = {}
    BY <1>1, <1>4, <1>5 DEF KeptInv
  <2>. QED BY <1>1, <1>3, <1>5, <1>6, <2>1 DEF KeptInv
<1>13. SlotsInv'
  <2>1. Nested(slots, Fresh)'
    BY <1>1, <1>3, <1>5 DEF SlotsInv, Nested
  <2>. HIDE DEF Contents
  <2>. QED BY <1>2, <1>3, <1>4, <2>1 DEF SlotsInv
<1>. QED BY <1>7, <1>8, <1>9, <1>10, <1>11, <1>12, <1>13 DEF IInv

------------------------------------------------------------------------
\* The end of the application.

\* What is fresh when it ends, the newest snapshot holds.
LEMMA EndsKeeps ==
    ASSUME IInv, Ends, answered \subseteq answered', answered' \subseteq Edit, orphans' \subseteq Edit,
           Fresh' \subseteq orphans', Fresh' \subseteq Contents(slots)
    PROVE  IInv'
<1>1. /\ Types /\ HeldInv /\ BlankInv /\ DiskInv /\ TasksInv /\ KeptInv /\ SlotsInv
      /\ slots \in Seq(Snapshot) /\ Len(slots) \in Nat /\ DOMAIN slots = 1..Len(slots)
  BY TypesAre DEF IInv
<1>2. /\ running' = FALSE /\ web' = "up" /\ doc' = Blank /\ sketch' = {} /\ timer' = FALSE
      /\ tasks' = AllIdle /\ offer' = Null /\ writing' = Null /\ lapses' = {}
      /\ UNCHANGED <<disk, slots, edits, unguarded>>
  BY DEF Ends, bounds
<1>3. Fresh' \subseteq Fresh
  BY <1>2, FreshShrinks
<1>4. Held \subseteq Held' /\ Away' /\ ~Offering' /\ Unsaved' = {}
  BY <1>1, <1>2, IdleIs DEF Held, Away, Offering, Unsaved
<1>5. Contents(slots)' = Contents(slots)
  BY <1>2 DEF Contents
<1>6. Types'
  BY <1>1, <1>2, IdleIs DEF Types, TypeOK, Document
<1>7. HeldInv'
  <2>1. \A p \in Path : disk[p] # Null => disk[p] \subseteq Held'
    BY <1>1, <1>4 DEF HeldInv
  <2>2. Contents(slots) \subseteq Held'
    BY <1>1, <1>4 DEF HeldInv
  <2>. HIDE DEF Contents
  <2>. QED BY <1>2, <1>5, <2>1, <2>2, IdleIs DEF HeldInv
<1>8. BlankInv'
  BY <1>2, <1>4 DEF BlankInv
<1>9. DiskInv'
  <2>1. \A u \in Task : tasks'[u].pc = "writing" => tasks'[u] = tasks[u]
    BY <1>2, IdleIs
  <2>. QED BY <1>1, <1>2, <2>1, IdleIs, DiskStays
<1>10. TasksInv'
  <2>1. PICK i \in Step : i = Idle
    BY IdleIs
  <2>2. \A u \in Task : TaskOk(u, i)'
    BY <2>1, IdleIs DEF TaskOk
  <2>3. \A u \in Task : tasks'[u] = i
    BY <1>2, <2>1, IdleIs
  <2>4. \A u \in Task : TaskOk(u, tasks[u])'
    BY <2>2, <2>3, TaskIs
  <2>. QED BY <2>4 DEF TasksInv
<1>11. KeptInv'
  <2>1. ASSUME NEW e \in Fresh' PROVE Len(slots) >= 1 /\ e \in slots[1].content
    <3>1. PICK j \in 1..Len(slots) : e \in slots[j].content
      BY <1>1, <2>1, ContentsAre
    <3>2. Len(slots) >= 1 /\ 1 \in 1..Len(slots) /\ (j = 1 \/ 1 < j)
      BY <1>1
    <3>3. 1 < j => Fresh \cap slots[j].content \subseteq slots[1].content
      BY <1>1, <3>2 DEF SlotsInv, Nested
    <3>. QED BY <1>3, <3>1, <3>2, <3>3
  <2>. QED BY <1>2, <1>4, <2>1 DEF KeptInv
<1>12. SlotsInv'
  BY <1>1, <1>2, <1>3, SlotsStay
<1>. QED BY <1>6, <1>7, <1>8, <1>9, <1>10, <1>11, <1>12 DEF IInv

\* A close that was answered leaves nothing fresh but what a snapshot holds from a crash
\* before.
LEMMA QuitKeeps == IInv /\ Quit => IInv'
<1>. SUFFICES ASSUME IInv, Quit PROVE IInv'
  OBVIOUS
<1>1. Fresh \subseteq orphans /\ Fresh \subseteq Contents(slots)
  BY DEF IInv, TasksInv, TaskOk, Task, Quit
<1>2. Ends /\ answered' = answered /\ orphans' = orphans
  BY DEF Quit
<1>3. Fresh' \subseteq Fresh
  BY <1>2, FreshShrinks DEF Ends, bounds
<1>4. answered \subseteq Edit /\ orphans \subseteq Edit
  BY DEF IInv, Types
<1>5. Fresh' \subseteq orphans' /\ Fresh' \subseteq Contents(slots)
  BY <1>1, <1>2, <1>3
<1>. HIDE DEF Contents
<1>. QED BY <1>2, <1>4, <1>5, EndsKeeps

\* A crash, or the watchdog: what no snapshot holds is taken.
LEMMA CrashKeeps ==
    ASSUME IInv, Ends, LeavesSnapshots
    PROVE  IInv'
<1>1. /\ Types /\ HeldInv /\ KeptInv /\ doc.content \subseteq Edit
      /\ slots \in Seq(Snapshot) /\ Len(slots) \in Nat
  BY TypesAre DEF IInv
<1>2. /\ orphans' = orphans \cup (Work \cap Contents(slots))
      /\ answered' = answered \cup (Work \ Contents(slots))
      /\ UNCHANGED <<disk, edits, unguarded>>
  BY DEF LeavesSnapshots, Ends, bounds
<1>3. Work \subseteq Edit
  BY <1>1 DEF Work, Types, TypeOK
<1>4. answered \subseteq answered' /\ answered' \subseteq Edit /\ orphans' \subseteq Edit
  BY <1>1, <1>2, <1>3 DEF Types
<1>5. Fresh' \subseteq Fresh
  BY <1>2, <1>4, FreshShrinks
<1>6. ASSUME NEW e \in Fresh' PROVE e \in orphans' /\ e \in Contents(slots)
  <2>1. CASE Away
    <3>1. e \in orphans /\ Len(slots) >= 1 /\ e \in slots[1].content
      BY <1>1, <1>5, <1>6, <2>1 DEF KeptInv
    <3>2. 1 \in 1..Len(slots)
      BY <1>1, <3>1
    <3>3. e \in Contents(slots)
      BY <1>1, <3>1, <3>2, ContentsAre
    <3>. QED BY <1>2, <3>1, <3>3
  <2>2. CASE ~Away
    <3>1. e \in Work
      BY <1>1, <1>5, <1>6, <2>2 DEF KeptInv, Work, Fresh, Safe
    <3>2. e \notin answered'
      BY <1>6 DEF Fresh, Safe
    <3>. QED BY <1>2, <3>1, <3>2
  <2>. QED BY <2>1, <2>2
<1>7. Fresh' \subseteq orphans' /\ Fresh' \subseteq Contents(slots)
  BY <1>6
<1>. HIDE DEF Contents
<1>. QED BY <1>4, <1>7, EndsKeeps

------------------------------------------------------------------------
\* The invariant, and what follows from it.

\* The first launch starts with nothing.
LEMMA IInvStarts == Init => IInv
<1>. SUFFICES ASSUME Init PROVE IInv
  OBVIOUS
<1>1. slots \in Seq(Snapshot) /\ Len(slots) = 0 /\ DOMAIN slots = {}
  BY DEF Init
<1>2. Contents(slots) = {}
  BY <1>1 DEF Contents, Range
<1>3. OnDisk = {}
  BY DEF Init, OnDisk
<1>4. Fresh = {} /\ Held = {} /\ ~Offering /\ Away /\ Unsaved = {}
  BY DEF Init, Fresh, Held, Offering, Away, Unsaved
<1>5. Types
  BY <1>1, IdleIs DEF Init, Types, TypeOK, Document
<1>6. HeldInv
  <2>. HIDE DEF Contents
  <2>. QED BY <1>2, <1>4, IdleIs DEF Init, HeldInv
<1>7. BlankInv
  BY <1>4 DEF Init, BlankInv
<1>8. DiskInv
  BY <1>3, IdleIs DEF Init, DiskInv
<1>9. TasksInv
  BY <1>4, IdleIs DEF Init, TasksInv, TaskOk
<1>10. KeptInv
  BY <1>4 DEF KeptInv
<1>11. SlotsInv
  BY <1>1, <1>4 DEF Init, SlotsInv, Nested
<1>. QED BY <1>5, <1>6, <1>7, <1>8, <1>9, <1>10, <1>11 DEF IInv

\* Every action, one by one.
LEMMA IInvStays == IInv /\ [Next]_vars => IInv'
<1>. SUFFICES ASSUME IInv, [Next]_vars PROVE IInv'
  OBVIOUS
<1>1. DOMAIN tasks = Task
  BY TypesAre DEF IInv
<1>2. CASE Next
  <2>1. CASE Change \/ Draw
    BY <2>1, ChangeKeeps, DrawKeeps
  <2>2. CASE Save \/ File \/ Unreadable
    BY <2>2, SaveKeeps, FileKeeps, UnreadableKeeps
  <2>3. CASE Continue \/ Load
    BY <2>3, ContinueKeeps, LoadKeeps
  <2>4. ASSUME NEW t \in Task, NEW path \in Path \cup {Null}, ChoosePath(t, path) PROVE IInv'
    BY <2>4, ChoosePathKeeps
  <2>5. ASSUME NEW t \in Task, NEW pick \in {"save", "discard", "cancel"}, Answer(t, pick) PROVE IInv'
    BY <2>5, AnswerKeeps
  <2>6. ASSUME NEW t \in Task, Written(t) \/ SaveFails(t) \/ Clear(t) PROVE IInv'
    BY <2>6, WrittenKeeps, SaveFailsKeeps, ClearKeeps
  <2>7. CASE AutosaveDue \/ AutosaveEnds
    BY <2>7, AutosaveDueKeeps, AutosaveEndsKeeps
  <2>8. CASE Recover \/ HandOver \/ Decline \/ Launch
    BY <2>8, RecoverKeeps, HandOverKeeps, DeclineKeeps, LaunchKeeps
  <2>9. CASE CloseRequested \/ Acknowledged \/ GoesDeaf \/ Resumes
    BY <2>9, ShellKeeps
  <2>10. CASE CloseHandler \/ Quit
    BY <2>10, CloseHandlerKeeps, QuitKeeps
  <2>11. CASE Crash \/ \E n \in 1..MaxRequests : Watchdog(n)
    BY <2>11, CrashKeeps DEF Crash, Watchdog
  <2>. QED BY <1>1, <1>2, <2>1, <2>2, <2>3, <2>4, <2>5, <2>6, <2>7, <2>8, <2>9, <2>10, <2>11 DEF Next
<1>3. CASE UNCHANGED vars
  <2>1. web \in {"up", "deaf"}
    BY DEF IInv, Types, TypeOK
  <2>. QED BY <1>3, <2>1, GuardSteps DEF vars, page, bounds, ghosts
<1>. QED BY <1>2, <1>3

\* Session's state keeps its types, for any paths, edits and numbers of tasks and requests;
\* the slots are one per document, as recovery_write names them (recovery.rs).
THEOREM Typed == Spec => []TypeOK
<1>1. IInv => TypeOK
  BY DEF IInv, Types
<1>. QED BY IInvStarts, IInvStays, <1>1, PTL DEF Spec

\* No edit leaves the program unless the user gave it up, a crash took it before a snapshot did,
\* or no question stood before it (files.ts, autosave.ts, recovery.rs).
THEOREM WorkIsKept == Spec => []EditsAreKept
<1>1. IInv => EditsAreKept
  <2>. SUFFICES ASSUME IInv, NEW e \in edits, e \notin unguarded PROVE Kept(e)
    BY DEF EditsAreKept
  <2>1. CASE e \in Fresh /\ ~Away
    BY <2>1 DEF IInv, KeptInv, Kept
  <2>2. CASE e \in Fresh /\ Away
    <3>1. slots \in Seq(Snapshot) /\ Len(slots) \in Nat
      BY TypesAre DEF IInv
    <3>2. e \in orphans /\ Len(slots) >= 1 /\ e \in slots[1].content
      BY <2>2 DEF IInv, KeptInv
    <3>3. 1 \in 1..Len(slots)
      BY <3>1, <3>2
    <3>4. e \in Contents(slots)
      BY <3>1, <3>2, <3>3, ContentsAre
    <3>. QED BY <3>2, <3>4 DEF Kept
  <2>3. CASE e \notin Fresh
    BY <2>3 DEF Fresh, Safe, Kept
  <2>. QED BY <2>1, <2>2, <2>3
<1>. QED BY IInvStarts, IInvStays, <1>1, PTL DEF Spec

\* A clean title bar means that the file holds the document, up to what was changed while a
\* file operation was under way (files.ts).
THEOREM CleanHolds == Spec => []CleanIsSaved
<1>1. IInv => CleanIsSaved
  <2>. SUFFICES ASSUME IInv, ~doc.dirty PROVE doc.content \subseteq OnDisk \cup unguarded \cup answered
    BY DEF CleanIsSaved
  <2>1. Unsaved = {} /\ doc.content \subseteq edits
    BY DEF IInv, KeptInv, HeldInv, Held
  <2>. QED BY <2>1 DEF Unsaved, Fresh, Safe
<1>. QED BY IInvStarts, IInvStays, <1>1, PTL DEF Spec

------------------------------------------------------------------------
\* The autosave owes a snapshot of what is unsaved.

\* The steps after which the same is owed, or less.
LEMMA OwedStays ==
    ASSUME OwedInv, doc' = doc \/ ~doc'.dirty, timer => timer' \/ ~doc'.dirty, lapses # {} => lapses' # {} \/ ~doc'.dirty,
           UNCHANGED <<writing, offer, slots>>
    PROVE  OwedInv'
BY DEF OwedInv

\* Every action that makes the document dirty, or takes a snapshot or a timer away.
LEMMA OwedNext == IInv /\ OwedInv /\ Next => OwedInv'
<1>. SUFFICES ASSUME IInv, OwedInv, Next PROVE OwedInv'
  OBVIOUS
<1>1. /\ Types /\ BlankInv /\ doc \in Document /\ slots \in Seq(Snapshot) /\ Unique(slots)
      /\ doc.dirty \in BOOLEAN /\ DOMAIN tasks = Task /\ ~Blank.dirty
  BY TypesAre, IdleIs DEF IInv
<1>2. CASE Change
  BY <1>2 DEF Change, Commit, OwedInv
<1>3. CASE Draw \/ Save \/ File \/ Unreadable \/ CloseRequested \/ Acknowledged \/ GoesDeaf \/ Resumes
  BY <1>3, OwedStays DEF Draw, Save, File, Unreadable, CloseRequested, Acknowledged, GoesDeaf, Resumes,
                         page, ghosts
<1>4. CASE Continue
  <2>1. doc' = Blank \/ doc' = doc
    BY <1>4 DEF Continue
  <2>2. /\ timer' = (timer /\ doc'.dirty) /\ lapses' = IF doc'.dirty THEN lapses ELSE {}
        /\ UNCHANGED <<writing, offer, slots>>
    BY <1>4 DEF Continue
  <2>. QED BY <1>1, <2>1, <2>2, OwedStays
<1>5. CASE Load
  BY <1>5 DEF Load, OwedInv
<1>6. ASSUME NEW t \in Task, NEW path \in Path \cup {Null}, ChoosePath(t, path) PROVE OwedInv'
  BY <1>6, OwedStays DEF ChoosePath, ghosts
<1>7. ASSUME NEW t \in Task, NEW pick \in {"save", "discard", "cancel"}, Answer(t, pick) PROVE OwedInv'
  BY <1>7, OwedStays DEF Answer
<1>8. ASSUME NEW t \in Task, SaveFails(t) PROVE OwedInv'
  BY <1>8, OwedStays DEF SaveFails, ghosts
<1>9. ASSUME NEW t \in Task, Written(t) PROVE OwedInv'
  <2>1. ~doc'.dirty
    BY <1>9, WrittenIs
  <2>. QED BY <2>1 DEF OwedInv
<1>10. ASSUME NEW t \in Task, Clear(t) PROVE OwedInv'
  <2>1. /\ doc' = Blank \/ doc' = doc
        /\ timer' = (timer /\ doc'.dirty)
        /\ UNCHANGED <<writing, offer>>
    BY <1>10 DEF Clear
  <2>2. CASE ~doc'.dirty
    BY <2>2 DEF OwedInv
  <2>3. CASE doc' = doc /\ doc.dirty
    <3>1. /\ Covered /\ ~Covered' => lapses' = lapses \cup {"swept"}
          /\ ~(Covered /\ ~Covered') => lapses' = lapses
      BY <1>10, <2>3 DEF Clear
    <3>2. /\ Covered = \E i \in 1..Len(slots) : doc.content \subseteq slots[i].content
          /\ Covered' = \E i \in 1..Len(slots') : doc.content \subseteq slots'[i].content
      <4>1. PICK cleared : slots' = Without(cleared)
        BY <1>10 DEF Clear
      <4>2. slots' \in Seq(Snapshot)
        BY <1>1, <4>1, WithoutIs, ThinnedIs
      <4>. QED BY <1>1, <2>3, <4>2 DEF Covered
    <3>. HIDE DEF Covered
    <3>3. CASE Covered /\ ~Covered'
      BY <3>1, <3>3 DEF OwedInv
    <3>4. CASE ~(Covered /\ ~Covered')
      BY <2>1, <2>3, <3>1, <3>2, <3>4 DEF OwedInv
    <3>. QED BY <3>3, <3>4
  <2>. QED BY <1>1, <2>1, <2>2, <2>3
<1>11. CASE AutosaveDue
  <2>1. CASE writing = Null
    <3>1. doc' = doc /\ writing' = [slot |-> SlotFor(doc.path), content |-> doc.content]
      BY <1>11, <2>1 DEF AutosaveDue
    <3>2. SlotFor(doc.path) \in Slot /\ doc.content \in SUBSET Edit
      BY <1>1 DEF SlotFor, Slot, Document
    <3>3. writing' \in Snapshot /\ writing'.content = doc.content
      BY <3>1, <3>2 DEF Snapshot
    <3>4. writing' # Null
      BY <3>3, NullIs
    <3>. QED BY <3>1, <3>3, <3>4 DEF OwedInv
  <2>2. CASE writing # Null
    BY <1>11, <2>2 DEF AutosaveDue, OwedInv, Carried
  <2>. QED BY <2>1, <2>2
<1>12. CASE AutosaveEnds
  <2>1. writing # Null /\ offer = Null /\ running
    BY <1>1, <1>12 DEF AutosaveEnds, BlankInv
  <2>2. UNCHANGED <<doc, timer, offer>> /\ writing' = Null
    BY <1>12 DEF AutosaveEnds, page
  <2>3. CASE slots' = Stored(writing) /\ UNCHANGED lapses
    <3>1. PICK x \in Snapshot : x = writing
      BY <1>1, <2>1, TypesAre
    <3>2. Len(slots') \in Nat /\ Len(slots') >= 1 /\ slots'[1] = x
      BY <1>1, <2>3, <3>1, StoredIs
    <3>3. 1 \in 1..Len(slots')
      BY <3>2
    <3>4. doc.dirty => timer \/ lapses # {} \/ doc.content \subseteq x.content
      BY <2>1, <3>1 DEF OwedInv
    <3>. QED BY <2>1, <2>2, <2>3, <3>2, <3>3, <3>4 DEF OwedInv
  <2>4. CASE /\ UNCHANGED slots
             /\ lapses' = IF doc.dirty /\ Carried THEN lapses \cup {"failed"} ELSE lapses
    BY <2>1, <2>2, <2>4 DEF OwedInv, Carried
  <2>. QED BY <1>12, <2>3, <2>4 DEF AutosaveEnds
<1>13. CASE Recover
  BY <1>13 DEF Recover, OwedInv
<1>14. CASE HandOver
  <2>1. UNCHANGED <<doc, timer, lapses>> /\ offer # Null /\ writing = Null
    BY <1>1, <1>14 DEF HandOver, BlankInv, ghosts
  <2>. QED BY <2>1 DEF OwedInv
<1>15. CASE Decline
  <2>1. ~doc.dirty /\ doc' = doc
    BY <1>1, <1>15 DEF Decline, BlankInv, Away, Offering
  <2>. QED BY <2>1 DEF OwedInv
<1>16. CASE CloseHandler
  <2>1. CASE tasks["quit"] # Idle
    BY <1>16, <2>1, OwedStays DEF CloseHandler
  <2>2. CASE tasks["quit"] = Idle
    <3>1. Commit(sketch) /\ UNCHANGED <<slots, writing, offer>> /\ sketch \in SUBSET Edit
      BY <1>1, <1>16, <2>2 DEF CloseHandler, Types, TypeOK
    <3>2. timer' = (timer \/ sketch # {}) /\ lapses' = IF sketch = {} THEN lapses ELSE {}
      BY <3>1 DEF Commit
    <3>3. doc'.content = doc.content \cup sketch /\ doc'.dirty = (doc.dirty \/ sketch # {})
      BY <1>1, <3>1, CommitIs
    <3>. QED BY <1>1, <3>1, <3>2, <3>3 DEF OwedInv
  <2>. QED BY <2>1, <2>2
<1>17. CASE Quit \/ Crash \/ \E n \in 1..MaxRequests : Watchdog(n)
  <2>1. doc' = Blank
    BY <1>17 DEF Quit, Crash, Watchdog, Ends
  <2>. QED BY <1>1, <2>1 DEF OwedInv
<1>18. CASE Launch
  <2>1. ~doc.dirty /\ doc' = doc
    BY <1>1, <1>18 DEF Launch, BlankInv, Away
  <2>. QED BY <2>1 DEF OwedInv
<1>. QED BY <1>1, <1>2, <1>3, <1>4, <1>5, <1>6, <1>7, <1>8, <1>9, <1>10, <1>11, <1>12, <1>13,
            <1>14, <1>15, <1>16, <1>17, <1>18 DEF Next

\* Unsaved changes are in a snapshot, on their way into one, or due to be, or since the
\* last edit one of the three named lapses took the snapshot away: an autosave that was
\* skipped, one that failed, one that was swept away with its slot (recovery.ts).
THEOREM OwedHolds == Spec => []SnapshotIsOwed
<1>1. Init => OwedInv
  BY IdleIs DEF Init, OwedInv
<1>2. IInv /\ OwedInv /\ [Next]_vars => OwedInv'
  <2>1. UNCHANGED vars => (OwedInv => OwedInv')
    BY OwedStays DEF vars, page, ghosts
  <2>. QED BY <2>1, OwedNext
<1>3. IInv /\ OwedInv => SnapshotIsOwed
  <2>1. IInv => DOMAIN slots = 1..Len(slots)
    BY TypesAre DEF IInv
  <2>. QED BY <2>1 DEF OwedInv, SnapshotIsOwed, Owed, Covered, Carried
<1>. QED BY IInvStarts, IInvStays, <1>1, <1>2, <1>3, PTL DEF Spec

------------------------------------------------------------------------
\* The close guard: whatever is not acknowledged yet is still on its way to or from the
\* page.

GuardType == guard \in [requests : Nat, acks : Nat, events : Nat, acking : Nat]

\* A request without an acknowledgement has its event or its answer under way.
Unanswered == guard.acks < guard.requests => guard.events + guard.acking > 0

GuardInv ==
    /\ GuardType
    /\ guard.acks <= guard.requests
    /\ Unanswered

USE DEF GuardInv, GuardType, Unanswered

\* No request before the first launch.
LEMMA GuardInit == Init => GuardInv
BY DEF Init, NoRequest

\* The steps of the close's own protocol change two fields each, one after the
\* other: half is the guard between the two.
LEMMA RequestKeeps == GuardInv /\ CloseRequested => GuardInv'
<1> SUFFICES ASSUME GuardInv, CloseRequested PROVE GuardInv'
    OBVIOUS
<1> DEFINE half == [guard EXCEPT !.requests = guard.requests + 1]
<1>1. guard' = [half EXCEPT !.events = guard.events + 1]
    BY Zenon DEF CloseRequested
<1>3. /\ half \in [requests : Nat, acks : Nat, events : Nat, acking : Nat]
      /\ half.requests = guard.requests + 1
      /\ half.acks = guard.acks
      /\ half.events = guard.events
      /\ half.acking = guard.acking
    OBVIOUS
<1> HIDE DEF half
<1>4. /\ guard' \in [requests : Nat, acks : Nat, events : Nat, acking : Nat]
      /\ guard'.events = guard.events + 1
      /\ guard'.requests = half.requests
      /\ guard'.acks = half.acks
      /\ guard'.acking = half.acking
    BY <1>1, <1>3
<1> QED
    BY <1>3, <1>4

\* The page takes the event up and its answer is on the way.
LEMMA HandlerKeeps == GuardInv /\ CloseHandler => GuardInv'
<1> SUFFICES ASSUME GuardInv, CloseHandler PROVE GuardInv'
    OBVIOUS
<1> DEFINE half == [guard EXCEPT !.events = guard.events - 1]
<1>1. guard' = [half EXCEPT !.acking = guard.acking + 1]
    BY Zenon DEF CloseHandler
<1>2. guard.events > 0
    BY DEF CloseHandler
<1>3. /\ half \in [requests : Nat, acks : Nat, events : Nat, acking : Nat]
      /\ half.events = guard.events - 1
      /\ half.requests = guard.requests
      /\ half.acks = guard.acks
      /\ half.acking = guard.acking
    BY <1>2
<1> HIDE DEF half
<1>4. /\ guard' \in [requests : Nat, acks : Nat, events : Nat, acking : Nat]
      /\ guard'.acking = guard.acking + 1
      /\ guard'.requests = half.requests
      /\ guard'.acks = half.acks
      /\ guard'.events = half.events
    BY <1>1, <1>3
<1> QED
    BY <1>3, <1>4, <1>2

\* The answer arrives: it is one for every request so far.
LEMMA AckKeeps == GuardInv /\ Acknowledged => GuardInv'
<1> SUFFICES ASSUME GuardInv, Acknowledged PROVE GuardInv'
    OBVIOUS
<1> DEFINE half == [guard EXCEPT !.acking = guard.acking - 1]
<1>1. guard' = [half EXCEPT !.acks = guard.requests]
    BY Zenon DEF Acknowledged
<1>2. guard.acking > 0
    BY DEF Acknowledged
<1>3. /\ half \in [requests : Nat, acks : Nat, events : Nat, acking : Nat]
      /\ half.acking = guard.acking - 1
      /\ half.requests = guard.requests
      /\ half.acks = guard.acks
      /\ half.events = guard.events
    BY <1>2
<1> HIDE DEF half
<1>4. /\ guard' \in [requests : Nat, acks : Nat, events : Nat, acking : Nat]
      /\ guard'.acks = guard.requests
      /\ guard'.requests = half.requests
      /\ guard'.events = half.events
      /\ guard'.acking = half.acking
    BY <1>1, <1>3
<1> QED
    BY <1>3, <1>4, <1>2

\* The end of a session takes its requests with it.
LEMMA EndKeeps == Ends => GuardInv'
BY DEF Ends, NoRequest

\* Everything else leaves the guard alone.
LEMMA StillKeeps == GuardInv /\ UNCHANGED guard => GuardInv'
OBVIOUS

\* Every action, one by one.
LEMMA GuardStep == GuardInv /\ [Next]_vars => GuardInv'
<1> SUFFICES ASSUME GuardInv, [Next]_vars PROVE GuardInv'
    OBVIOUS
<1>1. ASSUME Change \/ Draw \/ Save \/ File \/ Continue \/ Load \/ Unreadable
      PROVE  GuardInv'
    <2> UNCHANGED guard
        BY <1>1 DEF Change, Draw, Save, File, Continue, Load, Unreadable
    <2> QED
        BY StillKeeps
<1>2. ASSUME NEW t \in DOMAIN tasks,
             \/ \E path \in Path \cup {Null} : ChoosePath(t, path)
             \/ \E pick \in {"save", "discard", "cancel"} : Answer(t, pick)
             \/ Written(t) \/ SaveFails(t) \/ Clear(t)
      PROVE  GuardInv'
    <2> UNCHANGED guard
        BY <1>2 DEF ChoosePath, Answer, Written, SaveFails, Clear, bounds, ghosts
    <2> QED
        BY StillKeeps
<1>3. ASSUME \/ AutosaveDue \/ AutosaveEnds \/ Recover \/ HandOver \/ Decline
             \/ GoesDeaf \/ Resumes \/ Launch
      PROVE  GuardInv'
    <2> UNCHANGED guard
        BY <1>3 DEF AutosaveDue, AutosaveEnds, Recover, HandOver, Decline,
                    GoesDeaf, Resumes, Launch
    <2> QED
        BY StillKeeps
<1>4. ASSUME CloseRequested \/ CloseHandler \/ Acknowledged PROVE GuardInv'
    BY <1>4, RequestKeeps, HandlerKeeps, AckKeeps
<1>5. ASSUME Quit \/ Crash \/ (\E n \in 1..MaxRequests : Watchdog(n)) PROVE GuardInv'
    <2> Ends
        BY <1>5 DEF Quit, Crash, Watchdog
    <2> QED
        BY EndKeeps
<1>6. CASE UNCHANGED vars
    BY <1>6, StillKeeps DEF vars
<1> QED
    BY <1>1, <1>2, <1>3, <1>4, <1>5, <1>6 DEF Next

\* The bookkeeping of close_guard.rs is sound: an unacknowledged request is one
\* that the page still has to hear of, or one whose answer has not arrived.
THEOREM GuardHolds == Spec => []GuardInv
<1> USE GuardInit, GuardStep
<1> QED
    BY PTL DEF Spec

\* close_guard.rs forces the window closed only over a page that does not answer:
\* a page that is up has acknowledged every request by the time a watchdog fires.
THEOREM UpIsNeverForced == Spec => ForcedOnlyIfDeaf
<1>1. ASSUME GuardInv, NEW n \in 1..MaxRequests, Watchdog(n) PROVE web # "up"
    <2> SUFFICES ASSUME web = "up" PROVE FALSE
        OBVIOUS
    <2>1. guard.events = 0 /\ guard.acking = 0
        BY <1>1 DEF Watchdog
    <2>2. ~(guard.acks < guard.requests)
        BY <1>1, <2>1
    <2>3. n \in Int /\ n <= guard.requests /\ guard.acks < n
        BY <1>1 DEF Watchdog, ForcesClose
    <2> QED
        BY <1>1, <2>2, <2>3
<1>2. GuardInv /\ [Next]_vars =>
          [\A n \in 1..MaxRequests : Watchdog(n) => web # "up"]_vars
    BY <1>1
<1> QED
    BY <1>2, GuardHolds, PTL DEF Spec, ForcedOnlyIfDeaf
============================================================================
