-------------------------- MODULE CheckpointsProofs --------------------------
(***************************************************************************)
(* For every set of documents, window and number of rows:                  *)
(*                                                                         *)
(*   - no interruption leaves a checkpoint that names a blob which is not  *)
(*     there (IInv);                                                       *)
(*   - whatever a build resumes from, it stamps its bodies with keys that  *)
(*     name their shapes, returns what a build from nothing returns,       *)
(*     reports the stale curves and runs no feature a checkpoint covers    *)
(*     (Sound).                                                            *)
(***************************************************************************)
EXTENDS Checkpoints, FiniteSetTheorems, SequenceTheorems, WellFoundedInduction, TLAPS

(* What is not good was damaged; what is being unlinked no row names; what *)
(* has been put is there.                                                  *)
OnlyDamageSpoils == \A k \in DOMAIN blobs : blobs[k].state # "good" => k \in damaged

UnlinkedIsUnnamed ==
    pc = "unlink" => \A c \in DOMAIN rows : Refs(rows[c]) \cap todo = {}

PutIsThere ==
    pc = "put" => \A b \in DOMAIN bodies \ todo :
                     mod[b].key \in DOMAIN blobs \cup damaged

GoesOn == /\ pc = "put" => after \in {"run", "idle"}
          /\ pc = "unlink" => after \in {"evict", "find"}

IInv == /\ GoesOn
        /\ OnlyDamageSpoils
        /\ NoRowPointsAtAHole
        /\ UnlinkedIsUnnamed
        /\ PutIsThere

(* First picks an element.                                                 *)
LEMMA FirstIsIn == ASSUME NEW S, S # {} PROVE First(S) \in S
BY DEF First

(* An empty store names nothing.                                           *)
LEMMA InitEstablishes == Init => IInv
BY DEF Init, IInv, GoesOn, OnlyDamageSpoils, NoRowPointsAtAHole, UnlinkedIsUnnamed,
       PutIsThere, Empty

(* Steps that leave the disk, and the work in progress, alone.             *)
LEMMA QuietSteps ==
    ASSUME IInv, UNCHANGED disk, pc' \notin {"unlink", "put"}
    PROVE  IInv'
BY DEF IInv, GoesOn, OnlyDamageSpoils, NoRowPointsAtAHole, UnlinkedIsUnnamed,
       PutIsThere, disk, Refs

(* Eviction, Compute All and dropped rows: the row goes before its blobs.  *)
LEMMA IndexSteps ==
    ASSUME IInv, EvictRow \/ ComputeAll \/ DropHollow \/ EvictOrphan \/ Unlink
    PROVE  IInv'
<1>1. CASE EvictRow
  <2>1. PICK k \in DOMAIN rows : /\ rows' = Without(rows, {k})
                                 /\ todo' = Refs(rows[k]) \ RefsOf(DOMAIN rows \ {k})
    BY <1>1 DEF EvictRow
  <2>2. /\ DOMAIN rows' = DOMAIN rows \ {k}
        /\ \A c \in DOMAIN rows' : rows'[c] = rows[c]
    BY <2>1 DEF Without
  <2>3. \A c \in DOMAIN rows' : Refs(rows[c]) \cap todo' = {}
    BY <2>1, <2>2 DEF RefsOf
  <2>4. /\ blobs' = blobs /\ damaged' = damaged
        /\ pc' = "unlink" /\ after' = "evict"
    BY <1>1 DEF EvictRow
  <2>. QED BY <2>2, <2>3, <2>4 DEF IInv, GoesOn, OnlyDamageSpoils, NoRowPointsAtAHole,
              UnlinkedIsUnnamed, PutIsThere, Refs
<1>2. CASE ComputeAll
  <2>1. PICK d \in Document : /\ rows' = Without(rows, Doomed(d))
                              /\ todo' = DoomedBlobs(d)
    BY <1>2 DEF ComputeAll
  <2>2. /\ DOMAIN rows' = DOMAIN rows \ Doomed(d)
        /\ \A c \in DOMAIN rows' : rows'[c] = rows[c]
    BY <2>1 DEF Without
  <2>3. \A c \in DOMAIN rows' : Refs(rows[c]) \cap todo' = {}
    BY <2>1, <2>2 DEF RefsOf, DoomedBlobs
  <2>4. /\ blobs' = blobs /\ damaged' = damaged
        /\ pc' = "unlink" /\ after' = "find"
    BY <1>2 DEF ComputeAll
  <2>. QED BY <2>2, <2>3, <2>4 DEF IInv, GoesOn, OnlyDamageSpoils, NoRowPointsAtAHole,
              UnlinkedIsUnnamed, PutIsThere, Refs
<1>3. CASE DropHollow
  <2>1. PICK key : rows' = Without(rows, {key})
    BY <1>3 DEF DropHollow
  <2>2. /\ DOMAIN rows' \subseteq DOMAIN rows
        /\ \A c \in DOMAIN rows' : rows'[c] = rows[c]
    BY <2>1 DEF Without
  <2>3. blobs' = blobs /\ damaged' = damaged /\ pc' = "find"
    BY <1>3 DEF DropHollow
  <2>. QED BY <2>2, <2>3 DEF IInv, GoesOn, OnlyDamageSpoils, NoRowPointsAtAHole,
              UnlinkedIsUnnamed, PutIsThere, Refs
<1>4. CASE EvictOrphan
  <2>. DEFINE k == First(Orphans)
  <2>1. k \in Orphans
    BY <1>4, FirstIsIn DEF EvictOrphan
  <2>2. /\ DOMAIN blobs' = DOMAIN blobs \ {k}
        /\ \A x \in DOMAIN blobs' : blobs'[x] = blobs[x]
    BY <1>4 DEF EvictOrphan, Without
  <2>3. rows' = rows /\ damaged' = damaged /\ pc' = "orphans"
    BY <1>4 DEF EvictOrphan
  <2>4. \A c \in DOMAIN rows : k \notin Refs(rows[c])
    BY <2>1 DEF Orphans, RefsOf
  <2>. HIDE DEF k
  <2>. QED BY <2>2, <2>3, <2>4 DEF IInv, GoesOn, OnlyDamageSpoils, NoRowPointsAtAHole,
              UnlinkedIsUnnamed, PutIsThere, Refs
<1>5. CASE Unlink
  <2>. DEFINE k == First(todo)
  <2>1. k \in todo
    BY <1>5, FirstIsIn DEF Unlink
  <2>2. /\ DOMAIN blobs' = DOMAIN blobs \ {k}
        /\ \A x \in DOMAIN blobs' : blobs'[x] = blobs[x]
    BY <1>5 DEF Unlink, Without
  <2>3. /\ rows' = rows /\ damaged' = damaged
        /\ pc = "unlink" /\ pc' = "unlink" /\ todo' = todo \ {k}
        /\ after' = after
    BY <1>5 DEF Unlink
  <2>4. \A c \in DOMAIN rows : k \notin Refs(rows[c])
    BY <2>1, <2>3 DEF IInv, UnlinkedIsUnnamed
  <2>. HIDE DEF k
  <2>. QED BY <2>2, <2>3, <2>4 DEF IInv, GoesOn, OnlyDamageSpoils, NoRowPointsAtAHole,
              UnlinkedIsUnnamed, PutIsThere, Refs
<1>. QED BY <1>1, <1>2, <1>3, <1>4, <1>5

(* get_blob removes only what cannot be read, and only damage does that.   *)
LEMMA RestoreSteps ==
    ASSUME IInv, RestoreFails
    PROVE  IInv'
<1>1. rows' = rows /\ damaged' = damaged /\ pc' = "run"
  BY DEF RestoreFails, ResumeInMemory
<1>2. PICK k \in DOMAIN blobs \cup {CHOOSE x : x \notin DOMAIN blobs} :
        /\ blobs' = blobs \/ (k \in DOMAIN blobs /\ blobs[k].state = "torn" /\ blobs' = Without(blobs, {k}))
  <2>. DEFINE row == rows[ChainKey(job.doc, Candidate(job.doc, job.kind))]
  <2>1. PICK b \in DOMAIN row.man :
            /\ OnDisk(row)
            /\ blobs' = IF blobs[row.man[b]].state = "torn"
                        THEN Without(blobs, {row.man[b]}) ELSE blobs
    BY DEF RestoreFails
  <2>2. row.man[b] \in DOMAIN blobs
    BY <2>1 DEF OnDisk, Refs
  <2>. HIDE DEF row
  <2>. QED BY <2>1, <2>2
<1>3. CASE blobs' = blobs
  BY <1>1, <1>3, QuietSteps DEF disk
<1>4. CASE k \in DOMAIN blobs /\ blobs[k].state = "torn" /\ blobs' = Without(blobs, {k})
  <2>1. /\ DOMAIN blobs' = DOMAIN blobs \ {k}
        /\ \A x \in DOMAIN blobs' : blobs'[x] = blobs[x]
    BY <1>4 DEF Without
  <2>2. k \in damaged
    BY <1>4 DEF IInv, OnlyDamageSpoils
  <2>. QED BY <1>1, <2>1, <2>2 DEF IInv, GoesOn, OnlyDamageSpoils, NoRowPointsAtAHole,
              UnlinkedIsUnnamed, PutIsThere, Refs
<1>. QED BY <1>2, <1>3, <1>4

(* A blob is on the disk before the row that names it.                     *)
LEMMA SaveSteps ==
    ASSUME IInv, RunFeature \/ Finish \/ PutBlob \/ SaveRow \/ SaveFails
    PROVE  IInv'
<1>1. CASE RunFeature
  <2>1. UNCHANGED disk /\ pc' \in {"run", "put"}
    BY <1>1 DEF RunFeature
  <2>2. pc' = "put" => todo' = DOMAIN bodies' /\ after' \in {"run", "idle"}
    BY <1>1 DEF RunFeature
  <2>. QED BY <2>1, <2>2 DEF IInv, GoesOn, OnlyDamageSpoils, NoRowPointsAtAHole,
              UnlinkedIsUnnamed, PutIsThere, disk, Refs
<1>2. CASE Finish
  <2>1. UNCHANGED disk /\ pc' \in {"idle", "put"}
    BY <1>2 DEF Finish
  <2>2. pc' = "put" => todo' = DOMAIN bodies' /\ after' \in {"run", "idle"}
    BY <1>2 DEF Finish, locals
  <2>. QED BY <2>1, <2>2 DEF IInv, GoesOn, OnlyDamageSpoils, NoRowPointsAtAHole,
              UnlinkedIsUnnamed, PutIsThere, disk, Refs
<1>3. CASE PutBlob
  <2>. DEFINE b == First(todo)
              k == mod[b].key
  <2>1. /\ rows' = rows /\ damaged' = damaged /\ pc = "put" /\ pc' = "put" /\ after' = after
        /\ bodies' = bodies /\ mod' = mod /\ todo' = todo \ {b}
        /\ blobs' = IF k \in DOMAIN blobs THEN blobs
                    ELSE With(blobs, k, [shape |-> bodies[b], state |-> "good"])
    BY <1>3 DEF PutBlob, locals
  <2>2. /\ DOMAIN blobs' = DOMAIN blobs \cup {k}
        /\ \A x \in DOMAIN blobs : blobs'[x] = blobs[x]
        /\ k \notin DOMAIN blobs => blobs'[k].state = "good"
    <3>. HIDE DEF b, k
    <3>1. CASE k \in DOMAIN blobs
      BY <2>1, <3>1
    <3>2. CASE k \notin DOMAIN blobs
      BY <2>1, <3>2 DEF With
    <3>. QED BY <3>1, <3>2
  <2>3. OnlyDamageSpoils'
    <3>. HIDE DEF k
    <3>. QED BY <2>1, <2>2 DEF IInv, OnlyDamageSpoils
  <2>4. NoRowPointsAtAHole'
    BY <2>1, <2>2 DEF IInv, NoRowPointsAtAHole, Refs
  <2>5. PutIsThere'
    BY <2>1, <2>2 DEF IInv, PutIsThere
  <2>. QED BY <2>1, <2>3, <2>4, <2>5 DEF IInv, GoesOn, UnlinkedIsUnnamed
<1>4. CASE SaveRow
  <2>. DEFINE c == ChainKey(job.doc, at)
              row == [man |-> [b \in DOMAIN bodies |-> mod[b].key], fps |-> bodies]
  <2>1. /\ blobs' = blobs /\ damaged' = damaged /\ todo' = todo /\ todo = {}
        /\ pc = "put" /\ rows' = With(rows, c, row)
    BY <1>4 DEF SaveRow
  <2>2. /\ DOMAIN rows' = DOMAIN rows \cup {c} /\ rows'[c] = row
        /\ \A x \in DOMAIN rows \ {c} : rows'[x] = rows[x]
    <3>. HIDE DEF c, row
    <3>. QED BY <2>1 DEF With
  <2>3. Refs(row) \subseteq DOMAIN blobs \cup damaged
    BY <2>1 DEF IInv, PutIsThere, Refs
  <2>4. NoRowPointsAtAHole'
    <3>. HIDE DEF c, row
    <3>. QED BY <2>1, <2>2, <2>3 DEF IInv, NoRowPointsAtAHole, Refs
  <2>5. pc' \in {"run", "idle"}
    BY <1>4, <2>1 DEF SaveRow, Leave, IInv, GoesOn
  <2>. QED BY <2>1, <2>4, <2>5 DEF IInv, GoesOn, OnlyDamageSpoils,
              UnlinkedIsUnnamed, PutIsThere
<1>5. CASE SaveFails
  BY <1>5, QuietSteps DEF SaveFails, Leave, IInv, GoesOn
<1>. QED BY <1>1, <1>2, <1>3, <1>4, <1>5

(* The other steps leave the disk alone.                                   *)
LEMMA OtherSteps ==
    ASSUME IInv,
           \/ Boot \/ OrphansDone \/ EvictDone \/ UnlinkDone \/ Begin \/ Miss
           \/ Restore \/ Raise \/ Kill
    PROVE  IInv'
<1>1. UNCHANGED disk
  BY DEF Boot, OrphansDone, EvictDone, UnlinkDone, Begin, Miss, Restore, Raise, Kill
<1>2. pc' \notin {"unlink", "put"}
  BY DEF IInv, GoesOn, Boot, OrphansDone, EvictDone, UnlinkDone, Begin, Miss,
         ResumeInMemory, Restore, Raise, Kill
<1>. QED BY <1>1, <1>2, QuietSteps

(* Damage is recorded.                                                     *)
LEMMA DamageSteps == ASSUME IInv, Damage PROVE IInv'
<1>1. PICK k \in DOMAIN blobs, s \in {"torn", "off"} :
            /\ damaged' = damaged \cup {k}
            /\ blobs' = [blobs EXCEPT ![k].state = s]
  BY DEF Damage
<1>2. /\ DOMAIN blobs' = DOMAIN blobs
      /\ \A x \in DOMAIN blobs \ {k} : blobs'[x] = blobs[x]
  BY <1>1
<1>3. UNCHANGED <<rows, pc, after, todo, bodies, mod>>
  BY DEF Damage, locals
<1>. QED BY <1>1, <1>2, <1>3 DEF IInv, GoesOn, OnlyDamageSpoils,
            NoRowPointsAtAHole, UnlinkedIsUnnamed, PutIsThere, Refs

(* The strengthened invariant is inductive.                                *)
LEMMA StepPreserves == IInv /\ [Next]_vars => IInv'
<1>1. ASSUME IInv, Next PROVE IInv'
  BY <1>1, IndexSteps, RestoreSteps, SaveSteps, OtherSteps, DamageSteps DEF Next
<1>2. ASSUME IInv, UNCHANGED vars PROVE IInv'
  BY <1>2 DEF vars, disk, locals, IInv, GoesOn, OnlyDamageSpoils,
              NoRowPointsAtAHole, UnlinkedIsUnnamed, PutIsThere, Refs
<1>. QED BY <1>1, <1>2

(* A worker killed between any two file operations of a save, an eviction  *)
(* or Compute All leaves no checkpoint that names a missing blob: only a   *)
(* file damaged from outside makes one.                                    *)
THEOREM NoHoles == Spec => []NoRowPointsAtAHole
<1>1. IInv => NoRowPointsAtAHole
  BY DEF IInv
<1>. QED BY <1>1, InitEstablishes, StepPreserves, PTL DEF Spec

-----------------------------------------------------------------------------
(***************************************************************************)
(* Greatest and least of a set of naturals, and the chains of keys.        *)
(***************************************************************************)
(* Every set of naturals has a least element.                              *)
LEMMA Least == ASSUME NEW X \in SUBSET Nat, X # {}
               PROVE \E n \in X : \A m \in X : n <= m
<1>. DEFINE less == OpToRel(<, Nat)
<1>1. IsWellFoundedOn(less, Nat)
  BY NatLessThanWellFounded
<1>2. \A x, y \in Nat : x < y => <<x, y>> \in less
  BY DEF OpToRel
<1>. HIDE DEF less
<1>3. \E x \in X : \A y \in X : <<y, x>> \notin less
  BY <1>1, WFMin
<1>4. PICK n \in X : \A y \in X : <<y, n>> \notin less
  BY <1>3
<1>5. \A m \in X : ~(m < n)
  BY <1>2, <1>4
<1>. QED BY <1>5

(* ... and a bounded one a greatest.                                       *)
LEMMA MaxOfBounded ==
    ASSUME NEW n \in Nat, NEW X \in SUBSET (0..n), X # {}
    PROVE  /\ Max(X) \in X
           /\ \A m \in X : m <= Max(X)
<1>. DEFINE Y == {n - x : x \in X}
<1>1. Y \in SUBSET Nat /\ Y # {}
  <2>1. \A x \in X : n - x \in Nat
    OBVIOUS
  <2>. QED BY <2>1
<1>2. PICK y \in Y : \A z \in Y : y <= z
  <2>. HIDE DEF Y
  <2>. QED BY <1>1, Least
<1>3. PICK x \in X : y = n - x
  BY <1>2
<1>4. \A m \in X : x >= m
  BY <1>2, <1>3
<1>. QED BY <1>4 DEF Max

(* Min is a least element.                                                 *)
LEMMA MinOfBounded ==
    ASSUME NEW X \in SUBSET Nat, X # {}
    PROVE  /\ Min(X) \in X
           /\ \A m \in X : Min(X) <= m
BY Least DEF Min

(* The lesser of two.                                                      *)
LEMMA MinOfTwo ==
    ASSUME NEW a \in Nat, NEW b \in Nat
    PROVE  Min({a, b}) = IF a <= b THEN a ELSE b
<1>. DEFINE X == {a, b}
<1>1. Min(X) \in X /\ \A m \in X : Min(X) <= m
  <2>1. X \in SUBSET Nat /\ X # {}
    OBVIOUS
  <2>. HIDE DEF X
  <2>. QED BY <2>1, MinOfBounded
<1>. HIDE DEF Min
<1>. QED BY <1>1

-----------------------------------------------------------------------------
(* The features of a document are a sequence, and not an empty one.        *)
LEMMA FeatsAre ==
    ASSUME NEW d \in Document
    PROVE  /\ d.feats \in Seq(Feature)
           /\ Len(d.feats) \in Nat /\ Len(d.feats) >= 1
           /\ DOMAIN d.feats = 1..Len(d.feats)
<1>1. d.feats \in Seq(Feature) /\ d.feats # <<>>
  BY DocumentAssumption
<1>. QED BY <1>1, LenProperties, EmptySeq

(* A key is the chain of the features up to it.                            *)
LEMMA ChainIs ==
    ASSUME NEW d \in Document, NEW i \in 0..Len(d.feats)
    PROVE  /\ Len(ChainKey(d, i)) = i
           /\ DOMAIN ChainKey(d, i) = 1..i
           /\ ChainKey(d, i) = [j \in 1..i |-> Effective(d.feats[j], d.param)]
<1>. DEFINE c == Chain(d)
            X == {c[j] : j \in 1..Len(d.feats)}
<1>1. DOMAIN d.feats = 1..Len(d.feats) /\ Len(d.feats) \in Nat
  BY FeatsAre
<1>2. c \in [1..Len(d.feats) -> X] /\ \A j \in 1..Len(d.feats) : c[j] = Effective(d.feats[j], d.param)
  BY <1>1 DEF Chain
<1>3. \A j \in 1..i : c[j] \in X
  BY <1>1
<1>. HIDE DEF c, X
<1>4. /\ SubSeq(c, 1, i) \in Seq(X)
      /\ Len(SubSeq(c, 1, i)) = i
      /\ \A j \in 1..i : SubSeq(c, 1, i)[j] = c[j]
  <2>1. /\ SubSeq(c, 1, i) \in Seq(X)
        /\ Len(SubSeq(c, 1, i)) = IF 1 <= i THEN i - 1 + 1 ELSE 0
        /\ \A j \in 1..i - 1 + 1 : SubSeq(c, 1, i)[j] = c[1 + j - 1]
    <3>1. 1 \in Int /\ i \in Int
      OBVIOUS
    <3>. QED BY <3>1, <1>3, SubSeqProperties
  <2>. QED BY <1>1, <2>1
<1>5. DOMAIN SubSeq(c, 1, i) = 1..i /\ SubSeq(c, 1, i) \in [1..i -> X]
  BY <1>4, LenProperties
<1>6. SubSeq(c, 1, i) = [j \in 1..i |-> Effective(d.feats[j], d.param)]
  BY <1>1, <1>2, <1>4, <1>5
<1>. QED BY <1>4, <1>5, <1>6 DEF ChainKey, c

(* The last key is the chain of the whole document, the first is empty.    *)
LEMMA ChainEnds ==
    ASSUME NEW d \in Document
    PROVE  /\ ChainKey(d, Len(d.feats)) = Chain(d)
           /\ ChainKey(d, 0) = <<>>
<1>1. Len(d.feats) \in Nat /\ DOMAIN d.feats = 1..Len(d.feats)
  BY FeatsAre
<1>2. ChainKey(d, Len(d.feats)) = Chain(d)
  <2>1. Len(d.feats) \in 0..Len(d.feats)
    BY <1>1
  <2>2. ChainKey(d, Len(d.feats)) = [j \in 1..Len(d.feats) |-> Effective(d.feats[j], d.param)]
    BY <2>1, ChainIs
  <2>. QED BY <1>1, <2>2, Zenon DEF Chain
<1>3. Len(ChainKey(d, 0)) = 0 /\ ChainKey(d, 0) = [j \in 1..0 |-> Effective(d.feats[j], d.param)]
  BY <1>1, ChainIs
<1>4. ChainKey(d, 0) = <<>>
  BY <1>3
<1>. QED BY <1>2, <1>4

(* One feature after the other.                                            *)
LEMMA BuiltIs ==
    ASSUME NEW d \in Document
    PROVE  /\ Built[ChainKey(d, 0)] = Empty
           /\ \A i \in 1..Len(d.feats) :
                 Built[ChainKey(d, i)] = Apply(Built[ChainKey(d, i - 1)], Chain(d)[i])
BY BuiltAssumption, ChainEnds, FeatsAre

(* What a build has are bodies.                                            *)
LEMMA BuiltIsFcn ==
    ASSUME NEW d \in Document, NEW i \in 0..Len(d.feats)
    PROVE  LET bs == Built[ChainKey(d, i)] IN bs = [b \in DOMAIN bs |-> bs[b]]
<1>1. CASE i = 0
  BY <1>1, BuiltIs DEF Empty
<1>2. CASE i # 0
  <2>1. i \in 1..Len(d.feats)
    BY <1>2, FeatsAre
  <2>. QED BY <2>1, BuiltIs DEF Apply
<1>. QED BY <1>1, <1>2
-----------------------------------------------------------------------------
(***************************************************************************)
(* What a build resumes from, and what it returns.                         *)
(***************************************************************************)
Building == pc \in {"run", "put"}
HasJob == Building \/ pc = "find" \/ (pc = "unlink" /\ after = "find")

(* Snapshots that cover the first n features of d.                         *)
Snapshot == {None} \cup {Built[c] : c \in UNION {ChainKeys(d) : d \in Document}}

AreSnapshots(s, d, n) ==
    /\ s \in Seq(Snapshot) /\ Len(s) = n
    /\ \A i \in 1..n : s[i] # None => s[i] = Built[ChainKey(d, i)]

Fresh(d, n) == \A i \in 1..n : ~Stale(d.feats[i], Built[ChainKey(d, i - 1)])

AllNamed(m) == \A b \in DOMAIN m : Names(m[b].key, m[b].shape)

JobIsThere ==
    /\ HasJob => job.doc \in Document /\ job.kind \in Kind
    /\ ~HasJob => job = NoJob
    /\ ~Building => ~emitted /\ ~missed
    /\ pc = "put" => ~Readonly(job.kind)

(* What has been built so far is what a build from nothing has by then.    *)
BuildIsSound ==
    Building => /\ at \in 0..Len(job.doc.feats) /\ start \in 0..at
                /\ bodies = Built[ChainKey(job.doc, at)]
                /\ AreSnapshots(snaps, job.doc, at)
                /\ pc = "put" /\ after = "run" => start < at
                /\ pc = "put" => todo \subseteq DOMAIN bodies

StampsAreSound ==
    /\ AllNamed(mod)
    /\ Building /\ ~Readonly(job.kind) =>
          DOMAIN mod = DOMAIN bodies /\ \A b \in DOMAIN mod : mod[b].shape = bodies[b]

(* The memory is of a document, and quiet only if none of its curves is    *)
(* stale.                                                                  *)
Remembers(d) ==
    /\ ram.feats = d.feats /\ ram.param = d.param
    /\ AreSnapshots(ram.snaps, d, Len(d.feats))
    /\ ram.quiet => Fresh(d, Len(d.feats))

MemoryIsSound ==
    /\ ram = NoRam \/ \E d \in Document : Remembers(d)
    /\ AllNamed(ram.mod)
    /\ \A n \in DOMAIN ram.snaps : n <= Len(ram.snaps) - Window => ram.snaps[n] = None

DiskIsSound ==
    /\ \A k \in DOMAIN blobs : DOMAIN blobs[k] = {"shape", "state"}
    /\ \A k \in DOMAIN blobs : blobs[k].state = "good" => Names(k, blobs[k].shape)
    /\ \A c \in DOMAIN rows :
          /\ rows[c].fps = Built[c]
          /\ DOMAIN rows[c].man = DOMAIN rows[c].fps
          /\ \A b \in DOMAIN rows[c].man : Names(rows[c].man[b], rows[c].fps[b])

ReportsAreSound ==
    Building /\ Collects(job.kind) => (emitted <=> ~Fresh(job.doc, at))

StartsDeepest ==
    Building /\ at = start /\ ~missed /\ pc = "run" =>
        \A i \in start + 1 .. ProjCap(job.doc, job.kind) :
            ChainKey(job.doc, i) \notin DOMAIN rows

Shapes ==
    /\ \A k \in DOMAIN blobs : blobs[k].state \in {"good", "torn", "off"}
    /\ damaged \subseteq Fragile
    /\ pc \in {"down", "orphans", "evict", "unlink", "idle", "find", "run", "put"}
    /\ after \in {None, "evict", "find", "run", "idle"}

Sound == /\ GoesOn /\ JobIsThere /\ BuildIsSound /\ StampsAreSound /\ MemoryIsSound
         /\ DiskIsSound /\ ReportsAreSound /\ StartsDeepest /\ Shapes
-----------------------------------------------------------------------------
(* Chains that agree so far are the same keys.                             *)
LEMMA SameChain ==
    ASSUME NEW d \in Document, NEW e \in Document, d.param = e.param,
           NEW k \in 0..Len(d.feats), k <= Len(e.feats),
           \A i \in 1..k : d.feats[i] = e.feats[i]
    PROVE  \A i \in 0..k : ChainKey(d, i) = ChainKey(e, i)
<1>. SUFFICES ASSUME NEW i \in 0..k PROVE ChainKey(d, i) = ChainKey(e, i)
  OBVIOUS
<1>1. i \in 0..Len(d.feats) /\ i \in 0..Len(e.feats)
  BY FeatsAre
<1>2. ChainKey(d, i) = [j \in 1..i |-> Effective(d.feats[j], d.param)]
  BY <1>1, ChainIs
<1>3. ChainKey(e, i) = [j \in 1..i |-> Effective(e.feats[j], e.param)]
  BY <1>1, ChainIs
<1>4. \A j \in 1..i : d.feats[j] = e.feats[j]
  OBVIOUS
<1>. QED BY <1>2, <1>3, <1>4

(* The snapshots in memory agree with the document on the features         *)
(* counted.                                                                *)
LEMMA AgreedIs ==
    ASSUME NEW d \in Document, NEW e \in Document, Remembers(e)
    PROVE  /\ Agreed(d) \in 0..Len(d.feats) /\ Agreed(d) <= Len(e.feats)
           /\ \A i \in 1..Agreed(d) : d.feats[i] = e.feats[i]
<1>1. /\ d.feats \in Seq(Feature) /\ e.feats \in Seq(Feature)
      /\ Len(d.feats) \in Nat /\ Len(e.feats) \in Nat
  BY FeatsAre
<1>2. ram.feats = e.feats
  BY DEF Remembers
<1>. DEFINE m == Min({Len(d.feats), Len(e.feats)})
            X == {n \in 0..m : SubSeq(d.feats, 1, n) = SubSeq(e.feats, 1, n)}
<1>3. m \in Nat /\ m <= Len(d.feats) /\ m <= Len(e.feats)
  BY <1>1, MinOfTwo
<1>4. \A n \in 0..m : /\ \A i \in 1..n : SubSeq(d.feats, 1, n)[i] = d.feats[i]
                      /\ \A i \in 1..n : SubSeq(e.feats, 1, n)[i] = e.feats[i]
  BY <1>1, <1>3
<1>5. SubSeq(d.feats, 1, 0) = SubSeq(e.feats, 1, 0)
  BY <1>1, SubSeqEmpty
<1>. HIDE DEF m
<1>6. X \in SUBSET (0..m) /\ X # {}
  <2>1. 0 \in 0..m
    BY <1>3
  <2>2. 0 \in X
    BY <1>5, <2>1
  <2>. QED BY <2>2
<1>7. Agreed(d) = Max(X)
  BY <1>2 DEF Agreed, m
<1>8. Max(X) \in X
  <2>. HIDE DEF X
  <2>. QED BY <1>3, <1>6, MaxOfBounded
<1>. HIDE DEF Max
<1>. QED BY <1>3, <1>4, <1>7, <1>8

(* The features before the cap carry no projected curves.                  *)
LEMMA CapIs ==
    ASSUME NEW d \in Document, NEW kind
    PROVE  /\ ProjCap(d, kind) \in 0..Len(d.feats)
           /\ Collects(kind) => \A i \in 1..ProjCap(d, kind) : d.feats[i] \notin Projected
<1>1. DOMAIN d.feats = 1..Len(d.feats) /\ Len(d.feats) \in Nat
  BY FeatsAre
<1>. DEFINE S == {i \in DOMAIN d.feats : d.feats[i] \in Projected}
<1>2. CASE Collects(kind) /\ S # {}
  <2>1. S \in SUBSET Nat
    BY <1>1
  <2>2. Min(S) \in S /\ \A i \in S : Min(S) <= i
    <3>. HIDE DEF S
    <3>. QED BY <1>2, <2>1, MinOfBounded
  <2>3. ProjCap(d, kind) = Min(S) - 1
    BY <1>2 DEF ProjCap
  <2>4. S \subseteq 1..Len(d.feats) /\ \A i \in 1..Len(d.feats) \ S : d.feats[i] \notin Projected
    BY <1>1
  <2>. HIDE DEF S
  <2>. DEFINE first == Min(S)
  <2>5. first \in S /\ (\A i \in S : first <= i) /\ ProjCap(d, kind) = first - 1
    BY <2>2, <2>3
  <2>. HIDE DEF first
  <2>. QED BY <1>1, <2>4, <2>5
<1>3. CASE ~(Collects(kind) /\ S # {})
  <2>1. ProjCap(d, kind) = Len(d.feats)
    BY <1>3 DEF ProjCap
  <2>. QED BY <1>1, <1>3, <2>1
<1>. QED BY <1>2, <1>3

(* What a build may begin with: the bodies after k features, with no stale *)
(* curve among those it will not look at.                                  *)
LEMMA CapIsFresh ==
    ASSUME NEW d \in Document, NEW kind, Collects(kind),
           NEW k \in 0..ProjCap(d, kind)
    PROVE  Fresh(d, k)
BY CapIs DEF Fresh, Stale

(* Resuming in memory begins with the bodies a full build has by then,     *)
(* and leaves no stale curve unlooked at.                                  *)
LEMMA MemoryServes ==
    ASSUME MemoryIsSound, NEW d \in Document, NEW kind, NEW k, k = RamResume(d, kind)
    PROVE  /\ k \in 0..Len(d.feats)
           /\ Collects(kind) => Fresh(d, k)
           /\ k # 0 => \E e \in Document :
                         /\ Remembers(e) /\ k <= Len(e.feats)
                         /\ \A i \in 0..k : ChainKey(d, i) = ChainKey(e, i)
                         /\ ram.snaps[k] = Built[ChainKey(d, k)]
<1>1. Len(d.feats) \in Nat /\ Len(d.feats) >= 1
  BY FeatsAre
<1>2. CASE k = 0
  BY <1>1, <1>2 DEF Fresh
<1>3. CASE k # 0
  <2>1. /\ ram.param = d.param /\ k > 0 /\ k = Capped(d, kind) /\ ram.snaps[k] # None
    BY <1>3 DEF RamResume, SameGlobals
  <2>2. PICK e \in Document : Remembers(e)
    <3>1. CASE ram = NoRam
      <4>1. ram.feats = <<>> /\ ram.quiet = FALSE
        BY <3>1 DEF NoRam
      <4>2. Min({Len(d.feats), Len(ram.feats)}) = 0
        BY <1>1, <4>1, MinOfTwo
      <4>3. Agreed(d) = Max({n \in 0..0 : SubSeq(d.feats, 1, n) = SubSeq(ram.feats, 1, n)})
        BY <4>2 DEF Agreed
      <4>4. d.feats \in Seq(Feature) /\ SubSeq(d.feats, 1, 0) = SubSeq(ram.feats, 1, 0)
        BY FeatsAre, SubSeqEmpty
      <4>5. {n \in 0..0 : SubSeq(d.feats, 1, n) = SubSeq(ram.feats, 1, n)} = {0}
        BY <4>4
      <4>6. Agreed(d) = 0
        <5>1. {0} \in SUBSET (0..0) /\ {0} # {}
          OBVIOUS
        <5>2. Max({0}) \in {0}
          BY <5>1, MaxOfBounded
        <5>. QED BY <4>3, <4>5, <5>2
      <4>7. Capped(d, kind) = Min({0, ProjCap(d, kind)})
        BY <4>1, <4>6 DEF Capped
      <4>8. Capped(d, kind) = 0
        BY <4>7, CapIs, MinOfTwo
      <4>. QED BY <1>3, <2>1, <4>8
    <3>. QED BY <3>1 DEF MemoryIsSound
  <2>3. /\ Agreed(d) \in 0..Len(d.feats) /\ Agreed(d) <= Len(e.feats)
        /\ \A i \in 1..Agreed(d) : d.feats[i] = e.feats[i]
    BY <2>2, AgreedIs
  <2>4. ProjCap(d, kind) \in 0..Len(d.feats)
    BY CapIs
  <2>5. /\ k \in 0..Agreed(d)
        /\ k \in 0..ProjCap(d, kind) \/ (ram.quiet /\ k = Agreed(d))
    BY <1>1, <2>1, <2>3, <2>4, MinOfTwo DEF Capped
  <2>6. \A i \in 0..k : ChainKey(d, i) = ChainKey(e, i)
    <3>1. d.param = e.param
      BY <2>1, <2>2 DEF Remembers
    <3>2. k \in 0..Len(d.feats) /\ k <= Len(e.feats) /\ \A i \in 1..k : d.feats[i] = e.feats[i]
      BY <1>1, <2>3, <2>5, FeatsAre
    <3>. QED BY <3>1, <3>2, SameChain
  <2>7. ram.snaps[k] = Built[ChainKey(d, k)]
    <3>1. k \in 1..Len(e.feats)
      BY <1>1, <1>3, <2>3, <2>5, FeatsAre
    <3>. QED BY <2>1, <2>2, <2>6, <3>1 DEF Remembers, AreSnapshots
  <2>8. Collects(kind) => Fresh(d, k)
    <3>1. CASE k \in 0..ProjCap(d, kind)
      BY <3>1, CapIsFresh
    <3>2. CASE ram.quiet
      <4>1. Fresh(e, Len(e.feats))
        BY <2>2, <3>2 DEF Remembers
      <4>2. \A i \in 1..k : /\ i \in 1..Len(e.feats) /\ i - 1 \in 0..k
                            /\ d.feats[i] = e.feats[i]
        BY <1>1, <2>3, <2>5, FeatsAre
      <4>. QED BY <2>6, <4>1, <4>2 DEF Fresh
    <3>. QED BY <2>5, <3>1, <3>2
  <2>. QED BY <1>1, <2>2, <2>3, <2>5, <2>6, <2>7, <2>8
<1>. QED BY <1>2, <1>3
-----------------------------------------------------------------------------
(* Steps between builds.  What leaves the disk leaves what is on it sound. *)
LEMMA DiskShrinks ==
    ASSUME DiskIsSound,
           \A k \in DOMAIN blobs' : k \in DOMAIN blobs /\ blobs'[k] = blobs[k],
           \A c \in DOMAIN rows' : c \in DOMAIN rows /\ rows'[c] = rows[c]
    PROVE  DiskIsSound'
BY DEF DiskIsSound, Names

LEMMA BetweenBuilds ==
    ASSUME Sound, ~Building', UNCHANGED <<ram, mod>>,
           GoesOn', JobIsThere', DiskIsSound', Shapes'
    PROVE  Sound'
<1>1. BuildIsSound' /\ ReportsAreSound' /\ StartsDeepest'
  BY DEF BuildIsSound, ReportsAreSound, StartsDeepest
<1>2. StampsAreSound'
  BY DEF Sound, StampsAreSound, AllNamed, Names
<1>3. MemoryIsSound'
  BY DEF Sound, MemoryIsSound, AllNamed, Names, Remembers, AreSnapshots, NoRam
<1>. QED BY <1>1, <1>2, <1>3 DEF Sound

(* Steps before and between builds.                                        *)
LEMMA BootSteps ==
    ASSUME Sound, Boot \/ OrphansDone \/ EvictDone \/ UnlinkDone \/ Begin
    PROVE  Sound'
<1>1. UNCHANGED <<blobs, rows, damaged, ram, mod, emitted, missed>>
  BY DEF Boot, OrphansDone, EvictDone, UnlinkDone, Begin, disk, locals
<1>2. /\ pc \in {"down", "orphans", "evict", "unlink", "idle"}
      /\ pc' \in {"idle", "orphans", "evict", "find"}
  BY DEF Boot, OrphansDone, EvictDone, UnlinkDone, Begin, Sound, GoesOn
<1>3. DiskIsSound'
  BY <1>1, DiskShrinks DEF Sound
<1>4. JobIsThere'
  <2>1. CASE Boot \/ OrphansDone \/ EvictDone
    BY <1>1, <2>1 DEF Boot, OrphansDone, EvictDone, Sound, JobIsThere, HasJob,
                      Building, locals
  <2>2. CASE UnlinkDone
    BY <1>1, <2>2 DEF UnlinkDone, Sound, GoesOn, JobIsThere, HasJob, Building, locals
  <2>3. CASE Begin
    BY <1>1, <2>3 DEF Begin, Sound, JobIsThere, HasJob, Building
  <2>. QED BY <2>1, <2>2, <2>3
<1>5. Shapes' /\ GoesOn'
  <2>1. after' \in {None, after}
    BY DEF Boot, OrphansDone, EvictDone, UnlinkDone, Begin
  <2>. QED BY <1>1, <1>2, <2>1 DEF Sound, Shapes, GoesOn
<1>6. ~Building'
  BY <1>2 DEF Building
<1>. QED BY <1>1, <1>3, <1>4, <1>5, <1>6, BetweenBuilds

(* Steps that only take away from the disk.                                *)
LEMMA EvictSteps ==
    ASSUME Sound, EvictOrphan \/ EvictRow \/ Unlink \/ DropHollow
    PROVE  Sound'
<1>1. UNCHANGED <<damaged, ram, mod, emitted, missed, job>>
  BY DEF EvictOrphan, EvictRow, Unlink, DropHollow, disk, locals
<1>2. /\ \A k \in DOMAIN blobs' : k \in DOMAIN blobs /\ blobs'[k] = blobs[k]
      /\ \A c \in DOMAIN rows' : c \in DOMAIN rows /\ rows'[c] = rows[c]
  BY DEF EvictOrphan, EvictRow, Unlink, DropHollow, Without
<1>3. DiskIsSound'
  BY <1>2, DiskShrinks DEF Sound
<1>4. \/ pc' = pc /\ after' = after /\ pc \in {"orphans", "unlink", "find"}
      \/ pc = "evict" /\ pc' = "unlink" /\ after' = "evict"
  BY DEF EvictOrphan, EvictRow, Unlink, DropHollow
<1>5. JobIsThere'
  BY <1>1, <1>4 DEF Sound, JobIsThere, HasJob, Building
<1>6. Shapes' /\ GoesOn' /\ ~Building'
  BY <1>1, <1>2, <1>4 DEF Sound, Shapes, GoesOn, Building
<1>. QED BY <1>1, <1>3, <1>5, <1>6, BetweenBuilds

(* Compute All forgets the memory and this history of the document.        *)
LEMMA ComputeAllSteps == ASSUME Sound, ComputeAll PROVE Sound'
<1>1. PICK d \in Document : job' = [doc |-> d, kind |-> "all"] /\ rows' = Without(rows, Doomed(d))
  BY DEF ComputeAll
<1>2. /\ UNCHANGED <<blobs, damaged, mod, emitted, missed>>
      /\ pc = "idle" /\ pc' = "unlink" /\ after' = "find" /\ ram' = NoRam
  BY DEF ComputeAll
<1>3. DiskIsSound'
  BY <1>1, <1>2, DiskShrinks DEF Sound, Without
<1>4. JobIsThere'
  BY <1>1, <1>2 DEF Sound, JobIsThere, HasJob, Building, Kind
<1>5. Shapes' /\ GoesOn' /\ ~Building'
  BY <1>2 DEF Sound, Shapes, GoesOn, Building
<1>6. MemoryIsSound'
  BY <1>2 DEF MemoryIsSound, NoRam, AllNamed, Empty
<1>7. StampsAreSound'
  BY <1>2, <1>5 DEF Sound, StampsAreSound, AllNamed, Names
<1>. QED BY <1>3, <1>4, <1>5, <1>6, <1>7
         DEF Sound, BuildIsSound, ReportsAreSound, StartsDeepest

(* A job that ends, or dies with the worker.                               *)
LEMMA JobEnds ==
    ASSUME Sound, ClearLocals, pc' \in {"idle", "down"}, after' \in {None, after},
           DiskIsSound', MemoryIsSound', damaged' = damaged,
           \A k \in DOMAIN blobs' : blobs'[k].state \in {"good", "torn", "off"}
    PROVE  Sound'
<1>1. ~Building' /\ ~HasJob'
  BY DEF Building, HasJob
<1>2. JobIsThere'
  BY <1>1 DEF JobIsThere, ClearLocals
<1>3. StampsAreSound'
  BY <1>1 DEF StampsAreSound, ClearLocals, AllNamed, Empty
<1>4. Shapes' /\ GoesOn'
  BY DEF Sound, Shapes, GoesOn
<1>. QED BY <1>1, <1>2, <1>3, <1>4
         DEF Sound, BuildIsSound, ReportsAreSound, StartsDeepest

(* A killed worker, a job that raised.                                     *)
LEMMA EndSteps == ASSUME Sound, Kill \/ Raise PROVE Sound'
<1>1. /\ UNCHANGED <<blobs, rows, damaged>> /\ ClearLocals
      /\ pc' \in {"idle", "down"} /\ after' \in {None, after} /\ ram' \in {ram, NoRam}
  BY DEF Kill, Raise, disk
<1>2. DiskIsSound'
  BY <1>1, DiskShrinks DEF Sound
<1>3. MemoryIsSound'
  <2>1. CASE ram' = NoRam
    BY <2>1 DEF MemoryIsSound, NoRam, AllNamed, Empty
  <2>2. CASE ram' = ram
    BY <2>2 DEF Sound, MemoryIsSound, AllNamed, Names, Remembers, AreSnapshots, NoRam
  <2>. QED BY <1>1, <2>1, <2>2
<1>. QED BY <1>1, <1>2, <1>3, JobEnds DEF Sound, Shapes

(* A damaged blob is good no more.                                         *)
LEMMA SpoilSteps == ASSUME Sound, Damage PROVE Sound'
<1>1. PICK k \in DOMAIN blobs, s \in {"torn", "off"} :
            /\ k \in Fragile /\ damaged' = damaged \cup {k}
            /\ blobs' = [blobs EXCEPT ![k].state = s]
  BY DEF Damage
<1>2. /\ DOMAIN blobs' = DOMAIN blobs
      /\ \A x \in DOMAIN blobs \ {k} : blobs'[x] = blobs[x]
      /\ blobs'[k] = [blobs[k] EXCEPT !.state = s]
  BY <1>1
<1>3. DOMAIN blobs[k] = {"shape", "state"}
  BY DEF Sound, DiskIsSound
<1>4. blobs'[k].state = s /\ DOMAIN blobs'[k] = {"shape", "state"}
  BY <1>2, <1>3
<1>5. UNCHANGED <<rows, ram, pc, after, todo, job, at, start, missed, bodies, mod, snaps, emitted>>
  BY DEF Damage, locals
<1>6. DiskIsSound'
  BY <1>1, <1>2, <1>4, <1>5 DEF Sound, DiskIsSound, Names
<1>7. Shapes'
  BY <1>1, <1>2, <1>4, <1>5 DEF Sound, Shapes
<1>8. GoesOn' /\ JobIsThere' /\ BuildIsSound'
  BY <1>5 DEF Sound, GoesOn, JobIsThere, HasJob, Building, BuildIsSound, AreSnapshots
<1>9. StampsAreSound' /\ ReportsAreSound' /\ StartsDeepest'
  BY <1>5 DEF Sound, StampsAreSound, AllNamed, Names, ReportsAreSound, Fresh, Building,
              StartsDeepest
<1>10. MemoryIsSound'
  BY <1>5 DEF Sound, MemoryIsSound, AllNamed, Names, Remembers, AreSnapshots, NoRam
<1>. QED BY <1>6, <1>7, <1>8, <1>9, <1>10 DEF Sound
-----------------------------------------------------------------------------
(* A build begins on what it found.                                        *)
LEMMA PrefixOfSnapshots ==
    ASSUME NEW d \in Document, NEW e \in Document, NEW s,
           AreSnapshots(s, e, Len(e.feats)),
           NEW k \in 0..Len(d.feats), k <= Len(e.feats),
           \A i \in 0..k : ChainKey(d, i) = ChainKey(e, i)
    PROVE  AreSnapshots(SubSeq(s, 1, k), d, k)
<1>1. s \in Seq(Snapshot) /\ Len(s) = Len(e.feats) /\ Len(e.feats) \in Nat
  BY FeatsAre DEF AreSnapshots
<1>2. k \in Nat /\ k <= Len(s)
  BY <1>1, FeatsAre
<1>3. /\ SubSeq(s, 1, k) \in Seq(Snapshot) /\ Len(SubSeq(s, 1, k)) = k
      /\ \A i \in 1..k : SubSeq(s, 1, k)[i] = s[i]
  BY <1>1, <1>2
<1>4. \A i \in 1..k : s[i] # None => s[i] = Built[ChainKey(d, i)]
  BY <1>1, <1>2 DEF AreSnapshots
<1>. QED BY <1>3, <1>4 DEF AreSnapshots

(* No snapshots.                                                           *)
LEMMA NothingIsSnapshots ==
    ASSUME NEW d, NEW s
    PROVE  AreSnapshots(SubSeq(s, 1, 0), d, 0)
BY SubSeqEmpty DEF AreSnapshots

(* Bodies stamped anew when a build resumes in memory.                     *)
LEMMA InheritedIsSound ==
    ASSUME MemoryIsSound, NEW d \in Document, NEW k \in 0..Len(d.feats),
           ram.snaps[k] = Built[ChainKey(d, k)]
    PROVE  LET m == Inherited(d, k)
               bs == Built[ChainKey(d, k)]
           IN  /\ AllNamed(m) /\ DOMAIN m = DOMAIN bs
               /\ \A b \in DOMAIN m : m[b].shape = bs[b]
<1>. DEFINE m == Inherited(d, k)
            bs == Built[ChainKey(d, k)]
<1>1. /\ DOMAIN m = DOMAIN bs
      /\ \A b \in DOMAIN bs : m[b] = IF b \in DOMAIN ram.mod /\ ram.mod[b].shape = bs[b]
                                     THEN ram.mod[b]
                                     ELSE [shape |-> bs[b], key |-> BlobKey(ChainKey(d, k), b)]
  BY DEF Inherited
<1>2. \A b \in DOMAIN ram.mod : Names(ram.mod[b].key, ram.mod[b].shape)
  BY DEF MemoryIsSound, AllNamed
<1>3. \A b \in DOMAIN bs : Names(BlobKey(ChainKey(d, k), b), bs[b])
  BY DEF Names, BlobKey
<1>. HIDE DEF m, bs
<1>4. \A b \in DOMAIN m : Names(m[b].key, m[b].shape) /\ m[b].shape = bs[b]
  BY <1>1, <1>2, <1>3
<1>. QED BY <1>1, <1>4 DEF AllNamed, m, bs

(* A build that begins in memory.                                          *)
LEMMA BeginsInMemory ==
    ASSUME Sound, pc = "find", ResumeInMemory, UNCHANGED <<ram, after, job, emitted>>
    PROVE  /\ BuildIsSound' /\ StampsAreSound' /\ MemoryIsSound' /\ ReportsAreSound'
           /\ job.doc \in Document /\ job.kind \in Kind /\ pc' = "run"
           /\ start' = RamResume(job.doc, job.kind)
<1>. DEFINE d == job.doc
            k == RamResume(job.doc, job.kind)
<1>1. d \in Document /\ job.kind \in Kind /\ ~emitted
  BY DEF Sound, JobIsThere, HasJob, Building
<1>2. /\ at' = k /\ start' = k /\ pc' = "run"
      /\ bodies' = IF k = 0 THEN Empty ELSE ram.snaps[k]
      /\ mod' = IF k = 0 \/ Readonly(job.kind) THEN Empty ELSE Inherited(d, k)
      /\ snaps' = SubSeq(ram.snaps, 1, k)
  BY DEF ResumeInMemory
<1>3. MemoryIsSound
  BY DEF Sound
<1>. HIDE DEF k, d
<1>4. /\ k \in 0..Len(d.feats)
      /\ Collects(job.kind) => Fresh(d, k)
      /\ k # 0 => \E e \in Document :
                    /\ Remembers(e) /\ k <= Len(e.feats)
                    /\ \A i \in 0..k : ChainKey(d, i) = ChainKey(e, i)
                    /\ ram.snaps[k] = Built[ChainKey(d, k)]
  BY <1>1, <1>3, MemoryServes DEF k, d
<1>5. bodies' = Built[ChainKey(d, k)]
  BY <1>1, <1>2, <1>4, BuiltIs
<1>6. AreSnapshots(snaps', d, k)
  <2>1. CASE k = 0
    BY <1>2, <2>1, NothingIsSnapshots
  <2>2. CASE k # 0
    <3>1. PICK e \in Document : /\ Remembers(e) /\ k <= Len(e.feats)
                                /\ \A i \in 0..k : ChainKey(d, i) = ChainKey(e, i)
      BY <1>4, <2>2
    <3>2. AreSnapshots(ram.snaps, e, Len(e.feats))
      BY <3>1 DEF Remembers
    <3>. QED BY <1>1, <1>2, <1>4, <3>1, <3>2, PrefixOfSnapshots
  <2>. QED BY <2>1, <2>2
<1>7. BuildIsSound'
  <2>1. k \in 0..k
    BY <1>1, <1>4, FeatsAre
  <2>2. job'.doc = d
    BY DEF d
  <2>. QED BY <1>2, <1>4, <1>5, <1>6, <2>1, <2>2 DEF BuildIsSound, AreSnapshots
<1>8. StampsAreSound'
  <2>1. CASE k = 0 \/ Readonly(job.kind)
    <3>1. mod' = Empty
      BY <1>2, <2>1
    <3>2. ~Readonly(job.kind) => bodies' = Empty
      BY <1>2, <2>1
    <3>. QED BY <3>1, <3>2 DEF StampsAreSound, AllNamed, Empty
  <2>2. CASE ~(k = 0 \/ Readonly(job.kind))
    <3>1. mod' = Inherited(d, k)
      BY <1>2, <2>2
    <3>. QED BY <1>1, <1>3, <1>4, <1>5, <2>2, <3>1, InheritedIsSound
             DEF StampsAreSound, AllNamed, Names
  <2>. QED BY <2>1, <2>2
<1>9. MemoryIsSound'
  BY <1>3 DEF MemoryIsSound, AllNamed, Names, Remembers, AreSnapshots, NoRam
<1>10. ReportsAreSound'
  BY <1>1, <1>2, <1>4 DEF ReportsAreSound, Fresh, d
<1>. QED BY <1>1, <1>2, <1>7, <1>8, <1>9, <1>10 DEF d, k

(* No checkpoint is deeper than the memory.                                *)
LEMMA MissSteps == ASSUME Sound, Miss PROVE Sound'
<1>1. /\ UNCHANGED <<blobs, rows, damaged, ram, after, todo, job, missed, emitted>>
      /\ pc = "find" /\ Deeper(job.doc, job.kind) = {} /\ ResumeInMemory
  BY DEF Miss, disk
<1>2. /\ BuildIsSound' /\ StampsAreSound' /\ MemoryIsSound' /\ ReportsAreSound'
      /\ job.doc \in Document /\ job.kind \in Kind /\ pc' = "run"
      /\ start' = RamResume(job.doc, job.kind)
  BY <1>1, BeginsInMemory
<1>3. DiskIsSound'
  BY <1>1, DiskShrinks DEF Sound
<1>4. Shapes' /\ GoesOn' /\ JobIsThere'
  BY <1>1, <1>2 DEF Sound, Shapes, GoesOn, JobIsThere, Building, HasJob
<1>5. StartsDeepest'
  BY <1>1, <1>2 DEF StartsDeepest, Deeper, ProjCap
<1>. QED BY <1>2, <1>3, <1>4, <1>5 DEF Sound

(* A checkpoint whose blob is no use.                                      *)
LEMMA RestoreFailsSteps == ASSUME Sound, RestoreFails PROVE Sound'
<1>1. /\ UNCHANGED <<rows, damaged, ram, after, todo, job, emitted>>
      /\ pc = "find" /\ ResumeInMemory /\ missed' = TRUE
  BY DEF RestoreFails
<1>2. /\ BuildIsSound' /\ StampsAreSound' /\ MemoryIsSound' /\ ReportsAreSound'
      /\ job.doc \in Document /\ job.kind \in Kind /\ pc' = "run"
  BY <1>1, BeginsInMemory
<1>3. \A k \in DOMAIN blobs' : k \in DOMAIN blobs /\ blobs'[k] = blobs[k]
  BY DEF RestoreFails, Without
<1>4. DiskIsSound'
  BY <1>1, <1>3, DiskShrinks DEF Sound
<1>5. Shapes' /\ GoesOn' /\ JobIsThere' /\ StartsDeepest'
  BY <1>1, <1>2, <1>3 DEF Sound, Shapes, GoesOn, JobIsThere, Building, HasJob, StartsDeepest
<1>. QED BY <1>2, <1>4, <1>5 DEF Sound

(* A checkpoint restored.                                                  *)
LEMMA RestoreSound == ASSUME Sound, Restore PROVE Sound'
<1>. DEFINE d == job.doc
            i == Candidate(job.doc, job.kind)
            row == rows[ChainKey(d, i)]
            restored == [b \in DOMAIN row.man |-> blobs[row.man[b]].shape]
<1>1. /\ UNCHANGED <<blobs, rows, damaged, ram, after, todo, job, missed, emitted>>
      /\ pc = "find" /\ pc' = "run" /\ Deeper(d, job.kind) # {}
      /\ \A b \in DOMAIN row.man : Restorable(row, b)
      /\ at' = i /\ start' = i /\ bodies' = restored
      /\ mod' = IF Readonly(job.kind) THEN Empty
                ELSE [b \in DOMAIN row.man |-> [shape |-> restored[b], key |-> row.man[b]]]
      /\ snaps' = [n \in 1..i |-> IF n = i THEN restored ELSE None]
  BY DEF Restore, disk
<1>2. d \in Document /\ job.kind \in Kind /\ ~emitted /\ ~missed
  BY <1>1 DEF Sound, JobIsThere, HasJob, Building
<1>3. MemoryIsSound /\ DiskIsSound
  BY DEF Sound
<1>. HIDE DEF d
<1>4. /\ i \in 1..ProjCap(d, job.kind) /\ i \in 1..Len(d.feats)
      /\ ChainKey(d, i) \in DOMAIN rows
      /\ \A j \in i + 1 .. ProjCap(d, job.kind) : ChainKey(d, j) \notin DOMAIN rows
  <2>1. ProjCap(d, job.kind) \in 0..Len(d.feats) /\ Len(d.feats) \in Nat
    BY <1>2, CapIs, FeatsAre
  <2>2. RamResume(d, job.kind) \in Nat
    BY <1>2, <1>3, <2>1, MemoryServes
  <2>. DEFINE D == Deeper(d, job.kind)
  <2>3. D \in SUBSET (0..ProjCap(d, job.kind)) /\ D # {}
    BY <1>1, <2>1, <2>2 DEF Deeper, d
  <2>4. i = Max(D)
    BY DEF Candidate, d
  <2>5. i \in D /\ \A j \in D : j <= i
    <3>. HIDE DEF D, i
    <3>1. ProjCap(d, job.kind) \in Nat
      BY <2>1
    <3>2. Max(D) \in D /\ \A j \in D : j <= Max(D)
      BY <3>1, <2>3, MaxOfBounded
    <3>. QED BY <2>4, <3>2
  <2>. HIDE DEF i
  <2>. QED BY <2>1, <2>2, <2>5 DEF Deeper
<1>. HIDE DEF i
<1>5. /\ row.fps = Built[ChainKey(d, i)] /\ DOMAIN row.man = DOMAIN row.fps
      /\ \A b \in DOMAIN row.man : Names(row.man[b], row.fps[b])
  BY <1>3, <1>4 DEF DiskIsSound
<1>6. restored = Built[ChainKey(d, i)]
  <2>1. \A b \in DOMAIN row.man : blobs[row.man[b]].shape = row.fps[b]
    BY <1>1 DEF Restorable
  <2>2. row.fps = [b \in DOMAIN row.fps |-> row.fps[b]]
    BY <1>2, <1>4, <1>5, BuiltIsFcn, FeatsAre
  <2>. HIDE DEF row
  <2>. QED BY <1>5, <2>1, <2>2
<1>. HIDE DEF restored, row
<1>7. AreSnapshots(snaps', d, i)
  <2>1. Built[ChainKey(d, i)] \in Snapshot
    BY <1>2, <1>4 DEF Snapshot, ChainKeys
  <2>2. None \in Snapshot
    BY DEF Snapshot
  <2>3. i \in Nat
    BY <1>2, <1>4, FeatsAre
  <2>4. snaps' \in [1..i -> Snapshot]
    BY <1>1, <1>6, <2>1, <2>2
  <2>5. snaps' \in Seq(Snapshot) /\ Len(snaps') = i
    BY <2>3, <2>4
  <2>. QED BY <1>1, <1>6, <2>5 DEF AreSnapshots
<1>8. BuildIsSound'
  <2>1. i \in 0..i /\ i \in 0..Len(d.feats)
    BY <1>2, <1>4, FeatsAre
  <2>2. job'.doc = d
    BY <1>1 DEF d
  <2>. QED BY <1>1, <1>6, <1>7, <2>1, <2>2 DEF BuildIsSound, AreSnapshots
<1>9. StampsAreSound'
  <2>1. CASE Readonly(job.kind)
    BY <1>1, <2>1 DEF StampsAreSound, AllNamed, Empty
  <2>2. CASE ~Readonly(job.kind)
    <3>1. mod' = [b \in DOMAIN row.man |-> [shape |-> restored[b], key |-> row.man[b]]]
      BY <1>1, <2>2
    <3>2. DOMAIN bodies' = DOMAIN row.man
      BY <1>1, <1>5, <1>6
    <3>. QED BY <1>1, <1>5, <1>6, <3>1, <3>2 DEF StampsAreSound, AllNamed, Names
  <2>. QED BY <2>1, <2>2
<1>10. ReportsAreSound'
  <2>1. Collects(job.kind) => Fresh(d, i)
    <3>1. i \in 0..ProjCap(d, job.kind)
      BY <1>2, <1>4, CapIs
    <3>. QED BY <1>2, <3>1, CapIsFresh
  <2>. QED BY <1>1, <1>2, <2>1 DEF ReportsAreSound, Fresh, d
<1>11. MemoryIsSound' /\ DiskIsSound'
  <2>1. DiskIsSound'
    BY <1>1, <1>3, DiskShrinks
  <2>. QED BY <1>1, <1>3, <2>1 DEF MemoryIsSound, AllNamed, Names, Remembers, AreSnapshots, NoRam
<1>12. StartsDeepest'
  BY <1>1, <1>4 DEF StartsDeepest, ProjCap, d
<1>13. Shapes' /\ GoesOn' /\ JobIsThere'
  BY <1>1, <1>2 DEF Sound, Shapes, GoesOn, JobIsThere, Building, HasJob, d
<1>. QED BY <1>8, <1>9, <1>10, <1>11, <1>12, <1>13 DEF Sound
-----------------------------------------------------------------------------
(* A build goes on.                                                        *)
LEMMA StampedIsSound ==
    ASSUME AllNamed(mod), NEW d \in Document, NEW i \in 1..Len(d.feats)
    PROVE  LET bs == Built[ChainKey(d, i)]
               m == Stamped(d, i, bs)
           IN  /\ AllNamed(m) /\ DOMAIN m = DOMAIN bs
               /\ \A b \in DOMAIN m : m[b].shape = bs[b]
<1>. DEFINE bs == Built[ChainKey(d, i)]
            m == Stamped(d, i, bs)
<1>1. /\ DOMAIN m = DOMAIN bs
      /\ \A b \in DOMAIN bs : m[b] = IF b \in DOMAIN mod /\ mod[b].shape = bs[b]
                                     THEN mod[b]
                                     ELSE [shape |-> bs[b], key |-> BlobKey(ChainKey(d, i), b)]
  BY DEF Stamped
<1>2. \A b \in DOMAIN bs : Names(BlobKey(ChainKey(d, i), b), bs[b])
  BY DEF Names, BlobKey
<1>. HIDE DEF m, bs
<1>3. \A b \in DOMAIN m : Names(m[b].key, m[b].shape) /\ m[b].shape = bs[b]
  BY <1>1, <1>2 DEF AllNamed
<1>. QED BY <1>1, <1>3 DEF AllNamed, m, bs

(* One feature more.                                                       *)
LEMMA RunSteps == ASSUME Sound, RunFeature PROVE Sound'
<1>. DEFINE d == job.doc
            i == at + 1
            bs == Apply(bodies, Chain(d)[i])
<1>1. /\ UNCHANGED <<blobs, rows, damaged, ram, job, start, missed>>
      /\ pc = "run" /\ at < Len(d.feats)
      /\ at' = i /\ bodies' = bs
      /\ mod' = IF Readonly(job.kind) THEN Empty ELSE Stamped(d, i, bs)
      /\ snaps' = Append(snaps, bs)
      /\ emitted' = (emitted \/ /\ Collects(job.kind)
                                /\ Stale(d.feats[i], bodies))
  BY DEF RunFeature, disk
<1>2. /\ d \in Document /\ job.kind \in Kind
      /\ at \in 0..Len(d.feats) /\ start \in 0..at
      /\ bodies = Built[ChainKey(d, at)] /\ AreSnapshots(snaps, d, at)
      /\ AllNamed(mod)
  BY <1>1 DEF Sound, JobIsThere, HasJob, Building, BuildIsSound, StampsAreSound
<1>3. \/ pc' = "run" /\ after' = after
      \/ pc' = "put" /\ after' = "run" /\ ~Readonly(job.kind) /\ todo' = DOMAIN bodies'
  BY DEF RunFeature, MayPersist
<1>4. Len(d.feats) \in Nat
  BY <1>2, FeatsAre
<1>5. i \in 1..Len(d.feats) /\ i - 1 = at /\ i \in Nat
  BY <1>1, <1>2, <1>4
<1>6. bs = Built[ChainKey(d, i)]
  BY <1>2, <1>5, BuiltIs
<1>. HIDE DEF d, i, bs
<1>7. AreSnapshots(snaps', d, i)
  <2>1. bs \in Snapshot
    BY <1>2, <1>5, <1>6 DEF Snapshot, ChainKeys
  <2>2. snaps \in Seq(Snapshot) /\ Len(snaps) = at
    BY <1>2 DEF AreSnapshots
  <2>3. /\ snaps' \in Seq(Snapshot) /\ Len(snaps') = i
        /\ \A j \in 1..at : snaps'[j] = snaps[j]
        /\ snaps'[i] = bs
    BY <1>1, <1>5, <2>1, <2>2, AppendProperties
  <2>4. \A j \in 1..i : j \in 1..at \/ j = i
    BY <1>2, <1>4, <1>5
  <2>. QED BY <1>2, <1>6, <2>3, <2>4 DEF AreSnapshots
<1>8. BuildIsSound'
  <2>1. start \in 0..i /\ start < i /\ i \in 0..Len(d.feats)
    BY <1>2, <1>4, <1>5
  <2>2. job'.doc = d
    BY <1>1 DEF d
  <2>. QED BY <1>1, <1>3, <1>6, <1>7, <2>1, <2>2 DEF BuildIsSound, AreSnapshots
<1>9. StampsAreSound'
  <2>1. CASE Readonly(job.kind)
    BY <1>1, <2>1 DEF StampsAreSound, AllNamed, Empty
  <2>2. CASE ~Readonly(job.kind)
    BY <1>1, <1>2, <1>5, <1>6, <2>2, StampedIsSound DEF StampsAreSound, AllNamed, Names
  <2>. QED BY <2>1, <2>2
<1>10. ReportsAreSound'
  <2>1. Collects(job.kind) => (emitted <=> ~Fresh(d, at))
    BY <1>1 DEF Sound, ReportsAreSound, Building, d
  <2>2. Fresh(d, i) <=> Fresh(d, at) /\ ~Stale(d.feats[i], Built[ChainKey(d, at)])
    <3>1. \A j \in 1..i : j \in 1..at \/ j = i
      BY <1>2, <1>4, <1>5
    <3>2. \A j \in 1..at : j \in 1..i
      BY <1>2, <1>4, <1>5
    <3>. QED BY <1>5, <3>1, <3>2 DEF Fresh
  <2>3. Collects(job.kind) => (emitted' <=> ~Fresh(d, i))
    BY <1>1, <1>2, <2>1, <2>2
  <2>. QED BY <1>1, <2>3 DEF ReportsAreSound, Fresh, Stale, d
<1>11. MemoryIsSound' /\ DiskIsSound'
  <2>1. DiskIsSound'
    BY <1>1, DiskShrinks DEF Sound
  <2>. QED BY <1>1, <2>1 DEF Sound, MemoryIsSound, AllNamed, Names, Remembers, AreSnapshots, NoRam
<1>12. StartsDeepest'
  <2>1. start # i
    BY <1>2, <1>4, <1>5
  <2>. QED BY <1>1, <2>1 DEF StartsDeepest
<1>13. Shapes' /\ GoesOn' /\ JobIsThere'
  BY <1>1, <1>2, <1>3 DEF Sound, Shapes, GoesOn, JobIsThere, Building, HasJob, d
<1>. QED BY <1>8, <1>9, <1>10, <1>11, <1>12, <1>13 DEF Sound

(* Steps of a save that leave the build where it is.                       *)
LEMMA SavingKeeps ==
    ASSUME Sound, pc \in {"run", "put"}, pc' \in {"run", "put"}, UNCHANGED <<ram, locals>>,
           pc' = "run" => pc = "put" /\ after = "run",
           pc' = "put" => /\ after' = "run" => start < at
                          /\ ~Readonly(job.kind)
                          /\ todo' \subseteq DOMAIN bodies,
           GoesOn', DiskIsSound', Shapes'
    PROVE  Sound'
<1>1. UNCHANGED <<job, at, start, missed, bodies, mod, snaps, emitted>>
  BY DEF locals
<1>2. BuildIsSound' /\ StampsAreSound' /\ ReportsAreSound' /\ JobIsThere'
  BY <1>1 DEF Sound, BuildIsSound, StampsAreSound, ReportsAreSound, JobIsThere, HasJob,
              Building, AreSnapshots, AllNamed, Names, Fresh
<1>3. MemoryIsSound'
  BY DEF Sound, MemoryIsSound, AllNamed, Names, Remembers, AreSnapshots, NoRam
<1>4. StartsDeepest'
  <2>1. CASE pc' = "run"
    <3>1. start < at /\ start \in 0..at /\ at \in Nat
      BY <1>1, <2>1, FeatsAre DEF Sound, BuildIsSound, Building, JobIsThere, HasJob
    <3>. QED BY <1>1, <3>1 DEF StartsDeepest
  <2>2. CASE pc' = "put"
    BY <2>2 DEF StartsDeepest
  <2>. QED BY <2>1, <2>2
<1>. QED BY <1>2, <1>3, <1>4 DEF Sound

(* A blob is written under the key its body was stamped with.              *)
LEMMA PutSteps == ASSUME Sound, PutBlob PROVE Sound'
<1>. DEFINE b == First(todo)
            k == mod[b].key
            blob == [shape |-> bodies[b], state |-> "good"]
<1>1. /\ UNCHANGED <<rows, damaged, ram, pc, after, locals>> /\ pc = "put" /\ todo # {}
      /\ blobs' = IF k \in DOMAIN blobs THEN blobs ELSE With(blobs, k, blob)
      /\ todo' = todo \ {b}
  BY DEF PutBlob
<1>2. b \in todo
  BY <1>1, FirstIsIn
<1>3. b \in DOMAIN bodies /\ todo' \subseteq DOMAIN bodies
  BY <1>1, <1>2 DEF Sound, BuildIsSound, Building
<1>4. Names(k, bodies[b])
  BY <1>1, <1>3 DEF Sound, StampsAreSound, JobIsThere, Building, AllNamed
<1>. HIDE DEF b, k
<1>5. DiskIsSound' /\ Shapes'
  <2>1. CASE k \in DOMAIN blobs
    BY <1>1, <2>1, DiskShrinks DEF Sound, Shapes
  <2>2. CASE k \notin DOMAIN blobs
    <3>1. /\ DOMAIN blobs' = DOMAIN blobs \cup {k} /\ blobs'[k] = blob
          /\ \A x \in DOMAIN blobs : blobs'[x] = blobs[x]
      BY <1>1, <2>2 DEF With
    <3>2. DOMAIN blob = {"shape", "state"} /\ blob.state = "good" /\ blob.shape = bodies[b]
      OBVIOUS
    <3>. HIDE DEF blob
    <3>3. DiskIsSound'
      BY <1>1, <1>4, <3>1, <3>2 DEF Sound, DiskIsSound, Names
    <3>. QED BY <1>1, <3>1, <3>2, <3>3 DEF Sound, Shapes
  <2>. QED BY <2>1, <2>2
<1>6. GoesOn'
  BY <1>1 DEF Sound, GoesOn
<1>7. (after = "run" => start < at) /\ ~Readonly(job.kind)
  BY <1>1 DEF Sound, BuildIsSound, JobIsThere, Building
<1>. QED BY <1>1, <1>3, <1>5, <1>6, <1>7, SavingKeeps

(* The row names the blobs of the bodies built.                            *)
LEMMA SaveRowSteps == ASSUME Sound, SaveRow PROVE Sound'
<1>. DEFINE c == ChainKey(job.doc, at)
            row == [man |-> [b \in DOMAIN bodies |-> mod[b].key], fps |-> bodies]
<1>1. /\ UNCHANGED <<blobs, damaged, ram>> /\ pc = "put"
      /\ rows' = With(rows, c, row) /\ Leave
  BY DEF SaveRow
<1>2. /\ bodies = Built[c] /\ AllNamed(mod)
      /\ DOMAIN mod = DOMAIN bodies /\ \A b \in DOMAIN mod : mod[b].shape = bodies[b]
      /\ job.doc \in Document /\ at \in 0..Len(job.doc.feats)
  BY <1>1 DEF Sound, BuildIsSound, StampsAreSound, JobIsThere, Building, HasJob
<1>3. /\ row.fps = Built[c] /\ DOMAIN row.man = DOMAIN row.fps
      /\ \A b \in DOMAIN row.man : Names(row.man[b], row.fps[b])
  BY <1>2 DEF AllNamed
<1>4. DiskIsSound'
  <2>1. DOMAIN rows' = DOMAIN rows \cup {c} /\ rows'[c] = row
        /\ \A x \in DOMAIN rows \ {c} : rows'[x] = rows[x]
    <3>. HIDE DEF c, row
    <3>. QED BY <1>1 DEF With
  <2>. HIDE DEF c, row
  <2>. QED BY <1>1, <1>3, <2>1 DEF Sound, DiskIsSound, Names
<1>. HIDE DEF row
<1>5. CASE after = "idle"
  <2>1. ClearLocals /\ pc' = "idle" /\ after' = None
    BY <1>1, <1>5 DEF Leave
  <2>2. MemoryIsSound'
    BY <1>1 DEF Sound, MemoryIsSound, AllNamed, Names, Remembers, AreSnapshots, NoRam
  <2>. QED BY <1>1, <1>4, <2>1, <2>2, JobEnds DEF Sound, Shapes
<1>6. CASE after # "idle"
  <2>1. UNCHANGED locals /\ pc' = "run" /\ after = "run" /\ after' = None
    BY <1>1, <1>6 DEF Leave, Sound, GoesOn
  <2>2. Shapes' /\ GoesOn'
    BY <1>1, <2>1 DEF Sound, Shapes, GoesOn
  <2>. QED BY <1>1, <1>4, <2>1, <2>2, SavingKeeps
<1>. QED BY <1>5, <1>6

(* A save that fails leaves the build where it is.                         *)
LEMMA SaveFailsSteps == ASSUME Sound, SaveFails PROVE Sound'
<1>1. /\ UNCHANGED <<blobs, rows, damaged, ram>> /\ pc = "put" /\ Leave
  BY DEF SaveFails, disk
<1>2. DiskIsSound'
  BY <1>1, DiskShrinks DEF Sound
<1>3. CASE after = "idle"
  <2>1. ClearLocals /\ pc' = "idle" /\ after' = None
    BY <1>1, <1>3 DEF Leave
  <2>2. MemoryIsSound'
    BY <1>1 DEF Sound, MemoryIsSound, AllNamed, Names, Remembers, AreSnapshots, NoRam
  <2>. QED BY <1>1, <1>2, <2>1, <2>2, JobEnds DEF Sound, Shapes
<1>4. CASE after # "idle"
  <2>1. UNCHANGED locals /\ pc' = "run" /\ after = "run" /\ after' = None
    BY <1>1, <1>4 DEF Leave, Sound, GoesOn
  <2>2. Shapes' /\ GoesOn'
    BY <1>1, <2>1 DEF Sound, Shapes, GoesOn
  <2>. QED BY <1>1, <1>2, <2>1, <2>2, SavingKeeps
<1>. QED BY <1>3, <1>4

(* What a finished build leaves in memory.                                 *)
LEMMA RetainedIsSound ==
    ASSUME Sound, pc = "run", at = Len(job.doc.feats)
    PROVE  /\ AreSnapshots(Retained, job.doc, at)
           /\ \A n \in DOMAIN Retained : n <= Len(Retained) - Window => Retained[n] = None
<1>1. /\ AreSnapshots(snaps, job.doc, at) /\ at \in Nat
  BY FeatsAre DEF Sound, BuildIsSound, JobIsThere, HasJob, Building
<1>2. /\ snaps \in Seq(Snapshot) /\ Len(snaps) = at /\ DOMAIN snaps = 1..at
  BY <1>1, LenProperties DEF AreSnapshots
<1>3. None \in Snapshot
  BY DEF Snapshot
<1>4. Retained \in [1..at -> Snapshot]
  BY <1>2, <1>3 DEF Retained
<1>5. Retained \in Seq(Snapshot) /\ Len(Retained) = at
  BY <1>1, <1>4
<1>6. \A n \in 1..at : Retained[n] = IF n <= at - Window THEN None ELSE snaps[n]
  BY <1>2 DEF Retained
<1>. QED BY <1>1, <1>4, <1>5, <1>6 DEF AreSnapshots

(* The end of a build.                                                     *)
LEMMA FinishSteps == ASSUME Sound, Finish PROVE Sound'
<1>1. /\ UNCHANGED <<blobs, rows, damaged>> /\ pc = "run" /\ at = Len(job.doc.feats)
      /\ ram' = IF Readonly(job.kind) THEN ram ELSE RamAfterBuild
      /\ \/ pc' = "idle" /\ ClearLocals /\ after' = after
         \/ /\ pc' = "put" /\ after' = "idle" /\ ~Readonly(job.kind)
            /\ todo' = DOMAIN bodies /\ UNCHANGED locals
  BY DEF Finish, disk, MayPersist
<1>2. DiskIsSound'
  BY <1>1, DiskShrinks DEF Sound
<1>3. /\ job.doc \in Document /\ AllNamed(mod)
      /\ Collects(job.kind) => (emitted <=> ~Fresh(job.doc, at))
  BY <1>1 DEF Sound, JobIsThere, HasJob, Building, StampsAreSound, ReportsAreSound
<1>4. MemoryIsSound'
  <2>1. CASE Readonly(job.kind)
    BY <1>1, <2>1 DEF Sound, MemoryIsSound, AllNamed, Names, Remembers, AreSnapshots, NoRam
  <2>2. CASE ~Readonly(job.kind)
    <3>1. /\ ram'.feats = job.doc.feats /\ ram'.param = job.doc.param
          /\ ram'.snaps = Retained /\ ram'.quiet = Quiet /\ ram'.mod = mod
      BY <1>1, <2>2 DEF RamAfterBuild
    <3>2. Quiet => Fresh(job.doc, Len(job.doc.feats))
      BY <1>1, <1>3 DEF Quiet
    <3>3. /\ AreSnapshots(Retained, job.doc, Len(job.doc.feats))
          /\ \A n \in DOMAIN Retained : n <= Len(Retained) - Window => Retained[n] = None
      BY <1>1, RetainedIsSound
    <3>4. \E d \in Document : Remembers(d)'
      BY <1>3, <3>1, <3>2, <3>3 DEF Remembers, AreSnapshots, Fresh
    <3>5. AllNamed(ram'.mod)
      BY <1>3, <3>1
    <3>. QED BY <3>1, <3>3, <3>4, <3>5 DEF MemoryIsSound, AllNamed, Names
  <2>. QED BY <2>1, <2>2
<1>5. CASE pc' = "idle" /\ ClearLocals /\ after' = after
  BY <1>1, <1>2, <1>4, <1>5, JobEnds DEF Sound, Shapes
<1>6. CASE /\ pc' = "put" /\ after' = "idle" /\ ~Readonly(job.kind)
           /\ todo' = DOMAIN bodies /\ UNCHANGED locals
  <2>1. UNCHANGED <<job, at, start, missed, bodies, mod, snaps, emitted>>
    BY <1>6 DEF locals
  <2>2. BuildIsSound' /\ StampsAreSound' /\ ReportsAreSound' /\ JobIsThere' /\ StartsDeepest'
    BY <1>1, <1>6, <2>1 DEF Sound, BuildIsSound, StampsAreSound, ReportsAreSound, JobIsThere,
       HasJob, Building, AreSnapshots, AllNamed, Names, Fresh, StartsDeepest
  <2>3. Shapes' /\ GoesOn'
    BY <1>1, <1>6 DEF Sound, Shapes, GoesOn
  <2>. QED BY <1>2, <1>4, <2>2, <2>3 DEF Sound
<1>. QED BY <1>1, <1>5, <1>6
-----------------------------------------------------------------------------
(* Nothing has been built, remembered or stored.                           *)
LEMMA InitSound == Init => Sound
<1>. SUFFICES ASSUME Init PROVE Sound
  OBVIOUS
<1>1. /\ pc = "down" /\ after = None /\ job = NoJob /\ ram = NoRam /\ mod = Empty
      /\ blobs = Empty /\ rows = Empty /\ damaged = {} /\ ~emitted /\ ~missed
  BY DEF Init
<1>2. ~Building /\ ~HasJob
  BY <1>1 DEF Building, HasJob
<1>3. GoesOn /\ JobIsThere /\ BuildIsSound /\ ReportsAreSound /\ StartsDeepest /\ Shapes
  BY <1>1, <1>2 DEF GoesOn, JobIsThere, BuildIsSound, ReportsAreSound, StartsDeepest, Shapes, Empty
<1>4. StampsAreSound /\ MemoryIsSound /\ DiskIsSound
  BY <1>1, <1>2 DEF StampsAreSound, MemoryIsSound, DiskIsSound, AllNamed, Empty, NoRam
<1>. QED BY <1>3, <1>4 DEF Sound

(* The whole is inductive.                                                 *)
LEMMA SoundStep == Sound /\ [Next]_vars => Sound'
<1>1. ASSUME Sound, Next PROVE Sound'
  BY <1>1, BootSteps, EvictSteps, ComputeAllSteps, MissSteps, RestoreFailsSteps,
     RestoreSound, RunSteps, PutSteps, SaveRowSteps, SaveFailsSteps, FinishSteps,
     EndSteps, SpoilSteps DEF Next
<1>2. ASSUME Sound, UNCHANGED vars PROVE Sound'
  <2>1. UNCHANGED <<blobs, rows, damaged, ram, pc, after, todo, job, at, start, missed,
                    bodies, mod, snaps, emitted>>
    BY <1>2 DEF vars, disk, locals
  <2>2. DiskIsSound' /\ Shapes' /\ GoesOn' /\ JobIsThere' /\ BuildIsSound'
    BY <1>2, <2>1 DEF Sound, DiskIsSound, Names, Shapes, GoesOn, JobIsThere, HasJob, Building,
                BuildIsSound, AreSnapshots
  <2>3. StampsAreSound' /\ ReportsAreSound' /\ StartsDeepest'
    BY <1>2, <2>1 DEF Sound, StampsAreSound, AllNamed, Names, ReportsAreSound, Fresh, Building,
                StartsDeepest
  <2>4. MemoryIsSound'
    BY <1>2, <2>1 DEF Sound, MemoryIsSound, AllNamed, Names, Remembers, AreSnapshots, NoRam
  <2>. QED BY <2>2, <2>3, <2>4 DEF Sound
<1>. QED BY <1>1, <1>2

(* What is kept, in memory, on the disk and in the build under way, is     *)
(* what a build of the same features from nothing has, in every state.     *)
THEOREM SoundHolds == Spec => []Sound
BY InitSound, SoundStep, PTL DEF Spec

(* A blob key names one shape wherever it was stamped, so that put_blob    *)
(* may skip a file that exists.                                            *)
THEOREM KeysName == Spec => []KeysNameShapes
<1>1. Sound => KeysNameShapes
  BY DEF Sound, DiskIsSound, MemoryIsSound, StampsAreSound, AllNamed, KeysNameShapes
<1>. QED BY <1>1, SoundHolds, PTL

(* rebuild_cached returns the bodies a build of the document from nothing  *)
(* has, whatever edits, kills and damage came before.                      *)
THEOREM ResultsAreFull == Spec => []ResultIsFull
<1>1. Sound => ResultIsFull
  BY ChainEnds DEF Sound, JobIsThere, HasJob, Building, BuildIsSound, ResultIsFull, Returns
<1>. QED BY <1>1, SoundHolds, PTL

(* A build that collects projection updates reports a stale projected      *)
(* curve exactly if the document has one, resumed or not.                  *)
THEOREM ReportsAreComplete == Spec => []StaleCurvesAreReported
<1>1. ASSUME Sound, Returns, Collects(job.kind)
      PROVE  emitted <=> HasStaleCurves(job.doc)
  <2>1. /\ job.doc \in Document
        /\ emitted <=> ~Fresh(job.doc, Len(job.doc.feats))
    BY <1>1 DEF Sound, JobIsThere, HasJob, Building, ReportsAreSound, Returns
  <2>. QED BY <2>1, FeatsAre DEF Fresh, HasStaleCurves
<1>2. Sound => StaleCurvesAreReported
  BY <1>1 DEF StaleCurvesAreReported
<1>. QED BY <1>2, SoundHolds, PTL

(* A build begins no earlier than the deepest usable checkpoint.           *)
THEOREM WorkIsKept == Spec => []NoWorkIsRedone
<1>1. Sound => NoWorkIsRedone
  BY DEF Sound, StartsDeepest, Building, NoWorkIsRedone
<1>. QED BY <1>1, SoundHolds, PTL

(* Only so many snapshots stay in memory.                                  *)
LEMMA FewSnapshots ==
    ASSUME NEW s \in Seq(Snapshot),
           \A n \in DOMAIN s : n <= Len(s) - Window => s[n] = None
    PROVE  Cardinality({n \in DOMAIN s : s[n] # None}) <= Window
<1>. DEFINE X == {n \in DOMAIN s : s[n] # None}
            I == Len(s) - Window + 1 .. Len(s)
<1>1. DOMAIN s = 1..Len(s) /\ Len(s) \in Nat /\ Window \in Nat
  BY LenProperties, WindowAssumption
<1>2. X \subseteq I
  BY <1>1
<1>3. IsFiniteSet(I) /\ Cardinality(I) = Window
  <2>1. Len(s) - Window + 1 \in Int /\ Len(s) \in Int
    BY <1>1
  <2>2. IsFiniteSet(I) /\ Cardinality(I) = IF Len(s) - Window + 1 > Len(s) THEN 0
                                ELSE Len(s) - (Len(s) - Window + 1) + 1
    BY <2>1, FS_Interval
  <2>. QED BY <1>1, <2>2
<1>4. Cardinality(X) <= Cardinality(I)
  BY <1>2, <1>3, FS_Subset
<1>. QED BY <1>3, <1>4

(* Files, index, module globals and locals keep their types, and at most   *)
(* Window snapshots stay in memory.                                        *)
THEOREM Typed == Spec => []TypeOK
<1>1. ASSUME Sound PROVE TypeOK
  <2>1. /\ Len(ram.snaps) = Len(ram.feats)
        /\ ram.snaps \in Seq(Snapshot)
    <3>1. CASE ram = NoRam
      <4>1. ram.snaps = <<>> /\ ram.feats = <<>>
        BY <3>1 DEF NoRam
      <4>. QED BY <4>1
    <3>2. CASE \E d \in Document : Remembers(d)
      BY <3>2 DEF Remembers, AreSnapshots
    <3>. QED BY <1>1, <3>1, <3>2 DEF Sound, MemoryIsSound
  <2>2. Cardinality({n \in DOMAIN ram.snaps : ram.snaps[n] # None}) <= Window
    BY <1>1, <2>1, FewSnapshots DEF Sound, MemoryIsSound
  <2>3. pc \in {"down", "orphans", "idle"} => job = NoJob
    BY <1>1 DEF Sound, JobIsThere, HasJob, Building
  <2>4. pc \in {"run", "put"} => Len(snaps) = at /\ start <= at
    <3>. SUFFICES ASSUME pc \in {"run", "put"} PROVE Len(snaps) = at /\ start <= at
      OBVIOUS
    <3>1. /\ job.doc \in Document /\ at \in 0..Len(job.doc.feats) /\ start \in 0..at
          /\ Len(snaps) = at
      BY <1>1 DEF Sound, JobIsThere, HasJob, Building, BuildIsSound, AreSnapshots
    <3>. QED BY <3>1, FeatsAre
  <2>5. pc = "put" => DOMAIN mod = DOMAIN bodies
    BY <1>1 DEF Sound, JobIsThere, StampsAreSound, Building
  <2>. QED BY <1>1, <2>1, <2>2, <2>3, <2>4, <2>5 DEF Sound, DiskIsSound, Shapes, TypeOK
<1>. QED BY <1>1, SoundHolds, PTL

=============================================================================
