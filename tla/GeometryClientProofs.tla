----------------------- MODULE GeometryClientProofs -----------------------
(***************************************************************************)
(* Proofs about GeometryClient, for every set of bodies and meshes, every  *)
(* set of models the sidecar may build and every number of requests: the   *)
(* inductive invariant with what follows from it, and that a halted client *)
(* is quiet.                                                               *)
(***************************************************************************)
EXTENDS GeometryClient, FiniteSetTheorems, TLAPS

-----------------------------------------------------------------------------
(* A halted engine.                                                        *)

\* Nothing waits, nothing is queued and nothing is dialled while the engine is
\* gone: haltReconnect and what may run after it.
THEOREM HaltIsQuiet == Spec => []HaltedIsQuiet
<1>1. Init => HaltedIsQuiet
    BY DEF Init, HaltedIsQuiet
<1>2. ASSUME HaltedIsQuiet, [Next]_vars PROVE HaltedIsQuiet'
    <2>1. CASE ~halted'
        BY <2>1 DEF HaltedIsQuiet
    <2>2. CASE halted' /\ UNCHANGED vars
        BY <1>2, <2>2 DEF HaltedIsQuiet, vars
    <2>3. CASE halted' /\ Halt
        BY <2>3 DEF HaltedIsQuiet, Halt, SettleAll
    <2>4. CASE halted' /\ halted
        <3>1. /\ pending = {} /\ outbox = <<>> /\ job = Null
              /\ ~timer /\ sock = "down"
            BY <1>2, <2>4 DEF HaltedIsQuiet
        <3>2. CASE Rebuild \/ Call \/ Dial \/ Open \/ SocketCloses \/ Resume \/ Halt
            BY <2>4, <3>1, <3>2 DEF Rebuild, Call, Dial, Open, SocketCloses, Resume, Halt
        <3>3. CASE RebuildRefused
            BY <2>4, <3>1, <3>3 DEF RebuildRefused, HaltedIsQuiet, calls, link
        <3>4. CASE ComputeAll
            BY <2>4, <3>1, <3>4 DEF ComputeAll, HaltedIsQuiet, calls, link
        <3>5. ASSUME NEW id, NEW how, NEW value, NEW held, NEW lst,
                     Settle(id, how, value, held, lst)
              PROVE  pending' = {} /\ outbox' = <<>> /\ job' = Null
            BY <3>1, <3>5 DEF Settle
        <3>6. CASE Deliver
            <4>1. pending' = {} /\ outbox' = <<>> /\ job' = Null
                <5>1. CASE Reply(Head(toClient))
                    BY <3>1, <3>5, <5>1 DEF Reply, calls
                <5>2. CASE HeadFrame(Head(toClient))
                    BY <3>1, <3>5, <5>2 DEF HeadFrame, Finish, calls
                <5>3. CASE ChunkFrame(Head(toClient))
                    BY <3>1, <3>5, <5>3 DEF ChunkFrame, Finish, calls
                <5>4. QED
                    BY <3>6, <5>1, <5>2, <5>3 DEF Deliver
            <4>2. QED
                BY <3>1, <3>6, <4>1 DEF Deliver, HaltedIsQuiet, link
        <3>7. ASSUME NEW id \in Id, StreamStalls(id) PROVE HaltedIsQuiet'
            <4>1. pending' = {} /\ outbox' = <<>> /\ job' = Null
                BY <3>5, <3>7 DEF StreamStalls
            <4>2. QED
                BY <3>1, <3>7, <4>1 DEF StreamStalls, HaltedIsQuiet, link
        <3>8. CASE Serve
            BY <2>4, <3>1, <3>8 DEF Serve, HaltedIsQuiet, link
        <3>9. CASE OldSocketCloses
            BY <2>4, <3>1, <3>9 DEF OldSocketCloses, SettleAll, HaltedIsQuiet
        <3>10. QED
            BY <1>2, <2>4, <3>2, <3>3, <3>4, <3>6, <3>7, <3>8, <3>9 DEF Next, vars, HaltedIsQuiet
    <2>5. CASE halted' /\ ~halted
        BY <1>2, <2>2, <2>3, <2>5 DEF Next, Rebuild, RebuildRefused, ComputeAll, Call, Deliver,
            StreamStalls, Serve, Dial, Open, SocketCloses, OldSocketCloses, Resume, link, vars
    <2>6. QED
        BY <2>1, <2>4, <2>5
<1>3. QED
    BY <1>1, <1>2, PTL DEF Spec

-----------------------------------------------------------------------------
(* Sequences, by their indices.                                            *)

\* What is left of a queue was in it, one place further.
LEMMA TailIndex ==
    ASSUME NEW S, NEW q \in Seq(S), q # <<>>
    PROVE  /\ Tail(q) \in Seq(S)
           /\ 1 \in DOMAIN q /\ Head(q) = q[1] /\ Head(q) \in S
           /\ \A k \in DOMAIN Tail(q) : k + 1 \in DOMAIN q /\ Tail(q)[k] = q[k + 1]
           /\ \A k \in DOMAIN q : k # 1 => k - 1 \in DOMAIN Tail(q) /\ Tail(q)[k - 1] = q[k]
<1>1. Len(q) \in Nat \ {0} /\ DOMAIN q = 1 .. Len(q) /\ Len(Tail(q)) = Len(q) - 1
    OBVIOUS
<1>2. Tail(q) \in Seq(S) /\ DOMAIN Tail(q) = 1 .. Len(q) - 1
    BY <1>1
<1>3. \A k \in 1 .. Len(q) - 1 : Tail(q)[k] = q[k + 1]
    BY <1>1
<1>4. Head(q) = q[1] /\ q[1] \in S
    BY <1>1
<1> QED
    BY <1>1, <1>2, <1>3, <1>4

\* What a queue holds after an addition at its end.
LEMMA AppendIndex ==
    ASSUME NEW S, NEW q \in Seq(S), NEW x \in S
    PROVE  /\ Append(q, x) \in Seq(S)
           /\ DOMAIN Append(q, x) = 1 .. Len(q) + 1
           /\ DOMAIN q = 1 .. Len(q) /\ Len(q) \in Nat
           /\ Append(q, x)[Len(q) + 1] = x
           /\ \A k \in DOMAIN q : k \in DOMAIN Append(q, x) /\ Append(q, x)[k] = q[k]
           /\ \A k \in DOMAIN Append(q, x) : k = Len(q) + 1 \/ k \in DOMAIN q
OBVIOUS

\* What two queues hold, one behind the other.
LEMMA ConcatIndex ==
    ASSUME NEW S, NEW q \in Seq(S), NEW p \in Seq(S)
    PROVE  /\ q \o p \in Seq(S)
           /\ DOMAIN q = 1 .. Len(q) /\ Len(q) \in Nat /\ DOMAIN p = 1 .. Len(p)
           /\ \A k \in DOMAIN q : k \in DOMAIN (q \o p) /\ (q \o p)[k] = q[k]
           /\ \A k \in DOMAIN p : Len(q) + k \in DOMAIN (q \o p) /\ (q \o p)[Len(q) + k] = p[k]
           /\ \A k \in DOMAIN (q \o p) :
                 \/ k \in DOMAIN q
                 \/ k - Len(q) \in DOMAIN p /\ (q \o p)[k] = p[k - Len(q)]
<1>1. q \o p \in Seq(S) /\ DOMAIN (q \o p) = 1 .. Len(q) + Len(p)
    OBVIOUS
<1>2. Len(q) \in Nat /\ Len(p) \in Nat /\ DOMAIN q = 1 .. Len(q) /\ DOMAIN p = 1 .. Len(p)
    OBVIOUS
<1>3. \A k \in 1 .. Len(q) + Len(p) :
          (q \o p)[k] = IF k <= Len(q) THEN q[k] ELSE p[k - Len(q)]
    OBVIOUS
<1> QED
    BY <1>1, <1>2, <1>3

-----------------------------------------------------------------------------
(* Models and manifests.                                                   *)

\* A part of a model is a model.
LEMMA RestrictType ==
    ASSUME NEW m \in Model, NEW S, S \subseteq DOMAIN m
    PROVE  /\ Restrict(m, S) \in Model /\ DOMAIN Restrict(m, S) = S
           /\ \A b \in S : Restrict(m, S)[b] = m[b]
<1>1. PICK D \in SUBSET Body : m \in [D -> Etag]
    BY DEF Model
<1>2. Restrict(m, S) \in [S -> Etag] /\ S \in SUBSET Body
    BY <1>1 DEF Restrict
<1> QED
    BY <1>2 DEF Model, Restrict

\* A model laid over another one is a model.
LEMMA OverType ==
    ASSUME NEW m \in Model, NEW n \in Model
    PROVE  /\ Over(m, n) \in Model /\ DOMAIN (Over(m, n)) = DOMAIN m \cup DOMAIN n
           /\ \A b \in DOMAIN m : (Over(m, n))[b] = m[b]
           /\ \A b \in DOMAIN n \ DOMAIN m : (Over(m, n))[b] = n[b]
<1>1. PICK D \in SUBSET Body : m \in [D -> Etag]
    BY DEF Model
<1>2. PICK E \in SUBSET Body : n \in [E -> Etag]
    BY DEF Model
<1>3. Over(m, n) \in [D \cup E -> Etag] /\ D \cup E \in SUBSET Body
    BY <1>1, <1>2 DEF Over
<1>4. Over(m, n) \in Model
    BY <1>3 DEF Model
<1> QED
    BY <1>1, <1>2, <1>4 DEF Over

\* Two models with the same meshes of the same bodies are one.
LEMMA ModelEqual ==
    ASSUME NEW m \in Model, NEW n \in Model, DOMAIN m = DOMAIN n,
           \A b \in DOMAIN m : m[b] = n[b]
    PROVE  m = n
<1>1. PICK D \in SUBSET Body : m \in [D -> Etag]
    BY DEF Model
<1>2. PICK E \in SUBSET Body : n \in [E -> Etag]
    BY DEF Model
<1>3. D = E
    BY <1>1, <1>2
<1> QED
    BY <1>1, <1>2, <1>3

\* The empty model.
LEMMA NoMeshType == NoMesh \in Model /\ DOMAIN NoMesh = {}
<1>1. NoMesh \in [{} -> Etag] /\ {} \in SUBSET Body
    BY DEF NoMesh
<1> QED
    BY <1>1 DEF Model, NoMesh

LEMMA ManifestParts ==
    ASSUME NEW man \in Manifest
    PROVE  man.etags \in Model /\ man.stubs \subseteq DOMAIN man.etags
BY DEF Manifest

\* A manifest of the sidecar's.
LEMMA ManifestOfType ==
    ASSUME NEW m \in Model, NEW known \in Model
    PROVE  /\ ManifestOf(m, known) \in Manifest
           /\ ManifestOf(m, known).etags = m
           /\ known = NoMesh => ManifestOf(m, known).stubs = {}
<1>1. ManifestOf(m, known).stubs \in SUBSET DOMAIN m
    BY DEF ManifestOf
<1>2. ManifestOf(m, known) \in [etags : {m}, stubs : SUBSET DOMAIN m]
    BY <1>1 DEF ManifestOf
<1> QED
    BY <1>2, NoMeshType DEF ManifestOf, Manifest

\* The meshes of a reply in one frame over those its stubs stand for are the
\* model the reply tells of.
LEMMA BackedIsWhole ==
    ASSUME NEW man \in Manifest, NEW held \in Model, Backed(man, held)
    PROVE  /\ Full(man) \in Model
           /\ man.stubs \subseteq DOMAIN held
           /\ Over(Full(man), Restrict(held, man.stubs)) = man.etags
<1>1. man.etags \in Model /\ man.stubs \subseteq DOMAIN man.etags
    BY ManifestParts
<1>2. man.stubs \subseteq DOMAIN held /\ \A b \in man.stubs : held[b] = man.etags[b]
    BY DEF Backed
<1> DEFINE got == Over(Full(man), Restrict(held, man.stubs))
<1>3. /\ Full(man) \in Model /\ DOMAIN Full(man) = DOMAIN man.etags \ man.stubs
      /\ \A b \in DOMAIN man.etags \ man.stubs : Full(man)[b] = man.etags[b]
    BY <1>1, RestrictType DEF Full
<1>4. /\ Restrict(held, man.stubs) \in Model /\ DOMAIN Restrict(held, man.stubs) = man.stubs
      /\ \A b \in man.stubs : Restrict(held, man.stubs)[b] = held[b]
    BY <1>2, RestrictType
<1>5. /\ got \in Model /\ DOMAIN got = DOMAIN man.etags
      /\ \A b \in DOMAIN man.etags \ man.stubs : got[b] = Full(man)[b]
      /\ \A b \in man.stubs : got[b] = Restrict(held, man.stubs)[b]
    <2> DEFINE m == Full(man)
               n == Restrict(held, man.stubs)
    <2>1. /\ m \in Model /\ DOMAIN m = DOMAIN man.etags \ man.stubs
          /\ n \in Model /\ DOMAIN n = man.stubs
        BY <1>3, <1>4
    <2> HIDE DEF m, n
    <2>2. /\ Over(m, n) \in Model /\ DOMAIN Over(m, n) = DOMAIN m \cup DOMAIN n
          /\ \A b \in DOMAIN m : Over(m, n)[b] = m[b]
          /\ \A b \in DOMAIN n \ DOMAIN m : Over(m, n)[b] = n[b]
        BY <2>1, OverType
    <2>3. /\ Over(m, n) \in Model /\ DOMAIN Over(m, n) = DOMAIN man.etags
          /\ \A b \in DOMAIN man.etags \ man.stubs : Over(m, n)[b] = m[b]
          /\ \A b \in man.stubs : Over(m, n)[b] = n[b]
        BY <1>1, <2>1, <2>2
    <2> QED
        BY <2>3 DEF m, n
<1>6. \A b \in DOMAIN man.etags : got[b] = man.etags[b]
    BY <1>2, <1>3, <1>4, <1>5
<1>7. got = man.etags
    BY <1>1, <1>5, <1>6, ModelEqual
<1> QED
    BY <1>2, <1>3, <1>7

\* The meshes that are kept are meshes that were held.
LEMMA PruneType ==
    ASSUME NEW held \in Model, NEW man \in Manifest
    PROVE  Prune(held, man) \in Model
BY RestrictType DEF Prune

-----------------------------------------------------------------------------
(* The replies of the sidecar.                                             *)

\* A frame of the reply to id that the manifest announces.
FrameOf(f, id, man) ==
    /\ f \in Frame
    /\ f.id = id
    /\ f.what \in {"head", "chunk", "single", "error"}
    /\ f.what \in {"head", "single"} => f.man = man
    /\ f.what = "chunk" =>
          \A b \in DOMAIN f.bodies : b \in DOMAIN man.etags /\ f.bodies[b] = man.etags[b]

\* A stream is a head and its chunks.
LEMMA StreamOfFrames ==
    ASSUME NEW id \in Id, NEW man \in Manifest, NEW g \in Groups(DOMAIN man.etags)
    PROVE  /\ StreamOf(id, man, g) \in Seq(Frame)
           /\ Len(g) \in Nat /\ DOMAIN g = 1 .. Len(g)
           /\ Len(StreamOf(id, man, g)) = Len(g) + 1
           /\ StreamOf(id, man, g)[1].what = "head"
           /\ \A k \in 1 .. Len(g) + 1 : FrameOf(StreamOf(id, man, g)[k], id, man)
<1>1. man.etags \in Model /\ man.stubs \subseteq DOMAIN man.etags
    BY ManifestParts
<1>2. PICK n \in Nat : g \in [1 .. n -> SUBSET DOMAIN man.etags]
    BY DEF Groups
<1>3. Len(g) = n /\ DOMAIN g = 1 .. n
    BY <1>2
<1> DEFINE head == [what |-> "head", id |-> id, man |-> man, final |-> g = <<>>]
           chunk(i) == [what |-> "chunk", id |-> id, seq |-> i, final |-> i = Len(g),
                        bodies |-> Restrict(man.etags, g[i] \ man.stubs)]
           chunks == [i \in DOMAIN g |-> chunk(i)]
<1>4. head \in Frame /\ FrameOf(head, id, man)
    BY DEF Frame, FrameOf
<1>5. ASSUME NEW i \in 1 .. n PROVE chunk(i) \in Frame /\ FrameOf(chunk(i), id, man)
    <2>1. g[i] \ man.stubs \subseteq DOMAIN man.etags
        BY <1>2
    <2>2. /\ Restrict(man.etags, g[i] \ man.stubs) \in Model
          /\ DOMAIN Restrict(man.etags, g[i] \ man.stubs) = g[i] \ man.stubs
          /\ \A b \in g[i] \ man.stubs : Restrict(man.etags, g[i] \ man.stubs)[b] = man.etags[b]
        BY <1>1, <2>1, RestrictType
    <2>3. chunk(i) \in [what : {"chunk"}, id : Id, seq : Nat, bodies : Model, final : BOOLEAN]
        BY <1>2, <2>2
    <2>4. chunk(i) \in Frame
        BY <2>3 DEF Frame
    <2> QED
        BY <2>1, <2>2, <2>4 DEF FrameOf
<1> HIDE DEF head, chunk
<1>6. chunks \in Seq(Frame) /\ Len(chunks) = n /\ \A i \in 1 .. n : chunks[i] = chunk(i)
    <2>1. chunks \in [1 .. n -> Frame]
        BY <1>3, <1>5
    <2> QED
        BY <1>2, <1>3, <2>1
<1>7. StreamOf(id, man, g) = <<head>> \o chunks
    BY DEF StreamOf, head, chunk
<1> HIDE DEF chunks
<1>8. /\ <<head>> \o chunks \in Seq(Frame)
      /\ Len(<<head>> \o chunks) = n + 1
      /\ (<<head>> \o chunks)[1] = head
      /\ \A k \in 2 .. n + 1 : (<<head>> \o chunks)[k] = chunks[k - 1]
    BY <1>2, <1>4, <1>6
<1>9. \A k \in 1 .. n + 1 : FrameOf((<<head>> \o chunks)[k], id, man)
    <2> TAKE k \in 1 .. n + 1
    <2>1. CASE k = 1
        BY <1>4, <1>8, <2>1
    <2>2. CASE k # 1
        <3>1. k \in 2 .. n + 1 /\ k - 1 \in 1 .. n
            BY <1>2, <2>2
        <3> QED
            BY <1>5, <1>6, <1>8, <3>1
    <2> QED
        BY <2>1, <2>2
<1>10. head.what = "head"
    BY DEF head
<1>11. /\ StreamOf(id, man, g) \in Seq(Frame)
       /\ Len(StreamOf(id, man, g)) = n + 1
       /\ StreamOf(id, man, g)[1] = head
    BY <1>7, <1>8
<1>12. \A k \in 1 .. n + 1 : FrameOf(StreamOf(id, man, g)[k], id, man)
    BY <1>7, <1>9
<1> QED
    BY <1>3, <1>10, <1>11, <1>12

\* Whatever the sidecar answers, its frames tell of what the manifest announces,
\* and one of them is more than the end of a stream.
LEMMA RepliesFrames ==
    ASSUME NEW id \in Id, NEW man \in Manifest, NEW frames \in Replies(id, man)
    PROVE  /\ frames \in Seq(Frame)
           /\ \A k \in DOMAIN frames : FrameOf(frames[k], id, man)
           /\ \E k \in DOMAIN frames : frames[k].what # "chunk"
<1> DEFINE S == DOMAIN man.etags
           error == [what |-> "error", id |-> id]
           single == [what |-> "single", id |-> id, man |-> man]
<1>1. FrameOf(error, id, man) /\ FrameOf(single, id, man)
    BY DEF FrameOf, Frame
<1>2. ASSUME NEW g \in Groups(S), frames = StreamOf(id, man, g)
      PROVE  /\ frames \in Seq(Frame)
             /\ \A k \in DOMAIN frames : FrameOf(frames[k], id, man)
             /\ \E k \in DOMAIN frames : frames[k].what # "chunk"
    <2>1. /\ frames \in Seq(Frame) /\ Len(g) \in Nat /\ Len(frames) = Len(g) + 1
          /\ frames[1].what = "head"
          /\ \A k \in 1 .. Len(g) + 1 : FrameOf(frames[k], id, man)
        BY <1>2, StreamOfFrames
    <2>2. DOMAIN frames = 1 .. Len(g) + 1 /\ 1 \in DOMAIN frames
        BY <2>1
    <2> QED
        BY <2>1, <2>2
<1>3. ASSUME NEW g \in Groups(S), NEW n \in 0 .. Len(g), NEW tail \in {error, single},
             frames = Append(SubSeq(StreamOf(id, man, g), 1, n), tail)
      PROVE  /\ frames \in Seq(Frame)
             /\ \A k \in DOMAIN frames : FrameOf(frames[k], id, man)
             /\ \E k \in DOMAIN frames : frames[k].what # "chunk"
    <2> DEFINE s == StreamOf(id, man, g)
    <2>1. /\ s \in Seq(Frame) /\ Len(g) \in Nat /\ Len(s) = Len(g) + 1
          /\ \A k \in 1 .. Len(g) + 1 : FrameOf(s[k], id, man)
        BY StreamOfFrames
    <2>2. FrameOf(tail, id, man) /\ tail \in Frame /\ tail.what # "chunk"
        BY <1>1 DEF FrameOf
    <2> HIDE DEF s, error, single
    <2>3. /\ SubSeq(s, 1, n) \in Seq(Frame) /\ Len(SubSeq(s, 1, n)) = n
          /\ \A k \in 1 .. n : SubSeq(s, 1, n)[k] = s[k]
        BY <2>1
    <2>4. /\ frames \in Seq(Frame) /\ DOMAIN frames = 1 .. n + 1
          /\ frames[n + 1] = tail
          /\ \A k \in 1 .. n : frames[k] = s[k]
        BY <1>3, <2>1, <2>2, <2>3 DEF s
    <2>5. \A k \in DOMAIN frames : FrameOf(frames[k], id, man)
        <3> TAKE k \in DOMAIN frames
        <3>1. CASE k = n + 1
            BY <2>2, <2>4, <3>1
        <3>2. CASE k # n + 1
            BY <2>1, <2>4, <3>2
        <3> QED
            BY <3>1, <3>2
    <2>6. n + 1 \in DOMAIN frames
        BY <2>1, <2>4
    <2> QED
        BY <2>2, <2>4, <2>5, <2>6
<1>4. ASSUME NEW g \in Groups(S), NEW i \in DOMAIN g,
             frames = RemoveAt(StreamOf(id, man, g), i + 1)
      PROVE  /\ frames \in Seq(Frame)
             /\ \A k \in DOMAIN frames : FrameOf(frames[k], id, man)
             /\ \E k \in DOMAIN frames : frames[k].what # "chunk"
    <2> DEFINE s == StreamOf(id, man, g)
    <2>1. /\ s \in Seq(Frame) /\ Len(g) \in Nat /\ Len(s) = Len(g) + 1
          /\ i \in 1 .. Len(g) /\ s[1].what = "head"
          /\ \A k \in 1 .. Len(g) + 1 : FrameOf(s[k], id, man)
        BY StreamOfFrames
    <2>2. frames = SubSeq(s, 1, i) \o SubSeq(s, i + 2, Len(s))
        <3>1. frames = SubSeq(s, 1, (i + 1) - 1) \o SubSeq(s, (i + 1) + 1, Len(s))
            BY <1>4 DEF RemoveAt
        <3>2. (i + 1) - 1 = i /\ (i + 1) + 1 = i + 2
            BY <2>1
        <3> HIDE DEF s
        <3> QED
            BY <3>1, <3>2
    <2> HIDE DEF s
    <2>3. /\ SubSeq(s, 1, i) \in Seq(Frame) /\ Len(SubSeq(s, 1, i)) = i
          /\ \A k \in 1 .. i : SubSeq(s, 1, i)[k] = s[k]
        BY <2>1
    <2>4. /\ SubSeq(s, i + 2, Len(s)) \in Seq(Frame)
          /\ Len(SubSeq(s, i + 2, Len(s))) = Len(g) - i
          /\ \A k \in 1 .. Len(g) - i : SubSeq(s, i + 2, Len(s))[k] = s[i + 1 + k]
        BY <2>1
    <2>5. /\ frames \in Seq(Frame) /\ DOMAIN frames = 1 .. Len(g)
          /\ \A k \in 1 .. i : frames[k] = s[k]
          /\ \A k \in i + 1 .. Len(g) : frames[k] = s[k + 1]
        <3> DEFINE a == SubSeq(s, 1, i)
                   b == SubSeq(s, i + 2, Len(s))
        <3>1. /\ a \in Seq(Frame) /\ Len(a) = i /\ \A k \in 1 .. i : a[k] = s[k]
              /\ b \in Seq(Frame) /\ Len(b) = Len(g) - i
              /\ \A k \in 1 .. Len(g) - i : b[k] = s[i + 1 + k]
              /\ frames = a \o b
            BY <2>2, <2>3, <2>4
        <3> HIDE DEF a, b
        <3>2. /\ frames \in Seq(Frame) /\ DOMAIN frames = 1 .. Len(g)
              /\ \A k \in 1 .. i : frames[k] = a[k]
              /\ \A k \in i + 1 .. Len(g) : frames[k] = b[k - i]
            BY <2>1, <3>1
        <3>3. \A k \in i + 1 .. Len(g) : k - i \in 1 .. Len(g) - i /\ i + 1 + (k - i) = k + 1
            <4> TAKE k \in i + 1 .. Len(g)
            <4>1. i \in Nat /\ Len(g) \in Nat /\ k \in Nat /\ i + 1 <= k /\ k <= Len(g)
                BY <2>1
            <4> QED
                BY <4>1
        <3>4. \A k \in i + 1 .. Len(g) : frames[k] = s[k + 1]
            BY <3>1, <3>2, <3>3
        <3> QED
            BY <3>1, <3>2, <3>4
    <2>6. \A k \in DOMAIN frames : FrameOf(frames[k], id, man)
        <3> TAKE k \in DOMAIN frames
        <3>1. CASE k <= i
            BY <2>1, <2>5, <3>1
        <3>2. CASE k > i
            BY <2>1, <2>5, <3>2
        <3> QED
            BY <2>1, <2>5, <3>1, <3>2
    <2>7. 1 \in DOMAIN frames /\ frames[1] = s[1]
        BY <2>1, <2>5
    <2> QED
        BY <2>1, <2>5, <2>6, <2>7
<1>5. \/ \E g \in Groups(S) : frames = StreamOf(id, man, g)
      \/ \E g \in Groups(S) : \E n \in 0 .. Len(g) : \E tail \in {error, single} :
            frames = Append(SubSeq(StreamOf(id, man, g), 1, n), tail)
      \/ \E g \in Groups(S) : \E i \in DOMAIN g : frames = RemoveAt(StreamOf(id, man, g), i + 1)
    <2> DEFINE cut(g) == {SubSeq(StreamOf(id, man, g), 1, n) : n \in 0 .. Len(g)}
               gap(g) == {RemoveAt(StreamOf(id, man, g), i + 1) : i \in DOMAIN g}
               cuts == UNION {cut(g) : g \in Groups(S)}
               whole == {StreamOf(id, man, g) : g \in Groups(S)}
               ended == {Append(c, tail) : c \in cuts, tail \in {error, single}}
               holed == UNION {gap(g) : g \in Groups(S)}
    <2>1. frames \in whole \/ frames \in ended \/ frames \in holed
        BY DEF Replies
    <2>2. CASE frames \in whole
        BY <2>2
    <2>3. CASE frames \in ended
        <3>1. PICK c \in cuts, tail \in {error, single} : frames = Append(c, tail)
            BY <2>3
        <3>2. PICK g \in Groups(S) : c \in cut(g)
            BY <3>1
        <3>3. PICK n \in 0 .. Len(g) : c = SubSeq(StreamOf(id, man, g), 1, n)
            BY <3>2
        <3> HIDE DEF error, single
        <3>4. \E k \in 0 .. Len(g) : \E e \in {error, single} :
                frames = Append(SubSeq(StreamOf(id, man, g), 1, k), e)
            BY <3>1, <3>3
        <3> QED
            BY <3>2, <3>4
    <2>4. CASE frames \in holed
        <3>1. PICK g \in Groups(S) : frames \in gap(g)
            BY <2>4
        <3>2. PICK i \in DOMAIN g : frames = RemoveAt(StreamOf(id, man, g), i + 1)
            BY <3>1
        <3> QED
            BY <3>2
    <2> HIDE DEF whole, ended, holed
    <2> QED
        BY <2>1, <2>2, <2>3, <2>4
<1> QED
    BY <1>2, <1>3, <1>4, <1>5

-----------------------------------------------------------------------------
(* Ids.                                                                    *)

\* While there is a free id, the one that is taken is free.
LEMMA FreshIsFree ==
    ASSUME FreeIds # {}
    PROVE  /\ FreshId \in Id
           /\ FreshId \notin pending \cup Ids(outbox) \cup Ids(toServer) \cup Ids(toClient)
           /\ streams[FreshId] = Null
<1>1. FreshId \in FreeIds
    BY DEF FreshId
<1> QED
    BY <1>1 DEF FreeIds

\* A call leaves an id for the rebuild under way.
LEMMA CallLeavesAnId ==
    ASSUME CanCall
    PROVE  FreeIds # {} /\ FreeIds \ {FreshId} # {}
<1>1. IsFiniteSet(FreeIds)
    <2>1. IsFiniteSet(Id)
        BY FS_Interval, IdsAssumption DEF Id
    <2> QED
        BY <2>1, FS_Subset DEF FreeIds
<1>2. FreeIds # {}
    BY FS_EmptySet DEF CanCall
<1>3. FreshId \in FreeIds
    BY <1>2 DEF FreshId
<1>4. Cardinality(FreeIds \ {FreshId}) = Cardinality(FreeIds) - 1
    BY <1>1, <1>3, FS_RemoveElement
<1>5. Cardinality(FreeIds) \in Nat
    BY <1>1, FS_CardinalityType
<1>6. ASSUME FreeIds \ {FreshId} = {} PROVE FALSE
    <2>1. Cardinality(FreeIds \ {FreshId}) = 0
        BY <1>6, FS_EmptySet
    <2> QED
        BY <1>4, <1>5, <2>1 DEF CanCall
<1> QED
    BY <1>2, <1>6

-----------------------------------------------------------------------------
(* What settling a call does.                                              *)

Assembly == [sig : Model, mesh : Model] \cup {Null}

\* The call of id, if it waits, is that of the rebuild under way.
IsJob(id) == job # Null /\ job.id = id

\* Another call was settled.
OtherSettled(id) ==
    /\ ~IsJob(id)
    /\ pending' = pending \ {id}
    /\ UNCHANGED <<toServer, job, result, built>>

\* The rebuild ended, with a sound result.
JobEnded(id) ==
    /\ IsJob(id)
    /\ pending' = pending \ {id}
    /\ job' = Null
    /\ built' = [built EXCEPT ![id] = Null]
    /\ result' \in Answer /\ NoSplice' /\ OneRepeatSuffices'
    /\ UNCHANGED toServer

\* The rebuild goes on with a full request.
JobRepeated(id) ==
    /\ IsJob(id)
    /\ FreeIds # {}
    /\ pending' = (pending \ {id}) \cup {FreshId}
    /\ toServer' = Append(toServer, FullRequest(FreshId))
    /\ job' \in {[id |-> FreshId, phase |-> p] : p \in {"again", "refill"}}
    /\ built' = [built EXCEPT ![id] = Null]
    /\ UNCHANGED result

Settled(id) ==
    /\ OtherSettled(id) \/ JobEnded(id) \/ JobRepeated(id)
    /\ outbox' = outbox
    /\ bodyMesh' \in Model
    /\ last' \in Assembly
    /\ LastIsWhole'
    /\ synced' \in BOOLEAN

\* What the rebuild may be told.
Told(id, how, value) ==
    IsJob(id) =>
        /\ how = "model" => value \in Model /\ value = built[id]
        /\ how = "single" => /\ value \in Manifest
                             /\ value.etags = built[id]
                             /\ job.phase # "first" => value.stubs = {}
        /\ how = "resync" => job.phase = "first"

\* A failure is a sound result, and so is the model that was built.
LEMMA ReturnIsSound ==
    ASSUME IInv, NEW id \in Id, IsJob(id), NEW answer, Return(answer),
           \/ answer = Failed("error")
           \/ \E m \in Model : m = built[id] /\ answer = Assembled(m)
    PROVE  JobEnded(id) /\ outbox' = outbox
<1>1. pending' = pending \ {id} /\ job' = Null /\ result' = answer
      /\ built' = [built EXCEPT ![id] = Null] /\ outbox' = outbox /\ toServer' = toServer
    BY DEF Return, IsJob
<1>2. CASE answer = Failed("error")
    <2>1. answer \in Answer /\ answer.how = "error"
        BY <1>2, NoMeshType DEF Failed, Answer
    <2> QED
        BY <1>1, <2>1 DEF JobEnded, NoSplice, OneRepeatSuffices
<1>3. ASSUME NEW m \in Model, m = built[id], answer = Assembled(m)
      PROVE  JobEnded(id) /\ outbox' = outbox
    <2>1. answer = [how |-> "model", model |-> m, truth |-> m]
        BY <1>3 DEF Assembled, IsJob
    <2>2. answer \in Answer /\ answer.how = "model" /\ answer.model = answer.truth
        BY <2>1 DEF Answer
    <2> QED
        BY <1>1, <2>2 DEF JobEnded, NoSplice, OneRepeatSuffices
<1> QED
    BY <1>2, <1>3

\* A rebuild that may repeat its request ends or repeats it.
LEMMA RepeatIsSound ==
    ASSUME IInv, NEW id \in Id, IsJob(id), job.phase = "first",
           NEW phase \in {"again", "refill"}, Repeat(phase)
    PROVE  (JobEnded(id) \/ JobRepeated(id)) /\ outbox' = outbox
<1>1. CASE Return(Failed("error"))
    BY <1>1, ReturnIsSound
<1>2. CASE ~Return(Failed("error"))
    <2>1. FreeIds # {}
        BY DEF IInv, RepeatHasId, IsJob
    <2>2. /\ pending' = (pending \ {job.id}) \cup {FreshId}
          /\ toServer' = Append(toServer, FullRequest(FreshId))
          /\ job' = [id |-> FreshId, phase |-> phase]
          /\ built' = [built EXCEPT ![job.id] = Null]
          /\ outbox' = outbox /\ result' = result
        BY <1>2 DEF Repeat, FullRequest
    <2> QED
        BY <2>1, <2>2 DEF JobRepeated, IsJob
<1> QED
    BY <1>1, <1>2

\* A reply in one frame leaves the rebuild with the model it tells of, or with a
\* repeated request.
LEMMA AssembleIsSound ==
    ASSUME IInv, NEW id \in Id, IsJob(id), NEW man \in Manifest, man.etags = built[id],
           job.phase # "first" => man.stubs = {},
           NEW held \in Model, NEW lst \in Assembly, lst # Null => lst.mesh = lst.sig,
           Assemble(man, held, lst)
    PROVE  /\ (JobEnded(id) \/ JobRepeated(id)) /\ outbox' = outbox
           /\ bodyMesh' \in Model /\ last' \in Assembly /\ LastIsWhole'
<1>1. man.etags \in Model
    BY ManifestParts
<1>2. CASE ~Backed(man, held)
    <2>1. job.phase = "first"
        BY <1>2 DEF Backed
    <2>2. bodyMesh' = NoMesh /\ last' = Null /\ Repeat("refill")
        BY <1>2 DEF Assemble
    <2>3. (JobEnded(id) \/ JobRepeated(id)) /\ outbox' = outbox
        BY <2>1, <2>2, RepeatIsSound
    <2> QED
        BY <2>2, <2>3, NoMeshType DEF Assembly, LastIsWhole
<1>3. CASE Backed(man, held) /\ IsNoop(man, lst)
    <2>1. bodyMesh' = held /\ last' = lst /\ Return(Assembled(lst.mesh))
        BY <1>3 DEF Assemble
    <2>2. lst # Null /\ lst.sig = man.etags
        BY <1>3 DEF IsNoop
    <2>3. lst.mesh = man.etags
        BY <2>2
    <2>4. JobEnded(id) /\ outbox' = outbox
        BY <1>1, <2>1, <2>3, ReturnIsSound
    <2> QED
        BY <2>1, <2>4 DEF LastIsWhole
<1>4. CASE Backed(man, held) /\ ~IsNoop(man, lst)
    <2> DEFINE got == Over(Full(man), Restrict(held, man.stubs))
    <2>1. /\ bodyMesh' = Prune(Over(Full(man), held), man)
          /\ last' = [sig |-> man.etags, mesh |-> got]
          /\ Return(Assembled(got))
        BY <1>4 DEF Assemble
    <2>2. Full(man) \in Model /\ got = man.etags
        BY <1>4, BackedIsWhole
    <2>3. bodyMesh' \in Model
        BY <2>1, <2>2, OverType, PruneType
    <2>4. last' \in Assembly /\ LastIsWhole'
        BY <1>1, <2>1, <2>2 DEF Assembly, LastIsWhole
    <2>5. JobEnded(id) /\ outbox' = outbox
        BY <1>1, <2>1, <2>2, ReturnIsSound
    <2> QED
        BY <2>3, <2>4, <2>5
<1> QED
    BY <1>2, <1>3, <1>4

\* Settling a call has one of the three effects.
LEMMA SettleIsSound ==
    ASSUME IInv, NEW id \in Id, NEW how \in {"error", "done", "resync", "model", "single"},
           NEW value, NEW held \in Model, NEW lst \in Assembly, lst # Null => lst.mesh = lst.sig,
           Told(id, how, value), Settle(id, how, value, held, lst)
    PROVE  Settled(id)
<1>0. synced \in BOOLEAN
    BY DEF IInv, TypeOK
<1>1. CASE ~IsJob(id)
    <2>1. /\ pending' = pending \ {id} /\ bodyMesh' = held /\ last' = lst
          /\ UNCHANGED <<outbox, toServer, synced, job, result, built>>
        BY <1>1 DEF Settle, IsJob
    <2> QED
        BY <1>0, <1>1, <2>1 DEF Settled, OtherSettled, LastIsWhole
<1>2. CASE IsJob(id)
    <2>0. GoOn(how, value, held, lst)
        BY <1>2 DEF Settle, IsJob
    <2>1. CASE how \in {"error", "done"}
        <3>1. Return(Failed("error")) /\ bodyMesh' = held /\ last' = lst /\ synced' = synced
            BY <2>0, <2>1 DEF GoOn
        <3>2. JobEnded(id) /\ outbox' = outbox
            BY <1>2, <3>1, ReturnIsSound
        <3> QED
            BY <1>0, <3>1, <3>2 DEF Settled, LastIsWhole
    <2>2. CASE how = "resync"
        <3>1. job.phase = "first"
            BY <1>2, <2>2 DEF Told
        <3>2. bodyMesh' = NoMesh /\ last' = lst /\ synced' = FALSE /\ Repeat("again")
            BY <2>0, <2>2, <3>1 DEF GoOn
        <3>3. (JobEnded(id) \/ JobRepeated(id)) /\ outbox' = outbox
            BY <1>2, <3>1, <3>2, RepeatIsSound
        <3> QED
            BY <3>2, <3>3, NoMeshType DEF Settled, LastIsWhole
    <2>3. CASE how = "model"
        <3>1. /\ synced' = (synced \/ Incremental) /\ Return(Assembled(value))
              /\ bodyMesh' = held /\ last' = lst
            BY <2>0, <2>3 DEF GoOn
        <3>2. value \in Model /\ value = built[id]
            BY <1>2, <2>3 DEF Told
        <3>3. JobEnded(id) /\ outbox' = outbox
            BY <1>2, <3>1, <3>2, ReturnIsSound
        <3>4. synced' \in BOOLEAN
            BY <1>0, <3>1 DEF Incremental
        <3> QED
            BY <3>1, <3>3, <3>4 DEF Settled, LastIsWhole
    <2>4. CASE how = "single"
        <3>1. synced' = (synced \/ Incremental) /\ Assemble(value, held, lst)
            BY <2>0, <2>4 DEF GoOn
        <3>2. /\ value \in Manifest /\ value.etags = built[id]
              /\ job.phase # "first" => value.stubs = {}
            BY <1>2, <2>4 DEF Told
        <3>3. /\ (JobEnded(id) \/ JobRepeated(id)) /\ outbox' = outbox
              /\ bodyMesh' \in Model /\ last' \in Assembly /\ LastIsWhole'
            BY <1>2, <3>1, <3>2, AssembleIsSound
        <3>4. synced' \in BOOLEAN
            BY <1>0, <3>1 DEF Incremental
        <3> QED
            BY <3>3, <3>4 DEF Settled
    <2> QED
        BY <2>1, <2>2, <2>3, <2>4
<1> QED
    BY <1>1, <1>2

-----------------------------------------------------------------------------
(* Steps that settle a call or take a frame.                               *)

\* The wire is as before, or a frame of id was taken from it.
Taken(id) ==
    \/ toClient' = toClient
    \/ toClient # <<>> /\ Head(toClient).id = id /\ toClient' = Tail(toClient)

\* Of the frames on the wire only one of id may be gone.
LEMMA TakenFrames ==
    ASSUME IInv, NEW id, Taken(id)
    PROVE  /\ toClient' \in Seq(Frame)
           /\ \A k \in DOMAIN toClient' : \E n \in DOMAIN toClient : toClient'[k] = toClient[n]
           /\ \A n \in DOMAIN toClient : toClient[n].id # id =>
                 \E k \in DOMAIN toClient' : toClient'[k] = toClient[n]
           /\ Ids(toClient') \subseteq Ids(toClient)
<1>1. toClient \in Seq(Frame)
    BY DEF IInv, TypeOK
<1>2. /\ toClient' \in Seq(Frame)
      /\ \A k \in DOMAIN toClient' : \E n \in DOMAIN toClient : toClient'[k] = toClient[n]
      /\ \A n \in DOMAIN toClient : toClient[n].id # id =>
            \E k \in DOMAIN toClient' : toClient'[k] = toClient[n]
    <2>1. CASE toClient' = toClient
        BY <1>1, <2>1
    <2>2. CASE toClient # <<>> /\ Head(toClient).id = id /\ toClient' = Tail(toClient)
        <3>1. /\ Tail(toClient) \in Seq(Frame) /\ Head(toClient) = toClient[1]
              /\ \A k \in DOMAIN Tail(toClient) :
                    k + 1 \in DOMAIN toClient /\ Tail(toClient)[k] = toClient[k + 1]
              /\ \A k \in DOMAIN toClient : k # 1 =>
                    k - 1 \in DOMAIN Tail(toClient) /\ Tail(toClient)[k - 1] = toClient[k]
            BY <1>1, <2>2, TailIndex
        <3> QED
            BY <2>2, <3>1
    <2> QED
        BY <2>1, <2>2 DEF Taken
<1>3. Ids(toClient') \subseteq Ids(toClient)
    BY <1>2 DEF Ids
<1> QED
    BY <1>2, <1>3

\* Ids of a queue with one more request.
LEMMA AppendIds ==
    ASSUME NEW q \in Seq(Request), NEW r \in Request
    PROVE  Ids(Append(q, r)) = Ids(q) \cup {r.id}
<1>1. /\ DOMAIN Append(q, r) = 1 .. Len(q) + 1
      /\ DOMAIN q = 1 .. Len(q) /\ Len(q) \in Nat
      /\ Append(q, r)[Len(q) + 1] = r
      /\ \A k \in DOMAIN q : k \in DOMAIN Append(q, r) /\ Append(q, r)[k] = q[k]
      /\ \A k \in DOMAIN Append(q, r) : k = Len(q) + 1 \/ k \in DOMAIN q
    BY AppendIndex
<1>2. ASSUME NEW i \in Ids(Append(q, r)) PROVE i \in Ids(q) \cup {r.id}
    <2>1. PICK k \in DOMAIN Append(q, r) : i = Append(q, r)[k].id
        BY DEF Ids
    <2> QED
        BY <1>1, <2>1 DEF Ids
<1>3. ASSUME NEW i \in Ids(q) PROVE i \in Ids(Append(q, r))
    <2>1. PICK k \in DOMAIN q : i = q[k].id
        BY DEF Ids
    <2> QED
        BY <1>1, <2>1 DEF Ids
<1>4. Len(q) + 1 \in DOMAIN Append(q, r)
    BY <1>1
<1>5. r.id \in Ids(Append(q, r))
    BY <1>1, <1>4 DEF Ids
<1> QED
    BY <1>2, <1>3, <1>5

\* A call is settled and the stream of its id goes: the invariant holds on.
LEMMA SettleStep ==
    ASSUME IInv, NEW id \in Id, Settled(id), Taken(id),
           streams' = [streams EXCEPT ![id] = Null], UNCHANGED link,
           sock = "open" \/ UNCHANGED <<toServer, toClient>>
    PROVE  IInv'
<1> DEFINE fresh == FreshId
           request == FullRequest(fresh)
<1>1. TypeOK
    BY DEF IInv
<1>2. /\ toClient' \in Seq(Frame)
      /\ \A k \in DOMAIN toClient' : \E n \in DOMAIN toClient : toClient'[k] = toClient[n]
      /\ \A n \in DOMAIN toClient : toClient[n].id # id =>
            \E k \in DOMAIN toClient' : toClient'[k] = toClient[n]
      /\ Ids(toClient') \subseteq Ids(toClient)
    BY TakenFrames
<1>3. /\ streams' \in [Id -> Stream \cup {Null}] /\ streams'[id] = Null
      /\ \A i \in Id : i # id => streams'[i] = streams[i]
    BY <1>1 DEF TypeOK
<1>4. ASSUME JobRepeated(id)
      PROVE  /\ fresh \in Id /\ fresh # id /\ request \in Request
             /\ fresh \notin pending \cup Ids(outbox) \cup Ids(toServer) \cup Ids(toClient)
             /\ streams[fresh] = Null /\ built[fresh] = Null
             /\ toServer' = Append(toServer, request)
             /\ request.id = fresh /\ ~request.delta /\ request.known = NoMesh
             /\ job' # Null /\ job'.id = fresh /\ job'.phase # "first"
             /\ job' \in Job
    <2>1. /\ fresh \in Id /\ streams[fresh] = Null
          /\ fresh \notin pending \cup Ids(outbox) \cup Ids(toServer) \cup Ids(toClient)
        BY <1>4, FreshIsFree DEF JobRepeated
    <2>2. id \in pending
        BY <1>4 DEF IInv, RebuildIsAwaited, JobRepeated, IsJob
    <2>3. request \in Request /\ request.id = fresh /\ ~request.delta /\ request.known = NoMesh
        BY <2>1, NoMeshType DEF FullRequest, Request
    <2>4. built[fresh] = Null
        BY <1>4, <2>1, <2>2 DEF IInv, JobIsTheRebuild, JobRepeated, IsJob
    <2>5. job' \in Job /\ job'.id = fresh /\ job'.phase # "first"
        BY <1>4, <2>1 DEF JobRepeated, Job
    <2>6. job' # Null
        BY <2>5, NullAssumption
    <2> QED
        BY <1>4, <2>1, <2>2, <2>3, <2>4, <2>5, <2>6 DEF JobRepeated
<1> HIDE DEF fresh, request
<1>5. /\ outbox' = outbox /\ outbox \in Seq(Request) /\ toServer \in Seq(Request)
      /\ OtherSettled(id) \/ JobEnded(id) \/ JobRepeated(id)
    BY <1>1 DEF Settled, TypeOK
<1>6. ASSUME JobRepeated(id)
      PROVE  /\ toServer' \in Seq(Request)
             /\ DOMAIN toServer' = 1 .. Len(toServer) + 1 /\ Len(toServer) \in Nat
             /\ DOMAIN toServer = 1 .. Len(toServer)
             /\ toServer'[Len(toServer) + 1] = request
             /\ \A k \in DOMAIN toServer : toServer'[k] = toServer[k]
             /\ \A k \in DOMAIN toServer' : k = Len(toServer) + 1 \/ k \in DOMAIN toServer
             /\ Ids(toServer') = Ids(toServer) \cup {fresh}
    <2>1. request \in Request /\ toServer' = Append(toServer, request) /\ request.id = fresh
        BY <1>4, <1>6
    <2>2. /\ Append(toServer, request) \in Seq(Request)
          /\ DOMAIN Append(toServer, request) = 1 .. Len(toServer) + 1
          /\ DOMAIN toServer = 1 .. Len(toServer) /\ Len(toServer) \in Nat
          /\ Append(toServer, request)[Len(toServer) + 1] = request
          /\ \A k \in DOMAIN toServer : /\ k \in DOMAIN Append(toServer, request)
                                        /\ Append(toServer, request)[k] = toServer[k]
          /\ \A k \in DOMAIN Append(toServer, request) :
                k = Len(toServer) + 1 \/ k \in DOMAIN toServer
        BY <1>5, <2>1, AppendIndex
    <2>3. Ids(toServer') = Ids(toServer) \cup {fresh}
        BY <1>5, <2>1, AppendIds
    <2> QED
        BY <2>1, <2>2, <2>3
<1>7. TypeOK'
    <2>1. /\ pending' \subseteq Id /\ toServer' \in Seq(Request) /\ job' \in Job \cup {Null}
          /\ result' \in Answer \cup {Null} /\ built' \in [Id -> Model \cup {Null}]
        <3>1. CASE OtherSettled(id)
            BY <1>1, <3>1 DEF OtherSettled, TypeOK
        <3>2. CASE JobEnded(id)
            BY <1>1, <3>2 DEF JobEnded, TypeOK
        <3>3. CASE JobRepeated(id)
            <4>1. pending' \subseteq Id
                BY <1>1, <1>4, <3>3 DEF JobRepeated, TypeOK, fresh
            <4>2. built' \in [Id -> Model \cup {Null}] /\ result' \in Answer \cup {Null}
                BY <1>1, <3>3 DEF JobRepeated, TypeOK
            <4> QED
                BY <1>4, <1>6, <3>3, <4>1, <4>2
        <3> QED
            BY <1>5, <3>1, <3>2, <3>3
    <2>2. bodyMesh' \in Model /\ last' \in Assembly /\ synced' \in BOOLEAN
        BY DEF Settled
    <2> QED
        BY <1>1, <1>2, <1>3, <1>5, <2>1, <2>2 DEF TypeOK, link, Assembly
<1>8. RebuildIsAwaited'
    <2>1. CASE OtherSettled(id)
        BY <2>1 DEF OtherSettled, IInv, RebuildIsAwaited, IsJob
    <2>2. CASE JobEnded(id)
        BY <2>2 DEF JobEnded, RebuildIsAwaited
    <2>3. CASE JobRepeated(id)
        BY <1>4, <2>3 DEF JobRepeated, RebuildIsAwaited, fresh
    <2> QED
        BY <1>5, <2>1, <2>2, <2>3
<1>9. CallIsSomewhere'
    <2> SUFFICES ASSUME NEW i \in pending'
                 PROVE  \/ i \in Ids(outbox') \cup Ids(toServer')
                        \/ \E k \in DOMAIN toClient' :
                              toClient'[k].id = i /\ toClient'[k].what # "chunk"
                        \/ streams'[i] # Null
        BY DEF CallIsSomewhere
    <2>1. CASE JobRepeated(id) /\ i = fresh
        BY <1>6, <2>1
    <2>2. CASE ~(JobRepeated(id) /\ i = fresh)
        <3>1. i \in pending /\ i # id
            BY <1>5, <2>2 DEF OtherSettled, JobEnded, JobRepeated, fresh
        <3>2. \/ i \in Ids(outbox) \cup Ids(toServer)
              \/ \E k \in DOMAIN toClient : toClient[k].id = i /\ toClient[k].what # "chunk"
              \/ streams[i] # Null
            BY <3>1 DEF IInv, CallIsSomewhere
        <3>3. Ids(toServer) \subseteq Ids(toServer')
            BY <1>5, <1>6 DEF OtherSettled, JobEnded
        <3>4. i \in Id
            BY <1>1, <3>1 DEF TypeOK
        <3>5. CASE i \in Ids(outbox) \cup Ids(toServer)
            BY <1>5, <3>3, <3>5
        <3>6. CASE \E k \in DOMAIN toClient : toClient[k].id = i /\ toClient[k].what # "chunk"
            BY <1>2, <3>1, <3>6
        <3>7. CASE streams[i] # Null
            BY <1>3, <3>1, <3>4, <3>7
        <3> QED
            BY <3>2, <3>5, <3>6, <3>7
    <2> QED
        BY <2>1, <2>2
<1>10. SentOnce'
    <2>1. SentOnce
        BY DEF IInv
    <2>2. \A i \in Id : built[i] = Null => built'[i] = Null
        BY <1>1, <1>5 DEF OtherSettled, JobEnded, JobRepeated, TypeOK
    <2>3. \A i \in Ids(outbox) \cup Ids(toServer) : i \in Id
        <3>1. ASSUME NEW q \in Seq(Request), NEW k \in DOMAIN q PROVE q[k].id \in Id
            <4>1. q[k] \in Request
                OBVIOUS
            <4> QED
                BY <4>1 DEF Request
        <3> QED
            BY <1>5, <3>1 DEF Ids
    <2>4. \A i \in Ids(outbox) \cup Ids(toServer) :
             i \notin Ids(toClient') /\ streams'[i] = Null /\ built'[i] = Null
        <3> TAKE i \in Ids(outbox) \cup Ids(toServer)
        <3>1. i \notin Ids(toClient) /\ streams[i] = Null /\ built[i] = Null
            BY <2>1 DEF SentOnce
        <3> QED
            BY <1>2, <1>3, <2>2, <2>3, <3>1
    <2>5. CASE ~JobRepeated(id)
        <3>1. toServer' = toServer
            BY <1>5, <2>5 DEF OtherSettled, JobEnded
        <3> QED
            BY <1>5, <2>1, <2>4, <3>1 DEF SentOnce
    <2>6. CASE JobRepeated(id)
        <3>1. \A k, n \in DOMAIN toServer' : toServer'[k].id = toServer'[n].id => k = n
            <4> TAKE k, n \in DOMAIN toServer'
            <4>1. \A j \in DOMAIN toServer : toServer[j].id # fresh
                BY <1>4, <2>6 DEF Ids
            <4>2. request.id = fresh
                BY <1>4, <2>6
            <4>3. k \in DOMAIN toServer /\ n \in DOMAIN toServer
                    => (toServer[k].id = toServer[n].id => k = n)
                BY <2>1 DEF SentOnce
            <4> QED
                BY <1>6, <2>6, <4>1, <4>2, <4>3
        <3>2. Ids(outbox') \cap Ids(toServer') = {}
            BY <1>4, <1>5, <1>6, <2>1, <2>6 DEF SentOnce
        <3>3. \A i \in Ids(outbox') \cup Ids(toServer') :
                 i \notin Ids(toClient') /\ streams'[i] = Null /\ built'[i] = Null
            <4>1. fresh \notin Ids(toClient') /\ streams'[fresh] = Null /\ built'[fresh] = Null
                BY <1>2, <1>3, <1>4, <2>2, <2>6
            <4> QED
                BY <1>5, <1>6, <2>4, <2>6, <4>1
        <3> QED
            BY <1>5, <2>1, <3>1, <3>2, <3>3 DEF SentOnce
    <2> QED
        BY <2>5, <2>6
<1>11. JobIsTheRebuild'
    <2>1. JobIsTheRebuild
        BY DEF IInv
    <2>2. CASE OtherSettled(id)
        BY <1>5, <2>1, <2>2 DEF OtherSettled, JobIsTheRebuild
    <2>3. CASE JobEnded(id) \/ JobRepeated(id)
        <3>0. IsJob(id) /\ built' = [built EXCEPT ![id] = Null]
            BY <2>3 DEF JobEnded, JobRepeated
        <3>1. \A i \in Id : built'[i] = Null
            BY <1>1, <2>1, <3>0 DEF JobIsTheRebuild, IsJob, TypeOK
        <3>2. ASSUME NEW q \in {outbox, toServer}, NEW k \in DOMAIN q,
                     q[k].kind = "rebuild", q[k].id \in pending \ {id}
              PROVE  FALSE
            BY <2>1, <3>0, <3>2 DEF JobIsTheRebuild, IsJob
        <3>3. CASE JobEnded(id)
            <4>1. outbox' = outbox /\ toServer' = toServer /\ pending' = pending \ {id}
                BY <1>5, <3>3 DEF JobEnded
            <4> QED
                BY <3>1, <3>2, <4>1 DEF JobIsTheRebuild
        <3>4. CASE JobRepeated(id)
            <4>1. pending' = (pending \ {id}) \cup {fresh} /\ job' # Null /\ job'.id = fresh
                BY <1>4, <3>4 DEF JobRepeated, fresh
            <4>2. ASSUME NEW k \in DOMAIN outbox', outbox'[k].kind = "rebuild",
                         outbox'[k].id \in pending'
                  PROVE  outbox'[k].id = job'.id
                BY <1>5, <3>2, <4>1, <4>2
            <4>3. ASSUME NEW k \in DOMAIN toServer', toServer'[k].kind = "rebuild",
                         toServer'[k].id \in pending'
                  PROVE  toServer'[k].id = job'.id
                <5>1. CASE k = Len(toServer) + 1
                    BY <1>4, <1>6, <3>4, <5>1
                <5>2. CASE k \in DOMAIN toServer
                    BY <1>6, <3>2, <3>4, <4>1, <4>3, <5>2
                <5> QED
                    BY <1>6, <3>4, <5>1, <5>2
            <4> QED
                BY <3>1, <4>1, <4>2, <4>3 DEF JobIsTheRebuild
        <3> QED
            BY <2>3, <3>3, <3>4
    <2> QED
        BY <1>5, <2>2, <2>3
<1>12. OneModelPerReply'
    <2>1. \A i \in Id : built'[i] # Null => built'[i] = built[i]
        BY <1>1, <1>5 DEF OtherSettled, JobEnded, JobRepeated, TypeOK
    <2> SUFFICES ASSUME NEW i \in Id
                 PROVE  \E m \in Model :
                          /\ \A k \in DOMAIN toClient' :
                                toClient'[k].id = i => Tells(toClient'[k], m)
                          /\ streams'[i] # Null => StreamTells(streams'[i], m)
                          /\ built'[i] # Null => built'[i] = m
        BY DEF OneModelPerReply, Tells, StreamTells
    <2>2. PICK m \in Model :
            /\ \A k \in DOMAIN toClient : toClient[k].id = i => Tells(toClient[k], m)
            /\ streams[i] # Null => StreamTells(streams[i], m)
            /\ built[i] # Null => built[i] = m
        BY DEF IInv, OneModelPerReply
    <2>3. \A k \in DOMAIN toClient' : toClient'[k].id = i => Tells(toClient'[k], m)
        BY <1>2, <2>2
    <2>4. streams'[i] # Null => StreamTells(streams'[i], m)
        BY <1>3, <2>2
    <2> QED
        BY <2>1, <2>2, <2>3, <2>4
<1>13. ReplyIsBuilt'
    <2>1. CASE OtherSettled(id)
        <3>1. job' = job /\ built' = built /\ ~IsJob(id)
            BY <2>1 DEF OtherSettled
        <3>2. job # Null => job.id \in Id /\ job.id # id
            BY <1>1, <3>1 DEF IsJob, TypeOK, Job
        <3> QED
            BY <1>2, <1>3, <3>1, <3>2 DEF IInv, ReplyIsBuilt
    <2>2. CASE JobEnded(id)
        BY <2>2 DEF JobEnded, ReplyIsBuilt
    <2>3. CASE JobRepeated(id)
        <3>1. job'.id = fresh /\ fresh \notin Ids(toClient') /\ streams'[fresh] = Null
            BY <1>2, <1>3, <1>4, <2>3
        <3> QED
            BY <3>1 DEF ReplyIsBuilt, Ids
    <2> QED
        BY <1>5, <2>1, <2>2, <2>3
<1>14. RepeatIsFull'
    <2>1. CASE OtherSettled(id)
        <3>1. job' = job /\ outbox' = outbox /\ toServer' = toServer
            BY <1>5, <2>1 DEF OtherSettled
        <3> QED
            BY <1>2, <3>1 DEF IInv, RepeatIsFull
    <2>2. CASE JobEnded(id)
        BY <2>2 DEF JobEnded, RepeatIsFull
    <2>3. CASE JobRepeated(id)
        <3>1. job'.id = fresh /\ \A k \in DOMAIN toClient' : toClient'[k].id # fresh
            BY <1>2, <1>4, <2>3 DEF Ids
        <3>2. /\ \A k \in DOMAIN outbox' : outbox'[k].id # fresh
              /\ \A k \in DOMAIN toServer : toServer[k].id # fresh
            BY <1>4, <1>5, <2>3 DEF Ids
        <3>3. \A k \in DOMAIN toServer' : toServer'[k].id = fresh => toServer'[k] = request
            BY <1>6, <2>3, <3>2
        <3> QED
            BY <1>4, <2>3, <3>1, <3>2, <3>3 DEF RepeatIsFull
    <2> QED
        BY <1>5, <2>1, <2>2, <2>3
<1>15. RepeatHasId'
    <2>1. CASE OtherSettled(id)
        <3>1. job' = job /\ outbox' = outbox /\ toServer' = toServer /\ pending' = pending \ {id}
            BY <1>5, <2>1 DEF OtherSettled
        <3>2. FreeIds \subseteq FreeIds'
            BY <1>2, <1>3, <3>1 DEF FreeIds
        <3> QED
            BY <3>1, <3>2 DEF IInv, RepeatHasId
    <2>2. CASE JobEnded(id)
        BY <2>2 DEF JobEnded, RepeatHasId
    <2>3. CASE JobRepeated(id)
        BY <1>4, <2>3 DEF RepeatHasId
    <2> QED
        BY <1>5, <2>1, <2>2, <2>3
<1>16. LastIsWhole'
    BY DEF Settled
<1>17. NoSplice' /\ OneRepeatSuffices'
    <2>1. CASE OtherSettled(id) \/ JobRepeated(id)
        <3>1. result' = result
            BY <2>1 DEF OtherSettled, JobRepeated
        <3> QED
            BY <3>1 DEF IInv, NoSplice, OneRepeatSuffices
    <2>2. CASE JobEnded(id)
        BY <2>2 DEF JobEnded
    <2> QED
        BY <1>5, <2>1, <2>2
<1>18. WireNeedsSocket' /\ OneSocket'
    BY DEF IInv, WireNeedsSocket, OneSocket, link
<1> QED
    BY <1>7, <1>8, <1>9, <1>10, <1>11, <1>12, <1>13, <1>14, <1>15, <1>16, <1>17, <1>18 DEF IInv

\* A frame is taken that settles nothing: it is ignored, or its stream goes on.
LEMMA ReceiveStep ==
    ASSUME IInv, toClient # <<>>, toClient' = Tail(toClient),
           NEW id \in Id, id = Head(toClient).id,
           NEW s \in Stream \cup {Null}, streams' = [streams EXCEPT ![id] = s],
           s = Null => streams[id] = Null /\ (id \notin pending \/ Head(toClient).what = "chunk"),
           \A m \in Model :
              Tells(Head(toClient), m) /\ (streams[id] # Null => StreamTells(streams[id], m))
                 => (s # Null => StreamTells(s, m)),
           s # Null => streams[id] # Null \/ Head(toClient).what = "head",
           bodyMesh' \in Model,
           UNCHANGED <<link, calls, last, synced, job, result, built>>
    PROVE  IInv'
<1>1. TypeOK
    BY DEF IInv
<1>2. /\ toClient' \in Seq(Frame)
      /\ \A k \in DOMAIN toClient' : \E n \in DOMAIN toClient : toClient'[k] = toClient[n]
      /\ \A n \in DOMAIN toClient : toClient[n].id # id =>
            \E k \in DOMAIN toClient' : toClient'[k] = toClient[n]
      /\ Ids(toClient') \subseteq Ids(toClient)
    BY TakenFrames DEF Taken
<1>3. /\ streams' \in [Id -> Stream \cup {Null}] /\ streams'[id] = s
      /\ \A i \in Id : i # id => streams'[i] = streams[i]
    BY <1>1 DEF TypeOK
<1>4. /\ pending' = pending /\ outbox' = outbox /\ toServer' = toServer
      /\ job' = job /\ result' = result /\ built' = built /\ last' = last
    BY DEF calls
<1>5. /\ toClient \in Seq(Frame) /\ 1 \in DOMAIN toClient /\ Head(toClient) = toClient[1]
      /\ \A k \in DOMAIN toClient : k # 1 =>
            k - 1 \in DOMAIN toClient' /\ toClient'[k - 1] = toClient[k]
    <2>1. toClient \in Seq(Frame)
        BY <1>1 DEF TypeOK
    <2> QED
        BY <2>1, TailIndex
<1>6. id \in Ids(toClient)
    BY <1>5 DEF Ids
<1>7. TypeOK'
    BY <1>1, <1>2, <1>3, <1>4 DEF TypeOK, link
<1>8. RebuildIsAwaited'
    BY <1>4 DEF IInv, RebuildIsAwaited
<1>9. CallIsSomewhere'
    <2> SUFFICES ASSUME NEW i \in pending
                 PROVE  \/ i \in Ids(outbox') \cup Ids(toServer')
                        \/ \E k \in DOMAIN toClient' :
                              toClient'[k].id = i /\ toClient'[k].what # "chunk"
                        \/ streams'[i] # Null
        BY <1>4 DEF CallIsSomewhere
    <2>1. \/ i \in Ids(outbox) \cup Ids(toServer)
          \/ \E k \in DOMAIN toClient : toClient[k].id = i /\ toClient[k].what # "chunk"
          \/ streams[i] # Null
        BY DEF IInv, CallIsSomewhere
    <2>2. i \in Id
        BY <1>1 DEF TypeOK
    <2>3. CASE i \in Ids(outbox) \cup Ids(toServer)
        BY <1>4, <2>3
    <2>4. CASE streams[i] # Null
        BY <1>3, <2>2, <2>4
    <2>5. CASE \E k \in DOMAIN toClient : toClient[k].id = i /\ toClient[k].what # "chunk"
        <3>1. PICK k \in DOMAIN toClient : toClient[k].id = i /\ toClient[k].what # "chunk"
            BY <2>5
        <3>2. CASE k # 1
            BY <1>5, <3>1, <3>2
        <3>3. CASE k = 1
            <4>1. i = id /\ Head(toClient).what # "chunk"
                BY <1>5, <3>1, <3>3
            <4> QED
                BY <1>3, <4>1
        <3> QED
            BY <3>2, <3>3
    <2> QED
        BY <2>1, <2>3, <2>4, <2>5
<1>10. SentOnce'
    <2>1. SentOnce
        BY DEF IInv
    <2>2. ASSUME NEW i \in Ids(outbox) \cup Ids(toServer)
          PROVE  i \notin Ids(toClient') /\ streams'[i] = Null /\ built'[i] = Null
        <3>1. i \notin Ids(toClient) /\ streams[i] = Null /\ built[i] = Null
            BY <2>1 DEF SentOnce
        <3>2. i # id
            BY <1>6, <3>1
        <3>3. streams'[i] = streams[i]
            BY <1>1, <3>2 DEF TypeOK
        <3> QED
            BY <1>2, <1>4, <3>1, <3>3
    <2> QED
        BY <1>4, <2>1, <2>2 DEF SentOnce
<1>11. JobIsTheRebuild'
    BY <1>4 DEF IInv, JobIsTheRebuild
<1>12. OneModelPerReply'
    <2> SUFFICES ASSUME NEW i \in Id
                 PROVE  \E m \in Model :
                          /\ \A k \in DOMAIN toClient' :
                                toClient'[k].id = i => Tells(toClient'[k], m)
                          /\ streams'[i] # Null => StreamTells(streams'[i], m)
                          /\ built'[i] # Null => built'[i] = m
        BY DEF OneModelPerReply, Tells, StreamTells
    <2>1. PICK m \in Model :
            /\ \A k \in DOMAIN toClient : toClient[k].id = i => Tells(toClient[k], m)
            /\ streams[i] # Null => StreamTells(streams[i], m)
            /\ built[i] # Null => built[i] = m
        BY DEF IInv, OneModelPerReply
    <2>2. \A k \in DOMAIN toClient' : toClient'[k].id = i => Tells(toClient'[k], m)
        BY <1>2, <2>1
    <2>3. streams'[i] # Null => StreamTells(streams'[i], m)
        <3>1. CASE i # id
            BY <1>3, <2>1, <3>1
        <3>2. CASE i = id
            <4>1. Tells(Head(toClient), m)
                BY <1>5, <2>1, <3>2
            <4> QED
                BY <1>3, <2>1, <3>2, <4>1
        <3> QED
            BY <3>1, <3>2
    <2> QED
        BY <1>4, <2>1, <2>2, <2>3
<1>13. ReplyIsBuilt'
    <2> SUFFICES ASSUME job # Null
                 PROVE  /\ streams'[job.id] # Null => built[job.id] # Null
                        /\ \A k \in DOMAIN toClient' :
                              toClient'[k].id = job.id /\ toClient'[k].what \in {"head", "single"}
                                  => built[job.id] # Null
        BY <1>4 DEF ReplyIsBuilt
    <2>1. /\ streams[job.id] # Null => built[job.id] # Null
          /\ \A k \in DOMAIN toClient :
                toClient[k].id = job.id /\ toClient[k].what \in {"head", "single"}
                    => built[job.id] # Null
        BY DEF IInv, ReplyIsBuilt
    <2>2. job.id \in Id
        BY <1>1 DEF TypeOK, Job
    <2>3. streams'[job.id] # Null => built[job.id] # Null
        <3>1. CASE job.id # id
            BY <1>3, <2>1, <2>2, <3>1
        <3>2. CASE job.id = id
            BY <1>3, <1>5, <2>1, <3>2
        <3> QED
            BY <3>1, <3>2
    <2> QED
        BY <1>2, <2>1, <2>3
<1>14. RepeatIsFull'
    BY <1>2, <1>4 DEF IInv, RepeatIsFull
<1>15. RepeatHasId'
    <2>1. FreeIds \subseteq FreeIds'
        BY <1>2, <1>3, <1>4, <1>6 DEF FreeIds
    <2> QED
        BY <1>4, <2>1 DEF IInv, RepeatHasId
<1>16. LastIsWhole' /\ NoSplice' /\ OneRepeatSuffices'
    BY <1>4 DEF IInv, LastIsWhole, NoSplice, OneRepeatSuffices
<1>17. WireNeedsSocket' /\ OneSocket'
    BY DEF IInv, WireNeedsSocket, OneSocket, link
<1> QED
    BY <1>7, <1>8, <1>9, <1>10, <1>11, <1>12, <1>13, <1>14, <1>15, <1>16, <1>17 DEF IInv

\* The end of a stream: the model it told of, or a failure.
LEMMA FinishStep ==
    ASSUME IInv, NEW id \in Id, Taken(id), NEW s \in Stream, NEW held \in Model,
           NEW m \in Model, StreamTells(s, m), IsJob(id) => built[id] = m,
           Finish(id, s, held), UNCHANGED link, sock = "open"
    PROVE  IInv'
<1>1. streams' = [streams EXCEPT ![id] = Null]
    BY DEF Finish, DropStream
<1>2. s.man \in Manifest /\ s.got \in Model
    BY DEF Stream
<1>3. last \in Assembly /\ (last # Null => last.mesh = last.sig)
    BY DEF IInv, TypeOK, LastIsWhole, Assembly
<1>4. CASE DOMAIN s.got = DOMAIN s.man.etags
    <2> DEFINE lst == [sig |-> s.man.etags, mesh |-> s.got]
    <2>1. Settle(id, "model", s.got, Prune(held, s.man), lst)
        BY <1>4 DEF Finish
    <2>2. s.man.etags = m /\ s.got = m
        BY <1>2, <1>4, ModelEqual DEF StreamTells
    <2>3. lst \in Assembly /\ lst.mesh = lst.sig
        BY <2>2 DEF Assembly
    <2>4. Prune(held, s.man) \in Model
        BY <1>2, PruneType
    <2>5. Told(id, "model", s.got)
        BY <2>2 DEF Told
    <2> HIDE DEF lst
    <2>6. Settled(id)
        BY <2>1, <2>3, <2>4, <2>5, SettleIsSound
    <2> QED
        BY <1>1, <2>6, SettleStep
<1>5. CASE DOMAIN s.got # DOMAIN s.man.etags
    <2>1. Settle(id, "error", Null, held, last)
        BY <1>5 DEF Finish
    <2>2. Told(id, "error", Null)
        BY DEF Told
    <2>3. Settled(id)
        BY <1>3, <2>1, <2>2, SettleIsSound
    <2> QED
        BY <1>1, <2>3, SettleStep
<1> QED
    BY <1>4, <1>5

\* The frame that is handled next.
LEMMA HeadOfWire ==
    ASSUME IInv, toClient # <<>>
    PROVE  /\ Head(toClient) \in Frame /\ Head(toClient).id \in Id
           /\ 1 \in DOMAIN toClient /\ toClient[1] = Head(toClient)
<1>1. toClient \in Seq(Frame)
    BY DEF IInv, TypeOK
<1>2. 1 \in DOMAIN toClient /\ Head(toClient) = toClient[1] /\ Head(toClient) \in Frame
    BY <1>1, TailIndex
<1>3. \A f \in Frame : f.id \in Id
    BY DEF Frame
<1> QED
    BY <1>2, <1>3

\* The handlers of frames keep the invariant.
LEMMA DeliverKeeps == ASSUME IInv, Deliver PROVE IInv'
<1> DEFINE f == Head(toClient)
           id == f.id
<1>1. toClient # <<>> /\ toClient' = Tail(toClient) /\ UNCHANGED link /\ sock = "open"
    BY DEF Deliver, IInv, WireNeedsSocket
<1>2. f \in Frame /\ id \in Id /\ 1 \in DOMAIN toClient /\ toClient[1] = f
    BY <1>1, HeadOfWire
<1>3. Taken(id)
    BY <1>1 DEF Taken
<1>4. /\ bodyMesh \in Model /\ last \in Assembly /\ (last # Null => last.mesh = last.sig)
      /\ streams \in [Id -> Stream \cup {Null}]
    BY DEF IInv, TypeOK, LastIsWhole, Assembly
<1>5. PICK m \in Model :
        /\ Tells(f, m)
        /\ streams[id] # Null => StreamTells(streams[id], m)
        /\ built[id] # Null => built[id] = m
    BY <1>2 DEF IInv, OneModelPerReply
<1>6. IsJob(id) =>
        /\ f.what \in {"head", "single"} \/ streams[id] # Null => built[id] = m
        /\ job.phase # "first" =>
              /\ f.what # "resync"
              /\ f.what \in {"head", "single"} => f.man.stubs = {}
    BY <1>2, <1>5 DEF IInv, IsJob, ReplyIsBuilt, RepeatIsFull
<1>7. /\ f.what \in {"head", "single"} => f.man \in Manifest
      /\ f.what = "head" => f.final \in BOOLEAN
      /\ f.what = "chunk" => f.seq \in Nat /\ f.bodies \in Model /\ f.final \in BOOLEAN
    BY <1>2 DEF Frame
<1> HIDE DEF f, id
<1>8. CASE Reply(f)
    <2> DEFINE value == IF f.what = "single" THEN f.man ELSE Null
    <2>1. f.what \in {"error", "resync", "done", "single"}
        BY <1>8 DEF Reply
    <2>2. CASE id \in pending
        <3>1. streams' = [streams EXCEPT ![id] = Null] /\ Settle(id, f.what, value, bodyMesh, last)
            BY <1>8, <2>2 DEF Reply, DropStream, id
        <3>2. Told(id, f.what, value)
            <4> SUFFICES ASSUME IsJob(id) PROVE Told(id, f.what, value)
                BY DEF Told
            <4>1. f.what # "model"
                BY <2>1
            <4>2. f.what = "single" =>
                    /\ value \in Manifest /\ value.etags = built[id]
                    /\ job.phase # "first" => value.stubs = {}
                BY <1>5, <1>6, <1>7 DEF Tells
            <4>3. f.what = "resync" => job.phase = "first"
                BY <1>6
            <4> HIDE DEF value
            <4> QED
                BY <4>1, <4>2, <4>3 DEF Told
        <3>3. Settled(id)
            BY <1>2, <1>4, <2>1, <3>1, <3>2, SettleIsSound
        <3> QED
            BY <1>1, <1>2, <1>3, <3>1, <3>3, SettleStep
    <2>3. CASE id \notin pending
        <3>1. UNCHANGED <<calls, streams, cache, job, result, built>>
            BY <1>8, <2>3 DEF Reply, id
        <3> DEFINE s == streams[id]
        <3>2. s \in Stream \cup {Null} /\ streams' = [streams EXCEPT ![id] = s]
            BY <1>2, <1>4, <3>1
        <3>3. \A n \in Model : Tells(f, n) /\ (streams[id] # Null => StreamTells(streams[id], n))
                => (s # Null => StreamTells(s, n))
            OBVIOUS
        <3>4. bodyMesh' \in Model /\ UNCHANGED <<link, calls, last, synced, job, result, built>>
            BY <1>1, <1>4, <3>1 DEF cache
        <3>5. s = Null => streams[id] = Null /\ (id \notin pending \/ f.what = "chunk")
            BY <2>3
        <3>6. s # Null => streams[id] # Null \/ f.what = "head"
            OBVIOUS
        <3> HIDE DEF s
        <3> QED
            BY <1>1, <1>2, <3>2, <3>3, <3>4, <3>5, <3>6, ReceiveStep DEF id, f
    <2> QED
        BY <2>2, <2>3
<1>9. CASE HeadFrame(f)
    <2> DEFINE s == [next |-> 1, man |-> f.man, got |-> Restrict(bodyMesh, f.man.stubs)]
    <2>1. f.what = "head" /\ f.man \in Manifest
        BY <1>7, <1>9 DEF HeadFrame
    <2>2. f.man.etags = m /\ f.man.etags \in Model /\ f.man.stubs \subseteq DOMAIN f.man.etags
        BY <1>5, <2>1, ManifestParts DEF Tells
    <2>3. ASSUME Backed(f.man, bodyMesh) PROVE s \in Stream /\ StreamTells(s, m)
        <3>1. f.man.stubs \subseteq DOMAIN bodyMesh /\ \A b \in f.man.stubs : bodyMesh[b] = m[b]
            BY <2>2, <2>3 DEF Backed
        <3>2. /\ Restrict(bodyMesh, f.man.stubs) \in Model
              /\ DOMAIN Restrict(bodyMesh, f.man.stubs) = f.man.stubs
              /\ \A b \in f.man.stubs : Restrict(bodyMesh, f.man.stubs)[b] = bodyMesh[b]
            BY <1>4, <3>1, RestrictType
        <3> QED
            BY <2>1, <2>2, <3>1, <3>2 DEF Stream, StreamTells
    <2>4. CASE ~Backed(f.man, bodyMesh)
        <3>1. DropStream(id) /\ Settle(id, "resync", Null, bodyMesh, last)
            BY <1>9, <2>4 DEF HeadFrame, id
        <3>2. IsJob(id) => job.phase = "first"
            BY <1>6, <2>1, <2>4 DEF Backed
        <3>3. Told(id, "resync", Null)
            BY <3>2 DEF Told
        <3>4. Settled(id)
            BY <1>2, <1>4, <3>1, <3>3, SettleIsSound
        <3> QED
            BY <1>1, <1>2, <1>3, <3>1, <3>4, SettleStep DEF DropStream
    <2>5. CASE Backed(f.man, bodyMesh) /\ IsNoop(f.man, last)
        <3>1. DropStream(id) /\ Settle(id, "model", last.mesh, bodyMesh, last)
            BY <1>9, <2>5 DEF HeadFrame, id
        <3>2. last # Null /\ last.sig = f.man.etags
            BY <2>5 DEF IsNoop
        <3>3. last.mesh = m
            BY <1>4, <2>2, <3>2
        <3>4. Told(id, "model", last.mesh)
            BY <1>6, <2>1, <3>3 DEF Told
        <3>5. Settled(id)
            BY <1>2, <1>4, <3>1, <3>4, SettleIsSound
        <3> QED
            BY <1>1, <1>2, <1>3, <3>1, <3>5, SettleStep DEF DropStream
    <2>6. CASE Backed(f.man, bodyMesh) /\ ~IsNoop(f.man, last) /\ f.final
        <3>1. Finish(id, s, bodyMesh)
            BY <1>9, <2>6 DEF HeadFrame, id
        <3>2. s \in Stream /\ StreamTells(s, m)
            BY <2>3, <2>6
        <3>3. IsJob(id) => built[id] = m
            BY <1>6, <2>1
        <3> HIDE DEF s
        <3> QED
            BY <1>1, <1>2, <1>3, <1>4, <3>1, <3>2, <3>3, FinishStep
    <2>7. CASE Backed(f.man, bodyMesh) /\ ~IsNoop(f.man, last) /\ ~f.final
        <3>1. /\ streams' = [streams EXCEPT ![id] = s]
              /\ UNCHANGED <<calls, cache, job, result, built>>
            BY <1>9, <2>7 DEF HeadFrame, id
        <3>2. s \in Stream /\ StreamTells(s, m) /\ s # Null
            BY <2>3, <2>7, NullAssumption
        <3>3. \A n \in Model : Tells(f, n) => n = m
            BY <2>1, <2>2 DEF Tells
        <3>4. bodyMesh' \in Model /\ UNCHANGED <<link, calls, last, synced, job, result, built>>
            BY <1>1, <1>4, <3>1 DEF cache
        <3> HIDE DEF s
        <3>5. \A n \in Model : Tells(f, n) => StreamTells(s, n)
            BY <3>2, <3>3
        <3> QED
            BY <1>1, <1>2, <2>1, <3>1, <3>2, <3>4, <3>5, ReceiveStep DEF id, f
    <2> QED
        BY <2>4, <2>5, <2>6, <2>7
<1>10. CASE ChunkFrame(f)
    <2> DEFINE s == streams[id]
               held == Over(f.bodies, bodyMesh)
               t == [s EXCEPT !.next = @ + 1, !.got = Over(f.bodies, @)]
    <2>1. f.what = "chunk" /\ f.bodies \in Model
        BY <1>7, <1>10 DEF ChunkFrame
    <2>2. held \in Model
        BY <1>4, <2>1, OverType
    <2>3. ASSUME s # Null
          PROVE  /\ t \in Stream
                 /\ \A n \in Model : Tells(f, n) /\ StreamTells(s, n) => StreamTells(t, n)
        <3>1. s \in Stream
            BY <1>2, <1>4, <2>3
        <3>2. s.next \in Nat /\ s.man \in Manifest /\ s.got \in Model
            BY <3>1 DEF Stream
        <3>3. /\ Over(f.bodies, s.got) \in Model
              /\ DOMAIN Over(f.bodies, s.got) = DOMAIN f.bodies \cup DOMAIN s.got
              /\ \A b \in DOMAIN f.bodies : Over(f.bodies, s.got)[b] = f.bodies[b]
              /\ \A b \in DOMAIN s.got \ DOMAIN f.bodies : Over(f.bodies, s.got)[b] = s.got[b]
            BY <2>1, <3>2, OverType
        <3>4. /\ t \in Stream /\ t.man = s.man /\ t.got = Over(f.bodies, s.got)
            <4> DEFINE new == Over(f.bodies, s.got)
            <4>1. new \in Model
                BY <3>3
            <4> HIDE DEF s, new
            <4>2. [s EXCEPT !.next = @ + 1, !.got = new] \in Stream
                <5>1. s.next + 1 \in Nat
                    BY <3>2
                <5>2. \A n \in Nat, x \in Model : [s EXCEPT !.next = n, !.got = x] \in Stream
                    BY <3>1 DEF Stream
                <5> QED
                    BY <4>1, <5>1, <5>2
            <4>3. /\ [s EXCEPT !.next = @ + 1, !.got = new].man = s.man
                  /\ [s EXCEPT !.next = @ + 1, !.got = new].got = new
                BY <3>1 DEF Stream
            <4>4. t = [s EXCEPT !.next = @ + 1, !.got = new]
                BY DEF new
            <4> QED
                BY <4>2, <4>3, <4>4 DEF new
        <3> HIDE DEF t, s
        <3>5. ASSUME NEW n \in Model, Tells(f, n), StreamTells(s, n) PROVE StreamTells(t, n)
            <4>1. \A b \in DOMAIN f.bodies : b \in DOMAIN n /\ f.bodies[b] = n[b]
                BY <2>1, <3>5 DEF Tells
            <4>2. s.man.etags = n /\ \A b \in DOMAIN s.got : b \in DOMAIN n /\ s.got[b] = n[b]
                BY <3>5 DEF StreamTells
            <4>3. \A b \in DOMAIN Over(f.bodies, s.got) :
                    b \in DOMAIN n /\ Over(f.bodies, s.got)[b] = n[b]
                BY <3>3, <4>1, <4>2
            <4> QED
                BY <3>4, <4>2, <4>3 DEF StreamTells
        <3> QED
            BY <3>4, <3>5
    <2>4. CASE s = Null
        <3>1. UNCHANGED <<calls, streams, cache, job, result, built>>
            BY <1>10, <2>4 DEF ChunkFrame, id
        <3>2. streams' = [streams EXCEPT ![id] = Null] /\ streams[id] = Null
            BY <1>4, <2>4, <3>1
        <3>3. bodyMesh' \in Model /\ UNCHANGED <<link, calls, last, synced, job, result, built>>
            BY <1>1, <1>4, <3>1 DEF cache
        <3> QED
            BY <1>1, <1>2, <2>1, <3>2, <3>3, ReceiveStep DEF id, f
    <2>5. CASE s # Null /\ f.seq # s.next
        <3>1. DropStream(id) /\ Settle(id, "error", Null, bodyMesh, last)
            BY <1>10, <2>5 DEF ChunkFrame, id
        <3>2. Told(id, "error", Null)
            BY DEF Told
        <3>3. Settled(id)
            BY <1>2, <1>4, <3>1, <3>2, SettleIsSound
        <3> QED
            BY <1>1, <1>2, <1>3, <3>1, <3>3, SettleStep DEF DropStream
    <2>6. CASE s # Null /\ f.seq = s.next /\ f.final
        <3>1. Finish(id, t, held)
            BY <1>10, <2>6 DEF ChunkFrame, id
        <3>2. t \in Stream /\ StreamTells(t, m)
            BY <1>5, <2>3, <2>6
        <3>3. IsJob(id) => built[id] = m
            BY <1>6, <2>6
        <3> HIDE DEF s, t, held
        <3> QED
            BY <1>1, <1>2, <1>3, <2>2, <3>1, <3>2, <3>3, FinishStep
    <2>7. CASE s # Null /\ f.seq = s.next /\ ~f.final
        <3>1. /\ streams' = [streams EXCEPT ![id] = t] /\ bodyMesh' = held
              /\ UNCHANGED <<calls, last, synced, job, result, built>>
            BY <1>10, <2>7 DEF ChunkFrame, id
        <3>2. t \in Stream /\ t # Null /\ streams[id] # Null
            BY <2>3, <2>7, NullAssumption
        <3>3. \A n \in Model : Tells(f, n) /\ StreamTells(s, n) => StreamTells(t, n)
            BY <2>3, <2>7
        <3>4. bodyMesh' \in Model /\ UNCHANGED <<link, calls, last, synced, job, result, built>>
            BY <1>1, <2>2, <3>1
        <3>5. \A n \in Model :
                Tells(f, n) /\ (streams[id] # Null => StreamTells(streams[id], n))
                    => StreamTells(t, n)
            BY <3>2, <3>3
        <3> HIDE DEF s, t, held
        <3> QED
            BY <1>1, <1>2, <3>1, <3>2, <3>4, <3>5, ReceiveStep DEF id, f
    <2> QED
        BY <2>4, <2>5, <2>6, <2>7
<1> QED
    BY <1>8, <1>9, <1>10 DEF Deliver, f

\* The idle timer of a stream keeps the invariant.
LEMMA StreamStallsKeeps == ASSUME IInv, NEW id \in Id, StreamStalls(id) PROVE IInv'
<1>1. /\ streams' = [streams EXCEPT ![id] = Null] /\ UNCHANGED link /\ Taken(id)
      /\ Settle(id, "error", Null, bodyMesh, last)
      /\ UNCHANGED <<toServer, toClient>>
    BY DEF StreamStalls, DropStream, Taken, Settle, GoOn, Return
<1>2. bodyMesh \in Model /\ last \in Assembly /\ (last # Null => last.mesh = last.sig)
    BY DEF IInv, TypeOK, LastIsWhole, Assembly
<1>3. Told(id, "error", Null)
    BY DEF Told
<1>4. Settled(id)
    BY <1>1, <1>2, <1>3, SettleIsSound
<1> QED
    BY <1>1, <1>4, SettleStep

-----------------------------------------------------------------------------
(* Steps that send a request, or clear everything.                         *)

\* A request is among those to be sent, and the others are as before.
Added(r) ==
    /\ outbox' \in Seq(Request) /\ toServer' \in Seq(Request)
    /\ \A k \in DOMAIN outbox' :
          outbox'[k] = r \/ \E n \in DOMAIN outbox : outbox'[k] = outbox[n]
    /\ \A k \in DOMAIN toServer' :
          toServer'[k] = r \/ \E q \in {outbox, toServer} : \E n \in DOMAIN q : toServer'[k] = q[n]
    /\ \A k, n \in DOMAIN outbox' : outbox'[k].id = outbox'[n].id => k = n
    /\ \A k, n \in DOMAIN toServer' : toServer'[k].id = toServer'[n].id => k = n
    /\ Ids(outbox') \cap Ids(toServer') = {}
    /\ Ids(outbox') \cup Ids(toServer') = Ids(outbox) \cup Ids(toServer) \cup {r.id}

\* A queue of requests with different ids stays one when a new id joins it.
LEMMA AppendOnce ==
    ASSUME NEW q \in Seq(Request), NEW r \in Request, r.id \notin Ids(q),
           \A k, n \in DOMAIN q : q[k].id = q[n].id => k = n
    PROVE  \A k, n \in DOMAIN Append(q, r) : Append(q, r)[k].id = Append(q, r)[n].id => k = n
<1>1. /\ DOMAIN Append(q, r) = 1 .. Len(q) + 1
      /\ DOMAIN q = 1 .. Len(q) /\ Len(q) \in Nat
      /\ Append(q, r)[Len(q) + 1] = r
      /\ \A k \in DOMAIN q : Append(q, r)[k] = q[k]
      /\ \A k \in DOMAIN Append(q, r) : k = Len(q) + 1 \/ k \in DOMAIN q
    BY AppendIndex
<1>2. \A k \in DOMAIN q : q[k].id # r.id
    BY DEF Ids
<1> QED
    BY <1>1, <1>2

\* Geometry.call adds its request to the outbox or to the wire.
LEMMA SubmitAdds ==
    ASSUME IInv, FreeIds # {}, NEW r \in Request, r.id = FreshId, Submit(r), UNCHANGED link,
           UNCHANGED toClient
    PROVE  Added(r) /\ pending' = pending \cup {r.id} /\ WireNeedsSocket'
<1>1. /\ outbox \in Seq(Request) /\ toServer \in Seq(Request)
      /\ r.id \notin Ids(outbox) /\ r.id \notin Ids(toServer)
    BY FreshIsFree DEF IInv, TypeOK
<1>2. /\ \A k, n \in DOMAIN outbox : outbox[k].id = outbox[n].id => k = n
      /\ \A k, n \in DOMAIN toServer : toServer[k].id = toServer[n].id => k = n
      /\ Ids(outbox) \cap Ids(toServer) = {}
    BY DEF IInv, SentOnce
<1>3. CASE sock = "open"
    <2>1. toServer' = Append(toServer, r) /\ outbox' = outbox /\ pending' = pending \cup {r.id}
        BY <1>3 DEF Submit
    <2>2. /\ toServer' \in Seq(Request) /\ Ids(toServer') = Ids(toServer) \cup {r.id}
          /\ \A k, n \in DOMAIN toServer' : toServer'[k].id = toServer'[n].id => k = n
        BY <1>1, <1>2, <2>1, AppendIds, AppendOnce, AppendIndex
    <2>3. \A k \in DOMAIN toServer' :
             toServer'[k] = r \/ \E n \in DOMAIN toServer : toServer'[k] = toServer[n]
        BY <1>1, <2>1, AppendIndex
    <2>4. WireNeedsSocket'
        BY <1>3 DEF WireNeedsSocket, link
    <2>5. /\ Ids(outbox') \cap Ids(toServer') = {}
          /\ Ids(outbox') \cup Ids(toServer') = Ids(outbox) \cup Ids(toServer) \cup {r.id}
        BY <1>1, <1>2, <2>1, <2>2
    <2> QED
        BY <1>1, <1>2, <2>1, <2>2, <2>3, <2>4, <2>5 DEF Added
<1>4. CASE sock # "open"
    <2>1. outbox' = Append(outbox, r) /\ toServer' = toServer /\ pending' = pending \cup {r.id}
        BY <1>4 DEF Submit
    <2>2. /\ outbox' \in Seq(Request) /\ Ids(outbox') = Ids(outbox) \cup {r.id}
          /\ \A k, n \in DOMAIN outbox' : outbox'[k].id = outbox'[n].id => k = n
        BY <1>1, <1>2, <2>1, AppendIds, AppendOnce, AppendIndex
    <2>3. \A k \in DOMAIN outbox' :
             outbox'[k] = r \/ \E n \in DOMAIN outbox : outbox'[k] = outbox[n]
        BY <1>1, <2>1, AppendIndex
    <2>4. WireNeedsSocket'
        BY <2>1 DEF IInv, WireNeedsSocket, link
    <2>5. /\ Ids(outbox') \cap Ids(toServer') = {}
          /\ Ids(outbox') \cup Ids(toServer') = Ids(outbox) \cup Ids(toServer) \cup {r.id}
        BY <1>1, <1>2, <2>1, <2>2
    <2> QED
        BY <1>1, <1>2, <2>1, <2>2, <2>3, <2>4, <2>5 DEF Added
<1> QED
    BY <1>3, <1>4

\* The state of the link has its type.
LinkType ==
    /\ sock \in {"down", "dialling", "open"}
    /\ closing \in BOOLEAN /\ timer \in BOOLEAN /\ halted \in BOOLEAN
    /\ OneSocket

\* A request of a new call, the rebuild's or another's, keeps the invariant.
LEMMA RequestStep ==
    ASSUME IInv, CanCall, NEW r \in Request, r.id = FreshId, Added(r),
           pending' = pending \cup {r.id}, WireNeedsSocket', LinkType',
           bodyMesh' \in Model, synced' \in BOOLEAN,
           UNCHANGED <<streams, last, toClient, built>>,
           \/ r.kind = "other" /\ UNCHANGED <<job, result>>
           \/ /\ job = Null /\ job' \in Job /\ job'.id = r.id /\ result' = Null
              /\ job'.phase # "first" => ~r.delta /\ r.known = NoMesh
    PROVE  IInv'
<1>1. TypeOK
    BY DEF IInv
<1>2. /\ r.id \in Id /\ streams[r.id] = Null /\ built[r.id] = Null
      /\ r.id \notin pending \cup Ids(outbox) \cup Ids(toServer) \cup Ids(toClient)
    <2>1. /\ r.id \in Id /\ streams[r.id] = Null
          /\ r.id \notin pending \cup Ids(outbox) \cup Ids(toServer) \cup Ids(toClient)
        BY CallLeavesAnId, FreshIsFree
    <2>2. built[r.id] # Null => job # Null /\ r.id = job.id
        BY <2>1 DEF IInv, JobIsTheRebuild
    <2> QED
        BY <2>1, <2>2 DEF IInv, RebuildIsAwaited
<1>3. \/ job' = job /\ result' = result /\ r.kind = "other"
      \/ /\ job = Null /\ job' # Null /\ job' \in Job /\ job'.id = r.id /\ result' = Null
         /\ job'.phase # "first" => ~r.delta /\ r.known = NoMesh
    BY NullAssumption
<1>4. \A q \in {outbox', toServer'} : \A k \in DOMAIN q :
         q[k] = r \/ \E p \in {outbox, toServer} : \E n \in DOMAIN p : q[k] = p[n]
    BY DEF Added
<1>5. \A p \in {outbox, toServer} : \A n \in DOMAIN p : p[n].id # r.id
    BY <1>2 DEF Ids
<1>6. \A k \in DOMAIN toClient : toClient[k].id # r.id
    BY <1>2 DEF Ids
<1>7. TypeOK'
    <2>1. pending' \subseteq Id
        BY <1>1, <1>2 DEF TypeOK
    <2>2. job' \in Job \cup {Null} /\ result' \in Answer \cup {Null}
        BY <1>1, <1>3 DEF TypeOK
    <2> QED
        BY <1>1, <2>1, <2>2 DEF TypeOK, LinkType, Added
<1>8. RebuildIsAwaited'
    BY <1>3 DEF IInv, RebuildIsAwaited
<1>9. CallIsSomewhere'
    <2> SUFFICES ASSUME NEW i \in pending \cup {r.id}
                 PROVE  \/ i \in Ids(outbox') \cup Ids(toServer')
                        \/ \E k \in DOMAIN toClient :
                              toClient[k].id = i /\ toClient[k].what # "chunk"
                        \/ streams[i] # Null
        BY DEF CallIsSomewhere
    <2>1. Ids(outbox') \cup Ids(toServer') = Ids(outbox) \cup Ids(toServer) \cup {r.id}
        BY DEF Added
    <2>2. CASE i \in pending
        BY <2>1, <2>2 DEF IInv, CallIsSomewhere
    <2> QED
        BY <2>1, <2>2
<1>10. SentOnce'
    <2>1. \A i \in Ids(outbox') \cup Ids(toServer') :
             i \notin Ids(toClient) /\ streams[i] = Null /\ built[i] = Null
        BY <1>2 DEF IInv, SentOnce, Added
    <2>2. Ids(toClient') = Ids(toClient)
        OBVIOUS
    <2> QED
        BY <2>1, <2>2 DEF SentOnce, Added
<1>11. JobIsTheRebuild'
    <2>1. \A p \in {outbox, toServer} : \A n \in DOMAIN p :
             p[n].kind = "rebuild" /\ p[n].id \in pending => job # Null /\ p[n].id = job.id
        BY DEF IInv, JobIsTheRebuild
    <2>2. \A i \in Id : built[i] # Null => job # Null /\ i = job.id
        BY DEF IInv, JobIsTheRebuild
    <2>3. ASSUME NEW q \in {outbox', toServer'}, NEW k \in DOMAIN q,
                 q[k].kind = "rebuild", q[k].id \in pending'
          PROVE  job' # Null /\ q[k].id = job'.id
        <3>1. CASE q[k] = r
            BY <1>3, <2>3, <3>1
        <3>2. CASE q[k] # r
            <4>1. PICK p \in {outbox, toServer} : \E n \in DOMAIN p : q[k] = p[n]
                BY <1>4, <3>2
            <4>2. PICK n \in DOMAIN p : q[k] = p[n]
                BY <4>1
            <4>3. q[k].id \in pending
                BY <1>5, <2>3, <4>2
            <4> QED
                BY <1>3, <2>1, <2>3, <4>2, <4>3
        <3> QED
            BY <3>1, <3>2
    <2>4. \A i \in Id : built'[i] # Null => job' # Null /\ i = job'.id
        BY <1>3, <2>2
    <2> QED
        BY <2>3, <2>4 DEF JobIsTheRebuild
<1>12. OneModelPerReply'
    BY DEF IInv, OneModelPerReply, Tells, StreamTells
<1>13. ReplyIsBuilt'
    <2>1. CASE job' = job
        BY <2>1 DEF IInv, ReplyIsBuilt
    <2>2. CASE job'.id = r.id
        BY <1>2, <1>6, <2>2 DEF ReplyIsBuilt
    <2> QED
        BY <1>3, <2>1, <2>2
<1>14. RepeatIsFull'
    <2>1. CASE job' = job /\ r.kind = "other"
        <3> SUFFICES ASSUME job # Null, job.phase # "first"
                     PROVE  /\ \A q \in {outbox', toServer'} : \A k \in DOMAIN q :
                                  q[k].id = job.id => ~q[k].delta /\ q[k].known = NoMesh
                            /\ \A k \in DOMAIN toClient : toClient[k].id = job.id =>
                                  /\ toClient[k].what # "resync"
                                  /\ toClient[k].what \in {"head", "single"}
                                        => toClient[k].man.stubs = {}
            BY <2>1 DEF RepeatIsFull
        <3>1. r.id # job.id
            BY <1>2 DEF IInv, RebuildIsAwaited
        <3> QED
            BY <1>4, <3>1 DEF IInv, RepeatIsFull
    <2>2. CASE job'.id = r.id /\ (job'.phase # "first" => ~r.delta /\ r.known = NoMesh)
        BY <1>4, <1>5, <1>6, <2>2 DEF RepeatIsFull
    <2> QED
        BY <1>3, <2>1, <2>2
<1>15. RepeatHasId'
    <2>1. PICK i \in FreeIds : i # FreshId
        BY CallLeavesAnId
    <2>2. i \in FreeIds'
        BY <2>1 DEF FreeIds, Added
    <2> QED
        BY <2>2 DEF RepeatHasId
<1>16. LastIsWhole' /\ NoSplice' /\ OneRepeatSuffices'
    BY <1>3 DEF IInv, LastIsWhole, NoSplice, OneRepeatSuffices
<1> QED
    BY <1>7, <1>8, <1>9, <1>10, <1>11, <1>12, <1>13, <1>14, <1>15, <1>16 DEF IInv, LinkType

\* The requests the page sends.
LEMMA RequestTypes ==
    ASSUME IInv, NEW id \in Id
    PROVE  /\ RebuildRequest(id) \in Request /\ RebuildRequest(id).id = id
           /\ FullRequest(id) \in Request /\ FullRequest(id).id = id
           /\ OtherRequest(id) \in Request /\ OtherRequest(id).id = id
           /\ ~FullRequest(id).delta /\ FullRequest(id).known = NoMesh
           /\ OtherRequest(id).kind = "other"
<1>1. bodyMesh \in Model /\ synced \in BOOLEAN
    BY DEF IInv, TypeOK
<1> QED
    BY <1>1, NoMeshType DEF Request, RebuildRequest, FullRequest, OtherRequest

LEMMA LinkKept == ASSUME IInv, UNCHANGED link PROVE LinkType'
BY DEF IInv, TypeOK, OneSocket, link, LinkType

LEMMA RebuildKeeps == ASSUME IInv, Rebuild PROVE IInv'
<1> DEFINE fresh == FreshId
           r == RebuildRequest(fresh)
<1>1. /\ job = Null /\ CanCall /\ Submit(r) /\ job' = [id |-> fresh, phase |-> "first"]
      /\ result' = Null
      /\ UNCHANGED link /\ UNCHANGED <<bodyMesh, synced>>
      /\ UNCHANGED <<streams, last, toClient, built>>
    BY DEF Rebuild, cache
<1>2. FreeIds # {} /\ fresh \in Id
    BY <1>1, CallLeavesAnId, FreshIsFree
<1>3. r \in Request /\ r.id = fresh
    BY <1>2, RequestTypes
<1>4. Added(r) /\ pending' = pending \cup {r.id} /\ WireNeedsSocket'
    BY <1>1, <1>2, <1>3, SubmitAdds
<1>5. LinkType' /\ bodyMesh' \in Model /\ synced' \in BOOLEAN
    BY <1>1, LinkKept DEF IInv, TypeOK
<1>6. job' \in Job /\ job'.id = r.id /\ job'.phase = "first"
    BY <1>1, <1>2, <1>3 DEF Job
<1> HIDE DEF r, fresh
<1>7. r.id = FreshId
    BY <1>3 DEF fresh
<1> QED
    BY <1>1, <1>3, <1>4, <1>5, <1>6, <1>7, RequestStep

LEMMA CallKeeps == ASSUME IInv, Call PROVE IInv'
<1> DEFINE fresh == FreshId
           r == OtherRequest(fresh)
<1>1. /\ CanCall /\ Submit(r)
      /\ UNCHANGED <<job, result>>
      /\ UNCHANGED link /\ UNCHANGED <<bodyMesh, synced>>
      /\ UNCHANGED <<streams, last, toClient, built>>
    BY DEF Call, cache
<1>2. FreeIds # {} /\ fresh \in Id
    BY <1>1, CallLeavesAnId, FreshIsFree
<1>3. r \in Request /\ r.id = fresh /\ r.kind = "other"
    BY <1>2, RequestTypes
<1>4. Added(r) /\ pending' = pending \cup {r.id} /\ WireNeedsSocket'
    BY <1>1, <1>2, <1>3, SubmitAdds
<1>5. LinkType' /\ bodyMesh' \in Model /\ synced' \in BOOLEAN
    BY <1>1, LinkKept DEF IInv, TypeOK
<1> HIDE DEF r, fresh
<1>6. r.id = FreshId
    BY <1>3 DEF fresh
<1> QED
    BY <1>1, <1>3, <1>4, <1>5, <1>6, RequestStep

\* A queue that is sent behind a request of the listener's.
LEMMA OpenAdds ==
    ASSUME IInv, FreeIds # {}, NEW r \in Request, r.id = FreshId, toServer = <<>>,
           toServer' = <<r>> \o outbox, outbox' = <<>>
    PROVE  Added(r)
<1>1. /\ outbox \in Seq(Request) /\ <<r>> \in Seq(Request) /\ Len(<<r>>) = 1
      /\ <<r>>[1] = r /\ outbox' \in Seq(Request) /\ DOMAIN outbox' = {}
      /\ DOMAIN <<r>> = {1} /\ DOMAIN toServer = {}
    BY DEF IInv, TypeOK
<1>2. /\ toServer' \in Seq(Request)
      /\ 1 \in DOMAIN toServer' /\ toServer'[1] = r
      /\ DOMAIN outbox = 1 .. Len(outbox)
      /\ \A k \in DOMAIN outbox : 1 + k \in DOMAIN toServer' /\ toServer'[1 + k] = outbox[k]
      /\ \A k \in DOMAIN toServer' :
            k = 1 \/ (k - 1 \in DOMAIN outbox /\ toServer'[k] = outbox[k - 1])
      /\ DOMAIN toServer' \subseteq Int
    <2> DEFINE q == <<r>>
    <2>1. /\ q \o outbox \in Seq(Request)
          /\ DOMAIN outbox = 1 .. Len(outbox)
          /\ \A k \in DOMAIN q : k \in DOMAIN (q \o outbox) /\ (q \o outbox)[k] = q[k]
          /\ \A k \in DOMAIN outbox : /\ Len(q) + k \in DOMAIN (q \o outbox)
                                      /\ (q \o outbox)[Len(q) + k] = outbox[k]
          /\ \A k \in DOMAIN (q \o outbox) :
                \/ k \in DOMAIN q
                \/ k - Len(q) \in DOMAIN outbox /\ (q \o outbox)[k] = outbox[k - Len(q)]
        BY <1>1, ConcatIndex
    <2>2. DOMAIN (q \o outbox) \subseteq Int
        BY <2>1
    <2>3. DOMAIN q = {1} /\ Len(q) = 1 /\ q[1] = r /\ toServer' = q \o outbox
        BY <1>1
    <2> HIDE DEF q
    <2> QED
        BY <2>1, <2>2, <2>3
<1>3. r.id \notin Ids(outbox)
    BY FreshIsFree
<1>4. \A k \in DOMAIN outbox : outbox[k].id # r.id
    BY <1>3 DEF Ids
<1>5. \A k, n \in DOMAIN outbox : outbox[k].id = outbox[n].id => k = n
    BY DEF IInv, SentOnce
<1>6. ASSUME NEW k \in DOMAIN toServer', NEW n \in DOMAIN toServer',
             toServer'[k].id = toServer'[n].id
      PROVE  k = n
    <2>1. CASE k = 1
        BY <1>2, <1>4, <1>6, <2>1
    <2>2. CASE n = 1
        BY <1>2, <1>4, <1>6, <2>2
    <2>3. CASE k # 1 /\ n # 1
        <3>1. k - 1 = n - 1
            BY <1>2, <1>5, <1>6, <2>3
        <3> QED
            BY <1>2, <3>1
    <2> QED
        BY <2>1, <2>2, <2>3
<1>7. Ids(toServer') = Ids(outbox) \cup {r.id} /\ Ids(outbox') = {} /\ Ids(toServer) = {}
    <2>1. ASSUME NEW i \in Ids(toServer') PROVE i \in Ids(outbox) \cup {r.id}
        <3>1. PICK k \in DOMAIN toServer' : i = toServer'[k].id
            BY DEF Ids
        <3> QED
            BY <1>2, <3>1 DEF Ids
    <2>2. ASSUME NEW i \in Ids(outbox) PROVE i \in Ids(toServer')
        <3>1. PICK k \in DOMAIN outbox : i = outbox[k].id
            BY DEF Ids
        <3> QED
            BY <1>2, <3>1 DEF Ids
    <2>3. r.id \in Ids(toServer')
        BY <1>2 DEF Ids
    <2>4. Ids(outbox') = {} /\ Ids(toServer) = {}
        BY <1>1 DEF Ids
    <2> QED
        BY <2>1, <2>2, <2>3, <2>4
<1>8. \A k \in DOMAIN toServer' : toServer'[k] = r \/ \E n \in DOMAIN outbox : toServer'[k] = outbox[n]
    BY <1>2
<1> QED
    BY <1>1, <1>2, <1>6, <1>7, <1>8 DEF Added

\* The same requests wait or are on the wire.
Moved ==
    /\ outbox' \in Seq(Request) /\ toServer' \in Seq(Request)
    /\ \A p \in {outbox', toServer'} : \A k \in DOMAIN p :
          \E q \in {outbox, toServer} : \E n \in DOMAIN q : p[k] = q[n]
    /\ \A k, n \in DOMAIN outbox' : outbox'[k].id = outbox'[n].id => k = n
    /\ \A k, n \in DOMAIN toServer' : toServer'[k].id = toServer'[n].id => k = n
    /\ Ids(outbox') \cap Ids(toServer') = {}
    /\ Ids(outbox') \cup Ids(toServer') = Ids(outbox) \cup Ids(toServer)

\* A step that neither sends nor receives keeps the invariant.
LEMMA QuietStep ==
    ASSUME IInv, Moved, LinkType', WireNeedsSocket',
           bodyMesh' \in Model, synced' \in BOOLEAN,
           result' = result \/ result' = Failed("error"),
           UNCHANGED <<pending, streams, last, job, toClient, built>>
    PROVE  IInv'
<1>1. TypeOK
    BY DEF IInv
<1>2. result' \in Answer \cup {Null} /\ NoSplice' /\ OneRepeatSuffices'
    <2>1. CASE result' = result
        BY <1>1, <2>1 DEF IInv, TypeOK, NoSplice, OneRepeatSuffices
    <2>2. CASE result' = Failed("error")
        <3>1. /\ Failed("error") \in Answer /\ Failed("error").how = "error"
            BY NoMeshType DEF Failed, Answer
        <3> QED
            BY <2>2, <3>1 DEF NoSplice, OneRepeatSuffices
    <2> QED
        BY <2>1, <2>2
<1>3. TypeOK'
    BY <1>1, <1>2 DEF TypeOK, LinkType, Moved
<1>4. RebuildIsAwaited'
    BY DEF IInv, RebuildIsAwaited
<1>5. CallIsSomewhere'
    <2>1. Ids(outbox') \cup Ids(toServer') = Ids(outbox) \cup Ids(toServer)
        BY DEF Moved
    <2> QED
        BY <2>1 DEF IInv, CallIsSomewhere
<1>6. SentOnce'
    <2>1. Ids(toClient') = Ids(toClient)
        OBVIOUS
    <2>2. \A i \in Ids(outbox') \cup Ids(toServer') :
             i \notin Ids(toClient) /\ streams[i] = Null /\ built[i] = Null
        BY DEF IInv, SentOnce, Moved
    <2> QED
        BY <2>1, <2>2 DEF SentOnce, Moved
<1>8. JobIsTheRebuild'
    <2>1. \A q \in {outbox, toServer} : \A n \in DOMAIN q :
             q[n].kind = "rebuild" /\ q[n].id \in pending => job # Null /\ q[n].id = job.id
        BY DEF IInv, JobIsTheRebuild
    <2>2. ASSUME NEW p \in {outbox', toServer'}, NEW k \in DOMAIN p,
                 p[k].kind = "rebuild", p[k].id \in pending
          PROVE  job # Null /\ p[k].id = job.id
        <3>1. PICK q \in {outbox, toServer} : \E n \in DOMAIN q : p[k] = q[n]
            BY DEF Moved
        <3> QED
            BY <2>1, <2>2, <3>1
    <2>3. \A i \in Id : built[i] # Null => job # Null /\ i = job.id
        BY DEF IInv, JobIsTheRebuild
    <2> QED
        BY <2>2, <2>3 DEF JobIsTheRebuild
<1>9. OneModelPerReply' /\ ReplyIsBuilt' /\ LastIsWhole'
    BY DEF IInv, OneModelPerReply, ReplyIsBuilt, LastIsWhole, Tells, StreamTells
<1>10. RepeatIsFull'
    <2> SUFFICES ASSUME job # Null, job.phase # "first"
                 PROVE  /\ \A p \in {outbox', toServer'} : \A k \in DOMAIN p :
                              p[k].id = job.id => ~p[k].delta /\ p[k].known = NoMesh
                        /\ \A k \in DOMAIN toClient : toClient[k].id = job.id =>
                              /\ toClient[k].what # "resync"
                              /\ toClient[k].what \in {"head", "single"}
                                    => toClient[k].man.stubs = {}
        BY DEF RepeatIsFull
    <2>1. /\ \A q \in {outbox, toServer} : \A n \in DOMAIN q :
                q[n].id = job.id => ~q[n].delta /\ q[n].known = NoMesh
          /\ \A k \in DOMAIN toClient : toClient[k].id = job.id =>
                /\ toClient[k].what # "resync"
                /\ toClient[k].what \in {"head", "single"} => toClient[k].man.stubs = {}
        BY DEF IInv, RepeatIsFull
    <2>2. ASSUME NEW p \in {outbox', toServer'}, NEW k \in DOMAIN p, p[k].id = job.id
          PROVE  ~p[k].delta /\ p[k].known = NoMesh
        <3>1. PICK q \in {outbox, toServer} : \E n \in DOMAIN q : p[k] = q[n]
            BY DEF Moved
        <3> QED
            BY <2>1, <2>2, <3>1
    <2> QED
        BY <2>1, <2>2
<1>11. RepeatHasId'
    <2>1. FreeIds' = FreeIds
        <3>1. Ids(outbox') \cup Ids(toServer') = Ids(outbox) \cup Ids(toServer)
            BY DEF Moved
        <3>2. Ids(toClient') = Ids(toClient)
            OBVIOUS
        <3> QED
            BY <3>1, <3>2 DEF FreeIds
    <2> QED
        BY <2>1 DEF IInv, RepeatHasId
<1> QED
    BY <1>2, <1>3, <1>4, <1>5, <1>6, <1>8, <1>9, <1>10, <1>11 DEF IInv, LinkType

LEMMA NothingMoved == ASSUME IInv, UNCHANGED <<outbox, toServer>> PROVE Moved
<1>1. outbox \in Seq(Request) /\ toServer \in Seq(Request)
    BY DEF IInv, TypeOK
<1>2. \A q \in {outbox, toServer} : \A n \in DOMAIN q :
         \E p \in {outbox, toServer} : \E k \in DOMAIN p : q[n] = p[k]
    OBVIOUS
<1> QED
    BY <1>1, <1>2 DEF IInv, SentOnce, Moved

\* The calls that nothing is sent for, and the steps of the reconnect timer.
LEMMA QuietKeeps ==
    ASSUME IInv, RebuildRefused \/ Dial \/ Resume PROVE IInv'
<1>1. /\ Moved /\ bodyMesh' \in Model /\ synced' \in BOOLEAN
      /\ result' = result \/ result' = Failed("error")
      /\ UNCHANGED <<pending, streams, last, job, toClient, built>>
    <2>1. UNCHANGED calls /\ UNCHANGED cache /\ UNCHANGED <<streams, job, toClient, built>>
        BY DEF RebuildRefused, Dial, Resume
    <2>2. result' = result \/ result' = Failed("error")
        BY DEF RebuildRefused, Dial, Resume
    <2> QED
        BY <2>1, <2>2, NothingMoved DEF IInv, TypeOK, calls, cache
<1>2. LinkType'
    <2>1. CASE RebuildRefused
        BY <2>1, LinkKept DEF RebuildRefused
    <2>2. CASE Resume
        BY <2>2 DEF IInv, TypeOK, OneSocket, LinkType, Resume
    <2>3. CASE Dial
        BY <2>3 DEF IInv, TypeOK, OneSocket, LinkType, Dial
    <2> QED
        BY <2>1, <2>2, <2>3
<1>3. WireNeedsSocket'
    <2>1. CASE RebuildRefused
        BY <2>1 DEF IInv, WireNeedsSocket, RebuildRefused, link, calls
    <2>2. CASE Resume
        BY <2>2 DEF IInv, WireNeedsSocket, Resume, calls
    <2>3. CASE Dial
        BY <2>3 DEF IInv, OneSocket, WireNeedsSocket, Dial, calls
    <2> QED
        BY <2>1, <2>2, <2>3
<1> QED
    BY <1>1, <1>2, <1>3, QuietStep

LEMMA ComputeAllKeeps == ASSUME IInv, ComputeAll PROVE IInv'
<1> DEFINE fresh == FreshId
           r == FullRequest(fresh)
<1>1. /\ job = Null /\ bodyMesh' \in Model /\ synced' \in BOOLEAN
      /\ UNCHANGED link /\ UNCHANGED <<streams, last, toClient, built>>
    BY NoMeshType DEF ComputeAll
<1>2. LinkType'
    BY <1>1, LinkKept
<1>3. CASE /\ CanCall /\ Submit(r) /\ result' = Null
           /\ job' = [id |-> fresh, phase |-> "compute"]
    <2>1. FreeIds # {} /\ fresh \in Id
        BY <1>3, CallLeavesAnId, FreshIsFree
    <2>2. r \in Request /\ r.id = fresh /\ ~r.delta /\ r.known = NoMesh
        BY <2>1, RequestTypes
    <2>3. Added(r) /\ pending' = pending \cup {r.id} /\ WireNeedsSocket'
        BY <1>1, <1>3, <2>1, <2>2, SubmitAdds
    <2>4. job' \in Job /\ job'.id = r.id
        BY <1>3, <2>1, <2>2 DEF Job
    <2> HIDE DEF r, fresh
    <2>5. r.id = FreshId
        BY <2>2 DEF fresh
    <2> QED
        BY <1>1, <1>2, <1>3, <2>2, <2>3, <2>4, <2>5, RequestStep
<1>4. CASE result' = Failed("error") /\ UNCHANGED calls /\ UNCHANGED job
    <2>1. Moved /\ UNCHANGED pending
        BY <1>4, NothingMoved DEF calls
    <2>2. WireNeedsSocket'
        BY <1>1, <1>4 DEF IInv, WireNeedsSocket, calls, link
    <2> QED
        BY <1>1, <1>2, <1>4, <2>1, <2>2, QuietStep
<1> QED
    BY <1>3, <1>4 DEF ComputeAll

\* What waited in the outbox goes out, with or without a request ahead of it.
LEMMA OpenKeeps == ASSUME IInv, Open PROVE IInv'
<1> DEFINE fresh == FreshId
           r == RebuildRequest(fresh)
<1>1. /\ outbox' = <<>> /\ toServer = <<>> /\ sock' = "open"
      /\ bodyMesh' \in Model /\ synced' \in BOOLEAN
      /\ UNCHANGED <<streams, last, toClient, built>>
      /\ outbox \in Seq(Request)
    BY DEF Open, cache, IInv, TypeOK, WireNeedsSocket
<1>2. LinkType' /\ WireNeedsSocket'
    BY DEF Open, IInv, TypeOK, OneSocket, LinkType, WireNeedsSocket
<1>3. CASE toServer' = outbox /\ UNCHANGED <<pending, job, result>>
    <2>1. DOMAIN outbox' = {} /\ DOMAIN toServer = {} /\ outbox' \in Seq(Request)
        BY <1>1
    <2>2. Ids(outbox') = {} /\ Ids(toServer) = {} /\ Ids(toServer') = Ids(outbox)
        BY <1>3, <2>1 DEF Ids
    <2>3. \A k, n \in DOMAIN outbox : outbox[k].id = outbox[n].id => k = n
        BY DEF IInv, SentOnce
    <2>4. \A p \in {outbox', toServer'} : \A k \in DOMAIN p :
             \E q \in {outbox, toServer} : \E n \in DOMAIN q : p[k] = q[n]
        BY <1>3, <2>1
    <2>5. Moved
        BY <1>1, <1>3, <2>1, <2>2, <2>3, <2>4 DEF Moved
    <2> QED
        BY <1>1, <1>2, <1>3, <2>5, QuietStep
<1>4. CASE /\ job = Null /\ CanCall /\ toServer' = <<r>> \o outbox
           /\ pending' = pending \cup {fresh}
           /\ job' = [id |-> fresh, phase |-> "first"] /\ result' = Null
    <2>1. FreeIds # {} /\ fresh \in Id
        BY <1>4, CallLeavesAnId, FreshIsFree
    <2>2. r \in Request /\ r.id = fresh
        BY <2>1, RequestTypes
    <2>3. Added(r)
        BY <1>1, <1>4, <2>1, <2>2, OpenAdds
    <2>4. job' \in Job /\ job'.id = r.id /\ job'.phase = "first" /\ pending' = pending \cup {r.id}
        BY <1>4, <2>1, <2>2 DEF Job
    <2> HIDE DEF r, fresh
    <2>5. r.id = FreshId
        BY <2>2 DEF fresh
    <2> QED
        BY <1>1, <1>2, <1>4, <2>2, <2>3, <2>4, <2>5, RequestStep
<1> QED
    BY <1>3, <1>4 DEF Open

\* Everything that waits is settled: the closes of sockets, and the halt.
LEMMA ClearStep ==
    ASSUME IInv, SettleAll, LinkType', WireNeedsSocket', UNCHANGED cache,
           outbox' = outbox \/ outbox' = <<>>,
           UNCHANGED <<toServer, toClient>> \/ WireLost
    PROVE  IInv'
<1>1. TypeOK
    BY DEF IInv
<1>2. /\ pending' = {} /\ job' = Null
      /\ streams' \in [Id -> Stream \cup {Null}] /\ built' \in [Id -> Model \cup {Null}]
      /\ \A i \in Id : streams'[i] = Null /\ built'[i] = Null
    BY DEF SettleAll
<1>3. result' \in Answer \cup {Null} /\ NoSplice' /\ OneRepeatSuffices'
    <2>1. CASE result' = result
        BY <1>1, <2>1 DEF IInv, TypeOK, NoSplice, OneRepeatSuffices
    <2>2. CASE result' = Failed("error")
        <3>1. Failed("error") \in Answer /\ Failed("error").how = "error"
            BY NoMeshType DEF Failed, Answer
        <3> QED
            BY <2>2, <3>1 DEF NoSplice, OneRepeatSuffices
    <2> QED
        BY <2>1, <2>2 DEF SettleAll
<1>4. /\ outbox' \in Seq(Request) /\ toServer' \in Seq(Request) /\ toClient' \in Seq(Frame)
      /\ (outbox' = outbox \/ DOMAIN outbox' = {})
      /\ \/ toServer' = toServer /\ toClient' = toClient
         \/ DOMAIN toServer' = {} /\ DOMAIN toClient' = {}
    <2>1. outbox \in Seq(Request) /\ toServer \in Seq(Request) /\ toClient \in Seq(Frame)
        BY <1>1 DEF TypeOK
    <2>2. <<>> \in Seq(Request) /\ <<>> \in Seq(Frame) /\ DOMAIN <<>> = {}
        OBVIOUS
    <2>3. outbox' \in Seq(Request) /\ (outbox' = outbox \/ DOMAIN outbox' = {})
        BY <2>1, <2>2
    <2>4. CASE UNCHANGED <<toServer, toClient>>
        BY <2>1, <2>3, <2>4
    <2>5. CASE WireLost
        BY <2>2, <2>3, <2>5 DEF WireLost
    <2> QED
        BY <2>4, <2>5
<1>5. TypeOK'
    BY <1>1, <1>2, <1>3, <1>4 DEF TypeOK, LinkType, cache
<1>6. RebuildIsAwaited' /\ CallIsSomewhere' /\ RepeatIsFull' /\ RepeatHasId' /\ ReplyIsBuilt'
    BY <1>2 DEF RebuildIsAwaited, CallIsSomewhere, RepeatIsFull, RepeatHasId, ReplyIsBuilt
<1>7. SentOnce'
    <2>1. /\ Ids(outbox') \subseteq Ids(outbox) /\ Ids(toServer') \subseteq Ids(toServer)
          /\ Ids(toClient') \subseteq Ids(toClient)
        BY <1>4 DEF Ids
    <2>2. Ids(outbox) \cup Ids(toServer) \subseteq Id
        <3>1. \A x \in Request : x.id \in Id
            BY DEF Request
        <3>2. outbox \in Seq(Request) /\ toServer \in Seq(Request)
            BY <1>1 DEF TypeOK
        <3>3. /\ \A k \in DOMAIN outbox : outbox[k] \in Request
              /\ \A k \in DOMAIN toServer : toServer[k] \in Request
            BY <3>2
        <3> QED
            BY <3>1, <3>3 DEF Ids
    <2>3. \A k, n \in DOMAIN outbox' : outbox'[k].id = outbox'[n].id => k = n
        BY <1>4 DEF IInv, SentOnce
    <2>4. \A k, n \in DOMAIN toServer' : toServer'[k].id = toServer'[n].id => k = n
        BY <1>4 DEF IInv, SentOnce
    <2>5. Ids(outbox') \cap Ids(toServer') = {}
        BY <2>1 DEF IInv, SentOnce
    <2>6. \A i \in Ids(outbox') \cup Ids(toServer') :
             i \notin Ids(toClient') /\ streams'[i] = Null /\ built'[i] = Null
        BY <1>2, <2>1, <2>2 DEF IInv, SentOnce
    <2> QED
        BY <2>3, <2>4, <2>5, <2>6 DEF SentOnce
<1>8. JobIsTheRebuild'
    BY <1>2 DEF JobIsTheRebuild
<1>9. OneModelPerReply'
    <2> SUFFICES ASSUME NEW i \in Id
                 PROVE  \E m \in Model : \A k \in DOMAIN toClient' :
                           toClient'[k].id = i => Tells(toClient'[k], m)
        BY <1>2 DEF OneModelPerReply, Tells, StreamTells
    <2>1. PICK m \in Model : \A k \in DOMAIN toClient : toClient[k].id = i => Tells(toClient[k], m)
        BY DEF IInv, OneModelPerReply
    <2> QED
        BY <1>4, <2>1 DEF Tells
<1>10. LastIsWhole'
    BY DEF IInv, LastIsWhole, cache
<1> QED
    BY <1>3, <1>5, <1>6, <1>7, <1>8, <1>9, <1>10 DEF IInv, LinkType

LEMMA ClearKeeps ==
    ASSUME IInv, SocketCloses \/ OldSocketCloses \/ Halt PROVE IInv'
<1>1. /\ SettleAll /\ UNCHANGED cache /\ (outbox' = outbox \/ outbox' = <<>>)
      /\ UNCHANGED <<toServer, toClient>> \/ WireLost
    BY DEF SocketCloses, OldSocketCloses, Halt
<1>2. LinkType' /\ WireNeedsSocket'
    <2>1. CASE SocketCloses
        BY <2>1 DEF IInv, TypeOK, OneSocket, LinkType, WireNeedsSocket, SocketCloses, WireLost
    <2>2. CASE OldSocketCloses
        BY <2>2 DEF IInv, TypeOK, OneSocket, LinkType, WireNeedsSocket, OldSocketCloses
    <2>3. CASE Halt
        BY <2>3 DEF IInv, TypeOK, OneSocket, LinkType, WireNeedsSocket, Halt, WireLost
    <2> QED
        BY <2>1, <2>2, <2>3
<1> QED
    BY <1>1, <1>2, ClearStep

-----------------------------------------------------------------------------
(* The sidecar answers a request.                                          *)

\* What the sidecar sends for the request i, which tells of the model m.
Answered(i, m, frames) ==
    /\ frames \in Seq(Frame)
    /\ \A k \in DOMAIN frames : frames[k].id = i /\ Tells(frames[k], m)
    /\ \E k \in DOMAIN frames : frames[k].what # "chunk"
    /\ built' \in [Id -> Model \cup {Null}]
    /\ \A n \in Id : n # i => built'[n] = built[n]
    /\ built'[i] # Null => built'[i] = m /\ IsJob(i)
    /\ IsJob(i) => \A k \in DOMAIN frames :
          /\ frames[k].what \in {"head", "single"} => built'[i] # Null
          /\ job.phase # "first" =>
                /\ frames[k].what # "resync"
                /\ frames[k].what \in {"head", "single"} => frames[k].man.stubs = {}

\* The frames of an answer are the only ones of its request.
LEMMA AnswerStep ==
    ASSUME IInv, sock = "open", toServer # <<>>, toServer' = Tail(toServer),
           NEW m \in Model, NEW frames, Answered(Head(toServer).id, m, frames),
           toClient' = toClient \o frames,
           UNCHANGED <<link, pending, outbox, streams, cache, job, result>>
    PROVE  IInv'
<1> DEFINE id == Head(toServer).id
<1>1. /\ outbox \in Seq(Request) /\ toServer \in Seq(Request) /\ toClient \in Seq(Frame)
      /\ streams \in [Id -> Stream \cup {Null}] /\ built \in [Id -> Model \cup {Null}]
    BY DEF IInv, TypeOK
<1>2. /\ toServer' \in Seq(Request)
      /\ 1 \in DOMAIN toServer /\ Head(toServer) = toServer[1] /\ Head(toServer) \in Request
      /\ DOMAIN toServer = 1 .. Len(toServer)
      /\ \A k \in DOMAIN toServer' :
            k + 1 \in DOMAIN toServer /\ toServer'[k] = toServer[k + 1]
      /\ \A k \in DOMAIN toServer : k # 1 =>
            k - 1 \in DOMAIN toServer' /\ toServer'[k - 1] = toServer[k]
      /\ DOMAIN toServer' = 1 .. Len(toServer')
    BY <1>1, TailIndex
<1>3. id \in Id /\ id \in Ids(toServer)
    BY <1>2 DEF Request, Ids
<1>4. /\ id \notin Ids(outbox) /\ id \notin Ids(toClient) /\ streams[id] = Null
      /\ built[id] = Null
    BY <1>3 DEF IInv, SentOnce
<1>5. \A k, n \in DOMAIN toServer : toServer[k].id = toServer[n].id => k = n
    BY DEF IInv, SentOnce
<1>6. \A k \in DOMAIN toServer' : toServer'[k].id # id
    BY <1>2, <1>5
<1>7. /\ toClient' \in Seq(Frame)
      /\ \A k \in DOMAIN toClient : \E n \in DOMAIN toClient' : toClient'[n] = toClient[k]
      /\ \A k \in DOMAIN frames : \E n \in DOMAIN toClient' : toClient'[n] = frames[k]
      /\ \A k \in DOMAIN toClient' :
            \/ \E n \in DOMAIN toClient : toClient'[k] = toClient[n]
            \/ \E n \in DOMAIN frames : toClient'[k] = frames[n]
    <2>1. frames \in Seq(Frame)
        BY DEF Answered
    <2>2. /\ toClient' \in Seq(Frame)
          /\ \A k \in DOMAIN toClient : k \in DOMAIN toClient' /\ toClient'[k] = toClient[k]
          /\ \A k \in DOMAIN frames :
                /\ Len(toClient) + k \in DOMAIN toClient'
                /\ toClient'[Len(toClient) + k] = frames[k]
          /\ \A k \in DOMAIN toClient' :
                \/ k \in DOMAIN toClient
                \/ /\ k - Len(toClient) \in DOMAIN frames
                   /\ toClient'[k] = frames[k - Len(toClient)]
        BY <1>1, <2>1, ConcatIndex
    <2> QED
        BY <2>2
<1>8. /\ \A k \in DOMAIN frames : frames[k].id = id /\ Tells(frames[k], m)
      /\ \E k \in DOMAIN frames : frames[k].what # "chunk"
      /\ built' \in [Id -> Model \cup {Null}]
      /\ \A n \in Id : n # id => built'[n] = built[n]
      /\ built'[id] # Null => built'[id] = m /\ IsJob(id)
      /\ IsJob(id) => \A k \in DOMAIN frames :
            /\ frames[k].what \in {"head", "single"} => built'[id] # Null
            /\ job.phase # "first" =>
                  /\ frames[k].what # "resync"
                  /\ frames[k].what \in {"head", "single"} => frames[k].man.stubs = {}
    BY DEF Answered
<1> HIDE DEF id
<1>9. \A k \in DOMAIN toClient : toClient[k].id # id
    BY <1>4 DEF Ids
<1>10. /\ Ids(toServer) = Ids(toServer') \cup {id} /\ id \notin Ids(toServer')
       /\ Ids(toClient') \subseteq Ids(toClient) \cup {id}
    <2>1. Ids(toServer) \subseteq Ids(toServer') \cup {id}
        <3>1. ASSUME NEW k \in DOMAIN toServer PROVE toServer[k].id \in Ids(toServer') \cup {id}
            BY <1>2 DEF Ids, id
        <3> QED
            BY <3>1 DEF Ids
    <2>2. Ids(toServer') \subseteq Ids(toServer)
        BY <1>2 DEF Ids
    <2>3. id \notin Ids(toServer')
        BY <1>6 DEF Ids
    <2>4. Ids(toClient') \subseteq Ids(toClient) \cup {id}
        BY <1>7, <1>8 DEF Ids
    <2> QED
        BY <1>3, <2>1, <2>2, <2>3, <2>4
<1>11. TypeOK'
    BY <1>2, <1>7, <1>8 DEF IInv, TypeOK, link, cache
<1>12. RebuildIsAwaited' /\ WireNeedsSocket' /\ OneSocket' /\ LastIsWhole'
    BY DEF IInv, RebuildIsAwaited, WireNeedsSocket, OneSocket, LastIsWhole, link, cache
<1>13. NoSplice' /\ OneRepeatSuffices'
    BY DEF IInv, NoSplice, OneRepeatSuffices
<1>14. CallIsSomewhere'
    <2> SUFFICES ASSUME NEW i \in pending
                 PROVE  \/ i \in Ids(outbox) \cup Ids(toServer')
                        \/ \E k \in DOMAIN toClient' :
                              toClient'[k].id = i /\ toClient'[k].what # "chunk"
                        \/ streams[i] # Null
        BY DEF CallIsSomewhere
    <2>1. CASE i = id
        <3>1. PICK k \in DOMAIN frames : frames[k].what # "chunk"
            BY <1>8
        <3>2. PICK n \in DOMAIN toClient' : toClient'[n] = frames[k]
            BY <1>7
        <3>3. toClient'[n].id = i /\ toClient'[n].what # "chunk"
            BY <1>8, <2>1, <3>1, <3>2
        <3> QED
            BY <3>3
    <2>2. CASE i # id
        <3>1. \/ i \in Ids(outbox) \cup Ids(toServer)
              \/ \E k \in DOMAIN toClient : toClient[k].id = i /\ toClient[k].what # "chunk"
              \/ streams[i] # Null
            BY DEF IInv, CallIsSomewhere
        <3>2. CASE \E k \in DOMAIN toClient : toClient[k].id = i /\ toClient[k].what # "chunk"
            <4>1. PICK k \in DOMAIN toClient : toClient[k].id = i /\ toClient[k].what # "chunk"
                BY <3>2
            <4>2. PICK n \in DOMAIN toClient' : toClient'[n] = toClient[k]
                BY <1>7
            <4>3. toClient'[n].id = i /\ toClient'[n].what # "chunk"
                BY <4>1, <4>2
            <4> QED
                BY <4>3
        <3>3. CASE i \in Ids(outbox) \cup Ids(toServer)
            BY <1>10, <2>2, <3>3
        <3> QED
            BY <3>1, <3>2, <3>3
    <2> QED
        BY <2>1, <2>2
<1>15. SentOnce'
    <2>1. \A k, n \in DOMAIN toServer' : toServer'[k].id = toServer'[n].id => k = n
        <3> SUFFICES ASSUME NEW k \in DOMAIN toServer', NEW n \in DOMAIN toServer',
                            toServer'[k].id = toServer'[n].id
                     PROVE  k = n
            OBVIOUS
        <3>1. k + 1 = n + 1
            BY <1>2, <1>5
        <3> QED
            BY <1>2, <3>1
    <2>2. \A i \in Ids(outbox) \cup Ids(toServer) :
             i \in Id /\ i \notin Ids(toClient) /\ streams[i] = Null /\ built[i] = Null
        <3>1. \A x \in Request : x.id \in Id
            BY DEF Request
        <3>2. /\ \A k \in DOMAIN outbox : outbox[k] \in Request
              /\ \A k \in DOMAIN toServer : toServer[k] \in Request
            BY <1>1
        <3>3. Ids(outbox) \cup Ids(toServer) \subseteq Id
            BY <3>1, <3>2 DEF Ids
        <3> QED
            BY <3>3 DEF IInv, SentOnce
    <2>3. \A i \in Ids(outbox) \cup Ids(toServer') :
             i \notin Ids(toClient') /\ streams[i] = Null /\ built'[i] = Null
        BY <1>4, <1>8, <1>10, <2>2
    <2>4. /\ \A k, n \in DOMAIN outbox : outbox[k].id = outbox[n].id => k = n
          /\ Ids(outbox) \cap Ids(toServer') = {}
        BY <1>10 DEF IInv, SentOnce
    <2>5. Ids(outbox') = Ids(outbox)
        OBVIOUS
    <2> QED
        BY <2>1, <2>3, <2>4, <2>5 DEF SentOnce
<1>16. JobIsTheRebuild'
    <2>1. ASSUME NEW p \in {outbox, toServer'}, NEW k \in DOMAIN p,
                 p[k].kind = "rebuild", p[k].id \in pending
          PROVE  job # Null /\ p[k].id = job.id
        <3>1. \A q \in {outbox, toServer} : \A n \in DOMAIN q :
                 q[n].kind = "rebuild" /\ q[n].id \in pending => job # Null /\ q[n].id = job.id
            BY DEF IInv, JobIsTheRebuild
        <3>2. CASE p = outbox
            BY <2>1, <3>1, <3>2
        <3>3. CASE p = toServer'
            BY <1>2, <2>1, <3>1, <3>3
        <3> QED
            BY <3>2, <3>3
    <2>2. \A i \in Id : built'[i] # Null => job # Null /\ i = job.id
        BY <1>8 DEF IInv, JobIsTheRebuild, IsJob
    <2> QED
        BY <2>1, <2>2 DEF JobIsTheRebuild
<1>17. OneModelPerReply'
    <2> SUFFICES ASSUME NEW i \in Id
                 PROVE  \E x \in Model :
                           /\ \A k \in DOMAIN toClient' :
                                 toClient'[k].id = i => Tells(toClient'[k], x)
                           /\ streams[i] # Null => StreamTells(streams[i], x)
                           /\ built'[i] # Null => built'[i] = x
        BY DEF OneModelPerReply, Tells, StreamTells
    <2>1. CASE i = id
        <3>1. \A k \in DOMAIN toClient' : toClient'[k].id = i => Tells(toClient'[k], m)
            BY <1>7, <1>8, <1>9, <2>1
        <3> QED
            BY <1>4, <1>8, <2>1, <3>1
    <2>2. CASE i # id
        <3>1. PICK x \in Model :
                /\ \A k \in DOMAIN toClient : toClient[k].id = i => Tells(toClient[k], x)
                /\ streams[i] # Null => StreamTells(streams[i], x)
                /\ built[i] # Null => built[i] = x
            BY DEF IInv, OneModelPerReply
        <3>2. ASSUME NEW k \in DOMAIN toClient', toClient'[k].id = i
              PROVE  Tells(toClient'[k], x)
            <4>1. CASE \E n \in DOMAIN toClient : toClient'[k] = toClient[n]
                BY <3>1, <3>2, <4>1
            <4>2. CASE \E n \in DOMAIN frames : toClient'[k] = frames[n]
                BY <1>8, <2>2, <3>2, <4>2
            <4> QED
                BY <1>7, <4>1, <4>2
        <3> QED
            BY <1>8, <2>2, <3>1, <3>2
    <2> QED
        BY <2>1, <2>2
<1>18. ReplyIsBuilt'
    <2> SUFFICES ASSUME job # Null
                 PROVE  /\ streams[job.id] # Null => built'[job.id] # Null
                        /\ \A k \in DOMAIN toClient' :
                              toClient'[k].id = job.id /\ toClient'[k].what \in {"head", "single"}
                                  => built'[job.id] # Null
        BY DEF ReplyIsBuilt
    <2>1. job.id \in Id
        BY DEF IInv, TypeOK, Job
    <2>2. CASE job.id = id
        BY <1>4, <1>7, <1>8, <1>9, <2>2 DEF IsJob
    <2>3. CASE job.id # id
        <3>1. /\ streams[job.id] # Null => built[job.id] # Null
              /\ \A k \in DOMAIN toClient :
                    toClient[k].id = job.id /\ toClient[k].what \in {"head", "single"}
                        => built[job.id] # Null
            BY DEF IInv, ReplyIsBuilt
        <3> QED
            BY <1>7, <1>8, <2>1, <2>3, <3>1
    <2> QED
        BY <2>2, <2>3
<1>19. RepeatIsFull'
    <2> SUFFICES ASSUME job # Null, job.phase # "first"
                 PROVE  /\ \A p \in {outbox, toServer'} : \A k \in DOMAIN p :
                              p[k].id = job.id => ~p[k].delta /\ p[k].known = NoMesh
                        /\ \A k \in DOMAIN toClient' : toClient'[k].id = job.id =>
                              /\ toClient'[k].what # "resync"
                              /\ toClient'[k].what \in {"head", "single"}
                                    => toClient'[k].man.stubs = {}
        BY DEF RepeatIsFull
    <2>1. /\ \A q \in {outbox, toServer} : \A n \in DOMAIN q :
                q[n].id = job.id => ~q[n].delta /\ q[n].known = NoMesh
          /\ \A k \in DOMAIN toClient : toClient[k].id = job.id =>
                /\ toClient[k].what # "resync"
                /\ toClient[k].what \in {"head", "single"} => toClient[k].man.stubs = {}
        BY DEF IInv, RepeatIsFull
    <2>2. \A p \in {outbox, toServer'} : \A k \in DOMAIN p :
             p[k].id = job.id => ~p[k].delta /\ p[k].known = NoMesh
        <3>1. \A k \in DOMAIN toServer' :
                 toServer'[k].id = job.id => ~toServer'[k].delta /\ toServer'[k].known = NoMesh
            BY <1>2, <2>1
        <3> QED
            BY <2>1, <3>1
    <2>3. ASSUME NEW k \in DOMAIN toClient', toClient'[k].id = job.id
          PROVE  /\ toClient'[k].what # "resync"
                 /\ toClient'[k].what \in {"head", "single"} => toClient'[k].man.stubs = {}
        <3>1. CASE \E n \in DOMAIN toClient : toClient'[k] = toClient[n]
            BY <2>1, <2>3, <3>1
        <3>2. CASE \E n \in DOMAIN frames : toClient'[k] = frames[n]
            BY <1>8, <2>3, <3>2 DEF IsJob
        <3> QED
            BY <1>7, <3>1, <3>2
    <2> QED
        BY <2>2, <2>3
<1>20. RepeatHasId'
    <2>1. FreeIds \subseteq FreeIds'
        BY <1>10 DEF FreeIds
    <2> QED
        BY <2>1 DEF IInv, RepeatHasId
<1> QED
    BY <1>11, <1>12, <1>13, <1>14, <1>15, <1>16, <1>17, <1>18, <1>19, <1>20 DEF IInv

LEMMA ServeKeeps == ASSUME IInv, Serve PROVE IInv'
<1> DEFINE r == Head(toServer)
           id == r.id
<1>1. /\ toServer # <<>> /\ toServer' = Tail(toServer) /\ sock = "open"
      /\ UNCHANGED <<link, pending, outbox, streams, cache, job, result>>
    BY DEF Serve, IInv, WireNeedsSocket
<1>2. /\ toServer \in Seq(Request) /\ toClient \in Seq(Frame)
      /\ built \in [Id -> Model \cup {Null}]
    BY DEF IInv, TypeOK
<1>3. 1 \in DOMAIN toServer /\ r = toServer[1] /\ r \in Request
    BY <1>1, <1>2, TailIndex
<1>4. id \in Id /\ id \in Ids(toServer) /\ r.known \in Model
    BY <1>3 DEF Request, Ids
<1>5. built[id] = Null
    BY <1>4 DEF IInv, SentOnce
<1>6. /\ IsJob(id) => id \in pending
      /\ IsJob(id) /\ job.phase # "first" => ~r.delta /\ r.known = NoMesh
    BY <1>3 DEF IInv, IsJob, RebuildIsAwaited, RepeatIsFull
<1>7. ASSUME NEW f \in Frame, toClient' = Append(toClient, f), UNCHANGED built,
             f.id = id, f.what \in {"done", "resync"},
             IsJob(id) /\ job.phase # "first" => f.what # "resync"
      PROVE  IInv'
    <2> DEFINE frames == <<f>>
    <2>1. /\ frames \in Seq(Frame) /\ DOMAIN frames = {1} /\ frames[1] = f
          /\ toClient' = toClient \o frames
        BY <1>2, <1>7
    <2> HIDE DEF frames
    <2>2. Answered(id, NoMesh, frames)
        BY <1>2, <1>5, <1>7, <2>1 DEF Answered, Tells
    <2> QED
        BY <1>1, <2>1, <2>2, AnswerStep, NoMeshType
<1>8. CASE /\ r.kind = "other"
           /\ toClient' = Append(toClient, [what |-> "done", id |-> id])
           /\ UNCHANGED built
    <2>1. [what |-> "done", id |-> id] \in Frame
        BY <1>4 DEF Frame
    <2> QED
        BY <1>7, <1>8, <2>1
<1>9. CASE /\ r.kind = "rebuild" /\ r.delta
           /\ toClient' = Append(toClient, [what |-> "resync", id |-> id])
           /\ UNCHANGED built
    <2>1. [what |-> "resync", id |-> id] \in Frame
        BY <1>4 DEF Frame
    <2> QED
        BY <1>6, <1>7, <1>9, <2>1
<1>10. ASSUME NEW m \in Builds, NEW frames \in Replies(id, ManifestOf(m, r.known)),
              r.kind = "rebuild",
              built' = [built EXCEPT ![id] = IF id \in pending THEN m ELSE Null],
              toClient' = toClient \o frames
       PROVE  IInv'
    <2> DEFINE man == ManifestOf(m, r.known)
    <2>1. m \in Model /\ m # Null
        BY BuildsAssumption, NullAssumption
    <2>2. man \in Manifest /\ man.etags = m /\ (r.known = NoMesh => man.stubs = {})
        BY <1>4, <2>1, ManifestOfType
    <2>3. frames \in Replies(id, man)
        BY <1>10
    <2> HIDE DEF man
    <2>4. /\ frames \in Seq(Frame)
          /\ \A k \in DOMAIN frames : FrameOf(frames[k], id, man)
          /\ \E k \in DOMAIN frames : frames[k].what # "chunk"
        BY <1>4, <2>2, <2>3, RepliesFrames
    <2>5. \A k \in DOMAIN frames :
             /\ frames[k].id = id /\ Tells(frames[k], m) /\ frames[k].what # "resync"
             /\ frames[k].what \in {"head", "single"} => frames[k].man = man
        BY <2>2, <2>4 DEF FrameOf, Tells
    <2>6. id \in pending => IsJob(id)
        BY <1>3, <1>10 DEF IInv, JobIsTheRebuild, IsJob
    <2>7. /\ built' \in [Id -> Model \cup {Null}]
          /\ \A n \in Id : n # id => built'[n] = built[n]
          /\ built'[id] # Null => built'[id] = m /\ IsJob(id)
          /\ IsJob(id) => built'[id] # Null
        BY <1>2, <1>4, <1>6, <1>10, <2>1, <2>6
    <2>8. IsJob(id) /\ job.phase # "first" => man.stubs = {}
        BY <1>6, <2>2
    <2>9. Answered(id, m, frames)
        BY <2>4, <2>5, <2>7, <2>8 DEF Answered
    <2> QED
        BY <1>1, <1>10, <2>1, <2>9, AnswerStep
<1>11. \/ /\ r.kind = "other"
          /\ toClient' = Append(toClient, [what |-> "done", id |-> id])
          /\ UNCHANGED built
       \/ /\ r.kind = "rebuild" /\ r.delta
          /\ toClient' = Append(toClient, [what |-> "resync", id |-> id])
          /\ UNCHANGED built
       \/ /\ r.kind = "rebuild"
          /\ \E m \in Builds :
                /\ built' = [built EXCEPT ![id] = IF id \in pending THEN m ELSE Null]
                /\ \E frames \in Replies(id, ManifestOf(m, r.known)) :
                      toClient' = toClient \o frames
    BY DEF Serve
<1> QED
    BY <1>8, <1>9, <1>10, <1>11

-----------------------------------------------------------------------------
(* The invariant, and what follows from it.                                *)

LEMMA InitKeeps == Init => IInv
<1> SUFFICES ASSUME Init PROVE IInv
    OBVIOUS
<1>1. /\ outbox = <<>> /\ toServer = <<>> /\ toClient = <<>> /\ pending = {} /\ job = Null
      /\ result = Null /\ last = Null /\ bodyMesh = NoMesh /\ sock = "down"
      /\ streams = [i \in Id |-> Null] /\ built = [i \in Id |-> Null]
      /\ closing = FALSE /\ timer = TRUE /\ halted = FALSE /\ synced = FALSE
    BY DEF Init
<1>2. DOMAIN outbox = {} /\ DOMAIN toServer = {} /\ DOMAIN toClient = {}
    BY <1>1
<1>3. TypeOK
    <2>1. outbox \in Seq(Request) /\ toServer \in Seq(Request) /\ toClient \in Seq(Frame)
        BY <1>1
    <2>2. /\ streams \in [Id -> Stream \cup {Null}]
          /\ built \in [Id -> Model \cup {Null}]
        BY <1>1
    <2>3. /\ last \in [sig : Model, mesh : Model] \cup {Null} /\ job \in Job \cup {Null}
          /\ result \in Answer \cup {Null} /\ bodyMesh \in Model /\ pending \subseteq Id
        BY <1>1, NoMeshType
    <2>4. /\ sock \in {"down", "dialling", "open"} /\ synced \in BOOLEAN
          /\ closing \in BOOLEAN /\ timer \in BOOLEAN /\ halted \in BOOLEAN
        BY <1>1
    <2> QED
        BY <2>1, <2>2, <2>3, <2>4 DEF TypeOK
<1>4. RebuildIsAwaited /\ CallIsSomewhere /\ WireNeedsSocket /\ OneSocket
    BY <1>1 DEF RebuildIsAwaited, CallIsSomewhere, WireNeedsSocket, OneSocket
<1>5. SentOnce /\ JobIsTheRebuild
    <2>1. Ids(outbox) = {} /\ Ids(toServer) = {}
        BY <1>2 DEF Ids
    <2> QED
        BY <1>1, <1>2, <2>1 DEF SentOnce, JobIsTheRebuild
<1>6. OneModelPerReply
    BY <1>1, <1>2, NoMeshType DEF OneModelPerReply
<1>7. ReplyIsBuilt /\ RepeatIsFull /\ RepeatHasId /\ LastIsWhole /\ NoSplice /\ OneRepeatSuffices
    BY <1>1 DEF ReplyIsBuilt, RepeatIsFull, RepeatHasId, LastIsWhole, NoSplice, OneRepeatSuffices
<1> QED
    BY <1>3, <1>4, <1>5, <1>6, <1>7 DEF IInv

LEMMA NextKeeps == ASSUME IInv, [Next]_vars PROVE IInv'
<1>1. CASE UNCHANGED vars
    <2>1. Moved /\ LinkType' /\ WireNeedsSocket'
        BY <1>1, NothingMoved, LinkKept DEF vars, link, IInv, WireNeedsSocket
    <2>2. bodyMesh' \in Model /\ synced' \in BOOLEAN
        BY <1>1 DEF vars, IInv, TypeOK
    <2> QED
        BY <1>1, <2>1, <2>2, QuietStep DEF vars
<1>2. CASE Next
    BY <1>2, RebuildKeeps, QuietKeeps, ComputeAllKeeps, CallKeeps, DeliverKeeps,
       StreamStallsKeeps, ServeKeeps, OpenKeeps, ClearKeeps DEF Next
<1> QED
    BY <1>1, <1>2

\* What holds of the page, the wire and the replies on it at every time: every call
\* that waits is somewhere, there is one socket at most, and the frames of a reply
\* tell of the one model that the sidecar built for it.
THEOREM Invariant == Spec => []IInv
<1> QED
    BY InitKeeps, NextKeeps, PTL DEF Spec

\* A rebuild of the page never returns a model put together from two: assembly.ts
\* with its stubs, its streams and the caches it keeps over lost replies.
THEOREM NeverSpliced == Spec => []NoSplice
<1>1. IInv => NoSplice
    BY DEF IInv
<1> QED
    BY <1>1, Invariant, PTL

\* The one repeat of Geometry.rebuild is enough: neither stubs that nothing backs nor
\* a worker without the document leave it without a mesh.
THEOREM RepeatsOnce == Spec => []OneRepeatSuffices
<1>1. IInv => OneRepeatSuffices
    BY DEF IInv
<1> QED
    BY <1>1, Invariant, PTL

\* A call that waits is never lost: the reply, a timer or the close of the socket can
\* still settle it.
THEOREM CallsAreKept == Spec => [](CallIsSomewhere /\ RebuildIsAwaited)
<1>1. IInv => CallIsSomewhere /\ RebuildIsAwaited
    BY DEF IInv
<1> QED
    BY <1>1, Invariant, PTL

\* There is one socket at most, through every order of drops, halts, retries and late
\* closes (scheduleReconnect, haltReconnect, resumeReconnect, onclose).
THEOREM SocketIsSingle == Spec => []OneSocket
<1>1. IInv => OneSocket
    BY DEF IInv
<1> QED
    BY <1>1, Invariant, PTL
=============================================================================
