-------------------------- MODULE DeltaSyncProofs --------------------------
(***************************************************************************)
(* Proofs about DeltaSync, for every set of feature objects, contents and  *)
(* tables and every bound: the types, the inductive invariant, and what    *)
(* follows from it.                                                        *)
(***************************************************************************)
EXTENDS DeltaSync, SequenceTheorems, TLAPS

-----------------------------------------------------------------------------
(* The operators the protocol is built from.                               *)

\* What is put on the wire is a wire document.
LEMMA SerializeType ==
    ASSUME NEW d \in ClientDoc
    PROVE  Serialize(d) \in WireDoc
<1>1. PICK n \in 0 .. MaxFeatures : d.features \in [1 .. n -> Object]
    BY DEF ClientDoc, Lists
<1>2. [i \in DOMAIN d.features |-> d.features[i].content] \in [1 .. n -> Content]
    BY <1>1 DEF Object
<1>3. [i \in DOMAIN d.features |-> d.features[i].content] \in Lists(Content)
    BY <1>2 DEF Lists
<1> QED
    BY <1>3 DEF Serialize, WireDoc, ClientDoc

\* The operations of a delta are well formed.
LEMMA OpsType ==
    ASSUME NEW old \in ClientDoc, NEW new \in ClientDoc
    PROVE  OpsFor(old, new) \in Ops
<1>1. PICK n \in 0 .. MaxFeatures : new.features \in [1 .. n -> Object]
    BY DEF ClientDoc, Lists
<1>2. Changed(old, new) \in SUBSET Slots
    BY <1>1, ConstantsAssumption DEF Changed, Slots
<1>3. [i \in Changed(old, new) |-> new.features[i].content]
        \in [Changed(old, new) -> Content]
    BY <1>1 DEF Changed, Object
<1>4. [i \in Changed(old, new) |-> new.features[i].content]
        \in UNION {[I -> Content] : I \in SUBSET Slots}
    BY <1>2, <1>3
<1>5. DOMAIN new.features \in {1 .. k : k \in 0 .. MaxFeatures}
    BY <1>1
<1> QED
    BY <1>4, <1>5 DEF OpsFor, Ops, ClientDoc

\* Patching a document the operations fit gives a document.
LEMMA ApplyType ==
    ASSUME NEW d \in WireDoc, NEW ops \in Ops,
           ops.slots \subseteq DOMAIN d.features \cup DOMAIN ops.set
    PROVE  Apply(d, ops) \in WireDoc
<1>1. PICK n \in 0 .. MaxFeatures : ops.slots = 1 .. n
    BY DEF Ops
<1>2. PICK m \in 0 .. MaxFeatures : d.features \in [1 .. m -> Content]
    BY DEF WireDoc, Lists
<1>3. PICK I \in SUBSET Slots : ops.set \in [I -> Content]
    BY DEF Ops
<1>4. [i \in ops.slots |-> IF i \in DOMAIN ops.set THEN ops.set[i] ELSE d.features[i]]
        \in [1 .. n -> Content]
    BY <1>1, <1>2, <1>3
<1>5. [i \in ops.slots |-> IF i \in DOMAIN ops.set THEN ops.set[i] ELSE d.features[i]]
        \in Lists(Content)
    BY <1>4 DEF Lists
<1>6. /\ ops.parameters \in Parameters \cup {Null}
      /\ ops.bodyVisibility \in Visibility \cup {Null}
      /\ d.parameters \in Parameters
      /\ d.bodyVisibility \in Visibility
    BY DEF Ops, WireDoc
<1> QED
    BY <1>5, <1>6 DEF Apply, WireDoc

\* A delta computed from one document to another takes a copy of the first to
\* a copy of the second, because shared objects say the same in both.
LEMMA ApplyOps ==
    ASSUME NEW old \in ClientDoc, NEW new \in ClientDoc, SharesObjects(new, old),
           NEW m \in WireDoc, SameModel(m, old)
    PROVE  SameModel(Apply(m, OpsFor(old, new)), new)
<1> DEFINE ops == OpsFor(old, new)
<1>1. PICK n \in 0 .. MaxFeatures : new.features \in [1 .. n -> Object]
    BY DEF ClientDoc, Lists
<1>2. PICK k \in 0 .. MaxFeatures : old.features \in [1 .. k -> Object]
    BY DEF ClientDoc, Lists
<1>3. ASSUME NEW i \in DOMAIN new.features
      PROVE  (IF i \in DOMAIN ops.set THEN ops.set[i] ELSE m.features[i])
                = new.features[i].content
    <2>1. CASE i \in Changed(old, new)
        BY <2>1 DEF OpsFor
    <2>2. CASE i \notin Changed(old, new)
        <3>1. /\ i \in DOMAIN old.features
              /\ old.features[i].ref = new.features[i].ref
            BY <2>2, <1>3 DEF Changed
        <3>2. new.features[i] = old.features[i]
            BY <3>1, <1>3 DEF SharesObjects
        <3>3. m.features[i] = old.features[i].content
            BY <3>1 DEF SameModel, Serialize
        <3> QED
            BY <2>2, <3>2, <3>3 DEF OpsFor
    <2> QED
        BY <2>1, <2>2
<1>4. Apply(m, ops).features = Serialize(new).features
    BY <1>3 DEF Apply, Serialize, OpsFor
<1>5. Apply(m, ops).parameters = new.parameters
    BY ConstantsAssumption DEF Apply, OpsFor, ClientDoc, SameModel
<1>6. new.bodyVisibility # NoVisibility
        => Apply(m, ops).bodyVisibility = new.bodyVisibility
    BY ConstantsAssumption DEF Apply, OpsFor, ClientDoc, SameModel
<1> QED
    BY <1>4, <1>5, <1>6 DEF SameModel

\* Queues keep their requests when they are cut, joined, extended or abandoned.
LEMMA AbandonSeq ==
    ASSUME NEW q \in Seq(Request)
    PROVE  /\ Abandon(q) \in Seq(Request)
           /\ DOMAIN Abandon(q) = DOMAIN q
           /\ \A i \in DOMAIN q :
                /\ ~Abandon(q)[i].live
                /\ Abandon(q)[i].kind = q[i].kind
                /\ Abandon(q)[i].rev = q[i].rev
                /\ q[i].kind = "full" => Abandon(q)[i].document = q[i].document
<1>1. \A i \in DOMAIN q : q[i] \in Request
    BY ElementOfSeq, LenProperties
<1>2. ASSUME NEW i \in DOMAIN q
      PROVE  /\ [q[i] EXCEPT !.live = FALSE] \in Request
             /\ ~[q[i] EXCEPT !.live = FALSE].live
             /\ [q[i] EXCEPT !.live = FALSE].kind = q[i].kind
             /\ [q[i] EXCEPT !.live = FALSE].rev = q[i].rev
             /\ q[i].kind = "full"
                  => [q[i] EXCEPT !.live = FALSE].document = q[i].document
    BY <1>1, <1>2 DEF Request, Full, Delta
<1>3. DOMAIN q = 1 .. Len(q) /\ Len(q) \in Nat
    BY LenProperties
<1>4. Abandon(q) \in [1 .. Len(q) -> Request]
    BY <1>2, <1>3 DEF Abandon
<1>5. Abandon(q) \in Seq(Request)
    BY <1>3, <1>4, SeqDef
<1> QED
    BY <1>2, <1>5 DEF Abandon

LEMMA PrefixSeq ==
    ASSUME NEW q \in Seq(Request), NEW k \in 0 .. Len(q)
    PROVE  /\ SubSeq(q, 1, k) \in Seq(Request)
           /\ DOMAIN SubSeq(q, 1, k) = 1 .. k
           /\ \A i \in 1 .. k : i \in DOMAIN q /\ SubSeq(q, 1, k)[i] = q[i]
<1>1. Len(q) \in Nat /\ DOMAIN q = 1 .. Len(q)
    BY LenProperties
<1>2. \A i \in 1 .. k : i \in DOMAIN q /\ q[i] \in Request
    BY <1>1, ElementOfSeq
<1>3. /\ SubSeq(q, 1, k) \in Seq(Request)
      /\ Len(SubSeq(q, 1, k)) = IF 1 <= k THEN k - 1 + 1 ELSE 0
      /\ \A i \in 1 .. k - 1 + 1 : SubSeq(q, 1, k)[i] = q[1 + i - 1]
    BY <1>1, <1>2, SubSeqProperties
<1> QED
    BY <1>1, <1>2, <1>3, LenProperties

LEMMA SuffixSeq ==
    ASSUME NEW q \in Seq(Request), NEW k \in 0 .. Len(q)
    PROVE  /\ SubSeq(q, k + 1, Len(q)) \in Seq(Request)
           /\ Len(SubSeq(q, k + 1, Len(q))) = Len(q) - k
           /\ \A i \in 1 .. Len(q) - k :
                /\ i + k \in DOMAIN q
                /\ SubSeq(q, k + 1, Len(q))[i] = q[i + k]
<1>1. Len(q) \in Nat /\ DOMAIN q = 1 .. Len(q)
    BY LenProperties
<1>2. \A i \in k + 1 .. Len(q) : i \in DOMAIN q /\ q[i] \in Request
    BY <1>1, ElementOfSeq
<1>3. /\ SubSeq(q, k + 1, Len(q)) \in Seq(Request)
      /\ Len(SubSeq(q, k + 1, Len(q)))
            = IF k + 1 <= Len(q) THEN Len(q) - (k + 1) + 1 ELSE 0
      /\ \A i \in 1 .. Len(q) - (k + 1) + 1 :
            SubSeq(q, k + 1, Len(q))[i] = q[(k + 1) + i - 1]
    BY <1>1, <1>2, SubSeqProperties
<1>4. ASSUME NEW i \in 1 .. Len(q) - k
      PROVE  /\ i + k \in DOMAIN q
             /\ SubSeq(q, k + 1, Len(q))[i] = q[i + k]
    <2>1. (k + 1) + i - 1 = i + k /\ i \in 1 .. Len(q) - (k + 1) + 1
        BY <1>1
    <2> QED
        BY <1>1, <1>3, <2>1
<1>5. Len(SubSeq(q, k + 1, Len(q))) = Len(q) - k
    <2>1. CASE k = Len(q)
        <3>1. ~(k + 1 <= Len(q)) /\ Len(q) - k = 0
            BY <2>1, <1>1
        <3> QED
            BY <1>3, <3>1
    <2>2. CASE k # Len(q)
        <3>1. k \in Nat /\ Len(q) \in Nat /\ k <= Len(q)
            BY <1>1
        <3>2. k + 1 <= Len(q) /\ Len(q) - (k + 1) + 1 = Len(q) - k
            BY <2>2, <3>1
        <3> QED
            BY <1>3, <3>2
    <2> QED
        BY <2>1, <2>2
<1> QED
    BY <1>3, <1>4, <1>5

-----------------------------------------------------------------------------
(* Types.                                                                  *)

LEMMA RequestType ==
    /\ \A d \in ClientDoc, n \in Nat : FullRequest(d, n) \in Request
    /\ \A old, new \in ClientDoc, n \in Nat : DeltaRequest(old, new, n) \in Request
<1>1. ASSUME NEW d \in ClientDoc, NEW n \in Nat
      PROVE  FullRequest(d, n) \in Request
    BY SerializeType DEF FullRequest, Request, Full
<1>2. ASSUME NEW old \in ClientDoc, NEW new \in ClientDoc, NEW n \in Nat
      PROVE  DeltaRequest(old, new, n) \in Request
    BY OpsType DEF DeltaRequest, Request, Delta
<1> QED
    BY <1>1, <1>2

\* Whatever the branch, a submitted request leaves well-formed queues.
LEMMA SubmitType ==
    ASSUME TypeOK, NEW req \in Request, NEW c \in Call, Submit(req, c)
    PROVE  /\ call' \in Call \cup {Null}
           /\ answer' \in WireDoc \cup {Null}
           /\ outbox' \in Seq(Request)
           /\ inbox' \in Seq(Request)
BY AppendProperties DEF Submit, Resolve, TypeOK

LEMMA EffectiveType ==
    ASSUME NEW h \in Held \cup {Null}, NEW req \in Request, CanServe(h, req)
    PROVE  Effective(h, req) \in WireDoc
<1>1. CASE req.kind = "full"
    BY <1>1 DEF Effective, Request, Full, Delta
<1>2. CASE req.kind # "full"
    <2>1. req \in Delta
        BY <1>2 DEF Request, Full
    <2>2. /\ h \in Held
          /\ req.ops.slots \subseteq DOMAIN h.doc.features \cup DOMAIN req.ops.set
        BY <1>2 DEF CanServe
    <2>3. h.doc \in WireDoc /\ req.ops \in Ops
        BY <2>1, <2>2 DEF Held, Delta
    <2> QED
        BY <1>2, <2>2, <2>3, ApplyType DEF Effective
<1> QED
    BY <1>1, <1>2

LEMMA TypeStep == TypeOK /\ [Next]_vars => TypeOK'
<1> SUFFICES ASSUME TypeOK, [Next]_vars
             PROVE  TypeOK'
    OBVIOUS
<1>1. ASSUME NEW d \in ClientDoc, Rebuild(d)
      PROVE  TypeOK'
    <2>1. FirstRequest(d) \in Request /\ FirstRequest(d).rev \in Nat
        BY RequestType DEF FirstRequest, FullRequest, DeltaRequest, TypeOK
    <2>2. [stage |-> "rebuild", asked |-> d, rev |-> FirstRequest(d).rev] \in Call
        BY <2>1 DEF Call, Stage
    <2> QED
        BY <1>1, <2>1, <2>2, SubmitType DEF Rebuild, TypeOK
<1>2. ASSUME NEW d \in ClientDoc, ComputeAll(d)
      PROVE  TypeOK'
    <2>1. FullRequest(d, revision + 1) \in Request
        BY RequestType DEF TypeOK
    <2>2. [stage |-> "computeAll", asked |-> d, rev |-> revision + 1] \in Call
        BY DEF Call, Stage, TypeOK
    <2> QED
        BY <1>2, <2>1, <2>2, SubmitType DEF ComputeAll, TypeOK
<1>3. CASE ReplyError
    BY <1>3 DEF ReplyError, Resolve, TypeOK
<1>4. CASE Resend
    <2>1. FullRequest(call.asked, revision + 1) \in Request
        BY <1>4, RequestType DEF Resend, TypeOK, Call
    <2>2. [stage |-> "resend", asked |-> call.asked, rev |-> revision + 1] \in Call
        BY <1>4 DEF Resend, TypeOK, Call, Stage
    <2> QED
        BY <1>4, <2>1, <2>2, SubmitType DEF Resend, TypeOK
<1>5. CASE ReplyBuilt
    <2>1. reply.doc \in WireDoc
        BY <1>5 DEF ReplyBuilt, TypeOK, Reply
    <2>2. call \in Call
        BY <1>5 DEF ReplyBuilt, TypeOK
    <2> QED
        BY <1>5, <2>1, <2>2 DEF ReplyBuilt, Acknowledge, Resolve, TypeOK, Call
<1>6. CASE Refill
    <2>1. /\ FullRequest(call.asked, call.rev + 1) \in Request
          /\ call.asked \in ClientDoc
          /\ call.rev + 1 \in Nat
        BY <1>6, RequestType DEF Refill, TypeOK, Call
    <2>2. [stage |-> "refill", asked |-> call.asked, rev |-> call.rev + 1] \in Call
        BY <1>6 DEF Refill, TypeOK, Call, Stage
    <2> QED
        BY <1>6, <2>1, <2>2, SubmitType DEF Refill, TypeOK
<1>7. CASE Serve
    <2>1. /\ Head(inbox) \in Request
          /\ Tail(inbox) \in Seq(Request)
        BY <1>7, HeadTailProperties DEF Serve, TypeOK
    <2>2. CASE CanServe(held, Head(inbox))
        <3>1. Effective(held, Head(inbox)) \in WireDoc
            BY <2>1, <2>2, EffectiveType DEF TypeOK
        <3>2. Head(inbox).rev \in Nat
            BY <2>1 DEF Request, Full, Delta
        <3> QED
            BY <1>7, <2>1, <2>2, <3>1, <3>2 DEF Serve, Answer, TypeOK, Held, Reply, clientVars
    <2>3. CASE ~CanServe(held, Head(inbox))
        BY <1>7, <2>1, <2>3 DEF Serve, Answer, TypeOK, Reply, clientVars
    <2> QED
        BY <2>2, <2>3
<1>8. CASE WorkerDies
    BY <1>8, SuffixSeq DEF WorkerDies, TypeOK, Reply, clientVars
<1>9. CASE SocketCloses
    <2>1. PICK k \in 0 .. Len(inbox) : inbox' = Abandon(SubSeq(inbox, 1, k))
        BY <1>9 DEF SocketCloses
    <2>2. inbox' \in Seq(Request) /\ outbox' \in Seq(Request)
        BY <1>9, <2>1, PrefixSeq, AbandonSeq DEF SocketCloses, TypeOK
    <2> QED
        BY <1>9, <2>2, Zenon DEF SocketCloses, Resolve, TypeOK
<1>10. CASE SocketOpens
    <2>1. inbox \o outbox \in Seq(Request) /\ <<>> \in Seq(Request)
        BY ConcatProperties, EmptySeq DEF TypeOK
    <2> QED
        BY <1>10, <2>1 DEF SocketOpens, TypeOK, clientVars
<1>11. CASE PageReloads
    <2>1. PICK k \in 0 .. Len(inbox) : inbox' = Abandon(SubSeq(inbox, 1, k))
        BY <1>11 DEF PageReloads
    <2>2. inbox' \in Seq(Request) /\ outbox' \in Seq(Request)
        BY <1>11, <2>1, PrefixSeq, AbandonSeq, EmptySeq DEF PageReloads, TypeOK
    <2>3. 0 \in Nat
        OBVIOUS
    <2> QED
        BY <1>11, <2>2, <2>3, Zenon DEF PageReloads, Resolve, TypeOK
<1>12. CASE UNCHANGED vars
    BY <1>12 DEF vars, TypeOK
<1> QED
    BY <1>1, <1>2, <1>3, <1>4, <1>5, <1>6, <1>7, <1>8, <1>9, <1>10, <1>11, <1>12
    DEF Next, ClientStep

\* Every variable keeps its type: the client's document and revision, the two
\* queues of requests, the worker's document and the reply on its way.
THEOREM TypeCorrect == Spec => []TypeOK
<1>1. Init => TypeOK
    <2>1. <<>> \in Seq(Request)
        BY EmptySeq
    <2>2. 0 \in Nat
        OBVIOUS
    <2> QED
        BY <2>1, <2>2, Zenon DEF Init, TypeOK
<1> QED
    BY <1>1, TypeStep, PTL DEF Spec

-----------------------------------------------------------------------------
(* The queues.                                                             *)

\* No request that is queued is waited for.
Quiet ==
    /\ \A i \in DOMAIN inbox : ~inbox[i].live
    /\ \A i \in DOMAIN outbox : ~outbox[i].live

\* Between calls, and while a reply is on its way, no request is waited for.
LEMMA QuietWhenIdle ==
    ASSUME LiveIsCurrent, ReplyIsLast, call = Null \/ reply # Null
    PROVE  Quiet
<1>1. CASE call = Null
    BY <1>1 DEF LiveIsCurrent, Current, Quiet
<1>2. CASE reply # Null
    BY <1>2 DEF ReplyIsLast, Quiet
<1> QED
    BY <1>1, <1>2

\* Submitting to quiet queues puts the one live request last.
LEMMA SubmitQueues ==
    ASSUME TypeOK, LiveIsLast, Quiet, NEW req \in Request, NEW c, Submit(req, c),
           up' = up
    PROVE  /\ LiveIsLast'
           /\ \A i \in DOMAIN inbox' :
                \/ inbox'[i] = req /\ call' = c
                \/ i \in DOMAIN inbox /\ inbox'[i] = inbox[i]
           /\ \A i \in DOMAIN outbox' :
                \/ outbox'[i] = req /\ call' = c
                \/ i \in DOMAIN outbox /\ outbox'[i] = outbox[i]
<1>0. /\ Len(inbox) \in Nat /\ DOMAIN inbox = 1 .. Len(inbox)
      /\ Len(outbox) \in Nat /\ DOMAIN outbox = 1 .. Len(outbox)
    BY LenProperties DEF TypeOK
<1>1. CASE UNCHANGED <<inbox, outbox>>
    BY <1>1 DEF Quiet, LiveIsLast
<1>2. CASE up /\ inbox' = Append(inbox, req) /\ call' = c /\ UNCHANGED outbox
    <2>1. /\ Len(inbox') = Len(inbox) + 1
          /\ DOMAIN inbox' = 1 .. Len(inbox) + 1
          /\ inbox'[Len(inbox) + 1] = req
          /\ \A i \in 1 .. Len(inbox) : inbox'[i] = inbox[i]
        BY <1>0, <1>2, AppendProperties DEF TypeOK
    <2>2. \A i \in DOMAIN inbox' : i = Len(inbox) + 1 \/ i \in DOMAIN inbox
        BY <1>0, <2>1
    <2>3. outbox = <<>>
        BY <1>2 DEF LiveIsLast
    <2> QED
        BY <1>0, <1>2, <2>1, <2>2, <2>3 DEF Quiet, LiveIsLast
<1>3. CASE ~up /\ outbox' = Append(outbox, req) /\ call' = c /\ UNCHANGED inbox
    <2>1. /\ Len(outbox') = Len(outbox) + 1
          /\ DOMAIN outbox' = 1 .. Len(outbox) + 1
          /\ outbox'[Len(outbox) + 1] = req
          /\ \A i \in 1 .. Len(outbox) : outbox'[i] = outbox[i]
        BY <1>0, <1>3, AppendProperties DEF TypeOK
    <2>2. \A i \in DOMAIN outbox' : i = Len(outbox) + 1 \/ i \in DOMAIN outbox
        BY <1>0, <2>1
    <2> QED
        BY <1>0, <1>3, <2>1, <2>2 DEF Quiet, LiveIsLast
<1> QED
    BY <1>1, <1>2, <1>3 DEF Submit

\* What is left of the queues when the socket or the page goes is dead.
LEMMA AbandonQueues ==
    ASSUME TypeOK, NEW k \in 0 .. Len(inbox), inbox' = Abandon(SubSeq(inbox, 1, k)),
           outbox' \in {Abandon(outbox), <<>>}, up' = FALSE
    PROVE  /\ Quiet'
           /\ LiveIsLast'
           /\ \A i \in DOMAIN inbox' :
                /\ i \in DOMAIN inbox
                /\ inbox'[i].kind = inbox[i].kind
                /\ inbox'[i].rev = inbox[i].rev
                /\ inbox[i].kind = "full" => inbox'[i].document = inbox[i].document
           /\ \A i \in DOMAIN outbox' :
                /\ i \in DOMAIN outbox
                /\ outbox'[i].kind = outbox[i].kind
                /\ outbox'[i].rev = outbox[i].rev
                /\ outbox[i].kind = "full" => outbox'[i].document = outbox[i].document
<1> DEFINE q == SubSeq(inbox, 1, k)
<1>1. /\ q \in Seq(Request)
      /\ \A i \in DOMAIN q : i \in DOMAIN inbox /\ q[i] = inbox[i]
    BY PrefixSeq DEF TypeOK
<1> HIDE DEF q
<1>2. /\ DOMAIN inbox' = DOMAIN q
      /\ \A i \in DOMAIN q :
            /\ ~inbox'[i].live
            /\ inbox'[i].kind = q[i].kind
            /\ inbox'[i].rev = q[i].rev
            /\ q[i].kind = "full" => inbox'[i].document = q[i].document
    BY <1>1, AbandonSeq DEF q
<1>3. \A i \in DOMAIN outbox' :
        /\ i \in DOMAIN outbox
        /\ ~outbox'[i].live
        /\ outbox'[i].kind = outbox[i].kind
        /\ outbox'[i].rev = outbox[i].rev
        /\ outbox[i].kind = "full" => outbox'[i].document = outbox[i].document
    <2>1. CASE outbox' = <<>>
        BY <2>1
    <2>2. CASE outbox' = Abandon(outbox)
        <3>1. outbox \in Seq(Request)
            BY DEF TypeOK
        <3>2. /\ DOMAIN Abandon(outbox) = DOMAIN outbox
              /\ \A i \in DOMAIN outbox :
                    /\ ~Abandon(outbox)[i].live
                    /\ Abandon(outbox)[i].kind = outbox[i].kind
                    /\ Abandon(outbox)[i].rev = outbox[i].rev
                    /\ outbox[i].kind = "full"
                         => Abandon(outbox)[i].document = outbox[i].document
            BY <3>1, AbandonSeq, Zenon
        <3> QED
            BY <2>2, <3>2, Zenon
    <2> QED
        BY <2>1, <2>2
<1>4. \A i \in DOMAIN inbox' : ~inbox'[i].live
    BY <1>2, Zenon
<1>5. Quiet'
    BY <1>3, <1>4, Zenon DEF Quiet
<1>6. ~up'
    BY Zenon
<1>7. LiveIsLast'
    BY <1>5, <1>6, Zenon DEF Quiet, LiveIsLast
<1>8. \A i \in DOMAIN inbox' :
        /\ i \in DOMAIN inbox
        /\ inbox'[i].kind = inbox[i].kind
        /\ inbox'[i].rev = inbox[i].rev
        /\ inbox[i].kind = "full" => inbox'[i].document = inbox[i].document
    <2> TAKE i \in DOMAIN inbox'
    <2>1. i \in DOMAIN q
        BY <1>2, Zenon
    <2>2. i \in DOMAIN inbox /\ q[i] = inbox[i]
        BY <1>1, <2>1, Zenon
    <2> QED
        BY <1>2, <2>1, <2>2, Zenon
<1> QED
    BY <1>3, <1>5, <1>7, <1>8, Zenon

-----------------------------------------------------------------------------
(* The inductive invariant, one action at a time.                          *)

\* An old request that is quiet, or the one just submitted.
LEMMA RebuildStep ==
    ASSUME IInv, TypeOK', NEW d \in ClientDoc, Rebuild(d)
    PROVE  IInv'
<1>1. TypeOK /\ call = Null /\ reply = Null
    BY DEF IInv, Rebuild, ReplyIsLast
<1>2. Quiet
    BY <1>1, QuietWhenIdle DEF IInv
<1>0. PICK req : req = FirstRequest(d)
    OBVIOUS
<1> DEFINE c == [stage |-> "rebuild", asked |-> d, rev |-> req.rev]
<1>3. req \in Request /\ req.rev = revision + 1 /\ revision \in Nat
    BY <1>0, <1>1, RequestType DEF FirstRequest, FullRequest, DeltaRequest, TypeOK
<1>4. UNCHANGED <<lastSent, revision, up, held, reply>> /\ Submit(req, c)
    BY <1>0 DEF Rebuild
<1>5. call' = c => Current(req)'
    <2> SUFFICES ASSUME call' = c
                 PROVE  Current(req)'
        OBVIOUS
    <2>1. /\ call'.stage = "rebuild" /\ call'.asked = d /\ call'.rev = revision + 1
          /\ call' # Null
        BY <1>3, NullAssumption DEF Call, Stage
    <2>2. CASE lastSent # Null /\ WorthDelta(lastSent, d)
        <3>1. req = DeltaRequest(lastSent, d, revision)
            BY <1>0, <2>2 DEF FirstRequest
        <3>2. SharesObjects(d, lastSent)
            BY <2>2 DEF Rebuild, Askable
        <3>3. lastSent' = lastSent /\ revision' = revision
            BY <1>4
        <3> QED
            BY <2>1, <2>2, <3>1, <3>2, <3>3 DEF Current
    <2>3. CASE ~(lastSent # Null /\ WorthDelta(lastSent, d))
        BY <1>0, <2>1, <2>3 DEF Current, FirstRequest
    <2> QED
        BY <2>2, <2>3
<1> HIDE DEF c
<1>6. /\ LiveIsLast'
      /\ \A i \in DOMAIN inbox' :
            \/ inbox'[i] = req /\ call' = c
            \/ i \in DOMAIN inbox /\ inbox'[i] = inbox[i]
      /\ \A i \in DOMAIN outbox' :
            \/ outbox'[i] = req /\ call' = c
            \/ i \in DOMAIN outbox /\ outbox'[i] = outbox[i]
    BY <1>1, <1>2, <1>3, <1>4, SubmitQueues DEF IInv
<1>7. LiveIsCurrent'
    BY <1>2, <1>5, <1>6 DEF LiveIsCurrent, Quiet
<1>8. QueueKeepsRevision'
    <2>1. RevisionIsLastSent(req)'
        BY <1>3, <1>4 DEF RevisionIsLastSent
    <2>2. \A r : RevisionIsLastSent(r) => RevisionIsLastSent(r)'
        BY <1>4 DEF RevisionIsLastSent
    <2> QED
        BY <1>6, <2>1, <2>2 DEF IInv, QueueKeepsRevision
<1>9. ReplyIsLast' /\ BuiltIsHeld' /\ BuiltIsAsked' /\ OneResendRecovers'
    BY <1>1, <1>4 DEF ReplyIsLast, BuiltIsHeld, BuiltIsAsked, OneResendRecovers
<1>10. HeldIsLastSent'
    BY <1>4 DEF IInv, HeldIsLastSent
<1> QED
    BY <1>6, <1>7, <1>8, <1>9, <1>10 DEF IInv

\* Compute All, a resend and a refill all put one whole document in quiet
\* queues, for a call at the revision of it.
LEMMA FullSubmitStep ==
    ASSUME IInv, TypeOK', Quiet,
           NEW d \in ClientDoc, NEW c \in Call, c.asked = d,
           Submit(FullRequest(d, c.rev), c), up' = up, reply' = Null,
           HeldIsLastSent',
           lastSent' = Null \/ (inbox = <<>> /\ outbox = <<>> /\ lastSent' = d)
    PROVE  IInv'
<1> DEFINE req == FullRequest(d, c.rev)
<1>1. req \in Request
    BY RequestType DEF Call
<1>2. call' = c => Current(req)'
    <2>1. ASSUME call' = c
          PROVE  call' # Null /\ req = FullRequest(call'.asked, call'.rev)
        BY <2>1, NullAssumption
    <2> QED
        BY <2>1 DEF Current
<1>3. lastSent' # Null => RevisionIsLastSent(req)'
    BY DEF RevisionIsLastSent, FullRequest
<1> HIDE DEF req
<1>4. /\ LiveIsLast'
      /\ \A i \in DOMAIN inbox' :
            \/ inbox'[i] = req /\ call' = c
            \/ i \in DOMAIN inbox /\ inbox'[i] = inbox[i]
      /\ \A i \in DOMAIN outbox' :
            \/ outbox'[i] = req /\ call' = c
            \/ i \in DOMAIN outbox /\ outbox'[i] = outbox[i]
    BY <1>1, SubmitQueues DEF IInv, req
<1>5. LiveIsCurrent'
    BY <1>2, <1>4 DEF LiveIsCurrent, Quiet
<1>6. QueueKeepsRevision'
    <2>1. CASE lastSent' = Null
        BY <2>1 DEF QueueKeepsRevision, RevisionIsLastSent
    <2>2. CASE lastSent' # Null
        BY <1>3, <1>4, <2>2 DEF QueueKeepsRevision
    <2> QED
        BY <2>1, <2>2
<1>7. ReplyIsLast' /\ BuiltIsHeld' /\ BuiltIsAsked' /\ OneResendRecovers'
    BY DEF ReplyIsLast, BuiltIsHeld, BuiltIsAsked, OneResendRecovers
<1> QED
    BY <1>4, <1>5, <1>6, <1>7 DEF IInv

LEMMA ComputeAllStep ==
    ASSUME IInv, TypeOK', NEW d \in ClientDoc, ComputeAll(d)
    PROVE  IInv'
<1> DEFINE c == [stage |-> "computeAll", asked |-> d, rev |-> revision + 1]
<1>1. /\ c \in Call /\ c.asked = d
      /\ Submit(FullRequest(d, c.rev), c)
    BY DEF ComputeAll, IInv, TypeOK, Call, Stage
<1>2. up' = up /\ reply' = Null /\ lastSent' = Null
    BY DEF ComputeAll, IInv, ReplyIsLast
<1>3. Quiet
    BY QuietWhenIdle DEF ComputeAll, IInv
<1>4. HeldIsLastSent'
    BY <1>2 DEF HeldIsLastSent
<1> HIDE DEF c
<1> QED
    BY <1>1, <1>2, <1>3, <1>4, FullSubmitStep

LEMMA ResendStep ==
    ASSUME IInv, TypeOK', Resend
    PROVE  IInv'
<1> DEFINE c == [stage |-> "resend", asked |-> call.asked, rev |-> revision + 1]
<1>1. call \in Call /\ revision \in Nat
    BY DEF Resend, IInv, TypeOK
<1>2. /\ call.asked \in ClientDoc
      /\ c \in Call /\ c.asked = call.asked
      /\ Submit(FullRequest(call.asked, c.rev), c)
    BY <1>1 DEF Resend, Call, Stage
<1>3. up' = up /\ reply' = Null /\ lastSent' = Null
    BY DEF Resend
<1>4. Quiet
    BY QuietWhenIdle DEF Resend, IInv
<1>5. HeldIsLastSent'
    BY <1>3 DEF HeldIsLastSent
<1> HIDE DEF c
<1> QED
    BY <1>2, <1>3, <1>4, <1>5, FullSubmitStep

LEMMA RefillStep ==
    ASSUME IInv, TypeOK', Refill
    PROVE  IInv'
<1> DEFINE c == [stage |-> "refill", asked |-> call.asked, rev |-> call.rev + 1]
<1>1. call \in Call
    BY DEF Refill, IInv, TypeOK
<1>2. /\ call.asked \in ClientDoc /\ call.rev \in Nat
      /\ c \in Call /\ c.asked = call.asked
      /\ Submit(FullRequest(call.asked, c.rev), c)
    BY <1>1 DEF Refill, Call, Stage
<1>3. up' = up /\ reply' = Null /\ lastSent' = call.asked
    BY DEF Refill
<1>4. inbox = <<>> /\ outbox = <<>>
    BY DEF Refill, IInv, ReplyIsLast
<1>5. Quiet
    BY QuietWhenIdle DEF Refill, IInv
<1>6. HeldIsLastSent'
    <2>1. held # Null => held.rev = call.rev
        BY DEF Refill, IInv, BuiltIsHeld
    <2>2. held' = held /\ revision' = call.rev + 1
        BY DEF Refill
    <2> QED
        BY <1>2, <2>1, <2>2 DEF HeldIsLastSent
<1> HIDE DEF c
<1> QED
    BY <1>2, <1>3, <1>4, <1>5, <1>6, FullSubmitStep

\* A reply that settles the call finds the queues empty and leaves them so.
LEMMA SettleStep ==
    ASSUME IInv, TypeOK', reply # Null, call' = Null, reply' = Null,
           UNCHANGED <<up, inbox, outbox>>, HeldIsLastSent'
    PROVE  IInv'
<1>1. inbox' = <<>> /\ outbox' = <<>>
    BY DEF IInv, ReplyIsLast
<1>2. LiveIsCurrent' /\ LiveIsLast' /\ QueueKeepsRevision'
    BY <1>1 DEF LiveIsCurrent, LiveIsLast, QueueKeepsRevision
<1>3. ReplyIsLast' /\ BuiltIsHeld' /\ BuiltIsAsked' /\ OneResendRecovers'
    BY DEF ReplyIsLast, BuiltIsHeld, BuiltIsAsked, OneResendRecovers
<1> QED
    BY <1>2, <1>3 DEF IInv

LEMMA ReplyErrorStep ==
    ASSUME IInv, TypeOK', ReplyError
    PROVE  IInv'
<1>1. HeldIsLastSent'
    BY DEF ReplyError, IInv, HeldIsLastSent
<1> QED
    BY <1>1, SettleStep DEF ReplyError, Resolve

\* The acknowledged document is the one the worker built, if it lives.
LEMMA ReplyBuiltStep ==
    ASSUME IInv, TypeOK', ReplyBuilt
    PROVE  IInv'
<1>1. held' = held
    BY DEF ReplyBuilt
<1>2. HeldIsLastSent'
    <2>1. CASE call.stage \in {"rebuild", "resend"}
        <3>1. lastSent' = call.asked
            BY <2>1 DEF ReplyBuilt, Acknowledge
        <3>2. SameModel(reply.doc, call.asked)
            BY DEF ReplyBuilt, IInv, BuiltIsAsked
        <3>3. held # Null => held.doc = reply.doc
            BY DEF ReplyBuilt, IInv, BuiltIsHeld
        <3> QED
            BY <1>1, <3>1, <3>2, <3>3 DEF HeldIsLastSent
    <2>2. CASE call.stage \notin {"rebuild", "resend"}
        BY <1>1, <2>2 DEF ReplyBuilt, Acknowledge, IInv, HeldIsLastSent
    <2> QED
        BY <2>1, <2>2
<1> QED
    BY <1>2, SettleStep DEF ReplyBuilt, Resolve

\* A request the worker can serve is a model of what the open call asks for,
\* if that call still waits for it.
LEMMA ServedIsAsked ==
    ASSUME IInv, NEW req \in Request, Current(req), CanServe(held, req)
    PROVE  /\ SameModel(Effective(held, req), call.asked)
           /\ req.rev = call.rev
<1>1. CASE req = FullRequest(call.asked, call.rev)
    BY <1>1 DEF FullRequest, Effective, SameModel, Serialize
<1>2. CASE /\ lastSent # Null
           /\ SharesObjects(call.asked, lastSent)
           /\ call.rev = revision + 1
           /\ req = DeltaRequest(lastSent, call.asked, revision)
    <2>1. /\ req.kind = "delta" /\ req.base = revision /\ req.rev = revision + 1
          /\ req.ops = OpsFor(lastSent, call.asked)
        BY <1>2 DEF DeltaRequest
    <2>2. held # Null /\ held.rev = revision
        BY <2>1 DEF CanServe
    <2>3. SameModel(held.doc, lastSent)
        BY <1>2, <2>2 DEF IInv, HeldIsLastSent
    <2>4. held.doc \in WireDoc /\ lastSent \in ClientDoc /\ call.asked \in ClientDoc
        BY <1>2, <2>2 DEF IInv, TypeOK, Held, Call, Current
    <2>5. SameModel(Apply(held.doc, req.ops), call.asked)
        BY <1>2, <2>1, <2>3, <2>4, ApplyOps
    <2> QED
        BY <1>2, <2>1, <2>5 DEF Effective
<1> QED
    BY <1>1, <1>2 DEF Current

LEMMA ServeStep ==
    ASSUME IInv, TypeOK', Serve
    PROVE  IInv'
<1> PICK req : req = Head(inbox)
    OBVIOUS
<1>1. /\ req \in Request
      /\ 1 \in DOMAIN inbox /\ inbox[1] = req
      /\ Len(inbox) \in Nat /\ DOMAIN inbox = 1 .. Len(inbox)
      /\ DOMAIN inbox' = 1 .. Len(inbox) - 1
      /\ \A i \in DOMAIN inbox' : i + 1 \in DOMAIN inbox /\ inbox'[i] = inbox[i + 1]
    <2>1. inbox \in Seq(Request) /\ inbox # <<>> /\ inbox' = Tail(inbox)
        BY DEF Serve, IInv, TypeOK
    <2>2. /\ Len(inbox) \in Nat \ {0} /\ DOMAIN inbox = 1 .. Len(inbox)
          /\ req = inbox[1]
        BY <2>1, EmptySeq, LenProperties
    <2>3. /\ inbox' \in Seq(Request) /\ Len(inbox') = Len(inbox) - 1
          /\ \A i \in 1 .. Len(inbox') : inbox'[i] = inbox[i + 1]
        BY <2>1, HeadTailProperties
    <2>4. DOMAIN inbox' = 1 .. Len(inbox')
        BY <2>3, LenProperties
    <2> QED
        BY <2>1, <2>2, <2>3, <2>4, ElementOfSeq
<1>2. /\ UNCHANGED <<lastSent, revision, call, up, outbox>>
      /\ reply = Null
    BY DEF Serve, clientVars, IInv, ReplyIsLast
<1>3. /\ LiveIsCurrent' /\ LiveIsLast' /\ QueueKeepsRevision'
      /\ req.live => inbox' = <<>> /\ outbox' = <<>>
    <2>1. LiveIsCurrent'
        BY <1>1, <1>2 DEF IInv, LiveIsCurrent, Current
    <2>2. LiveIsLast'
        BY <1>1, <1>2 DEF IInv, LiveIsLast
    <2>3. QueueKeepsRevision'
        BY <1>1, <1>2 DEF IInv, QueueKeepsRevision, RevisionIsLastSent
    <2>4. ASSUME req.live
          PROVE  inbox' = <<>> /\ outbox' = <<>>
        <3>1. Len(inbox) = 1 /\ outbox = <<>>
            BY <1>1, <2>4 DEF IInv, LiveIsLast
        <3>2. inbox' \in Seq(Request) /\ DOMAIN inbox' = 1 .. 0
            BY <1>1, <3>1 DEF TypeOK
        <3> QED
            BY <1>2, <3>1, <3>2, EmptySeq, LenProperties
    <2> QED
        BY <2>1, <2>2, <2>3, <2>4
<1>4. req.live => Current(req) /\ call # Null
    BY <1>1 DEF IInv, LiveIsCurrent, Current
<1>5. CASE CanServe(held, req)
    <2> DEFINE doc == Effective(held, req)
    <2>1. /\ held' = [rev |-> req.rev, doc |-> doc]
          /\ \/ ~req.live /\ reply' = Null
             \/ req.live /\ reply' = [kind |-> "built", doc |-> doc]
             \/ req.live /\ reply' = [kind |-> "error"]
        BY <1>2, <1>5 DEF Serve, Answer
    <2>2. req.live => SameModel(doc, call.asked) /\ req.rev = call.rev
        BY <1>1, <1>4, <1>5, ServedIsAsked
    <2>3. (lastSent # Null /\ req.rev = revision) => SameModel(doc, lastSent)
        <3>1. RevisionIsLastSent(req)
            BY <1>1 DEF IInv, QueueKeepsRevision
        <3> QED
            BY <3>1 DEF RevisionIsLastSent, Effective, SameModel, Serialize
    <2> HIDE DEF doc
    <2>4. HeldIsLastSent'
        BY <1>2, <2>1, <2>3 DEF HeldIsLastSent
    <2>5. ReplyIsLast' /\ BuiltIsHeld' /\ BuiltIsAsked' /\ OneResendRecovers'
        BY <1>2, <1>3, <1>4, <2>1, <2>2
        DEF ReplyIsLast, BuiltIsHeld, BuiltIsAsked, OneResendRecovers
    <2> QED
        BY <1>3, <2>4, <2>5 DEF IInv
<1>6. CASE ~CanServe(held, req)
    <2>1. /\ held' = held
          /\ \/ ~req.live /\ reply' = Null
             \/ req.live /\ reply' = [kind |-> "resync"]
        BY <1>2, <1>6 DEF Serve, Answer
    <2>2. req.live => call.stage = "rebuild"
        BY <1>4, <1>6 DEF Current, FullRequest, CanServe
    <2>3. HeldIsLastSent'
        BY <1>2, <2>1 DEF IInv, HeldIsLastSent
    <2>4. ReplyIsLast' /\ BuiltIsHeld' /\ BuiltIsAsked' /\ OneResendRecovers'
        BY <1>2, <1>3, <1>4, <2>1, <2>2
        DEF ReplyIsLast, BuiltIsHeld, BuiltIsAsked, OneResendRecovers
    <2> QED
        BY <1>3, <2>3, <2>4 DEF IInv
<1> QED
    BY <1>5, <1>6

LEMMA WorkerDiesStep ==
    ASSUME IInv, TypeOK', WorkerDies
    PROVE  IInv'
<1>1. PICK k \in 0 .. Len(inbox) :
            /\ inbox' = SubSeq(inbox, k + 1, Len(inbox))
            /\ reply' = IF \E i \in 1 .. k : inbox[i].live
                        THEN [kind |-> "error"] ELSE reply
    BY DEF WorkerDies
<1>2. UNCHANGED <<lastSent, revision, call, up, outbox>> /\ held' = Null
    BY DEF WorkerDies, clientVars
<1>3. /\ Len(inbox) \in Nat /\ DOMAIN inbox = 1 .. Len(inbox)
      /\ inbox' \in Seq(Request) /\ Len(inbox') = Len(inbox) - k
      /\ DOMAIN inbox' = 1 .. Len(inbox) - k
      /\ \A i \in 1 .. Len(inbox) - k :
            i + k \in DOMAIN inbox /\ inbox'[i] = inbox[i + k]
    <2>1. inbox \in Seq(Request)
        BY DEF IInv, TypeOK
    <2>2. /\ inbox' \in Seq(Request) /\ Len(inbox') = Len(inbox) - k
          /\ \A i \in 1 .. Len(inbox) - k :
                i + k \in DOMAIN inbox /\ inbox'[i] = inbox[i + k]
        BY <1>1, <2>1, SuffixSeq
    <2> QED
        BY <2>1, <2>2, LenProperties
<1>4. LiveIsCurrent'
    BY <1>2, <1>3 DEF IInv, LiveIsCurrent, Current
<1>5. LiveIsLast'
    BY <1>2, <1>3 DEF IInv, LiveIsLast
<1>6. QueueKeepsRevision'
    BY <1>2, <1>3 DEF IInv, QueueKeepsRevision, RevisionIsLastSent
<1>7. HeldIsLastSent' /\ BuiltIsHeld'
    BY <1>2 DEF HeldIsLastSent, BuiltIsHeld
<1>8. CASE \E i \in 1 .. k : inbox[i].live
    <2>1. PICK i \in 1 .. k : inbox[i].live
        BY <1>8
    <2>2. i \in DOMAIN inbox
        BY <1>3
    <2>3. i = Len(inbox) /\ outbox = <<>> /\ call # Null
        BY <2>1, <2>2 DEF IInv, LiveIsLast, LiveIsCurrent, Current
    <2>4. Len(inbox') = 0
        <3>1. Len(inbox) \in Nat /\ k \in Nat /\ k <= Len(inbox) /\ i <= k
            BY <1>3
        <3>2. k = Len(inbox)
            BY <2>3, <3>1
        <3> QED
            BY <1>3, <3>1, <3>2
    <2>5. inbox' = <<>>
        BY <1>3, <2>4, EmptySeq
    <2>6. reply' = [kind |-> "error"]
        BY <1>1, <1>8
    <2>7. ReplyIsLast' /\ BuiltIsAsked' /\ OneResendRecovers'
        BY <1>2, <2>3, <2>5, <2>6 DEF ReplyIsLast, BuiltIsAsked, OneResendRecovers
    <2> QED
        BY <1>4, <1>5, <1>6, <1>7, <2>7 DEF IInv
<1>9. CASE ~\E i \in 1 .. k : inbox[i].live
    <2>1. reply' = reply
        BY <1>1, <1>9
    <2>2. ReplyIsLast'
        <3>1. ASSUME inbox = <<>>
              PROVE  inbox' = <<>>
            <4>1. Len(inbox) = 0
                BY <3>1, EmptySeq
            <4>2. Len(inbox') = 0
                <5>1. k \in Nat /\ k <= 0
                    BY <4>1
                <5>2. Len(inbox') = Len(inbox) - k /\ k = 0
                    BY <1>3, <5>1
                <5> QED
                    BY <4>1, <5>2
            <4> QED
                BY <1>3, <4>2, EmptySeq
        <3> QED
            BY <1>2, <2>1, <3>1 DEF IInv, ReplyIsLast
    <2>3. BuiltIsAsked' /\ OneResendRecovers'
        BY <1>2, <2>1 DEF IInv, BuiltIsAsked, OneResendRecovers
    <2> QED
        BY <1>4, <1>5, <1>6, <1>7, <2>2, <2>3 DEF IInv
<1> QED
    BY <1>8, <1>9

\* Requests nobody waits for any more still keep the revision's promise.
LEMMA AbandonStep ==
    ASSUME IInv, TypeOK', call' = Null, reply' = Null, up' = FALSE,
           NEW k \in 0 .. Len(inbox), inbox' = Abandon(SubSeq(inbox, 1, k)),
           outbox' \in {Abandon(outbox), <<>>}, held' = held,
           lastSent' = Null \/ UNCHANGED <<lastSent, revision>>
    PROVE  IInv'
<1>1. /\ Quiet' /\ LiveIsLast'
      /\ \A i \in DOMAIN inbox' :
            /\ i \in DOMAIN inbox
            /\ inbox'[i].kind = inbox[i].kind
            /\ inbox'[i].rev = inbox[i].rev
            /\ inbox[i].kind = "full" => inbox'[i].document = inbox[i].document
      /\ \A i \in DOMAIN outbox' :
            /\ i \in DOMAIN outbox
            /\ outbox'[i].kind = outbox[i].kind
            /\ outbox'[i].rev = outbox[i].rev
            /\ outbox[i].kind = "full" => outbox'[i].document = outbox[i].document
    BY AbandonQueues DEF IInv
<1>2. LiveIsCurrent'
    BY <1>1 DEF Quiet, LiveIsCurrent
<1>3. QueueKeepsRevision'
    BY <1>1 DEF IInv, QueueKeepsRevision, RevisionIsLastSent
<1>4. HeldIsLastSent'
    BY DEF IInv, HeldIsLastSent
<1>5. ReplyIsLast' /\ BuiltIsHeld' /\ BuiltIsAsked' /\ OneResendRecovers'
    BY DEF ReplyIsLast, BuiltIsHeld, BuiltIsAsked, OneResendRecovers
<1> QED
    BY <1>1, <1>2, <1>3, <1>4, <1>5 DEF IInv

LEMMA SocketClosesStep ==
    ASSUME IInv, TypeOK', SocketCloses
    PROVE  IInv'
<1>1. PICK k \in 0 .. Len(inbox) : inbox' = Abandon(SubSeq(inbox, 1, k))
    BY DEF SocketCloses
<1> QED
    BY <1>1, AbandonStep DEF SocketCloses, Resolve

LEMMA PageReloadsStep ==
    ASSUME IInv, TypeOK', PageReloads
    PROVE  IInv'
<1>1. PICK k \in 0 .. Len(inbox) : inbox' = Abandon(SubSeq(inbox, 1, k))
    BY DEF PageReloads
<1> QED
    BY <1>1, AbandonStep DEF PageReloads, Resolve

LEMMA SocketOpensStep ==
    ASSUME IInv, TypeOK', SocketOpens
    PROVE  IInv'
<1>1. /\ inbox' = inbox \o outbox /\ outbox' = <<>>
      /\ UNCHANGED <<lastSent, revision, call, held, reply>>
    BY DEF SocketOpens, clientVars
<1>2. inbox \in Seq(Request) /\ outbox \in Seq(Request)
    BY DEF IInv, TypeOK
<1>3. /\ Len(inbox) \in Nat /\ DOMAIN inbox = 1 .. Len(inbox)
      /\ Len(outbox) \in Nat /\ DOMAIN outbox = 1 .. Len(outbox)
    BY <1>2, LenProperties
<1>4. /\ Len(inbox') = Len(inbox) + Len(outbox)
      /\ DOMAIN inbox' = 1 .. Len(inbox) + Len(outbox)
      /\ \A i \in DOMAIN inbox' :
            inbox'[i] = IF i <= Len(inbox) THEN inbox[i] ELSE outbox[i - Len(inbox)]
    <2>1. /\ inbox' \in Seq(Request)
          /\ Len(inbox') = Len(inbox) + Len(outbox)
          /\ \A i \in 1 .. Len(inbox) + Len(outbox) :
                inbox'[i] = IF i <= Len(inbox) THEN inbox[i] ELSE outbox[i - Len(inbox)]
        BY <1>1, <1>2, ConcatProperties
    <2>2. DOMAIN inbox' = 1 .. Len(inbox')
        BY <2>1, LenProperties
    <2> QED
        BY <2>1, <2>2
<1>5. \A i \in DOMAIN inbox' :
        \/ i \in DOMAIN inbox /\ inbox'[i] = inbox[i]
        \/ i - Len(inbox) \in DOMAIN outbox /\ inbox'[i] = outbox[i - Len(inbox)]
    BY <1>3, <1>4
<1>6. LiveIsCurrent'
    BY <1>1, <1>5 DEF IInv, LiveIsCurrent, Current
<1>7. QueueKeepsRevision'
    BY <1>1, <1>5 DEF IInv, QueueKeepsRevision, RevisionIsLastSent
<1>8. LiveIsLast'
    <2>1. ASSUME NEW i \in DOMAIN inbox', inbox'[i].live
          PROVE  i = Len(inbox')
        <3>1. CASE i \in DOMAIN inbox /\ inbox'[i] = inbox[i]
            <4>1. i = Len(inbox) /\ outbox = <<>>
                BY <2>1, <3>1 DEF IInv, LiveIsLast
            <4>2. Len(outbox) = 0
                BY <4>1, EmptySeq
            <4> QED
                BY <1>3, <1>4, <4>1, <4>2
        <3>2. CASE i - Len(inbox) \in DOMAIN outbox /\ inbox'[i] = outbox[i - Len(inbox)]
            <4>1. i - Len(inbox) = Len(outbox)
                BY <2>1, <3>2 DEF IInv, LiveIsLast
            <4> QED
                BY <1>3, <1>4, <4>1
        <3> QED
            BY <1>5, <3>1, <3>2
    <2> QED
        BY <1>1, <2>1 DEF LiveIsLast
<1>9. ReplyIsLast'
    BY <1>1, <1>2, ConcatEmptySeq DEF IInv, ReplyIsLast
<1>10. HeldIsLastSent' /\ BuiltIsHeld' /\ BuiltIsAsked' /\ OneResendRecovers'
    BY <1>1 DEF IInv, HeldIsLastSent, BuiltIsHeld, BuiltIsAsked, OneResendRecovers
<1> QED
    BY <1>6, <1>7, <1>8, <1>9, <1>10 DEF IInv

\* The invariant holds initially.
LEMMA IInvInit == Init => IInv
<1> SUFFICES ASSUME Init
             PROVE  IInv
    OBVIOUS
<1>1. TypeOK
    <2>1. <<>> \in Seq(Request)
        BY EmptySeq
    <2>2. 0 \in Nat
        OBVIOUS
    <2> QED
        BY <2>1, <2>2, Zenon DEF Init, TypeOK
<1>2. DOMAIN inbox = {} /\ DOMAIN outbox = {}
    BY DEF Init
<1>3. LiveIsCurrent /\ LiveIsLast /\ QueueKeepsRevision
    BY <1>2 DEF Init, LiveIsCurrent, LiveIsLast, QueueKeepsRevision
<1>4. /\ ReplyIsLast /\ BuiltIsHeld /\ HeldIsLastSent /\ BuiltIsAsked
      /\ OneResendRecovers
    BY DEF Init, ReplyIsLast, BuiltIsHeld, HeldIsLastSent, BuiltIsAsked,
           OneResendRecovers
<1> QED
    BY <1>1, <1>3, <1>4 DEF IInv

\* Every step keeps it.
LEMMA IInvStep == IInv /\ [Next]_vars => IInv'
<1> SUFFICES ASSUME IInv, [Next]_vars
             PROVE  IInv'
    OBVIOUS
<1>1. TypeOK'
    BY TypeStep DEF IInv
<1>2. ASSUME NEW d \in ClientDoc, Rebuild(d)
      PROVE  IInv'
    BY <1>1, <1>2, RebuildStep
<1>3. ASSUME NEW d \in ClientDoc, ComputeAll(d)
      PROVE  IInv'
    BY <1>1, <1>3, ComputeAllStep
<1>4. CASE ReplyError
    BY <1>1, <1>4, ReplyErrorStep
<1>5. CASE Resend
    BY <1>1, <1>5, ResendStep
<1>6. CASE ReplyBuilt
    BY <1>1, <1>6, ReplyBuiltStep
<1>7. CASE Refill
    BY <1>1, <1>7, RefillStep
<1>8. CASE Serve
    BY <1>1, <1>8, ServeStep
<1>9. CASE WorkerDies
    BY <1>1, <1>9, WorkerDiesStep
<1>10. CASE SocketCloses
    BY <1>1, <1>10, SocketClosesStep
<1>11. CASE SocketOpens
    BY <1>1, <1>11, SocketOpensStep
<1>12. CASE PageReloads
    BY <1>1, <1>12, PageReloadsStep
<1>13. CASE UNCHANGED vars
    BY <1>1, <1>13
    DEF vars, IInv, LiveIsCurrent, LiveIsLast, ReplyIsLast, BuiltIsHeld, Current,
        QueueKeepsRevision, RevisionIsLastSent, HeldIsLastSent, BuiltIsAsked,
        OneResendRecovers
<1> QED
    BY <1>2, <1>3, <1>4, <1>5, <1>6, <1>7, <1>8, <1>9, <1>10, <1>11, <1>12, <1>13
    DEF Next, ClientStep

\* The inductive invariant: the order of the queues, and what the live request
\* and the requests left behind may still do to the worker's document.
THEOREM Invariant == Spec => []IInv
BY IInvInit, IInvStep, PTL DEF Spec

\* What a rebuild answers with was built from the document it asked for, for
\* any number of features, lost connections, dead workers and resends.
THEOREM AnswersWhatWasAsked == Spec => []BuiltIsAsked
<1>1. IInv => BuiltIsAsked
    BY DEF IInv
<1> QED
    BY <1>1, Invariant, PTL

\* A worker that holds the client's revision holds the client's document.
THEOREM HoldsWhatWasSent == Spec => []HeldIsLastSent
<1>1. IInv => HeldIsLastSent
    BY DEF IInv
<1> QED
    BY <1>1, Invariant, PTL

\* One full resend recovers everything: it is never answered by a resync.
THEOREM ResendsOnce == Spec => []OneResendRecovers
<1>1. IInv => OneResendRecovers
    BY DEF IInv
<1> QED
    BY <1>1, Invariant, PTL

-----------------------------------------------------------------------------
(* The refinement.                                                         *)

\* While a call is open there is no answer yet.
OpenUnanswered == call # Null => answer = Null

LEMMA OpenUnansweredStep == OpenUnanswered /\ [Next]_vars => OpenUnanswered'
<1> SUFFICES ASSUME OpenUnanswered, [Next]_vars
             PROVE  OpenUnanswered'
    OBVIOUS
<1>1. ASSUME NEW d \in ClientDoc, Rebuild(d) \/ ComputeAll(d)
      PROVE  OpenUnanswered'
    BY <1>1 DEF Rebuild, ComputeAll, Submit, Resolve, OpenUnanswered
<1>2. CASE ClientStep
    BY <1>2 DEF ClientStep, ReplyError, Resend, ReplyBuilt, Refill, Submit, Resolve,
                OpenUnanswered
<1>3. CASE Serve \/ WorkerDies \/ SocketOpens \/ UNCHANGED vars
    BY <1>3 DEF Serve, WorkerDies, SocketOpens, vars, clientVars, OpenUnanswered
<1>4. CASE SocketCloses \/ PageReloads
    BY <1>4 DEF SocketCloses, PageReloads, Resolve, OpenUnanswered
<1> QED
    BY <1>1, <1>2, <1>3, <1>4 DEF Next

\* A first submission opens a rebuild or is refused.
LEMMA AskSubmit ==
    ASSUME NEW req, NEW c \in Call, call = Null, Submit(req, c)
    PROVE  Service!Next
<1>1. c # Null /\ c.asked \in ClientDoc /\ c.asked # Null
    BY NullAssumption DEF Call
<1>2. CASE call' = c /\ answer' = Null
    <2>1. Service!Ask(c.asked)
        BY <1>1, <1>2 DEF Service!Ask
    <2> QED
        BY <1>1, <2>1 DEF Service!Next
<1>3. CASE call' = Null /\ answer' = Null
    <2>1. Service!Refuse
        BY <1>3 DEF Service!Refuse
    <2> QED
        BY <2>1 DEF Service!Next
<1> QED
    BY <1>2, <1>3 DEF Submit, Resolve

\* A further submission of the same rebuild is not seen, or fails it.
LEMMA RetrySubmit ==
    ASSUME TypeOK, OpenUnanswered, NEW req, NEW c \in Call,
           call # Null, c.asked = call.asked, Submit(req, c)
    PROVE  Service!Next \/ UNCHANGED Service!vars
<1>1. c # Null /\ call.asked # Null
    BY NullAssumption DEF Call, TypeOK
<1>2. CASE call' = c /\ answer' = Null
    BY <1>1, <1>2 DEF OpenUnanswered, Service!vars
<1>3. CASE call' = Null /\ answer' = Null
    <2>1. Service!Fail
        BY <1>1, <1>3 DEF Service!Fail
    <2> QED
        BY <2>1 DEF Service!Next, Service!Settle
<1> QED
    BY <1>2, <1>3 DEF Submit, Resolve

\* A call that ends with nothing to show has failed, or had already ended.
LEMMA NothingBuilt ==
    ASSUME TypeOK, call' = Null, answer' = Null
    PROVE  Service!Next
<1>1. CASE call = Null
    <2>1. Service!Refuse
        BY <1>1 DEF Service!Refuse
    <2> QED
        BY <2>1 DEF Service!Next
<1>2. CASE call # Null
    <2>1. call.asked # Null
        BY <1>2, NullAssumption DEF TypeOK, Call
    <2>2. Service!Fail
        BY <1>2, <2>1 DEF Service!Fail
    <2> QED
        BY <2>2 DEF Service!Next, Service!Settle
<1> QED
    BY <1>1, <1>2

LEMMA ServiceStep ==
    ASSUME IInv, OpenUnanswered, [Next]_vars
    PROVE  Service!Next \/ UNCHANGED Service!vars
<1>1. TypeOK
    BY DEF IInv
<1>2. ASSUME NEW d \in ClientDoc, Rebuild(d)
      PROVE  Service!Next
    <2>1. FirstRequest(d).rev \in Nat
        BY <1>1 DEF FirstRequest, FullRequest, DeltaRequest, TypeOK
    <2>2. [stage |-> "rebuild", asked |-> d, rev |-> FirstRequest(d).rev] \in Call
        BY <2>1 DEF Call, Stage
    <2> QED
        BY <1>2, <2>2, AskSubmit DEF Rebuild
<1>3. ASSUME NEW d \in ClientDoc, ComputeAll(d)
      PROVE  Service!Next
    <2>1. [stage |-> "computeAll", asked |-> d, rev |-> revision + 1] \in Call
        BY <1>1 DEF Call, Stage, TypeOK
    <2> QED
        BY <1>3, <2>1, AskSubmit DEF ComputeAll
<1>4. CASE ReplyError
    BY <1>1, <1>4, NothingBuilt DEF ReplyError, Resolve
<1>5. CASE Resend
    <2>1. [stage |-> "resend", asked |-> call.asked, rev |-> revision + 1] \in Call
        BY <1>1, <1>5 DEF Resend, TypeOK, Call, Stage
    <2> QED
        BY <1>1, <1>5, <2>1, RetrySubmit DEF Resend
<1>6. CASE Refill
    <2>1. [stage |-> "refill", asked |-> call.asked, rev |-> call.rev + 1] \in Call
        BY <1>1, <1>6 DEF Refill, TypeOK, Call, Stage
    <2> QED
        BY <1>1, <1>6, <2>1, RetrySubmit DEF Refill
<1>7. CASE ReplyBuilt
    <2>1. reply.doc \in WireDoc /\ call \in Call /\ call # Null
        BY <1>1, <1>7 DEF ReplyBuilt, TypeOK, Reply
    <2>2. SameModel(reply.doc, call.asked)
        BY <1>7 DEF ReplyBuilt, IInv, BuiltIsAsked
    <2>3. call.asked # Null
        BY <2>1, NullAssumption DEF Call
    <2>4. call' = Null /\ answer' = reply.doc
        BY <1>7 DEF ReplyBuilt, Resolve
    <2>5. Service!Build(reply.doc)
        BY <2>1, <2>2, <2>3, <2>4 DEF Service!Build
    <2> QED
        BY <2>1, <2>5 DEF Service!Next, Service!Settle
<1>8. CASE Serve \/ WorkerDies \/ SocketOpens \/ UNCHANGED vars
    BY <1>8 DEF Serve, WorkerDies, SocketOpens, vars, clientVars, Service!vars
<1>9. CASE SocketCloses
    <2>1. CASE call = Null
        BY <1>9, <2>1 DEF SocketCloses, Resolve, Service!vars
    <2>2. CASE call # Null
        BY <1>1, <1>9, <2>2, NothingBuilt DEF SocketCloses, Resolve
    <2> QED
        BY <2>1, <2>2
<1>10. CASE PageReloads
    BY <1>1, <1>10, NothingBuilt DEF PageReloads, Resolve
<1> QED
    BY <1>2, <1>3, <1>4, <1>5, <1>6, <1>7, <1>8, <1>9, <1>10 DEF Next, ClientStep

\* Deltas, resyncs, refills, lost sockets and dead workers are invisible to the
\* store: the protocol is a service that builds what it is asked, or fails.
THEOREM ImplementsServiceSafely == Spec => Service!Spec
<1>1. Init => Service!Init /\ OpenUnanswered
    BY DEF Init, Service!Init, OpenUnanswered
<1>2. IInv /\ OpenUnanswered /\ [Next]_vars => [Service!Next]_(Service!vars)
    BY ServiceStep
<1> QED
    BY <1>1, <1>2, OpenUnansweredStep, Invariant, PTL DEF Spec, Service!Spec
=============================================================================
