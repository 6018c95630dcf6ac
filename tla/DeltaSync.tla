----------------------------- MODULE DeltaSync -----------------------------
(***************************************************************************)
(* How the app and the geometry worker agree on the document that is       *)
(* built, without sending it whole each time.                              *)
(*                                                                         *)
(* The client (Geometry.rebuild and Geometry.computeAll in                 *)
(* src/src/geometry/client.ts) remembers the last document the worker      *)
(* acknowledged and its revision, and sends only the feature OBJECTS that  *)
(* are not the ones it sent before (a test of reference, not of value).    *)
(* The worker (_apply_doc_ops in src/sidecar/server.py) patches its own    *)
(* copy when the base revision is the one it holds, and asks for a resync  *)
(* when it is not.  Between the two: a socket that drops, an outbox that   *)
(* outlives the calls that filled it, and a worker that is killed by a     *)
(* cancel or a crash and comes back holding nothing.                       *)
(*                                                                         *)
(* One call is open at a time: DocumentStore.rebuildNow is the caller and  *)
(* serializes rebuilds (module RebuildPipeline).                           *)
(***************************************************************************)
EXTENDS Integers, Sequences, FiniteSets

CONSTANTS
    Ref,             \* identities of the client's feature objects
    Content,         \* what a feature object says, as JSON
    Parameters,      \* parameter tables
    Visibility,      \* body-visibility maps
    NoVisibility,    \* the absent map: no body was ever shown or hidden
    MaxFeatures,     \* bound: features in a document
    SmallDelta,      \* changed features a delta may always carry (8 in the code)
    MaxRevision,     \* bound: revisions the client hands out
    MaxInFlight,     \* bound: requests in the outbox, and at the sidecar
    Null             \* JavaScript null, Python None

Slots == 1 .. MaxFeatures

\* A feature list, as JSON arrays and as arrays of objects: both are sequences.
Lists(S) == UNION {[1 .. n -> S] : n \in 0 .. MaxFeatures}

Object    == [ref : Ref, content : Content]
ClientDoc == [features : Lists(Object), parameters : Parameters,
              bodyVisibility : Visibility]
WireDoc   == [features : Lists(Content), parameters : Parameters,
              bodyVisibility : Visibility]
Ops       == [slots : {1 .. n : n \in 0 .. MaxFeatures},
              set : UNION {[I -> Content] : I \in SUBSET Slots},
              parameters : Parameters \cup {Null},
              bodyVisibility : Visibility \cup {Null}]

Full  == [kind : {"full"}, live : BOOLEAN, rev : Nat, document : WireDoc]
Delta == [kind : {"delta"}, live : BOOLEAN, rev : Nat, base : Nat, ops : Ops]
Request == Full \cup Delta

Stage == {"rebuild", "resend", "refill", "computeAll"}
Call  == [stage : Stage, asked : ClientDoc, rev : Nat]
Held  == [rev : Nat, doc : WireDoc]
Reply == [kind : {"built"}, doc : WireDoc] \cup [kind : {"resync", "error"}]

ASSUME ConstantsAssumption ==
    /\ MaxFeatures \in Nat
    /\ SmallDelta \in Nat
    /\ MaxRevision \in Nat
    /\ MaxInFlight \in Nat
    /\ NoVisibility \in Visibility
    /\ Null \notin Parameters
    /\ Null \notin Visibility

ASSUME NullAssumption ==
    /\ Null \notin ClientDoc
    /\ Null \notin WireDoc
    /\ Null \notin Call
    /\ Null \notin Held
    /\ Null \notin Reply

VARIABLES
    lastSent,  \* client: the document of the last acknowledged rebuild, or Null
    revision,  \* client: the revision of it
    call,      \* client: the open rebuild()/computeAll(), or Null
    answer,    \* client: what the last call resolved with
    up,        \* is the socket open?
    outbox,    \* client: requests waiting for the socket to open
    inbox,     \* sidecar: requests received and not yet served, in order
    held,      \* worker: _DOC_STATE, or Null
    reply      \* the reply to the open call, on its way to the client

vars == <<lastSent, revision, call, answer, up, outbox, inbox, held, reply>>

clientVars == <<lastSent, revision, call, answer>>
netVars    == <<up, outbox, inbox, reply>>

TypeOK ==
    /\ lastSent \in ClientDoc \cup {Null}
    /\ revision \in Nat
    /\ call \in Call \cup {Null}
    /\ answer \in WireDoc \cup {Null}
    /\ up \in BOOLEAN
    /\ outbox \in Seq(Request)
    /\ inbox \in Seq(Request)
    /\ held \in Held \cup {Null}
    /\ reply \in Reply \cup {Null}

-----------------------------------------------------------------------------
(* What the client puts on the wire.                                       *)

Serialize(d) ==
    [features |-> [i \in DOMAIN d.features |-> d.features[i].content],
     parameters |-> d.parameters,
     bodyVisibility |-> d.bodyVisibility]

\* The slots whose object is not the one sent last time (`!==`).
Changed(old, new) ==
    {i \in DOMAIN new.features :
        i \notin DOMAIN old.features \/ old.features[i].ref # new.features[i].ref}

\* A delta is sent only when it is small: at most SmallDelta changed features,
\* or half of the document.
WorthDelta(old, new) ==
    LET n == Cardinality(Changed(old, new)) IN
    n <= SmallDelta \/ 2 * n <= Cardinality(DOMAIN new.features)

\* Mutant of OpsFor: the parameter table is not part of the delta.
OpsForFeaturesOnly(old, new) ==
    [slots |-> DOMAIN new.features,
     set |-> [i \in Changed(old, new) |-> new.features[i].content],
     parameters |-> Null,
     bodyVisibility |-> Null]

\* Every part the worker must change.  A map that became absent cannot be said:
\* the value is undefined, and JSON.stringify drops the key.
OpsFor(old, new) ==
    [slots |-> DOMAIN new.features,
     set |-> [i \in Changed(old, new) |-> new.features[i].content],
     parameters |-> IF new.parameters # old.parameters THEN new.parameters ELSE Null,
     bodyVisibility |->
        IF new.bodyVisibility # old.bodyVisibility /\ new.bodyVisibility # NoVisibility
        THEN new.bodyVisibility ELSE Null]

FullRequest(d, rev) ==
    [kind |-> "full", live |-> TRUE, rev |-> rev, document |-> Serialize(d)]

DeltaRequest(old, new, base) ==
    [kind |-> "delta", live |-> TRUE, rev |-> base + 1, base |-> base,
     ops |-> OpsFor(old, new)]

\* A rebuild's first request: a delta when there is something to base it on.
FirstRequest(d) ==
    IF lastSent # Null /\ WorthDelta(lastSent, d)
    THEN DeltaRequest(lastSent, d, revision)
    ELSE FullRequest(d, revision + 1)

\* An object the two documents share says the same thing in both: every edit
\* replaces the feature objects it changes (DocumentStore.updateFeature).
SharesObjects(d, e) ==
    \A i \in DOMAIN d.features, j \in DOMAIN e.features :
        d.features[i].ref = e.features[j].ref => d.features[i] = e.features[j]

\* A timeline holds an object once.
Askable(d) ==
    /\ \A i, j \in DOMAIN d.features : d.features[i].ref = d.features[j].ref => i = j
    /\ lastSent # Null => SharesObjects(d, lastSent)

-----------------------------------------------------------------------------
(* What the worker does with a request (_apply_doc_ops).                   *)

\* Mutant: any held document is patched.
CanServeAnyBase(h, req) ==
    \/ req.kind = "full"
    \/ /\ h # Null
       /\ req.ops.slots \subseteq DOMAIN h.doc.features \cup DOMAIN req.ops.set

CanServe(h, req) ==
    \/ req.kind = "full"
    \/ /\ h # Null
       /\ h.rev = req.base
       /\ req.ops.slots \subseteq DOMAIN h.doc.features \cup DOMAIN req.ops.set

Apply(d, ops) ==
    [features |-> [i \in ops.slots |->
        IF i \in DOMAIN ops.set THEN ops.set[i] ELSE d.features[i]],
     parameters |-> IF ops.parameters = Null THEN d.parameters ELSE ops.parameters,
     bodyVisibility |->
        IF ops.bodyVisibility = Null THEN d.bodyVisibility ELSE ops.bodyVisibility]

Effective(h, req) ==
    IF req.kind = "full" THEN req.document ELSE Apply(h.doc, req.ops)

-----------------------------------------------------------------------------
(* The client.                                                             *)

Abandon(reqs) == [i \in DOMAIN reqs |-> [reqs[i] EXCEPT !.live = FALSE]]

Resolve(a) == call' = Null /\ answer' = a

\* Geometry.call: on the socket when it is open, in the outbox until it is, and
\* refused at once when it is over the frame limit or the engine is gone.
Submit(req, c) ==
    \/ /\ up
       /\ Len(inbox) < MaxInFlight
       /\ inbox' = Append(inbox, req)
       /\ call' = c
       /\ answer' = Null
       /\ UNCHANGED outbox
    \/ /\ ~up
       /\ Len(outbox) < MaxInFlight
       /\ outbox' = Append(outbox, req)
       /\ call' = c
       /\ answer' = Null
       /\ UNCHANGED inbox
    \/ /\ Resolve(Null)
       /\ UNCHANGED <<inbox, outbox>>

Rebuild(d) ==
    /\ call = Null
    /\ revision < MaxRevision
    /\ Askable(d)
    /\ LET req == FirstRequest(d) IN
       Submit(req, [stage |-> "rebuild", asked |-> d, rev |-> req.rev])
    /\ UNCHANGED <<lastSent, revision, up, held, reply>>

ComputeAll(d) ==
    /\ call = Null
    /\ revision < MaxRevision
    /\ Askable(d)
    /\ lastSent' = Null
    /\ revision' = revision + 1
    /\ Submit(FullRequest(d, revision + 1),
              [stage |-> "computeAll", asked |-> d, rev |-> revision + 1])
    /\ UNCHANGED <<up, held, reply>>

\* An error reply, whatever the stage: nothing the client holds has moved.
ReplyError ==
    /\ call # Null
    /\ reply # Null
    /\ reply.kind = "error"
    /\ Resolve(Null)
    /\ reply' = Null
    /\ UNCHANGED <<lastSent, revision, up, outbox, inbox, held>>

\* The worker lost sync, or a chunked reply named a mesh the client no longer
\* has (routeStreamFrame then settles the call with a resync of its own): one
\* whole document at the revision after the last acknowledged one.
Resend ==
    /\ call # Null
    /\ call.stage = "rebuild"
    /\ reply # Null
    /\ reply.kind # "error"
    /\ reply' = Null
    /\ lastSent' = Null
    /\ Submit(FullRequest(call.asked, revision + 1),
              [stage |-> "resend", asked |-> call.asked, rev |-> revision + 1])
    /\ UNCHANGED <<revision, up, held>>

\* What an acknowledged rebuild leaves behind; computeAll and the refill have
\* moved the revision already and leave lastSent alone.
Acknowledge ==
    IF call.stage \in {"rebuild", "resend"}
    THEN lastSent' = call.asked /\ revision' = call.rev
    ELSE UNCHANGED <<lastSent, revision>>

ReplyBuilt ==
    /\ call # Null
    /\ reply # Null
    /\ reply.kind = "built"
    /\ Acknowledge
    /\ Resolve(reply.doc)
    /\ reply' = Null
    /\ UNCHANGED <<up, outbox, inbox, held>>

\* A single-frame reply whose stub the mesh cache cannot back: acknowledged,
\* and then asked for again in full, one revision later.
Refill ==
    /\ call # Null
    /\ call.stage = "rebuild"
    /\ reply # Null
    /\ reply.kind = "built"
    /\ lastSent' = call.asked
    /\ revision' = call.rev + 1
    /\ reply' = Null
    /\ Submit(FullRequest(call.asked, call.rev + 1),
              [stage |-> "refill", asked |-> call.asked, rev |-> call.rev + 1])
    /\ UNCHANGED <<up, held>>

-----------------------------------------------------------------------------
(* The sidecar.                                                            *)

\* A reply reaches the client only if its call is still waiting.
Answer(req, r) == reply' = IF req.live THEN r ELSE reply

\* The worker takes the next request: it adopts the document before it builds,
\* so a build that fails outright has replaced the held document all the same.
Serve ==
    /\ inbox # <<>>
    /\ inbox' = Tail(inbox)
    /\ LET req == Head(inbox) IN
       IF CanServe(held, req)
       THEN LET doc == Effective(held, req) IN
            /\ held' = [rev |-> req.rev, doc |-> doc]
            /\ \E r \in {[kind |-> "built", doc |-> doc], [kind |-> "error"]} :
                  Answer(req, r)
       ELSE /\ held' = held
            /\ Answer(req, [kind |-> "resync"])
    /\ UNCHANGED <<clientVars, up, outbox>>

\* A cancel, a timeout or a crash: the new worker holds nothing, the job that
\* ran and the jobs the pool had already queued behind it fail.
WorkerDies ==
    /\ \E k \in 0 .. Len(inbox) :
          /\ k = 0 => held # Null
          /\ inbox' = SubSeq(inbox, k + 1, Len(inbox))
          /\ reply' = IF \E i \in 1 .. k : inbox[i].live
                      THEN [kind |-> "error"] ELSE reply
    /\ held' = Null
    /\ UNCHANGED <<clientVars, up, outbox>>

-----------------------------------------------------------------------------
(* The socket.                                                             *)

\* Mutant of SocketCloses: the pending calls are not settled.
SocketClosesUnsettled ==
    /\ up
    /\ up' = FALSE
    /\ reply' = Null
    /\ outbox' = Abandon(outbox)
    /\ \E k \in 0 .. Len(inbox) : inbox' = Abandon(SubSeq(inbox, 1, k))
    /\ UNCHANGED <<lastSent, revision, call, answer, held>>

\* ws.onclose, of an open socket or of an attempt to open one.  Every pending
\* call is settled; the outbox is not cleared.  The sidecar cancels this
\* connection's tasks: a prefix of the jobs was with the pool and still runs.
SocketCloses ==
    /\ up \/ call # Null
    /\ up' = FALSE
    /\ Resolve(IF call = Null THEN answer ELSE Null)
    /\ reply' = Null
    /\ outbox' = Abandon(outbox)
    /\ \E k \in 0 .. Len(inbox) : inbox' = Abandon(SubSeq(inbox, 1, k))
    /\ UNCHANGED <<lastSent, revision, held>>

\* Mutant of SocketOpens: what was queued last is sent first.
SocketOpensReversed ==
    /\ ~up
    /\ Len(inbox) + Len(outbox) <= MaxInFlight
    /\ up' = TRUE
    /\ inbox' = inbox \o [i \in DOMAIN outbox |-> outbox[Len(outbox) + 1 - i]]
    /\ outbox' = <<>>
    /\ UNCHANGED <<clientVars, held, reply>>

\* ws.onopen: the whole outbox is sent, abandoned requests included.
SocketOpens ==
    /\ ~up
    /\ Len(inbox) + Len(outbox) <= MaxInFlight
    /\ up' = TRUE
    /\ inbox' = inbox \o outbox
    /\ outbox' = <<>>
    /\ UNCHANGED <<clientVars, held, reply>>

\* The page reloads: a new Geometry starts from nothing, the sidecar does not.
PageReloads ==
    /\ revision # 0 \/ call # Null
    /\ lastSent' = Null
    /\ revision' = 0
    /\ Resolve(Null)
    /\ up' = FALSE
    /\ outbox' = <<>>
    /\ reply' = Null
    /\ \E k \in 0 .. Len(inbox) : inbox' = Abandon(SubSeq(inbox, 1, k))
    /\ UNCHANGED held

-----------------------------------------------------------------------------
Init ==
    /\ lastSent = Null
    /\ revision = 0
    /\ call = Null
    /\ answer = Null
    /\ up = FALSE
    /\ outbox = <<>>
    /\ inbox = <<>>
    /\ held = Null
    /\ reply = Null

ClientStep == ReplyError \/ Resend \/ ReplyBuilt \/ Refill

Next ==
    \/ \E d \in ClientDoc : Rebuild(d) \/ ComputeAll(d)
    \/ ClientStep
    \/ Serve
    \/ WorkerDies
    \/ SocketCloses
    \/ SocketOpens
    \/ PageReloads

Spec == Init /\ [][Next]_vars

\* The event loop runs the continuation of a settled call, every job of the
\* worker ends (it is reaped when it stalls), and the client keeps dialling.
\* Nothing makes the user edit, or a worker or a socket fail.
Fairness ==
    /\ WF_vars(ClientStep)
    /\ WF_vars(Serve)
    /\ WF_vars(SocketOpens)

FairSpec == Spec /\ Fairness

-----------------------------------------------------------------------------
(* Properties.                                                             *)

\* A document on the wire is the one the client asked for: the same features
\* and parameters, and the same visibility map unless the client has none.
SameModel(wire, asked) ==
    /\ wire.features = Serialize(asked).features
    /\ wire.parameters = asked.parameters
    /\ asked.bodyVisibility # NoVisibility => wire.bodyVisibility = asked.bodyVisibility

\* What a rebuild answers with was built from the document that rebuild asked
\* for, whatever was lost, replayed or restarted on the way.
BuiltIsAsked ==
    (call # Null /\ reply # Null /\ reply.kind = "built")
        => SameModel(reply.doc, call.asked)

\* When the worker holds the revision the client will base its next delta on,
\* it holds the document the client believes it holds.
HeldIsLastSent ==
    (lastSent # Null /\ held # Null /\ held.rev = revision)
        => SameModel(held.doc, lastSent)

\* "One full resend recovers everything": a resync is only ever the answer to
\* the first request of a rebuild, never to a resend, a refill or Compute All.
OneResendRecovers ==
    (call # Null /\ reply # Null /\ reply.kind = "resync") => call.stage = "rebuild"

\* Every rebuild and Compute All resolves: the store's `rebuilding` flag, which
\* stays up until it does, cannot wedge.
CallSettles == call # Null ~> call = Null

\* Seen by the store, all of this is a service that builds what it is asked.
Service == INSTANCE RebuildService
    WITH Docs <- ClientDoc, Models <- WireDoc, BuiltFrom <- SameModel,
         asked <- IF call = Null THEN Null ELSE call.asked

\* The protocol implements it, and settles every rebuild.
ImplementsService == Service!FairSpec

-----------------------------------------------------------------------------
(* The inductive invariant behind the safety properties.                   *)

\* A live request is what the open call would send now.
Current(req) ==
    /\ call # Null
    /\ \/ req = FullRequest(call.asked, call.rev)
       \/ /\ call.stage = "rebuild"
          /\ lastSent # Null
          /\ SharesObjects(call.asked, lastSent)
          /\ call.rev = revision + 1
          /\ req = DeltaRequest(lastSent, call.asked, revision)

LiveIsCurrent ==
    /\ \A i \in DOMAIN inbox : inbox[i].live => Current(inbox[i])
    /\ \A i \in DOMAIN outbox : outbox[i].live => Current(outbox[i])

\* The client's one live request is the last thing it queued.
LiveIsLast ==
    /\ up => outbox = <<>>
    /\ \A i \in DOMAIN inbox : inbox[i].live => i = Len(inbox) /\ outbox = <<>>
    /\ \A i \in DOMAIN outbox : outbox[i].live => i = Len(outbox)

\* A reply is on its way only to an open call, and everything the client had
\* queued before that call has been served or dropped.
ReplyIsLast == reply # Null => call # Null /\ inbox = <<>> /\ outbox = <<>>

\* A document that was built is still held, unless the worker died since.
BuiltIsHeld ==
    (call # Null /\ reply # Null /\ reply.kind = "built" /\ held # Null)
        => held = [rev |-> call.rev, doc |-> reply.doc]

\* Nothing still to be served will move the worker to a different document
\* under the revision the client takes for acknowledged.
RevisionIsLastSent(req) ==
    (lastSent # Null /\ req.rev = revision)
        => req.kind = "full" /\ req.document = Serialize(lastSent)

QueueKeepsRevision ==
    /\ \A i \in DOMAIN inbox : RevisionIsLastSent(inbox[i])
    /\ \A i \in DOMAIN outbox : RevisionIsLastSent(outbox[i])

\* What the proofs rest on: every property above, the order of the queues, and
\* what the live request and the requests left behind may still do.
IInv ==
    /\ TypeOK
    /\ LiveIsCurrent
    /\ LiveIsLast
    /\ ReplyIsLast
    /\ BuiltIsHeld
    /\ QueueKeepsRevision
    /\ HeldIsLastSent
    /\ BuiltIsAsked
    /\ OneResendRecovers
=============================================================================
