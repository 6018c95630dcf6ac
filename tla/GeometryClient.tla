-------------------------- MODULE GeometryClient --------------------------
(***************************************************************************)
(* The page's side of the geometry socket: calls and the outbox, the       *)
(* reconnecting socket, the halt when the engine is gone, and the replies  *)
(* of rebuilds, which arrive as streams of frames whose bodies are either  *)
(* meshes or stubs for meshes the page holds (src/geometry/client.ts,      *)
(* assembly.ts; the sending side is sidecar/server.py).                    *)
(*                                                                         *)
(* A mesh is its etag, a model assigns an etag to each of its bodies.  A   *)
(* handler of the page runs to the next network call, with the rest of the *)
(* rebuild its reply resolves.  The frames of a reply are put on the wire  *)
(* at once: whatever is behind a frame may still be lost with the socket.  *)
(* One rebuild or computeAll at a time, as DocumentStore asks for them.    *)
(***************************************************************************)
EXTENDS Integers, FiniteSets, Sequences, SequencesExt, Functions

CONSTANTS
    Body,       \* bodies
    Etag,       \* versions of a body's mesh
    Builds,     \* the models the sidecar is asked to build
    MaxIds,     \* bound: requests that the page, the wire and the sidecar know of
    Null

ASSUME IdsAssumption == MaxIds \in Nat /\ MaxIds >= 2

Id == 1 .. MaxIds

Model == UNION {[S -> Etag] : S \in SUBSET Body}

ASSUME BuildsAssumption == Builds \subseteq Model

NoMesh == [b \in {} |-> Null]

\* The meshes of m, and those of n for its other bodies (the operator @@ of TLC,
\* whose definition the prover does not have).
Over(m, n) == [b \in DOMAIN m \cup DOMAIN n |-> IF b \in DOMAIN m THEN m[b] ELSE n[b]]

\* What a reply's head says of its bodies.
Manifest == UNION {[etags : {m}, stubs : SUBSET DOMAIN m] : m \in Model}

Request == [id : Id, kind : {"rebuild", "other"}, delta : BOOLEAN, known : Model]

Frame ==
    [what : {"error", "resync", "done"}, id : Id]
        \cup [what : {"single"}, id : Id, man : Manifest]
        \cup [what : {"head"}, id : Id, man : Manifest, final : BOOLEAN]
        \cup [what : {"chunk"}, id : Id, seq : Nat, bodies : Model, final : BOOLEAN]

Stream == [next : Nat, man : Manifest, got : Model]

Job == [id : Id, phase : {"first", "again", "refill", "compute"}]

ASSUME NullAssumption == Null \notin Model \cup Stream \cup Job

VARIABLES
    sock,       \* ws: "down", "dialling" or "open"
    closing,    \* a socket told to close has not reported its close yet
    timer,      \* reconnectTimer
    halted,     \* halted is not null
    pending,    \* ids of the calls that wait
    outbox,     \* requests that wait for a socket
    streams,    \* the stream of each id, or Null
    bodyMesh,   \* the mesh held for each body
    last,       \* lastAssembled with its signature, or Null
    synced,     \* lastSent is not null
    job,        \* the rebuild or computeAll under way, or Null
    result,     \* what the last one resolved to, or Null
    toServer,   \* requests on the wire
    toClient,   \* frames on the wire
    built       \* history: the model each id was answered with, or Null

vars == <<sock, closing, timer, halted, pending, outbox, streams, bodyMesh, last, synced,
          job, result, toServer, toClient, built>>

link == <<sock, closing, timer, halted>>
calls == <<pending, outbox, toServer>>
cache == <<bodyMesh, last, synced>>

Answer == [how : {"error", "noMesh", "model"}, model : Model, truth : Model \cup {Null}]

TypeOK ==
    /\ sock \in {"down", "dialling", "open"}
    /\ closing \in BOOLEAN /\ timer \in BOOLEAN /\ halted \in BOOLEAN
    /\ pending \subseteq Id
    /\ outbox \in Seq(Request) /\ toServer \in Seq(Request)
    /\ streams \in [Id -> Stream \cup {Null}]
    /\ bodyMesh \in Model
    /\ last \in [sig : Model, mesh : Model] \cup {Null}
    /\ synced \in BOOLEAN
    /\ job \in Job \cup {Null}
    /\ result \in Answer \cup {Null}
    /\ toClient \in Seq(Frame)
    /\ built \in [Id -> Model \cup {Null}]

-----------------------------------------------------------------------------
(* Calls.                                                                  *)

Ids(q) == {q[i].id : i \in DOMAIN q}

\* crypto.randomUUID: an id nothing refers to any more.
FreeIds ==
    {i \in Id : /\ i \notin pending \cup Ids(outbox) \cup Ids(toServer) \cup Ids(toClient)
                /\ streams[i] = Null}

FreshId == CHOOSE i \in FreeIds : TRUE

\* A caller leaves an id for the request a rebuild may have to repeat.
CanCall == Cardinality(FreeIds) > 1

Failed(how) == [how |-> how, model |-> NoMesh, truth |-> Null]

RebuildRequest(id) ==
    [id |-> id, kind |-> "rebuild", delta |-> synced, known |-> bodyMesh]

\* Mutant of FullRequest: it still names the meshes held before.
FullRequestKnown(id) ==
    [id |-> id, kind |-> "rebuild", delta |-> FALSE, known |-> bodyMesh]

FullRequest(id) ==
    [id |-> id, kind |-> "rebuild", delta |-> FALSE, known |-> NoMesh]

OtherRequest(id) ==
    [id |-> id, kind |-> "other", delta |-> FALSE, known |-> NoMesh]

\* Geometry.call of an engine that is not halted: sent, or kept for a socket.
Submit(r) ==
    /\ pending' = pending \cup {r.id}
    /\ IF sock = "open"
       THEN toServer' = Append(toServer, r) /\ UNCHANGED outbox
       ELSE outbox' = Append(outbox, r) /\ UNCHANGED toServer

Rebuild ==
    /\ job = Null
    /\ CanCall
    /\ ~halted
    /\ Submit(RebuildRequest(FreshId))
    /\ job' = [id |-> FreshId, phase |-> "first"]
    /\ result' = Null
    /\ UNCHANGED <<link, streams, cache, toClient, built>>

\* A halted engine, or a document past the cap on messages.
RebuildRefused ==
    /\ job = Null
    /\ result' = Failed("error")
    /\ UNCHANGED <<link, calls, streams, cache, job, toClient, built>>

\* The caches are dropped first, whatever becomes of the call.
ComputeAll ==
    /\ job = Null
    /\ bodyMesh' = NoMesh
    /\ synced' = FALSE
    /\ \/ /\ CanCall
          /\ ~halted
          /\ Submit(FullRequest(FreshId))
          /\ job' = [id |-> FreshId, phase |-> "compute"]
          /\ result' = Null
       \/ /\ result' = Failed("error")
          /\ UNCHANGED <<calls, job>>
    /\ UNCHANGED <<link, streams, last, toClient, built>>

\* An import, an export, a query, a cancel.
Call ==
    /\ CanCall
    /\ ~halted
    /\ Submit(OtherRequest(FreshId))
    /\ UNCHANGED <<link, streams, cache, job, result, toClient, built>>

-----------------------------------------------------------------------------
(* What a reply does to the call it settles, and to the rebuild behind it. *)

\* Mutant of Backed: any mesh of the body will do.
BackedByAny(man, held) == man.stubs \subseteq DOMAIN held

\* The stubs of a reply stand for meshes that are held, and no other.
Backed(man, held) == \A b \in man.stubs : b \in DOMAIN held /\ held[b] = man.etags[b]

IsNoop(man, lst) ==
    /\ DOMAIN man.etags # {}
    /\ man.stubs = DOMAIN man.etags
    /\ lst # Null
    /\ lst.sig = man.etags

Full(man) == Restrict(man.etags, DOMAIN man.etags \ man.stubs)

\* The meshes that a finished reply names are kept.
Prune(held, man) == Restrict(held, DOMAIN held \cap DOMAIN man.etags)

Return(answer) ==
    /\ pending' = pending \ {job.id}
    /\ job' = Null
    /\ result' = answer
    /\ built' = [built EXCEPT ![job.id] = Null]
    /\ UNCHANGED <<outbox, toServer>>

Assembled(m) == [how |-> "model", model |-> m, truth |-> built[job.id]]

\* The whole document is sent again, unless it is past the cap.
Repeat(phase) ==
    \/ Return(Failed("error"))
    \/ LET r == FullRequest(FreshId)
       IN  /\ pending' = (pending \ {job.id}) \cup {r.id}
           /\ toServer' = Append(toServer, r)
           /\ job' = [id |-> r.id, phase |-> phase]
           /\ built' = [built EXCEPT ![job.id] = Null]
           /\ UNCHANGED <<outbox, result>>

Incremental == job.phase \in {"first", "again"}

\* assemble, of a reply in a single frame.
Assemble(man, held, lst) ==
    \/ /\ ~Backed(man, held)
       /\ Incremental
       /\ bodyMesh' = NoMesh
       /\ last' = Null
       /\ Repeat("refill")
    \/ /\ Backed(man, held)
       /\ IsNoop(man, lst)
       /\ bodyMesh' = held
       /\ last' = lst
       /\ Return(Assembled(lst.mesh))
    \/ /\ Backed(man, held)
       /\ ~IsNoop(man, lst)
       /\ LET got == Over(Full(man), Restrict(held, man.stubs))
          IN  /\ bodyMesh' = Prune(Over(Full(man), held), man)
              /\ last' = [sig |-> man.etags, mesh |-> got]
              /\ Return(Assembled(got))

\* Geometry.rebuild and computeAll, from the reply on.
GoOn(how, value, held, lst) ==
    \/ /\ how \in {"error", "done"}
       /\ Return(Failed("error"))
       /\ bodyMesh' = held
       /\ last' = lst
       /\ UNCHANGED synced
    \/ /\ how = "resync"
       /\ job.phase = "first"
       /\ bodyMesh' = NoMesh
       /\ last' = lst
       /\ synced' = FALSE
       /\ Repeat("again")
    \/ /\ how = "resync"
       /\ job.phase # "first"
       /\ Return(Failed("noMesh"))
       /\ bodyMesh' = held
       /\ last' = lst
       /\ UNCHANGED synced
    \/ /\ how = "model"
       /\ synced' = (synced \/ Incremental)
       /\ Return(Assembled(value))
       /\ bodyMesh' = held
       /\ last' = lst
    \/ /\ how = "single"
       /\ synced' = (synced \/ Incremental)
       /\ Assemble(value, held, lst)

\* The call of the id is settled, if it waits, with the caches as they are.
Settle(id, how, value, held, lst) ==
    IF job # Null /\ job.id = id
    THEN GoOn(how, value, held, lst)
    ELSE /\ pending' = pending \ {id}
         /\ bodyMesh' = held
         /\ last' = lst
         /\ UNCHANGED <<outbox, toServer, synced, job, result, built>>

-----------------------------------------------------------------------------
(* Frames.                                                                 *)

DropStream(id) == streams' = [streams EXCEPT ![id] = Null]

\* A reply in one frame supersedes the stream of its id; without a call it is
\* ignored, and so is what is left of a stream.
Reply(f) ==
    /\ f.what \in {"error", "resync", "done", "single"}
    /\ IF f.id \in pending
       THEN /\ DropStream(f.id)
            /\ Settle(f.id, f.what, IF f.what = "single" THEN f.man ELSE Null, bodyMesh, last)
       ELSE UNCHANGED <<calls, streams, cache, job, result, built>>

\* The final frame: the caches follow the reply only if every body arrived.
Finish(id, s, held) ==
    /\ DropStream(id)
    /\ IF DOMAIN s.got = DOMAIN s.man.etags
       THEN Settle(id, "model", s.got, Prune(held, s.man),
                   [sig |-> s.man.etags, mesh |-> s.got])
       ELSE Settle(id, "error", Null, held, last)

\* The head frame, whether a call waits for it or not.
HeadFrame(f) ==
    /\ f.what = "head"
    /\ LET s == [next |-> 1, man |-> f.man, got |-> Restrict(bodyMesh, f.man.stubs)]
       IN  \/ /\ ~Backed(f.man, bodyMesh)
              /\ DropStream(f.id)
              /\ Settle(f.id, "resync", Null, bodyMesh, last)
           \/ /\ Backed(f.man, bodyMesh)
              /\ IsNoop(f.man, last)
              /\ DropStream(f.id)
              /\ Settle(f.id, "model", last.mesh, bodyMesh, last)
           \/ /\ Backed(f.man, bodyMesh)
              /\ ~IsNoop(f.man, last)
              /\ f.final
              /\ Finish(f.id, s, bodyMesh)
           \/ /\ Backed(f.man, bodyMesh)
              /\ ~IsNoop(f.man, last)
              /\ ~f.final
              /\ streams' = [streams EXCEPT ![f.id] = s]
              /\ UNCHANGED <<calls, cache, job, result, built>>

\* A later frame: the bodies in it are held at once, for whatever comes after.
ChunkFrame(f) ==
    /\ f.what = "chunk"
    /\ LET s == streams[f.id]
           held == Over(f.bodies, bodyMesh)
           t == [s EXCEPT !.next = @ + 1, !.got = Over(f.bodies, @)]
       IN  \/ /\ s = Null
              /\ UNCHANGED <<calls, streams, cache, job, result, built>>
           \/ /\ s # Null
              /\ f.seq # s.next
              /\ DropStream(f.id)
              /\ Settle(f.id, "error", Null, bodyMesh, last)
           \/ /\ s # Null
              /\ f.seq = s.next
              /\ f.final
              /\ Finish(f.id, t, held)
           \/ /\ s # Null
              /\ f.seq = s.next
              /\ ~f.final
              /\ streams' = [streams EXCEPT ![f.id] = t]
              /\ bodyMesh' = held
              /\ UNCHANGED <<calls, last, synced, job, result, built>>

Deliver ==
    /\ toClient # <<>>
    /\ toClient' = Tail(toClient)
    /\ LET f == Head(toClient) IN Reply(f) \/ HeadFrame(f) \/ ChunkFrame(f)
    /\ UNCHANGED link

\* Mutant of StreamStalls: the stream is dropped and its call is not settled.
StreamStallsUnsettled(id) ==
    /\ streams[id] # Null
    /\ DropStream(id)
    /\ UNCHANGED <<link, calls, cache, job, result, toClient, built>>

\* STREAM_IDLE_MS without a frame: the stream is given up, and its call with it.
StreamStalls(id) ==
    /\ streams[id] # Null
    /\ DropStream(id)
    /\ Settle(id, "error", Null, bodyMesh, last)
    /\ UNCHANGED <<link, toClient>>

-----------------------------------------------------------------------------
(* The sidecar.                                                            *)

\* The bodies of a reply go out in groups; only the meshes in a group matter.
Groups(S) ==
    {q \in UNION {[1 .. n -> (SUBSET S) \ {{}}] : n \in 0 .. Cardinality(S)} :
        /\ UNION {q[i] : i \in DOMAIN q} = S
        /\ \A i, j \in DOMAIN q : i # j => q[i] \cap q[j] = {}}

StreamOf(id, man, groups) ==
    <<[what |-> "head", id |-> id, man |-> man, final |-> groups = <<>>]>>
        \o [i \in DOMAIN groups |->
              [what |-> "chunk", id |-> id, seq |-> i, final |-> i = Len(groups),
               bodies |-> Restrict(man.etags, groups[i] \ man.stubs)]]

\* _stream_binary_reply and _send_reply: the whole stream; one cut short by a
\* cancel or a body past the cap, or answered in a single frame after an
\* exception; and the one fault the page provides for, a frame past the head
\* that is not sent.
Replies(id, man) ==
    LET groupings == Groups(DOMAIN man.etags)
        cuts == UNION {{SubSeq(StreamOf(id, man, g), 1, n) : n \in 0 .. Len(g)} : g \in groupings}
        tails == {[what |-> "error", id |-> id], [what |-> "single", id |-> id, man |-> man]}
    IN  {StreamOf(id, man, g) : g \in groupings}
            \cup {Append(cut, tail) : cut \in cuts, tail \in tails}
            \cup UNION {{RemoveAt(StreamOf(id, man, g), i + 1) : i \in DOMAIN g} : g \in groupings}

\* _rebuild_job: a stub for every body the request says the page holds.
ManifestOf(m, known) ==
    [etags |-> m, stubs |-> {b \in DOMAIN m \cap DOMAIN known : known[b] = m[b]}]

Serve ==
    /\ toServer # <<>>
    /\ toServer' = Tail(toServer)
    /\ LET r == Head(toServer)
       IN  \/ /\ r.kind = "other"
              /\ toClient' = Append(toClient, [what |-> "done", id |-> r.id])
              /\ UNCHANGED built
           \/ /\ r.kind = "rebuild"
              /\ r.delta
              /\ toClient' = Append(toClient, [what |-> "resync", id |-> r.id])
              /\ UNCHANGED built
           \/ /\ r.kind = "rebuild"
              /\ \E m \in Builds :
                    /\ built' = [built EXCEPT ![r.id] = IF r.id \in pending THEN m ELSE Null]
                    /\ \E frames \in Replies(r.id, ManifestOf(m, r.known)) :
                          toClient' = toClient \o frames
    /\ UNCHANGED <<link, pending, outbox, streams, cache, job, result>>

-----------------------------------------------------------------------------
(* The socket.                                                             *)

\* Every call that waits is told, and so is the rebuild behind one.
SettleAll ==
    /\ pending' = {}
    /\ streams' = [i \in Id |-> Null]
    /\ job' = Null
    /\ result' = IF job = Null THEN result ELSE Failed("error")
    /\ built' = [i \in Id |-> Null]

WireLost == toServer' = <<>> /\ toClient' = <<>>

\* The reconnect timer runs out.  By then a socket told to close has reported
\* its close: its peer is dead, and the timer runs for half a second or more.
Dial ==
    /\ timer
    /\ ~closing
    /\ timer' = FALSE
    /\ sock' = "dialling"
    /\ UNCHANGED <<closing, halted, calls, streams, cache, job, result, toClient, built>>

\* onopen: the listener asks for a rebuild ahead of what the outbox holds.
Open ==
    /\ sock = "dialling"
    /\ sock' = "open"
    /\ outbox' = <<>>
    /\ \/ /\ toServer' = outbox
          /\ UNCHANGED <<pending, job, result>>
       \/ /\ job = Null
          /\ CanCall
          /\ toServer' = <<RebuildRequest(FreshId)>> \o outbox
          /\ pending' = pending \cup {FreshId}
          /\ job' = [id |-> FreshId, phase |-> "first"]
          /\ result' = Null
    /\ UNCHANGED <<closing, timer, halted, streams, cache, toClient, built>>

\* Mutant of SocketCloses: the calls that wait are not told.
SocketClosesUnsettled ==
    /\ sock # "down"
    /\ sock' = "down"
    /\ timer' = TRUE
    /\ WireLost
    /\ UNCHANGED <<closing, halted, pending, streams, job, result, outbox, cache, built>>

\* onclose, of a connection or of an attempt at one.
SocketCloses ==
    /\ sock # "down"
    /\ sock' = "down"
    /\ timer' = TRUE
    /\ WireLost
    /\ SettleAll
    /\ UNCHANGED <<closing, halted, outbox, cache>>

\* onclose of a socket that Halt told to close.
OldSocketCloses ==
    /\ closing
    /\ closing' = FALSE
    /\ timer' = (timer \/ ~halted)
    /\ SettleAll
    /\ UNCHANGED <<sock, halted, outbox, toServer, toClient, cache>>

\* haltReconnect: the shell reports the engine gone.
Halt ==
    /\ ~halted
    /\ halted' = TRUE
    /\ timer' = FALSE
    /\ closing' = (closing \/ sock # "down")
    /\ sock' = "down"
    /\ outbox' = <<>>
    /\ WireLost
    /\ SettleAll
    /\ UNCHANGED cache

\* resumeReconnect: the user asks for another try.
Resume ==
    /\ halted
    /\ halted' = FALSE
    /\ timer' = TRUE
    /\ UNCHANGED <<sock, closing, calls, streams, cache, job, result, toClient, built>>

-----------------------------------------------------------------------------
\* Up to the first attempt at a connection.
Init ==
    /\ sock = "down"
    /\ closing = FALSE
    /\ timer = TRUE
    /\ halted = FALSE
    /\ pending = {}
    /\ outbox = <<>>
    /\ streams = [i \in Id |-> Null]
    /\ bodyMesh = NoMesh
    /\ last = Null
    /\ synced = FALSE
    /\ job = Null
    /\ result = Null
    /\ toServer = <<>>
    /\ toClient = <<>>
    /\ built = [i \in Id |-> Null]

Next ==
    \/ Rebuild \/ RebuildRefused \/ ComputeAll \/ Call
    \/ Deliver
    \/ \E id \in Id : StreamStalls(id)
    \/ Serve
    \/ Dial \/ Open \/ SocketCloses \/ OldSocketCloses \/ Halt \/ Resume

Spec == Init /\ [][Next]_vars

\* The page runs its handlers and its timers, an attempt at a connection ends,
\* a socket told to close closes, and the sidecar answers what it is sent.
Fairness ==
    /\ WF_vars(Deliver)
    /\ \A id \in Id : WF_vars(StreamStalls(id))
    /\ WF_vars(Serve)
    /\ WF_vars(Dial)
    /\ WF_vars(sock = "dialling" /\ (Open \/ SocketCloses))
    /\ WF_vars(OldSocketCloses)

FairSpec == Spec /\ Fairness

-----------------------------------------------------------------------------
(* Properties.                                                             *)

\* The rebuild under way waits for a call that waits for its reply: it cannot be
\* left behind with the document store's flag set.
RebuildIsAwaited == job # Null => job.id \in pending

\* A call that waits is somewhere: in the outbox, on the wire with more than the
\* end of a stream, or in a stream that the idle timer watches.
CallIsSomewhere ==
    \A i \in pending :
        \/ i \in Ids(outbox) \cup Ids(toServer)
        \/ \E k \in DOMAIN toClient : toClient[k].id = i /\ toClient[k].what # "chunk"
        \/ streams[i] # Null

\* Without an open socket nothing is on its way.
WireNeedsSocket == sock # "open" => toServer = <<>> /\ toClient = <<>>

\* A connection is only tried, and due to be tried, while there is none: no second
\* socket is opened beside the first.
OneSocket ==
    /\ timer \/ closing \/ halted => sock = "down"
    /\ ~(timer /\ halted)

\* A request is sent once, and nothing answers it before it is served.
SentOnce ==
    /\ \A k, n \in DOMAIN outbox : outbox[k].id = outbox[n].id => k = n
    /\ \A k, n \in DOMAIN toServer : toServer[k].id = toServer[n].id => k = n
    /\ Ids(outbox) \cap Ids(toServer) = {}
    /\ \A i \in Ids(outbox) \cup Ids(toServer) :
           i \notin Ids(toClient) /\ streams[i] = Null /\ built[i] = Null

\* Only one rebuild waits for an answer: other requests are of abandoned calls.
JobIsTheRebuild ==
    /\ \A q \in {outbox, toServer} : \A k \in DOMAIN q :
           q[k].kind = "rebuild" /\ q[k].id \in pending => job # Null /\ q[k].id = job.id
    /\ \A i \in Id : built[i] # Null => job # Null /\ i = job.id

Tells(f, m) ==
    /\ f.what \in {"head", "single"} => f.man.etags = m
    /\ f.what = "chunk" => \A b \in DOMAIN f.bodies : b \in DOMAIN m /\ f.bodies[b] = m[b]

StreamTells(s, m) ==
    /\ s.man.etags = m
    /\ \A b \in DOMAIN s.got : b \in DOMAIN m /\ s.got[b] = m[b]

\* The frames of an id, on the wire and received, tell of one model, the one that
\* its request was answered with.
OneModelPerReply ==
    \A i \in Id : \E m \in Model :
        /\ \A k \in DOMAIN toClient : toClient[k].id = i => Tells(toClient[k], m)
        /\ streams[i] # Null => StreamTells(streams[i], m)
        /\ built[i] # Null => built[i] = m

\* A reply with a model that the rebuild waits for was built.
ReplyIsBuilt ==
    job # Null =>
        /\ streams[job.id] # Null => built[job.id] # Null
        /\ \A k \in DOMAIN toClient :
              toClient[k].id = job.id /\ toClient[k].what \in {"head", "single"}
                  => built[job.id] # Null

\* A request that a rebuild repeats, like that of a Compute All, asks for every
\* mesh, and its reply stands on none that is held.
RepeatIsFull ==
    (job # Null /\ job.phase # "first") =>
        /\ \A q \in {outbox, toServer} : \A k \in DOMAIN q :
              q[k].id = job.id => ~q[k].delta /\ q[k].known = NoMesh
        /\ \A k \in DOMAIN toClient : toClient[k].id = job.id =>
              /\ toClient[k].what # "resync"
              /\ toClient[k].what \in {"head", "single"} => toClient[k].man.stubs = {}

\* Before its repeat a rebuild has an id for it.
RepeatHasId == job # Null /\ job.phase = "first" => FreeIds # {}

\* The model kept for replies that change nothing is the one its signature names.
LastIsWhole == last # Null => last.mesh = last.sig

\* What a rebuild returns is the model its last request was answered with: no
\* body of another reply, no body missing, no model from before.
NoSplice == (result # Null /\ result.how = "model") => result.model = result.truth

\* One full request recovers a rebuild whose stubs are not backed, or whose
\* document the worker lost: it never ends without a mesh.
OneRepeatSuffices == result # Null => result.how # "noMesh"

IInv ==
    /\ TypeOK /\ RebuildIsAwaited /\ CallIsSomewhere /\ WireNeedsSocket /\ OneSocket /\ SentOnce
    /\ JobIsTheRebuild /\ OneModelPerReply /\ ReplyIsBuilt /\ RepeatIsFull /\ RepeatHasId /\ LastIsWhole
    /\ NoSplice /\ OneRepeatSuffices

\* While the engine is gone nothing waits, nothing is queued and no attempt at a
\* connection is due.
HaltedIsQuiet == halted => /\ pending = {} /\ outbox = <<>> /\ job = Null
                           /\ ~timer /\ sock = "down"

\* Every call is settled.
EveryCallSettles == \A i \in Id : i \in pending ~> i \notin pending
=============================================================================
