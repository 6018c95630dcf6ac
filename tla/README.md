# SindriCAD in TLA+

SindriCAD is a parametric CAD program in three processes: a Tauri shell (Rust,
`src-tauri/`), the app in its webview (TypeScript, `src/`) and a geometry
sidecar (Python and OCCT, `sidecar/`) that the app talks to over a WebSocket.
The specifications here model two things. The first is the path an edit takes from
the document store to the geometry worker and back, because that is where the
program's concurrency is: a document edited while it is being built, a wire
protocol that sends only what changed, and a single worker process that is killed
whenever something takes too long and resumes from what it left on disk. The second
is what keeps the user's work: the history of undo and redo with the commits that
land late in it, the table of parameters, and the session with its saves, its
autosave, its close guard and its crashes.

Paths below are relative to the repository, as in `docs/ARCHITECTURE.md`.

## Inventory

| Component | State | Operations | Hard behaviour | What makes it correct |
|---|---|---|---|---|
| Document store, rebuild pipeline: `src/document/store.ts` | document, `rebuilding`, `rebuildQueued`, debounce timer, build state, `paramChain`, valve, busy state | mutate, undo, redo, New, Open, preview, Compute All, `addFeatureAndBuild`, projection commits | continuations of several async functions interleave; a gesture lands in any gap | one call at a time; the newest document is the one built and shown; it comes to rest |
| Delta protocol: `src/geometry/client.ts`, `_apply_doc_ops` in `sidecar/server.py` | `lastSent`, `revision`, `pending`, outbox; the worker's `_DOC_STATE` | rebuild, computeAll, resync, refill | dropped sockets, an outbox that outlives its calls, respawned workers, failed builds | what is built is what was asked for; every call settles |
| Worker pool: `sidecar/server.py` | pool and generation, warm-up, failed and reaped generations, cancel tokens | run, run_stall, cancel, warm-up watcher, kill, retry of an import | one worker death fails every operation of every connection; kills look like crashes | each operation is answered, truthfully; a healthy engine is not given up |
| Socket, calls, chunked replies, mesh cache: `src/geometry/client.ts`, `assembly.ts` | socket, reconnect timer, `halted`, `pending`, outbox, streams, `bodyMesh`, last assembly | call, halt, resume, head, chunk, abort, assemble | a stream cut short by a drop, a terminal reply, an idle timeout | every call settles; no splice of two replies; a stub is used only for a mesh the client has |
| Parameter table: `src/params/engine.ts`, `commitWithCascade` | definitions, expressions, bindings, issues; the chain of commits | set, name, rename, delete, recompute, cascade into sketches | checked when typed, lands after the commits before it; files may hold any table | each name has the value of its expression or a true issue; an accepted edit breaks nothing |
| Document edits, undo and redo: `src/document/store.ts` | document, two stacks of snapshots (limit 50), marker, suppressed names, `paramChain` | add, edit, remove, move, undo, redo, sketch and projection commits, withdrawal of a cancelled import | commits that await the solver; snapshots stripped of an import; names reused | undo and redo walk the line of the user's changes; geometry fits the parameters of its document |
| Autosave and recovery: `src/io/recovery.ts` | idle timer, oldest edit, `writing`, slots on disk | schedule, write, clear, offer at launch | a write in flight when the next falls due, or when a save clears; a crash in between | unsaved work is in a snapshot or on its way into one |
| Close guard: `src/io/windowClose.ts`, `src-tauri/src/close_guard.rs` | requests, acks, the prompt | close request, ack, watchdog | an answer that races the watchdog | unsaved work is not closed away while the webview answers |
| Sidecar supervision: `src-tauri/src/sidecar.rs`, `src/geometry/sidecarDeath.ts` | child, ready, fatal line | spawn, poll, kill, report, halt and retry | a death before the listening line; a port in use; exit while reporting | one report per death; no dialling of a dead engine |
| Geometry store: `sidecar/geomstore.py`, `blobstore.py` | blobs, meshes, sqlite index | put, save, find, evict, purge | a worker killed between any two file operations; damaged files | no row names a missing blob; what is restored is what was built |
| Feature builder: `sidecar/builder.py` | prefix cache `_CACHE`, keys of bodies | rebuild from the deepest valid snapshot or checkpoint, one builder per feature type | resumes in memory and from disk mixed; OCCT crashes and stalls | a resumed build gives what a build from nothing gives |
| Tessellation, selection, textures, exporters, containers | none, or files | pure functions, file formats | none that is concurrent | not modelled |
| Printer, slicer, TinkerAtlas, SpaceMouse, webview glue | HTTP sessions, dialogs | wrappers | I/O | not modelled |
| Viewport, sketch tools, panels | DOM and GPU state | rendering and input | none modelled | not modelled |

How they interact: the store calls `geometry.rebuild` and waits for the reply;
the client turns the document into a request and the reply into a result; the
server runs the request in the pool under the connection's lock; the pool's one
worker holds the document that deltas patch. Cancel goes around the queue: it is
answered on the server's read path and kills the pool. A new worker finds the
checkpoints of the one before it. Nothing restarts the sidecar itself. Saves and
snapshots go from the store through the shell to files; the shell asks the page
before it closes the window, and forces it when the page does not answer.

## Modules

| Module | Models |
|---|---|
| `RebuildService` | what a caller of the client may rely on: a rebuild is asked for a document, and settles with a model of it or with a failure |
| `DeltaSync` | the delta protocol, client, socket and worker; implements `RebuildService` |
| `MCDeltaSync` | symmetry for TLC |
| `DeltaSyncProofs` | proofs about `DeltaSync` |
| `RebuildPipeline` | the store's pipeline; uses `RebuildService` as the caller it expects |
| `RebuildPipelineProofs` | proofs about `RebuildPipeline` |
| `WorkerPool` | the sidecar's pool of one worker and its supervision |
| `WorkerPoolProofs` | proofs about `WorkerPool` |
| `GeometryClient` | the client's socket, its calls, its streams and its mesh cache |
| `GeometryClientProofs` | proofs about `GeometryClient` |
| `MCGeometryClient` | the models the sidecar builds, for TLC |
| `DocumentHistory` | what the user is promised of the document: a line of documents, one for each change |
| `DocumentEdits` | the store's edits, undo, redo, marker, late commits, tools and imports; implements `DocumentHistory` |
| `ParamTable` | the parameter table, its recompute and its edits |
| `MCParamTable` | expressions and loaded documents, for TLC |
| `ParamTableProofs` | proofs about `ParamTable` |
| `Session` | one document's session: Save, New, Open, Close, autosave, recovery, close guard, crashes |
| `MCSession` | symmetry for TLC |
| `Checkpoints` | `rebuild_cached` over the geometry store, with kills and damaged files |
| `MCCheckpoints` | a model of two bodies and its documents, for TLC |
| `ListFilter` | `Array.filter` as a function of the indices that stay, for `DocumentEdits` and `Session` |
| `DocumentEditsProofs` | proofs about `DocumentEdits` |
| `SessionProofs` | proofs about `Session` |
| `CheckpointsProofs` | proofs about `Checkpoints` |

`RebuildService` is the joint: `DeltaSync` implements it from below (its
`Service` instance maps `asked` to the open call's document and `answer` to the
last result), and `RebuildPipeline` is shown to use it from above (the property
`WaitsForEachAnswer`: it asks only when nothing is open). `DeltaSync` models one
open call because of that second fact. Its worker deaths (`WorkerDies`) stand
for what `WorkerPool` has in detail.

### DeltaSync

A feature is an object with an identity and a content; deltas are computed on
identities, the worker sees contents. `Askable` states what the store's edits
guarantee: an object that two documents share says the same in both.
`Rebuild`, `ComputeAll`, `Resend`, `Refill`, `ReplyBuilt` and `ReplyError` are
the client's two functions cut at their awaits; `Submit` is `Geometry.call` with
its three ways (socket, outbox, refused). `Serve` is one job of the worker:
patch or adopt the document, then build it, which may fail. `SocketCloses` may
leave any prefix of the queued jobs with the pool, so requests of calls that
were settled long ago still run; `live` says whether anyone waits for the reply.
Left out: mesh data, progress, the `known` map (its effect is the choice of
`Refill` and of a resync made up by the client).

### RebuildPipeline

`micro` is the microtask queue, first in first out; gestures, timers, replies
and the solver are macrotasks, which run when it is empty. What matters is how
many awaits lie between two things: after a loop ends, `runBusy`'s `finally`
runs one tick later and `rebuildNow`'s outer `finally`, which clears the flag a
second time, one more; a projection commit writes at least three ticks after it
starts. A document is the gesture that last changed it, its file, one bit of
projected geometry, the feature an import added and whether a preview is in it:
what the properties tell apart.
Left out: listeners that call back into the store while a build is published;
two `addFeatureAndBuild` at once; undo of an add followed by redo.

### WorkerPool

Three actors: the asyncio loop (operations, replies, warm-up watcher), the
executors' manager threads (a dead worker's futures fail, all of them, in
order), the worker. `gen` numbers the pools as `_pool_gen` does; `dying` are
pools that were replaced before their manager noticed. `OnBroken` is
`_on_broken` with its four answers. A cancel, a stall and a deadline differ in
who is told: `SeeCancel`, `Reap` and `Overdue`. Jobs report progress and then
end or hang, as they please. `deaths` and an operation's `died` are history.
The executor itself is external: its behaviour is what `server.py` relies on.
One timing assumption: a new worker process takes longer to start than the loop
takes to run the callbacks that are due (`events = <<>>` in `WorkerStarts`).
Left out: a warm-up that cannot even be submitted (exhausted processes); the
feature index in error replies.

### GeometryClient

`DeltaSync` says which document is built, `GeometryClient` what becomes of the
reply. A mesh is its etag, and a model gives an etag to each of its bodies, so
"the right model" is equality of two functions; array offsets and face ranges
are data. `sock`, `timer`, `halted`, `pending`, `outbox`, `streams` and
`bodyMesh` are the fields of `Geometry`; `last` is `lastAssembled` with its
signature, `synced` says that `lastSent` is there, and `job` is the rebuild or
Compute All that is between two awaits. `built` is history: what the sidecar
built for a request.
A handler runs to the next network call with the part of `rebuild` that the
settled call resolves (`Settle`, `GoOn`). `HeadFrame`, `ChunkFrame`, `Finish`
and `StreamStalls` are `routeStreamFrame` with its early returns and its idle
timer; a head does not ask whether its call still waits, as in the code.
`Halt` and `Resume` are the reports of the shell and the user's Retry, and
`OldSocketCloses` is the late `onclose` of a socket that `Halt` told to close.
The sidecar's side, `Serve`, is any reply it can give: a stream in any grouping of
the bodies, one that a cancel or an oversized body cuts short, one that an
exception replaces by a single frame, and the fault the page guards against, a
frame past the head that is missing.
What the model takes as given: one rebuild or Compute All at a time (that is
`OneInFlight`, a part of `RebuildPipeline`'s invariant); the frames of a reply are contiguous and replies come in the
order of the requests (the connection's lock is held across a dispatch; a reply
to `cancel` overtakes, which no handler can tell); a socket told to close has
reported its close before the reconnect timer, of half a second or more, runs out
(the guard `~closing` of `Dial`).
Left out: the checks that a manifest's sizes match (`writeBody` returning false)
and that a stream's `sid` is the one of its head, which need a sidecar that
contradicts itself within a reply; replies of protocol 1; progress messages.

### DocumentEdits

`doc`, `rollback`, `suppressed`, `undoStack`, `redoStack` and `paramChain` are the
store's fields. A feature is a closed sketch: its name, the change that made it
(`born`, which tells two features of one name apart), the change that last
edited it and the parameter its geometry was solved for (`at`). A step runs until
the code awaits the solver; `solving` is the commit that awaits it, with the draft
or the objects it has read. `Undo`, `Redo` and `Replace` put other objects in the
store, which the two commits that compare objects notice (`sameObjects`) and
`commitWithCascade` does not.
The refinement maps the stacks to `past` and `future` of `DocumentHistory` and
forgets `at`: what the program derives is not a change. `DocumentHistory` allows
one feature added under a fresh name, edited, removed or moved, the parameter
set, a walk along the line, a new line, and an addition withdrawn from every
document since.
A parameter edit awaits the solver for each closed sketch it affects, and lands at
once if there is none: `LoopIsFree` lets nothing happen before a draft without
features has landed.
Three steps break the promise, and the code does not guard against them:
`Overwrites`, a parameter edit lands over a change made while it was solved;
`Doubles`, a tool commits under a name that an import has taken since the tool was
opened; `Mistakes`, an import is called off after its feature was removed by hand and
another got the name. `Spec` has them, `Orderly` is `Spec` without them: the runs of
the refinement check `Orderly`, one run shows what `Overwrites` loses, and the
theorems that need it have `[][~Departs]_vars` as a hypothesis.
Left out: the sketch that is open during a cascade, previews, view overrides.

### ParamTable

`doc` is `paramDefs` with the numeric fields that exist, `issues` is
`paramIssues`. An expression is a number plus the values of the names it mentions, a
sequence of them: that is what order, cycles, unknown names and renames see of it.
A sum that is not a `Number`, one of `-MaxValue..MaxValue`, is a result that is not
finite; numbers count halves, so that there is something to round. A field takes a value by
`Taken`: a count or a number of sides is rounded and is at least its minimum
(`coerceForField`), an offset or an angle takes the magnitude and stays on the side it is
on (`dimValueFromParam`), any other field takes it as it comes.
`Recompute` is the whole of `recompute`: names
whose field is gone and that nothing refers to are dropped, the rest evaluated in
Kahn's order (one rank after the other, which evaluates each name after the
ones it refers to, like the code's queue), and bound fields written. Values are cached in the table, and a name
without a value keeps its old one, as in the code. `Queue` and `Land` are the two
halves of a commit: `ValidateExpr` looks at the table at the time of typing, the
commit works on the table at the time of landing; `alone` records that nothing
was queued between. A commit that `Fails` can only be refused: `commitRenameParam`
from a name to itself deletes the parameter, and the next line throws. Changes at once
wait until the chain is empty; what happens to one that does not is the subject of
`Overwrites` in `DocumentEdits`.
`Mutate` recomputes, except that a document that never had a parameter may keep its
issues (`MutateFields`). `Undo`, `Redo` and `Replace` (New and Open) bring a document
back as it was, recompute nothing and leave the issues alone.
What the constants must satisfy is `InputsAreTyped`: a loaded table is finite, has
numbers as cached values and binds no field twice (`IsDocument`; the program never
binds one twice, which is what `TypeOK` shows), and may otherwise hold anything,
cycles and unknown names included. The number of automatic names is the one bound
on behaviour: a commit that would mint one more does not land.
Left out: the grammar, units, comments, bare names in old files, the pending bindings
of an open sketch and those that a new feature brings (`applyBindings`), the move of a
sketch off the solver's grid and back, an undo while a commit is solved.

### Session

An edit is an element, a document, a file and a snapshot are sets of edits. Three
tasks may be between two awaits: a save by Ctrl+S, a file operation (New, Open,
Close) and the close handler; each has a program counter that
follows `saveDocument`, `saveDocumentAs`, `confirmDiscardChanges` and
`clearRecovery`. `timer` and `writing` are those of `installRecovery`; `slots` is the
directory of snapshots, newest first, which survives. `guard` counts requests,
acknowledgements and what is between them and the page. A crash, a page that
goes deaf and a launch can happen at any time.
History variables say why an edit may be gone: `answered` (the user chose
Discard, or a crash took what no snapshot held yet), `orphans` (only a snapshot
holds it since a crash), `unguarded` (the code lets it be made where no question
will stand before it: while a file operation is under way (`Commit`), in an open
sketch that New or Open cancels (`Continue`), or in the file that a Save As begun
before an Open gives its name to (`Written`)).
The four assumptions about time are in the module's header.
Left out: the list of recent files, exports, the archive's layout
(`container_save` replaces the file in one step).

### Checkpoints

`blobs`, `rows` are `geomstore`'s directory and index; `ram` is `_CACHE`; the rest
are the locals of `rebuild_cached`. Each file operation is a step, and `Kill` is
enabled between any two. A shape is the record of all that went into it
(`Apply`), so that equality of shapes is the claim that matters; `Built` says
what a build from nothing gives. `RamResume` and `Deeper` are the two places to
resume from, `Restore` reads a row back, `Inherited` gives a body that nobody has
touched the key it had, `Retained` is the window of snapshots in memory.
`Damage` tears a file, or lets it decode to another shape, once per fragile key:
`Restorable` is the fingerprint check that catches it. Documents differ in the
first feature (an edit far up) and in the parameter that the last one reads;
`Projected` is a sketch with projected curves, which `ProjCap` keeps from being
skipped. One worker uses the store, since the app runs in one instance.
Left out: meshes, datums and errors, which ride along; pins, which nothing sets.

## Runs

| Run | Bounds | Shows |
|---|---|---|
| `delta_features` | 3 objects, 2 contents, 2 parameter tables, documents of 2 features, 2 revisions, queues of 1; symmetric | `BuiltIsAsked` where deltas change one feature of several |
| `delta_service` | 1 object, 2 visibility maps, 2 revisions, queues of 2 | the inductive invariant, `CallSettles`, the refinement of `RebuildService` with its liveness |
| `pipeline` | 3 gestures of any kind at any time, valve after 2 | six properties and the inductive invariant |
| `worker_pool` | 2 connections, 2 operations (a rebuild or an import each), 2 deaths, 1 cancel or disconnection, reaps unbounded | who is told what, and that no operation is lost |
| `worker_pool_answers` | the same with 1 death, 1 failed bring-up before giving up, deadlines instead of rebuilds | every operation is answered |
| `geometry_client` | 2 bodies with 2 etags, 2 models (the empty one is not among them), 3 ids alive at a time | the inductive invariant, each call settles, no splice, one repeat suffices |
| `document_edits` | 3 changes of every kind, 3 features, undo capped at 2, 1 commit queued behind the one that is solved; `Orderly` | the refinement of `DocumentHistory`, geometry that fits its parameters, a marker that follows |
| `document_lost` | 3 changes, 1 feature; `Spec` | violated: an edit of a sketch made while the solver runs for its parameter is put back |
| `param_table` | 2 user names, 2 automatic ones, 3 fields (an offset, a count, a length), 3 typed expressions, 1 entered number, 5 documents to start from or open (2 healthy, 3 edited by hand), 1 undo step, 4 edits, 2 queued | the table after every change and in every document that undo can bring back; what an accepted edit does |
| `session` | 1 file, 2 edits, 2 launches, 2 close requests in the first and 1 in the second, 1 file operation at a time; symmetric | edits are kept, clean means saved, unsaved means a snapshot is owed, the window is forced only over a deaf page |
| `session_lost` | 1 launch, no close request | violated: an edit made while a save is written is marked clean |
| `checkpoints` | 2 bodies, 4 features, 3 documents, 3 rows, 2 snapshots in memory, 1 fragile blob; builds, kills and edits without bound | resumed builds are right, and resume as deep as they may |

Why these bounds are enough to be interesting. A delta needs two features to
change one and keep one, two contents to tell a stale slot, and two revisions so
that a delta has a base; queues of two put an abandoned request ahead of a live
one. Three gestures give an edit before, during and after a build, or a
replacement between two. Two operations give a running one and a queued one;
two deaths give a pool that fails twice in a row. Three ids give a rebuild, the
request it repeats and a request of a call that is settled already, in the
outbox, on the wire or half received; ids are used again once nothing refers to
them, so there is no bound on the length of a behaviour. Two bodies give a stub and
a mesh in one reply, and two chunks. Three changes with an undo line of two give
an add, an edit of it and a change that pushes the add off the line, and a
commit that is queued, overtaken by an undo, and lands. The step `Mistakes` needs three
steps of undo and is not met within these bounds: with `UndoCap = 3`, `MaxChanges = 4`,
`MaxFeatures = 2` and `MaxQueued = 0` TLC checks the same refinement in a minute, and
refutes it once the guard `~Mistakes` is taken away. Two user names and two
automatic ones give a chain of references into a bound field, and a cycle with
a name that leads to it; four edits give two queued commits and two changes
around them. Two edits give one that a snapshot or a save has and one that it
lacks; two launches give a crash, its recovery and the end of the second session.
Documents of three features differ at the bottom (nothing may be shared) and at
the top (all but the last is), and three rows are fewer than the five chains there
are, so that rows are evicted. An offset that starts at a negative number, a count
with a minimum and a length tell the three ways of taking a value apart; the values are
odd, so that the count rounds. The safety properties of all eight
components, the two refinements included, are proved for all values of these bounds.

`CHECK_DEADLOCK FALSE` is there where the bounded user stops: when all gestures,
operations, edits or launches are spent, the program rightly does nothing. The
client, the delta protocol and the checkpoints have no such end: they are checked
for deadlock.

### Fairness

`DeltaSync`: continuations of settled calls run; the worker serves (a job that
hangs is reaped, which is `WorkerDies` or an error reply); the client keeps
dialling (`scheduleReconnect`). No fairness on edits, failures or drops.
`RebuildPipeline`: microtasks run, timers fire, calls settle (which `DeltaSync`
shows of the client), the solver loads or gives up. None on the user.
`WorkerPool`: the loop runs callbacks, polls every second and sends; managers
notice a dead worker; a started worker comes up or dies. Nothing makes a job
end: an operation behind a hanging job is answered because the stall clock or the
deadline runs for it too.
`DocumentEdits`, `ParamTable`, `Session` and `Checkpoints` state no fairness: what
they promise is that nothing wrong happens, whenever something happens. For the
autosave that is `SnapshotIsOwed`. It does not say that a snapshot is always owed: there
are three ways to a state in which unsaved work is neither in a snapshot nor due, the
lapses of `Session`.
`GeometryClient`: the page's handlers and timers run, an attempt at a connection
opens or fails, a closed socket reports it, and the sidecar answers what it is
sent, which is `EveryOpIsAnswered` of the pool. Nothing makes a connection stay, a
stream end or the user retry.

## Properties

`DeltaSync`. `BuiltIsAsked`: a reply that arrives was built from the document
its call asked for (a visibility map the client does not have is the exception:
a delta cannot say that a map became absent, so the worker may keep an old one,
and no caller removes a map). `IInv` has `HeldIsLastSent`: at the acknowledged revision
the two copies agree, and `OneResendRecovers`: a resync never answers a resend.

`RebuildPipeline`. `IInv` (with `OneInFlight`), `NeverShowsOlder`, `CurrentWhenIdle` (at rest,
the last build is of the current document or a rebuild is owed),
`BusyMeansRunning` (no Cancel button over nothing), `AddReportsItsBuild`,
`Quiesces` (the valve ends an oscillation), `WaitsForEachAnswer`.

`WorkerPool`. `NoOpIsStranded` (the future of every waiting operation is pending
or resolved, which `shutdown(cancel_futures=True)` broke once),
`KillsAreNotBlamed`, `HealthyIsNeverGivenUp`, `CancelIsHonoured`,
`EveryOpIsAnswered`.

`GeometryClient`. `IInv` holds the two facts whose loss would hang the page: the
rebuild under way has a call that waits, and a call that waits is in the
outbox, on the wire or in a stream the idle timer watches; and `OneSocket`: the
timer, the halt and the late close of an old socket never dial beside an open one.
`NoSplice` (the model a rebuild returns is the one its last request
was answered with, whatever older replies left in the cache), `OneRepeatSuffices`
(a rebuild never ends in "no mesh"), `EveryCallSettles`.

`DocumentEdits`. `ImplementsHistory`: every step of the store is one change of one
thing, a walk along the line, a new line, an addition withdrawn, or nothing that
the user did; of `Orderly`, that is without the three departures.
`GeometryFollowsParams`: whatever lands late, sketches are solved for the parameter of the document they are in, also in every document that undo and
redo can bring back. `MarkerFollowsEdits`: adding, removing and withdrawing a feature
changes what is built by that feature alone (of `Orderly` too).

`ParamTable`. `TableIsConsistent`: after every change but undo, redo, New and Open
each name has the value of its expression, or an issue that is true of it and the value
it had, and a bound field holds what it makes of the value: the value, the whole
number it is rounded to and at least the minimum, or its magnitude on the side the
field was on. `EveryTableHolds`: what undo and redo bring back without a recompute has
values that fit its expressions and fields that fit its values, unless it was loaded
otherwise. `EditsKeepMeaning`: in a table where nothing is broken, an
expression that was accepted breaks nothing when it lands before anything else, a rename changes no
value and no number, a deletion breaks nothing. A table is broken if a name leads to a
cycle or its expression is invalid or mentions an unknown name, which is said of the
table and not of `issues`, so that the property does not rest on what the recompute reports.

`Session`. `EditsAreKept`: work leaves the program only because the user said so, a
crash took what no snapshot held, or no question stood before it. `CleanIsSaved`:
a clean title bar means that a file holds what is on screen, except for edits that are
`unguarded`: those made while a file operation was under way may be marked clean by its
end, which `session_lost` shows. `SnapshotIsOwed`: unsaved work is in a snapshot, on its
way into one or due, unless a lapse since the last edit took its snapshot away and none
follows before the next edit. `lapses` records which: "skipped", the autosave fell due while an older
snapshot was being written and returned (`recovery.ts:46`); "failed", the shell
refused the write (`recovery.ts:64`); "swept", a save, or a discard that went no
further, cleared the slot it was in (`recovery.ts:94`). `ForcedOnlyIfDeaf`: the
watchdog closes only over a page that does not answer.

`Checkpoints`. `ResultIsFull`: a build that resumed gives the bodies that a build
from nothing gives. `KeysNameShapes`: a key is never given to two shapes, which is
why `put_blob` may skip a file that is there. `StaleCurvesAreReported`: a sketch whose
projected curves have moved is reported by every build, not only by the first.
`NoRowPointsAtAHole`: what the index names is on disk, wherever a worker was killed.
`NoWorkIsRedone`: a build begins as deep as what is on disk allows.

## Proofs

`DeltaSyncProofs`, `RebuildPipelineProofs`, `GeometryClientProofs`,
`WorkerPoolProofs`, `CheckpointsProofs`, `SessionProofs`, `DocumentEditsProofs` and
`ParamTableProofs` prove for all values of the constants what the runs check on small ones, from the
named assumptions on the constants and nothing else. Two theorems of `DocumentEdits`,
`MarkerFollows` and `HistoryIsImplemented`, have a hypothesis on the behaviour besides: no
step of it is one of the three departures.
Where an induction over a list, a chain or the ranks of an evaluation would do, the least counterexample is taken (`Least`, from the well-foundedness of the
naturals), which the prover accepts; each module that needs the facts about lists or
bounded sets has its own.

`DeltaSync`. None of the three safety properties is inductive: a delta is right
only if what it is based on is what the worker will hold when it gets there.
`IInv` adds what the queues may hold: the one live request is what the open call
would send now (`LiveIsCurrent`) and the last thing queued (`LiveIsLast`), a reply
travels only when the queues are empty (`ReplyIsLast`), a built document is
still held (`BuiltIsHeld`), and no abandoned request carries the acknowledged
revision with another document (`QueueKeepsRevision`). The lemma
`ApplyOps` states that applying a delta to the document it is based on gives the
document asked for. From `IInv` follow the three properties and the safety part
of the refinement (`ImplementsServiceSafely`): each step is `Ask`, `Build`,
`Fail`, `Refuse` or a stutter of `RebuildService`.

`RebuildPipeline`. `OneInFlight` rests on an order of microtasks: `IInv` says
that at most two are queued and in which pairs (`MicroInOrder`), that the flag is up
exactly while a call is open or its continuation is due (`FlagMeansOpen`), that
a change is owed or asked (`NothingForgotten`), and orders the documents by the
gesture that made them (`EditsInOrder`, `AddIsAwaited`). The proof has one lemma
per action and part. `BusyMeansRunning` needs one more invariant, `BusyHasCause`:
what keeps the busy state up is an import, an open rebuild, the continuation of
its settled call or a queued `busyDone`, and each hands it to the next.

`GeometryClient`. That a result is the model that was built speaks of one step;
what makes it so is spread over the wire, the streams and the caches, and `IInv`
names the parts. Every frame of an id, and the stream of it that has been
received, tell of one model, the one its request was answered with
(`OneModelPerReply`): that needs `SentOnce`, since a request that could be
served twice would have two answers under one id. `ReplyIsBuilt` says that the
awaited reply has such a model, `JobIsTheRebuild` that no other request moves it,
and `LastIsWhole` that the no-op path returns what its signature names. The mesh
cache needs no invariant: a stub is only used when the cache holds the very etag
it stands for (`Backed`), which is why bodies that an aborted or an
abandoned stream left there do no harm. `OneRepeatSuffices` needs `RepeatIsFull`: a
repeated request names no mesh, so that its reply has no stubs, and is no delta,
so that no resync answers it. `CallIsSomewhere` and `RebuildIsAwaited`
rest on `WireNeedsSocket` and `OneSocket`. The proof has a lemma for each kind of
step (a call is settled, a frame is taken, a request is added, everything is
cleared, a request is answered) and one for each action, which shows what kind it
is. `HaltedIsQuiet` is inductive by itself. `NullAssumption` says that `Null` is
none of the values it stands beside.

`WorkerPool`. All five safety properties are proved, from one inductive invariant,
`Strong`. That no operation is stranded needs that a future is in one place
(`OnePlace`: pending in one executor, or resolved, never both and never twice), and
that the generation an operation noted is that of the pool which holds its
future (`Fits`). That kills are not blamed needs that a future only fails when
its pool is `Gone`: marked as killed, or dead of itself and noticed, which is when
`_on_broken` may look at it. That a healthy engine is not given up needs the order in
which warm-ups are seen (`WarmUpsInOrder`): one that succeeded is the first thing the
loop looks at, and one that failed was a kill, or counts already, or is that of
the current pool. This is where the assumption that a process takes longer to
start than the loop to run what is due is used. The proof has three lemmas per
action: types, futures (`Custody`) and warm-ups (`Healthy`). `CancelIsHonoured`
follows from the types.

`Checkpoints`. `NoRowPointsAtAHole` fails in the middle of an eviction unless the
row goes first, and in the middle of a save unless its blobs came first. The
inductive invariant says where the worker is: the blobs still to unlink are named
by no row, and those of the row about to be saved are on disk or still to put
(or lost from outside, which `damaged` remembers). `NoHoles` has one step per action.

What a build returns depends on what it resumed from, and that on every build
before it. `Sound` says of all of them what `ResultIsFull` says of the result: the
bodies under way are what a build of the features so far has from nothing
(`BuildIsSound`); the snapshots in memory belong to one document and cover a prefix
of it (`MemoryIsSound`); a row's fingerprints are those of its chain, and a blob that
is not damaged holds what its key names (`DiskIsSound`); every stamp names its shape
(`StampsAreSound`); the curves reported so far are the stale ones (`ReportsAreSound`,
which needs that a memory marked quiet has none). The lemma `SameChain`, that two
documents which agree on a prefix share its keys, carries memory and disk from one document
to the next. The five theorems follow; `NoWorkIsRedone` from `StartsDeepest`. What
`Built` is, the recursion over chains, enters by `BuiltAssumption`, its
two equations, which TLC evaluates for the documents of the run.

`DocumentEdits`. `GeometryFollowsParams` needs no assumption on the user. Every document
that can come back, and the draft of a parameter edit, is solved for its own
parameter; a commit that compares objects holds the parameter it read as long as it
finds its objects (`SolvingIsGood`), since whatever changes the parameter also exchanges
the document or is a commit of the same chain. `TypeOK` comes from the same invariant,
`GoodInv`, and the proof corrected it: a tool holds a name that `NextId` chose before
other features were added, so that names reach `2 * MaxFeatures + 1`, beyond
the bound the small run had suggested.
`MarkerFollowsEdits` needs names that are unique in every document, `NamesInv`, and that
in turn needs the hypothesis: a draft that overwrites a feature (`Overwrites`), or a tool
that commits a taken name (`Doubles`), breaks it. From there it is
arithmetic of what an insertion, a removal or a filter does to the features before the
marker (`AddNames`, `RemoveNames`).

`HistoryIsImplemented` is the refinement, for every cap of the stack and any number of
changes, for every behaviour without a departure. The hypothesis is on steps, not on what the user
may do: he may edit while the solver runs, as long as what he did does not meet the
draft as it lands, start a tool while an import builds, and remove what an import has
added. For most actions the work is to show that one
thing changes (`ChangesOne`): a draft is of the document there is (`NamesInv`), a
dimension belongs to one sketch (`DimensionsInv`), a commit that lands writes back the
objects it finds (`LandsOn`), and what New and Open bring was not made before (`BornsInv`).
Withdrawing an import is the hard one, since the code finds the feature by its name and
`DocumentHistory` by the change that made it. `MarksInv` says that a marked entry is the
step that added the import's feature, and that at most one entry is marked; undo and redo
move documents across the present, a push moves them along, and the cap drops them from the
far end. A withdrawal that is none of the `Mistakes` finds that every document since, undone ones
included, has the name for no other feature, and by `BornsInv` the feature under no other
name (`Since`): what the code takes out by name is what the history takes out.

`Session`. `ForcedOnlyIfDeaf` speaks of the moment a watchdog fires. The invariant
`GuardInv` speaks of every moment before it: the acknowledgements are never ahead of
the requests, and while they are behind, an event or an answer is on its way.
The other four follow the work the program answers for: `Fresh`, the edits that are
in no file, not given up and not made behind a file operation's back. While a document
is open they are in it or in its sketch, while none is they are in the newest snapshot
(`KeptInv`). A task that is past the question has seen none of them on screen, and
a save under way holds all that are (`TasksInv`). An edit leaves `Fresh` by
being written, and does not come back, because it is anchored: in a file to which
nothing is being written that lacks it (`DiskInv`); two saves to one file, one of
them overtaken, are the case that matters. Recovery offers one snapshot only, which is
enough because the snapshots are nested: a newer one has what is fresh in an older one
(`SlotsInv`). `SnapshotIsOwed` is inductive with what `OwedInv` adds about the write that
is under way; each action that could take the last snapshot away either leaves one owed or
adds its lapse. `IInv` was checked by TLC first, on the bounds of `session`; the
theorems hold for any number of files, edits, requests and launches. `NamesAssumption`
says that `Null` and the names of the untitled slot and of New are mistaken for nothing else.

`ParamTable`. All four properties are proved, for any number of names, fields,
typed expressions and edits and any loaded table. What they need is a statement of what the
recompute returns, though its loop goes once around for each name. `Recursion` gives the
ranks of the loop as one function, and `Saturation` counts: a growing chain of sets of
names has come to rest after as many steps as there are names, since each step before
adds one. So the last rank is a fixpoint (`EvaluatedRests`). It follows that the names that are
left out are those that lead to a cycle (`OrderIs`), that a name in it has the value of its
expression among the final values (`RecomputeIsTrue`), and, with the same count for
`findCycle`, that the names a check finds are closed under reference (`ReachesIs`).

`TypeCorrect` is inductive as it stands. `Consistency` then has one lemma for what is
common to all changes: the table that is recomputed has the numbers of the one
before, unless an expression or a target changed (`Carries`), and every bound field
fits its value, on the side it was on (`FieldsFit`, from `TakenIs`). A commit is recomputed
twice, in the draft and when it replaces the document; the second time changes no
number (`RecomputeOnce`) although it may drop a name more. That is an instance of
`Stays`: numbers that are settled, with all that they refer to, are what the next evaluation gives,
the least rank that disagreed having nothing to disagree about. `TablesHold` says of the
documents on the stacks what was true of them on screen: a document is pushed as it is,
so that each on a stack was loaded or recomputed (`Inheritance`).

`Meaning` needs one invariant, `ChainInv`: only the head of the chain may be alone, and
what was checked of it is still true, since nothing changes the document while a commit waits.
What a new expression leads to does not contain the parameter it is for,
so it keeps its references, and by `Stays` its numbers, whatever the rest of the table does;
the new value is the one that was checked to be finite (`LandsWell`). A cycle in the
new table would have to go through the new expression, and cannot leave what it leads to
(`ReplacedIsSound`). After a rename every sum has the same summands (`RenamedSum`), so that all
is settled and `Stays` again gives the values. `ChainInv` was checked by TLC, on
the bounds of `param_table`, before it was proved. `NamesAreApart` says that typed names, minted
names and `Null` differ, as `validateName` has it.

Only model-checked: `CallSettles`, `EveryCallSettles`, `EveryOpIsAnswered`,
`Quiesces` and the liveness of the refinement: liveness is beyond the prover. Every
safety property that a run checks is also a theorem.

## What the code says and does not do

Two runs keep a counterexample; both lose work the user has done.

- `session_lost`: `saveDocument` marks the document clean after an awaited write
  (`src/io/files.ts:65`), so that an edit made meanwhile is in no file while the
  title bar says saved, and the autosave finds nothing to do; against
  `files.ts:67`. A Save As that ends after New or Open gives the new document the
  old one's name and marks it clean as well.
- `document_lost`: `commitWithCascade` writes the feature list of its draft back
  after the solver (`src/document/store.ts:862`), so that what was changed meanwhile
  is undone in silence; against `store.ts:811` and the guard of its sibling,
  `store.ts:1020`. It awaits the solver only for closed sketches that the parameter
  drives (`store.ts:842`): without one, nothing can be lost.

The others were met while modelling; no run of the project is about them.

- A parameter rename rewrites bare names in old documents inside live feature
  objects (`params/engine.ts:396`), so the delta is empty, against
  `writeTargetShips.test.ts:12`. `DeltaSync` excludes it (`Askable`).
- A rebuild wanted during Compute All is not run when it ends (`store.ts:2562`),
  against `store.ts:2504`.
- A reply that was on its way when the file was replaced is published
  (`store.ts:2531`), against `store.ts:677`.
- An import that ends clears a rebuild's busy state (`store.ts:527`), against
  `store.ts:2514`.
- A pool that broke while idle makes the next import count as a crash
  (`server.py:2758`), against `server.py:2499`.
- A request left in the outbox by a call that was settled without a socket is
  sent all the same, and its reply opens a stream that no call waits for
  (`client.ts:746`), against `client.ts:442` and `client.ts:713`.
- An import that ends under an open tool takes the name the tool holds
  (`files.ts:934`), which `main.ts:503` says was fixed by refusing the ribbon's button;
  the file is read after that check. This is the step `Doubles` of `DocumentEdits`.
- A feature that is removed by hand while its import still builds frees its name; one
  that is added then takes it, and a cancel of the import withdraws that one from
  the document and from every undo step, against `store.ts:599`. This is the step
  `Mistakes` of `DocumentEdits`.
- New, Open and Close cancel an open sketch after the question about unsaved work is
  answered (`main.ts:476`, 489, 498), and the question does not count it; the window's
  close commits it first (`main.ts:233`).
- An autosave that falls due while a snapshot is being written drops its timer and
  returns (`recovery.ts:46`): the newest edit has no snapshot until the user edits
  again, against `recovery.ts:4`, if the write outlasts the thirty seconds of the
  timer. `Session` records it as the lapse "skipped".
- A recovery snapshot that the user kept with Esc (`recovery.ts:157`) is deleted by
  the next Save of any untitled document.
- Two expressions that are each acyclic when they are typed can close a cycle when
  they land, against `engine.ts:14`; two fields given one new name while both
  commits wait end with one parameter (`engine.ts:295`), and one field given the same new
  name twice makes the second commit throw (`engine.ts:299`, after `engine.ts:395`), which the user is told as a
  failure.
- Undo, redo, New and Open do not recompute the table and leave `paramIssues` as the
  document before had them (`store.ts:1981`): after the removal of a feature is undone,
  "target gone" is still shown of a parameter whose field is back, until the next change, against
  `store.ts:777`.
- An offset or an angle that a parameter drives takes its side from the number it held
  (`numFields.ts:288`). A value of zero has no side: when the parameter passes through
  zero, the next value is on the positive one, whichever it was on before.
- Compute All cannot remove a poisoned blob that no row names, or that a row of
  another document shares (`geomstore.py:446`), against `server.py:1277`; a blob whose
  fingerprint diverges is neither unlinked nor its row dropped, so that every
  cold start finds it and misses again.

## Not modelled

Geometry (OCCT features, tessellation, selection, textures, the constraint solver,
projections as curves) is numerical and has tests of its own: what the models need
of it is a choice or a constant. Rendering, tools and panels hold no state that
outlives a gesture, except the names that tools reserve. File formats, printing,
slicing, sharing, the webview's and input devices' glue are I/O. The supervision of
the sidecar by the shell is a handful of system calls; its reports arrive in
`GeometryClient`. These are most of the lines of the repository; the models cover what
decides which document is built, kept and shown.

## What could come next

1. `DeltaSync` with two clients of one worker; the server admits eight, the app
   opens one.
2. `GeometryClient` as an implementation of `RebuildService`.
3. `DocumentEdits` with the open sketch, which keeps a history of its own.

## Running

`tlc -config DeltaFeatures.cfg MCDeltaSync` and so on, with the pairs that
`PROJECT.json` lists; `tlapm DeltaSyncProofs.tla`, `tlapm RebuildPipelineProofs.tla`,
`tlapm GeometryClientProofs.tla`, `tlapm WorkerPoolProofs.tla`,
`tlapm CheckpointsProofs.tla`, `tlapm SessionProofs.tla`,
`tlapm DocumentEditsProofs.tla`, `tlapm ParamTableProofs.tla`.
