----------------------------- MODULE Checkpoints -----------------------------
(***************************************************************************)
(* Incremental rebuilds and the durable checkpoints they resume from:      *)
(* rebuild_cached of sidecar/builder.py over the store of                  *)
(* sidecar/geomstore.py, in the one worker process that uses it.           *)
(*                                                                         *)
(* The disk holds blobs, one body each, under the key of the last feature  *)
(* that modified the body, and rows, one per checkpoint, each naming the   *)
(* blobs of the bodies it restores.  A row and its blobs are several file  *)
(* operations, and the worker may be killed between any two of them (the   *)
(* stall watchdog, Cancel and a crash of the kernel all end the process):  *)
(* each is a step of its own here, and Kill is enabled everywhere.         *)
(*                                                                         *)
(* Geometry is symbolic.  The shape a feature gives to a body is the       *)
(* feature applied to all the bodies before it, so two shapes are equal    *)
(* only if everything that went into them is; shapes are also what the     *)
(* code compares by identity (within one worker a body keeps its shape     *)
(* object exactly as long as nothing modifies it).  The clock is not       *)
(* modelled: whether a feature used up the budget that earns a checkpoint, *)
(* and whether a build took long enough for one at its tip, is a choice.   *)
(* Not modelled: meshes, feature errors, datums and the sketch registry,   *)
(* which ride along in rows and snapshots, and pins, which nothing sets.   *)
(***************************************************************************)
EXTENDS Integers, FiniteSets, Sequences, SequencesExt, FiniteSetsExt

CONSTANTS
    Feature,        \* the features documents are made of
    Touches,        \* [Feature -> SUBSET body ids]: the bodies it modifies
    Reads,          \* the features whose expressions name the parameter
    Projected,      \* the sketches that carry projected curves
    Curves,         \* [Projected -> chain]: what their curves were taken from
    Built,          \* chain -> the bodies a build of it from nothing has
    Document,       \* a set of [feats : Seq(Feature), param : value]
    Window,         \* _RAM_SNAP_WINDOW: snapshots kept in memory
    MaxRows,        \* how many checkpoints the index holds
    Fragile,        \* the blob keys whose file may be damaged, once each
    None

ASSUME WindowAssumption == Window \in Nat \ {0}
ASSUME DocumentAssumption == \A d \in Document : d.feats \in Seq(Feature) \ {<<>>}

VARIABLES
    blobs,          \* key -> [shape, state]: the files under blobs/
    rows,           \* chain key -> [man, fps]: the index's checkpoints
    damaged,        \* history: the keys whose file something else damaged
    ram,            \* _CACHE: feats, param, snaps, quiet, mod
    pc,             \* what the worker is doing
    after,          \* what it does when todo is done
    todo,           \* the blobs still to unlink, the bodies still to put
    job,            \* the build's document and kind
    at,             \* features built so far
    start,          \* resume[0]: where this build began
    missed,         \* a checkpoint was found and could not be restored
    bodies,         \* body id -> shape, after feature at
    mod,            \* persist["mod"]: body id -> [shape, key]
    snaps,          \* the per-feature snapshots of this build
    emitted         \* the build has reported a stale projected curve

disk   == <<blobs, rows, damaged>>
locals == <<job, at, start, missed, bodies, mod, snaps, emitted>>
vars   == <<disk, ram, pc, after, todo, locals>>

Empty == <<>>

Kind == {"edit", "aux", "prefix", "all"}
Readonly(kind) == kind = "prefix"
Collects(kind) == kind \in {"edit", "all"}      \* passes a projections list

-----------------------------------------------------------------------------
(***************************************************************************)
(* Keys and geometry.                                                      *)
(***************************************************************************)

(* What feature i of the document amounts to: its own signature and its    *)
(* scope, the value of the parameter if it names it.                       *)
Effective(f, param) == <<f, IF f \in Reads THEN param ELSE None>>

Chain(d) == [i \in DOMAIN d.feats |-> Effective(d.feats[i], d.param)]

(* _chain_keys_scoped: keys[i - 1] identifies everything up to feature i.  *)
ChainKey(d, i) == SubSeq(Chain(d), 1, i)
ChainKeys(d) == {ChainKey(d, i) : i \in 1..Len(d.feats)}

(* A feature can modify several bodies, so the body id is part of the key. *)
BlobKey(key, b) == <<key, b>>

Apply(bs, e) == [b \in DOMAIN bs \cup Touches[e[1]] |->
                    IF b \in Touches[e[1]] THEN <<e, bs>> ELSE bs[b]]

(* A build from nothing applies one feature after the other.               *)
ASSUME BuiltAssumption ==
    /\ Built[<<>>] = Empty
    /\ \A d \in Document : \A i \in DOMAIN d.feats :
          Built[ChainKey(d, i)] = Apply(Built[ChainKey(d, i - 1)], Chain(d)[i])

(* _recompute_projections: the curves cached in the sketch are not those   *)
(* its sources give on the bodies built before it.                         *)
Stale(f, bs) == f \in Projected /\ Built[Curves[f]] # bs

Without(f, S) == [x \in DOMAIN f \ S |-> f[x]]
With(f, x, v) == [y \in DOMAIN f \cup {x} |-> IF y = x THEN v ELSE f[y]]

(* Files are taken in the order of a listing, bodies in that of the build: *)
(* one fixed order.                                                        *)
First(S) == CHOOSE x \in S : TRUE

Refs(row) == {row.man[b] : b \in DOMAIN row.man}
RefsOf(keys) == UNION {Refs(rows[k]) : k \in keys}

-----------------------------------------------------------------------------
NoRam == [feats |-> <<>>, param |-> None, snaps |-> <<>>,
          quiet |-> FALSE, mod |-> Empty]

NoJob == [doc |-> None, kind |-> None]

ClearLocals == /\ job' = NoJob
               /\ at' = 0
               /\ start' = 0
               /\ missed' = FALSE
               /\ bodies' = Empty
               /\ mod' = Empty
               /\ snaps' = <<>>
               /\ emitted' = FALSE

Init == /\ blobs = Empty
        /\ rows = Empty
        /\ damaged = {}
        /\ ram = NoRam
        /\ pc = "down"
        /\ after = None
        /\ todo = {}
        /\ job = NoJob
        /\ at = 0
        /\ start = 0
        /\ missed = FALSE
        /\ bodies = Empty
        /\ mod = Empty
        /\ snaps = <<>>
        /\ emitted = FALSE

-----------------------------------------------------------------------------
(***************************************************************************)
(* The worker starts: evict_to_budget, before any job.                     *)
(***************************************************************************)

(* The blobs fit the budget (which follows the free disk), or evict runs.  *)
Boot == /\ pc = "down"
        /\ pc' \in {"idle", "orphans"}
        /\ UNCHANGED <<disk, ram, after, todo, locals>>

Orphans == DOMAIN blobs \ RefsOf(DOMAIN rows)

EvictOrphan == /\ pc = "orphans"
               /\ Orphans # {}
               /\ blobs' = Without(blobs, {First(Orphans)})
               /\ UNCHANGED <<rows, damaged, ram, pc, after, todo, locals>>

OrphansDone == /\ pc = "orphans"
               /\ Orphans = {}
               /\ pc' = "evict"
               /\ UNCHANGED <<disk, ram, after, todo, locals>>

(* The row goes first, then the blobs nothing else refers to.  Which row   *)
(* comes first is a matter of sizes and times.                             *)
EvictRow == /\ pc = "evict"
            /\ \E k \in DOMAIN rows :
                  /\ rows' = Without(rows, {k})
                  /\ todo' = Refs(rows[k]) \ RefsOf(DOMAIN rows \ {k})
            /\ pc' = "unlink"
            /\ after' = "evict"
            /\ UNCHANGED <<blobs, damaged, ram, locals>>

EvictDone == /\ pc = "evict"
             /\ pc' = "idle"
             /\ UNCHANGED <<disk, ram, after, todo, locals>>

Unlink == /\ pc = "unlink"
          /\ todo # {}
          /\ blobs' = Without(blobs, {First(todo)})
          /\ todo' = todo \ {First(todo)}
          /\ UNCHANGED <<rows, damaged, ram, pc, after, locals>>

UnlinkDone == /\ pc = "unlink"
              /\ todo = {}
              /\ pc' = after
              /\ after' = None
              /\ UNCHANGED <<disk, ram, todo, locals>>

-----------------------------------------------------------------------------
(***************************************************************************)
(* A build begins.                                                         *)
(***************************************************************************)
Begin == /\ pc = "idle"
         /\ \E d \in Document, kind \in Kind \ {"all"} :
               job' = [doc |-> d, kind |-> kind]
         /\ pc' = "find"
         /\ UNCHANGED <<disk, ram, after, todo, at, start, missed, bodies, mod,
                        snaps, emitted>>

(* purge: the checkpoints of this history, and the blobs they name that no *)
(* other checkpoint does.                                                  *)
Doomed(d) == DOMAIN rows \cap ChainKeys(d)
(* Mutant: the blobs of other checkpoints go too.                          *)
DoomedBlobsAll(d) == RefsOf(Doomed(d))

DoomedBlobs(d) == RefsOf(Doomed(d)) \ RefsOf(DOMAIN rows \ Doomed(d))

ComputeAll == /\ pc = "idle"
              /\ \E d \in Document :
                    /\ job' = [doc |-> d, kind |-> "all"]
                    /\ rows' = Without(rows, Doomed(d))
                    /\ todo' = DoomedBlobs(d)
              /\ ram' = NoRam
              /\ pc' = "unlink"
              /\ after' = "find"
              /\ UNCHANGED <<blobs, damaged, at, start, missed, bodies, mod,
                             snaps, emitted>>

(* The features before the first sketch with projected curves, when the    *)
(* build collects what has become stale; all of them otherwise.            *)
ProjCap(d, kind) ==
    LET sketches == {i \in DOMAIN d.feats : d.feats[i] \in Projected} IN
    IF Collects(kind) /\ sketches # {} THEN Min(sketches) - 1 ELSE Len(d.feats)

(* How much of the document the snapshots in memory cover.                 *)
Agreed(d) == Max({n \in 0..Min({Len(d.feats), Len(ram.feats)}) :
                     SubSeq(d.feats, 1, n) = SubSeq(ram.feats, 1, n)})

Capped(d, kind) == LET cap == ProjCap(d, kind) IN
                   IF ram.quiet /\ Agreed(d) > cap THEN Agreed(d)
                                                   ELSE Min({Agreed(d), cap})

(* Mutant: the snapshots are reused whatever the parameter.                *)
AnyGlobals(d) == TRUE

SameGlobals(d) == ram.param = d.param

RamResume(d, kind) ==
    LET k == Capped(d, kind) IN
    IF SameGlobals(d) /\ k > 0 /\ ram.snaps[k] # None THEN k ELSE 0

(* Strictly deeper checkpoints compete with the snapshots in memory.       *)
Deeper(d, kind) == {i \in RamResume(d, kind) + 1 .. ProjCap(d, kind) :
                       ChainKey(d, i) \in DOMAIN rows}

(* Mutant: the shallowest checkpoint.                                      *)
CandidateShallowest(d, kind) == Min(Deeper(d, kind))

Candidate(d, kind) == Max(Deeper(d, kind))

OnDisk(row) == Refs(row) \subseteq DOMAIN blobs

(* find_checkpoint walks from the deepest row: one that names a missing    *)
(* blob is dropped, and the walk goes on.                                  *)
DropHollow == /\ pc = "find"
              /\ Deeper(job.doc, job.kind) # {}
              /\ LET key == ChainKey(job.doc, Candidate(job.doc, job.kind)) IN
                 /\ ~OnDisk(rows[key])
                 /\ rows' = Without(rows, {key})
              /\ UNCHANGED <<blobs, damaged, ram, pc, after, todo, locals>>

(* What the blob decodes to agrees with the fingerprint in the row.        *)
Restorable(row, b) == LET blob == blobs[row.man[b]] IN
                      blob.state = "good" /\ blob.shape = row.fps[b]

(* The prefix bodies of a build that resumes in memory keep the key the    *)
(* previous build knew them by, if it is still the same shape.             *)
Inherited(d, k) ==
    [b \in DOMAIN ram.snaps[k] |->
        IF b \in DOMAIN ram.mod /\ ram.mod[b].shape = ram.snaps[k][b]
        THEN ram.mod[b]
        ELSE [shape |-> ram.snaps[k][b], key |-> BlobKey(ChainKey(d, k), b)]]

ResumeInMemory ==
    LET k == RamResume(job.doc, job.kind) IN
    /\ at' = k
    /\ start' = k
    /\ bodies' = IF k = 0 THEN Empty ELSE ram.snaps[k]
    /\ mod' = IF k = 0 \/ Readonly(job.kind) THEN Empty ELSE Inherited(job.doc, k)
    /\ snaps' = SubSeq(ram.snaps, 1, k)
    /\ pc' = "run"

(* No checkpoint: from the snapshot in memory, or from the first feature.  *)
Miss == /\ pc = "find"
        /\ Deeper(job.doc, job.kind) = {}
        /\ ResumeInMemory
        /\ UNCHANGED <<disk, ram, after, todo, job, missed, emitted>>

(* _restore_from_disk reads a blob that is no use: the whole restore is a  *)
(* miss, and get_blob removes the file if it could not even be read.       *)
RestoreFails ==
    /\ pc = "find"
    /\ Deeper(job.doc, job.kind) # {}
    /\ LET row == rows[ChainKey(job.doc, Candidate(job.doc, job.kind))] IN
       /\ OnDisk(row)
       /\ \E b \in DOMAIN row.man :
             /\ ~Restorable(row, b)
             /\ blobs' = IF blobs[row.man[b]].state = "torn"
                         THEN Without(blobs, {row.man[b]}) ELSE blobs
    /\ ResumeInMemory
    /\ missed' = TRUE
    /\ UNCHANGED <<rows, damaged, ram, after, todo, job, emitted>>

(* Only the tip of the restored prefix becomes a snapshot.                 *)
Restore ==
    /\ pc = "find"
    /\ Deeper(job.doc, job.kind) # {}
    /\ LET i == Candidate(job.doc, job.kind)
           row == rows[ChainKey(job.doc, i)]
           restored == [b \in DOMAIN row.man |-> blobs[row.man[b]].shape]
       IN /\ OnDisk(row)
          /\ \A b \in DOMAIN row.man : Restorable(row, b)
          /\ at' = i
          /\ start' = i
          /\ bodies' = restored
          /\ mod' = IF Readonly(job.kind) THEN Empty
                    ELSE [b \in DOMAIN row.man |->
                            [shape |-> restored[b], key |-> row.man[b]]]
          /\ snaps' = [n \in 1..i |-> IF n = i THEN restored ELSE None]
    /\ pc' = "run"
    /\ UNCHANGED <<disk, ram, after, todo, job, missed, emitted>>

-----------------------------------------------------------------------------
(***************************************************************************)
(* The features are run, and checkpoints written on the way.               *)
(***************************************************************************)

(* Mutant: a body keeps the key it was first known by.                     *)
StampedOnce(d, i, bs) ==
    [b \in DOMAIN bs |->
        [shape |-> bs[b], key |-> IF b \in DOMAIN mod THEN mod[b].key
                                  ELSE BlobKey(ChainKey(d, i), b)]]

(* _persist_tick: a body whose shape is new is known by this feature.      *)
Stamped(d, i, bs) ==
    [b \in DOMAIN bs |->
        IF b \in DOMAIN mod /\ mod[b].shape = bs[b]
        THEN mod[b] ELSE [shape |-> bs[b], key |-> BlobKey(ChainKey(d, i), b)]]

(* Not from a readonly build; MaxRows bounds the index.                    *)
MayPersist(j, i) == /\ ~Readonly(j.kind)
                    /\ Cardinality(DOMAIN rows \cup {ChainKey(j.doc, i)}) <= MaxRows

RunFeature ==
    /\ pc = "run"
    /\ at < Len(job.doc.feats)
    /\ LET i == at + 1
           bs == Apply(bodies, Chain(job.doc)[i])
       IN /\ at' = i
          /\ bodies' = bs
          /\ mod' = IF Readonly(job.kind) THEN Empty ELSE Stamped(job.doc, i, bs)
          /\ snaps' = Append(snaps, bs)
          /\ emitted' = (emitted \/ /\ Collects(job.kind)
                                    /\ Stale(job.doc.feats[i], bodies))
          /\ \/ /\ pc' = "run"
                /\ UNCHANGED <<after, todo>>
             \/ /\ MayPersist(job, at + 1)      \* the budget is used up
                /\ pc' = "put"
                /\ after' = "run"
                /\ todo' = DOMAIN bs
    /\ UNCHANGED <<disk, ram, job, start, missed>>

(* put_blob does nothing if the file is there: the same key, the same body.*)
PutBlob == /\ pc = "put"
           /\ todo # {}
           /\ LET b == First(todo) IN
              /\ blobs' = IF mod[b].key \in DOMAIN blobs THEN blobs
                          ELSE With(blobs, mod[b].key,
                                    [shape |-> bodies[b], state |-> "good"])
              /\ todo' = todo \ {b}
           /\ UNCHANGED <<rows, damaged, ram, pc, after, locals>>

Leave == /\ pc' = after
         /\ after' = None
         /\ IF after = "idle" THEN ClearLocals ELSE UNCHANGED locals

SaveRow == /\ pc = "put"
           /\ todo = {}
           /\ rows' = With(rows, ChainKey(job.doc, at),
                           [man |-> [b \in DOMAIN bodies |-> mod[b].key],
                            fps |-> bodies])
           /\ Leave
           /\ UNCHANGED <<blobs, damaged, ram, todo>>

(* "a cache write failure must never break a rebuild"                      *)
SaveFails == /\ pc = "put"
             /\ todo' = {}
             /\ Leave
             /\ UNCHANGED <<disk, ram>>

(* Only the latest Window snapshots stay.                                  *)
(* Mutant: one snapshot too many.                                          *)
RetainedOneMore == [n \in DOMAIN snaps |-> IF n < Len(snaps) - Window THEN None
                                                                      ELSE snaps[n]]

Retained == [n \in DOMAIN snaps |-> IF n <= Len(snaps) - Window THEN None
                                                               ELSE snaps[n]]

(* A build that collected projection updates and had none proves that the  *)
(* curves it built are the ones in the document.                           *)
(* Mutant: a build that collects nothing counts as quiet.                  *)
QuietWithoutLooking == ~emitted

Quiet == Collects(job.kind) /\ ~emitted

RamAfterBuild == [feats |-> job.doc.feats, param |-> job.doc.param,
                  snaps |-> Retained, quiet |-> Quiet, mod |-> mod]

(* The tip is checkpointed if the build cost real time.                    *)
Finish == /\ pc = "run"
          /\ at = Len(job.doc.feats)
          /\ ram' = IF Readonly(job.kind) THEN ram ELSE RamAfterBuild
          /\ \/ /\ pc' = "idle"
                /\ ClearLocals
                /\ UNCHANGED <<after, todo>>
             \/ /\ MayPersist(job, at)
                /\ pc' = "put"
                /\ after' = "idle"
                /\ todo' = DOMAIN bodies
                /\ UNCHANGED locals
          /\ UNCHANGED disk

-----------------------------------------------------------------------------
(***************************************************************************)
(* What happens to the worker and to its files.                            *)
(***************************************************************************)
Kill == /\ pc # "down"
        /\ pc' = "down"
        /\ after' = None
        /\ todo' = {}
        /\ ram' = NoRam
        /\ ClearLocals
        /\ UNCHANGED disk

(* Something outside the features raises: the job fails, and _CACHE and    *)
(* the checkpoints written so far stay as they are.                        *)
Raise == /\ pc = "run"
         /\ pc' = "idle"
         /\ ClearLocals
         /\ UNCHANGED <<disk, ram, after, todo>>

(* A file no longer decodes, or decodes to something else.                 *)
Damage == /\ \E k \in (Fragile \cap DOMAIN blobs) \ damaged, s \in {"torn", "off"} :
                /\ damaged' = damaged \cup {k}
                /\ blobs' = [blobs EXCEPT ![k].state = s]
          /\ UNCHANGED <<rows, ram, pc, after, todo, locals>>

Next == \/ Boot \/ EvictOrphan \/ OrphansDone \/ EvictRow \/ EvictDone
        \/ Unlink \/ UnlinkDone
        \/ Begin \/ ComputeAll \/ DropHollow \/ Miss \/ RestoreFails \/ Restore
        \/ RunFeature \/ PutBlob \/ SaveRow \/ SaveFails \/ Finish
        \/ Raise \/ Kill \/ Damage

Spec == Init /\ [][Next]_vars

-----------------------------------------------------------------------------
(***************************************************************************)
(* Properties.                                                             *)
(***************************************************************************)

(* The files, the index, the module globals and the locals have the types  *)
(* the store and rebuild_cached give them.                                 *)
TypeOK ==
    /\ \A k \in DOMAIN blobs : blobs[k].state \in {"good", "torn", "off"}
    /\ \A k \in DOMAIN rows : DOMAIN rows[k].man = DOMAIN rows[k].fps
    /\ damaged \subseteq Fragile
    /\ Len(ram.snaps) = Len(ram.feats)
    /\ Cardinality({n \in DOMAIN ram.snaps : ram.snaps[n] # None}) <= Window
    /\ pc \in {"down", "orphans", "evict", "unlink", "idle", "find", "run", "put"}
    /\ after \in {None, "evict", "find", "run", "idle"}
    /\ pc \in {"down", "orphans", "idle"} => job = NoJob
    /\ pc \in {"run", "put"} => Len(snaps) = at /\ start <= at
    /\ pc = "put" => DOMAIN mod = DOMAIN bodies

(* A key names one shape: the body a build from nothing has after exactly  *)
(* the features the key was made from.  It is what lets put_blob skip a    *)
(* file that exists and lets meshes be filed under the same key, whatever  *)
(* mixture of snapshots, checkpoints, kills and edits stamped the body.    *)
Names(key, shape) == shape = Built[key[1]][key[2]]

KeysNameShapes ==
    /\ \A k \in DOMAIN blobs : blobs[k].state = "good" => Names(k, blobs[k].shape)
    /\ \A c \in DOMAIN rows : rows[c].fps = Built[c]
    /\ \A c \in DOMAIN rows : \A b \in DOMAIN rows[c].man :
          Names(rows[c].man[b], rows[c].fps[b])
    /\ \A b \in DOMAIN ram.mod : Names(ram.mod[b].key, ram.mod[b].shape)
    /\ \A b \in DOMAIN mod : Names(mod[b].key, mod[b].shape)

(* "Geometrically identical to a full rebuild": whatever a build resumed   *)
(* from, it returns the bodies a build of the document from nothing has.   *)
Returns == pc = "run" /\ at = Len(job.doc.feats)

ResultIsFull == Returns => bodies = Built[Chain(job.doc)]

(* A sketch whose projected curves no longer match their sources is        *)
(* reported by every build that collects such reports, not only by the     *)
(* first: the frontend may have thrown the first report away.              *)
HasStaleCurves(d) == \E i \in DOMAIN d.feats :
                        Stale(d.feats[i], Built[ChainKey(d, i - 1)])

StaleCurvesAreReported ==
    Returns /\ Collects(job.kind) => (emitted <=> HasStaleCurves(job.doc))

(* "a crash mid-evict leaves at worst an orphan blob (reclaimable), never  *)
(* a row pointing at a hole": and so does one in the middle of a save or   *)
(* of Compute All.  A row lacks a blob only if the file was damaged.       *)
NoRowPointsAtAHole ==
    \A c \in DOMAIN rows : Refs(rows[c]) \subseteq DOMAIN blobs \cup damaged

(* "a timeout or crash then loses at most one budget's worth of work (the  *)
(* ratchet)": a build runs no feature that a checkpoint on the disk covers,*)
(* unless the deepest one turned out to be unreadable, or the projected    *)
(* curves of an earlier sketch have to be looked at.                       *)
Intact(row) == OnDisk(row) /\ \A b \in DOMAIN row.man : Restorable(row, b)

NoWorkIsRedone ==
    pc = "run" /\ at = start /\ ~missed =>
        \A i \in start + 1 .. ProjCap(job.doc, job.kind) :
            ChainKey(job.doc, i) \in DOMAIN rows =>
                ~Intact(rows[ChainKey(job.doc, i)])
=============================================================================
