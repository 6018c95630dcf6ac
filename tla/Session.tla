------------------------------ MODULE Session ------------------------------
(***************************************************************************)
(* A session of the application around one document: editing, Save, Save   *)
(* As, New, Open, Close, the question that stands before unsaved work, the *)
(* autosave with its recovery slots, the window's close with the shell's   *)
(* watchdog, and the crashes and launches between sessions.                *)
(*                                                                         *)
(* A document's content is the set of the edits in it.  The interleaving   *)
(* is the event loop's: a step ends where the code awaits the shell or the *)
(* user.  The shell's commands take any time and may fail.                 *)
(*                                                                         *)
(* Time enters in four places: the acknowledgement of a close request      *)
(* arrives before the user answers the question asked with it (Answer,     *)
(* Quit); a launch has handed its snapshot over within the thirty seconds  *)
(* of the autosave (AutosaveDue); a page that is up handles a request      *)
(* within the watchdog's four seconds (Watchdog); and a timer that is still *)
(* armed over a clean document, which does nothing, counts as no timer.    *)
(***************************************************************************)
EXTENDS Naturals, FiniteSets, Sequences, SequencesExt, ListFilter

CONSTANTS Null, Path, Edit,
          MaxLaunches,             \* bound: launches of the application
          MaxRequests,             \* bound: close requests of the first launch, one
                                   \* less in each that follows
          MaxTasks                 \* bound: file operations under way at a time

Untitled == "untitled"
Slot == Path \cup {Untitled}
SlotFor(path) == IF path = Null THEN Untitled ELSE path

Snapshot == [slot : Slot, content : SUBSET Edit]
Offer == [pc : {"prompt", "hand over", "clear"}, slot : Slot, content : SUBSET Edit]

\* Null is no path, no content and no snapshot; a path is not one of the words.
ASSUME NamesAssumption ==
    /\ Null \notin Path /\ \A s \in Snapshot \cup Offer : s # Null /\ s.content # Null
    /\ Untitled \notin Path /\ "new" \notin Path

VARIABLES
    running,   \* the application runs
    web,       \* its webview: "up", or "deaf": stalled for a while or dead for good
    doc,       \* the document on screen: content, path, dirty
    sketch,    \* what is drawn in an open sketch and not in the store
    disk,      \* the saved files
    slots,     \* the recovery snapshots, newest first
    timer,     \* the autosave is due some time, with something to save
    writing,   \* the snapshot on its way to the shell
    tasks,     \* save: Ctrl+S; file: New, Open, Close; quit: the close handler
    offer,     \* the snapshot this launch offers, or hands over
    guard,     \* close requests, acknowledgements and watchdogs
    edits,     \* the edits made so far
    launches,  \* counter of the bound
    answered,  \* edits the user gave up, or that a crash took
    orphans,   \* edits that only a snapshot holds since a crash
    unguarded, \* edits no question stands before, see Commit and Continue
    lapses     \* how the snapshot of the last edit was missed, see SnapshotIsOwed

page == <<doc, sketch, timer, tasks, offer>>
bounds == <<edits, launches>>
ghosts == <<answered, orphans, unguarded, lapses>>
vars == <<running, web, page, disk, slots, writing, guard, bounds, ghosts>>

Blank == [content |-> {}, path |-> Null, dirty |-> FALSE]
Idle == [pc |-> "idle", goal |-> "none", path |-> Null, content |-> {}]
AllIdle == [t \in {"save", "file", "quit"} |-> Idle]
NoRequest == [requests |-> 0, acks |-> 0, events |-> 0, acking |-> 0]

Contents(of) == UNION {s.content : s \in Range(of)}
OnDisk == UNION {disk[p] : p \in {q \in Path : disk[q] # Null}}
Work == (doc.content \cup sketch) \ OnDisk
Up == running /\ web = "up"
Busy == \E t \in DOMAIN tasks : tasks[t].pc # "idle"

MayStart == Cardinality({t \in DOMAIN tasks : tasks[t].pc # "idle"}) < MaxTasks

\* What is on screen is in a snapshot; it is on its way to the shell in one.
Covered == \E i \in DOMAIN slots : doc.content \subseteq slots[i].content
Carried == doc.content \subseteq writing.content

\* A choice or a native dialog is open; the user cannot edit under it.
Modal == \/ \E t \in DOMAIN tasks : tasks[t].pc \in {"prompt", "dialog"}
         \/ offer # Null /\ offer.pc = "prompt"
User == Up /\ ~Modal

------------------------------------------------------------------------
\* Editing.

\* Mutant: only the first edit schedules the autosave.
CommitSchedulesOnce(E) ==
    /\ doc' = [doc EXCEPT !.content = @ \cup E, !.dirty = @ \/ E # {}]
    /\ timer' = (timer \/ (E # {} /\ ~doc.dirty))
    /\ lapses' = IF E = {} THEN lapses ELSE {}
    /\ unguarded' = IF Busy THEN unguarded \cup E ELSE unguarded

\* An edit enters the store: dirty, and the autosave is scheduled.  One that
\* is made while a file operation is under way is behind the guard's back.
Commit(E) ==
    /\ doc' = [doc EXCEPT !.content = @ \cup E, !.dirty = @ \/ E # {}]
    /\ timer' = (timer \/ E # {})
    /\ lapses' = IF E = {} THEN lapses ELSE {}
    /\ unguarded' = IF Busy THEN unguarded \cup E ELSE unguarded

Change ==
    /\ User
    /\ \E e \in Edit \ edits : edits' = edits \cup {e} /\ Commit({e})
    /\ UNCHANGED <<running, web, sketch, disk, slots, writing, tasks, offer, guard,
                   launches, answered, orphans>>

\* The sketch editor keeps its curves to itself until Finish.
Draw ==
    /\ User /\ sketch = {}
    /\ \E e \in Edit \ edits : edits' = edits \cup {e} /\ sketch' = {e}
    /\ unguarded' = IF Busy THEN unguarded \cup sketch' ELSE unguarded
    /\ UNCHANGED <<running, web, doc, disk, slots, timer, writing, tasks, offer, guard,
                   launches, answered, orphans, lapses>>

------------------------------------------------------------------------
\* Save, Save As, and the question before unsaved work.

To(t, step) == tasks' = [tasks EXCEPT ![t] = step]

\* saveDocument: the document is serialized when the shell is called; without a
\* path it asks for one.
Saving(step) ==
    IF doc.path = Null THEN [step EXCEPT !.pc = "dialog"]
    ELSE [step EXCEPT !.pc = "writing", !.path = doc.path, !.content = doc.content]

\* Mutant: a save that failed or was cancelled counts as an answer.
SavedAnyway(step, dirty) ==
    [(IF step.goal # "none" THEN [step EXCEPT !.pc = "go"] ELSE Idle)
        EXCEPT !.path = Null, !.content = {}]

\* What a save answers to the question it was the answer of: has the document
\* become clean?
Saved(step, dirty) ==
    [(IF step.goal # "none" /\ ~dirty THEN [step EXCEPT !.pc = "go"] ELSE Idle)
        EXCEPT !.path = Null, !.content = {}]

Save ==
    /\ User /\ MayStart /\ tasks["save"] = Idle
    /\ \/ To("save", Saving(Idle))
       \/ To("save", [Idle EXCEPT !.pc = "dialog"])
    /\ UNCHANGED <<running, web, doc, sketch, disk, slots, timer, writing, offer, guard,
                   bounds, ghosts>>

ChoosePath(t, path) ==
    /\ Up /\ tasks[t].pc = "dialog"
    /\ To(t, IF path = Null THEN Saved(tasks[t], doc.dirty)
             ELSE [tasks[t] EXCEPT !.pc = "writingAs", !.path = path, !.content = doc.content])
    /\ UNCHANGED <<running, web, doc, sketch, disk, slots, timer, writing, offer, guard,
                   bounds, ghosts>>

\* The shell has published the file.  Save marks whatever the path is by now,
\* Save As the path that was chosen; overwriting a file chosen in the dialog is
\* the user's decision.  When the document was replaced meanwhile, the new one
\* gets the old one's name, and its next Save takes the old one's file.
Written(t) ==
    LET step == tasks[t]
        path == IF step.pc = "writing" THEN doc.path ELSE step.path
    IN /\ Up /\ step.pc \in {"writing", "writingAs"}
       /\ disk' = [disk EXCEPT ![step.path] = step.content]
       /\ doc' = [doc EXCEPT !.path = path, !.dirty = FALSE]
       /\ To(t, [step EXCEPT !.pc = "clear", !.path = path])
       /\ answered' = IF step.pc = "writingAs" /\ disk[step.path] # Null
                      THEN answered \cup (disk[step.path] \ step.content) ELSE answered
       /\ unguarded' = IF step.pc = "writingAs" /\ ~(step.content \subseteq doc.content)
                       THEN unguarded \cup step.content ELSE unguarded
       /\ timer' = FALSE /\ lapses' = {}
       /\ UNCHANGED <<running, web, sketch, slots, writing, offer, guard, bounds, orphans>>

\* Mutant: the document is marked as saved whatever the shell answers.
SaveFailsClean(t) ==
    /\ Up /\ tasks[t].pc \in {"writing", "writingAs"}
    /\ doc' = [doc EXCEPT !.dirty = FALSE]
    /\ To(t, Saved(tasks[t], FALSE))
    /\ timer' = FALSE /\ lapses' = {}
    /\ UNCHANGED <<running, web, sketch, disk, slots, writing, offer, guard, bounds,
                   answered, orphans, unguarded>>

SaveFails(t) ==
    /\ Up /\ tasks[t].pc \in {"writing", "writingAs"}
    /\ To(t, Saved(tasks[t], doc.dirty))
    /\ UNCHANGED <<running, web, doc, sketch, disk, slots, timer, writing, offer, guard,
                   bounds, ghosts>>

\* confirmDiscardChanges: a clean document needs no question.
Asking(goal, path, dirty) ==
    [pc |-> IF dirty THEN "prompt" ELSE "go", goal |-> goal, path |-> path, content |-> {}]

File ==
    /\ User /\ MayStart /\ tasks["file"] = Idle
    /\ \E goal \in {"new"} \cup {p \in Path : disk[p] # Null} :
           To("file", Asking(goal, Null, doc.dirty))
    /\ UNCHANGED <<running, web, doc, sketch, disk, slots, timer, writing, offer, guard,
                   bounds, ghosts>>

Answer(t, pick) ==
    /\ Up /\ tasks[t].pc = "prompt" /\ guard.acking = 0
    /\ To(t, CASE pick = "save" -> Saving(tasks[t])
               [] pick = "discard" -> [tasks[t] EXCEPT !.pc = "discard", !.path = doc.path]
               [] pick = "cancel" -> Idle)
    /\ answered' = IF pick = "discard" THEN answered \cup Work ELSE answered
    /\ UNCHANGED <<running, web, doc, sketch, disk, slots, timer, writing, offer, guard,
                   bounds, orphans, unguarded, lapses>>

\* clearRecovery, best effort: the path's slot, then the untitled one.
Without(cleared) == Filtered(slots, {i \in DOMAIN slots : slots[i].slot \notin cleared})

Clear(t) ==
    LET step == tasks[t] IN
    /\ Up /\ step.pc \in {"clear", "discard", "closing"}
    /\ \E cleared \in {{}, {SlotFor(step.path)}, {SlotFor(step.path), Untitled}} :
           slots' = Without(cleared)
    /\ doc' = IF step.pc = "closing" THEN Blank ELSE doc
    /\ timer' = (timer /\ doc'.dirty)
    /\ lapses' = CASE ~doc'.dirty -> {}
                  [] doc'.dirty /\ Covered /\ ~Covered' -> lapses \cup {"swept"}
                  [] OTHER -> lapses
    /\ To(t, CASE step.pc = "clear" -> Saved(step, doc.dirty)
               [] step.pc = "discard" -> [step EXCEPT !.pc = "go"]
               [] step.pc = "closing" -> Idle)
    /\ UNCHANGED <<running, web, sketch, disk, writing, offer, guard, bounds,
                   answered, orphans, unguarded>>

------------------------------------------------------------------------
\* Past the question: New, Close (which clears the snapshot first), Open.  An open
\* sketch is cancelled, and the question did not count it.

Continue ==
    LET step == tasks["file"] IN
    /\ Up /\ step.pc = "go"
    /\ sketch' = {}
    /\ unguarded' = unguarded \cup sketch
    /\ \/ step.goal = "new" /\ doc' = Blank /\ To("file", Idle)
       \/ step.goal = "new" /\ UNCHANGED doc /\ To("file", [step EXCEPT !.pc = "closing", !.path = doc.path])
       \/ step.goal \in Path /\ UNCHANGED doc /\ To("file", [step EXCEPT !.pc = "reading"])
    /\ timer' = (timer /\ doc'.dirty) /\ lapses' = IF doc'.dirty THEN lapses ELSE {}
    /\ UNCHANGED <<running, web, disk, slots, writing, offer, guard, bounds, answered, orphans>>

\* openDocumentAtPath: load marks the document dirty, and then it is marked as saved.
Load ==
    LET step == tasks["file"] IN
    /\ Up /\ step.pc = "reading"
    /\ doc' = [content |-> disk[step.goal], path |-> step.goal, dirty |-> FALSE]
    /\ timer' = FALSE /\ lapses' = {}
    /\ To("file", Idle)
    /\ UNCHANGED <<running, web, sketch, disk, slots, writing, offer, guard, bounds,
                   answered, orphans, unguarded>>

Unreadable ==
    /\ Up /\ tasks["file"].pc = "reading"
    /\ To("file", Idle)
    /\ UNCHANGED <<running, web, doc, sketch, disk, slots, timer, writing, offer, guard,
                   bounds, ghosts>>

------------------------------------------------------------------------
\* The autosave.

\* write: the timer is gone whatever follows; the snapshot is taken before the
\* first await.  It is due thirty seconds after an edit: a launch has handed its
\* snapshot over by then.
AutosaveDue ==
    /\ Up /\ timer /\ offer = Null
    /\ timer' = FALSE
    /\ IF writing = Null
       THEN /\ writing' = [slot |-> SlotFor(doc.path), content |-> doc.content]
            /\ lapses' = {}
       ELSE /\ UNCHANGED writing
            /\ lapses' = IF Carried THEN lapses ELSE lapses \cup {"skipped"}
    /\ UNCHANGED <<running, web, doc, sketch, disk, slots, tasks, offer, guard, bounds,
                   answered, orphans, unguarded>>

\* Mutant: a snapshot is added beside the one of the same document.
StoredBeside(snapshot) == <<snapshot>> \o slots

Stored(snapshot) == <<snapshot>> \o Without({snapshot.slot})

\* The shell's recovery_write is atomic, and runs beside its recovery_clear.
AutosaveEnds ==
    /\ running /\ writing # Null
    /\ \/ slots' = Stored(writing) /\ UNCHANGED lapses
       \/ /\ UNCHANGED slots
          /\ lapses' = IF doc.dirty /\ Carried THEN lapses \cup {"failed"} ELSE lapses
    /\ writing' = Null
    /\ UNCHANGED <<running, web, page, disk, guard, bounds, answered, orphans, unguarded>>

------------------------------------------------------------------------
\* checkRecovery: a launch offers the newest snapshot.

Recover ==
    /\ Up /\ offer # Null /\ offer.pc = "prompt"
    /\ doc' = [content |-> offer.content, path |-> Null, dirty |-> TRUE]
    /\ timer' = TRUE
    /\ offer' = IF offer.slot = Untitled THEN Null ELSE [offer EXCEPT !.pc = "hand over"]
    /\ UNCHANGED <<running, web, sketch, disk, slots, writing, tasks, guard, bounds, ghosts>>

\* The snapshot moves to the recovered document's slot: written, then cleared
\* where it was; a failure leaves it where it was.
HandOver ==
    /\ Up /\ offer # Null
    /\ \/ /\ offer.pc = "hand over"
          /\ slots' = Stored([slot |-> Untitled, content |-> offer.content])
          /\ offer' = [offer EXCEPT !.pc = "clear"]
       \/ /\ offer.pc = "clear"
          /\ slots' = Without({offer.slot})
          /\ offer' = Null
       \/ /\ offer.pc \in {"hand over", "clear"}
          /\ UNCHANGED slots
          /\ offer' = Null
    /\ UNCHANGED <<running, web, doc, sketch, disk, timer, writing, tasks, guard, bounds, ghosts>>

\* Discard deletes the snapshot; Esc keeps it for the next launch, but nothing
\* protects it from this session's saves.
Decline ==
    /\ Up /\ offer # Null /\ offer.pc = "prompt"
    /\ \/ slots' = Without({offer.slot})
       \/ UNCHANGED slots
    /\ answered' = answered \cup offer.content
    /\ offer' = Null
    /\ UNCHANGED <<running, web, doc, sketch, disk, timer, writing, tasks, guard, bounds,
                   orphans, unguarded, lapses>>

------------------------------------------------------------------------
\* The window's close, and the shell's watchdog.

\* The X, Alt+F4, the window manager: the shell starts a watchdog and tells the page.
CloseRequested ==
    /\ running /\ guard.requests + launches <= MaxRequests
    /\ guard' = [guard EXCEPT !.requests = @ + 1, !.events = @ + 1]
    /\ UNCHANGED <<running, web, page, disk, slots, writing, bounds, ghosts>>

\* Mutant: the handler acknowledges only when it is about to ask.
CloseHandlerAcksOnce ==
    /\ Up /\ guard.events > 0
    /\ IF tasks["quit"] = Idle
       THEN /\ guard' = [guard EXCEPT !.events = @ - 1, !.acking = @ + 1]
            /\ Commit(sketch)
            /\ sketch' = {}
            /\ To("quit", Asking("quit", Null, doc'.dirty))
       ELSE /\ guard' = [guard EXCEPT !.events = @ - 1]
            /\ UNCHANGED <<doc, sketch, timer, tasks, lapses, unguarded>>
    /\ UNCHANGED <<running, web, disk, slots, writing, offer, bounds, answered, orphans>>

\* The handler acknowledges first.  While it is asking it does no more; else it
\* commits an open sketch and asks.
CloseHandler ==
    /\ Up /\ guard.events > 0
    /\ guard' = [guard EXCEPT !.events = @ - 1, !.acking = @ + 1]
    /\ IF tasks["quit"] = Idle
       THEN /\ Commit(sketch)
            /\ sketch' = {}
            /\ To("quit", Asking("quit", Null, doc'.dirty))
       ELSE UNCHANGED <<doc, sketch, timer, tasks, lapses, unguarded>>
    /\ UNCHANGED <<running, web, disk, slots, writing, offer, bounds, answered, orphans>>

\* close_guard_ack: every request so far is answered.
Acknowledged ==
    /\ running /\ guard.acking > 0
    /\ guard' = [guard EXCEPT !.acking = @ - 1, !.acks = guard.requests]
    /\ UNCHANGED <<running, web, page, disk, slots, writing, bounds, ghosts>>

\* The application ends: the page's state is gone.
Ends ==
    /\ running' = FALSE /\ web' = "up"
    /\ doc' = Blank /\ sketch' = {} /\ timer' = FALSE /\ tasks' = AllIdle /\ offer' = Null
    /\ writing' = Null /\ guard' = NoRequest /\ lapses' = {}
    /\ UNCHANGED <<disk, slots, bounds, unguarded>>

\* What a page that goes without being asked leaves behind: the snapshots.
LeavesSnapshots ==
    /\ orphans' = orphans \cup (Work \cap Contents(slots))
    /\ answered' = answered \cup (Work \ Contents(slots))

\* Four seconds after request n: a page that is up has answered by then.  A
\* watchdog that finds its request acknowledged does nothing.
ForcesClose(n) == guard.acks < n

Watchdog(n) ==
    /\ running /\ n <= guard.requests /\ ForcesClose(n)
    /\ web = "up" => guard.events = 0 /\ guard.acking = 0
    /\ Ends /\ LeavesSnapshots

\* The handler returned without preventDefault.
Quit ==
    /\ Up /\ tasks["quit"].pc = "go" /\ guard.acking = 0
    /\ Ends
    /\ UNCHANGED <<answered, orphans>>

------------------------------------------------------------------------
\* What the machine does.

Crash == running /\ Ends /\ LeavesSnapshots

\* A page that stalls or dies matters to a close that it has not acknowledged; a
\* crash covers the rest.
GoesDeaf ==
    /\ Up /\ guard.acks < guard.requests
    /\ web' = "deaf"
    /\ UNCHANGED <<running, page, disk, slots, writing, guard, bounds, ghosts>>

Resumes ==
    /\ running /\ web = "deaf"
    /\ web' = "up"
    /\ UNCHANGED <<running, page, disk, slots, writing, guard, bounds, ghosts>>

Launch ==
    /\ ~running /\ launches < MaxLaunches
    /\ running' = TRUE
    /\ launches' = launches + 1
    /\ offer' = IF slots = <<>> THEN Null
                ELSE [pc |-> "prompt", slot |-> slots[1].slot, content |-> slots[1].content]
    /\ UNCHANGED <<web, doc, sketch, disk, slots, timer, writing, tasks, guard, edits, ghosts>>

------------------------------------------------------------------------
Init ==
    /\ running = FALSE /\ web = "up"
    /\ doc = Blank /\ sketch = {} /\ timer = FALSE /\ tasks = AllIdle /\ offer = Null
    /\ disk = [p \in Path |-> Null] /\ slots = <<>> /\ writing = Null /\ guard = NoRequest
    /\ edits = {} /\ launches = 0
    /\ answered = {} /\ orphans = {} /\ unguarded = {} /\ lapses = {}

Next ==
    \/ Change \/ Draw \/ Save \/ File \/ Continue \/ Load \/ Unreadable
    \/ \E t \in DOMAIN tasks :
          \/ \E path \in Path \cup {Null} : ChoosePath(t, path)
          \/ \E pick \in {"save", "discard", "cancel"} : Answer(t, pick)
          \/ Written(t) \/ SaveFails(t) \/ Clear(t)
    \/ AutosaveDue \/ AutosaveEnds
    \/ Recover \/ HandOver \/ Decline
    \/ CloseRequested \/ CloseHandler \/ Acknowledged \/ Quit
    \/ \E n \in 1..MaxRequests : Watchdog(n)
    \/ Crash \/ GoesDeaf \/ Resumes \/ Launch

Spec == Init /\ [][Next]_vars

------------------------------------------------------------------------
TypeOK ==
    /\ running \in BOOLEAN /\ web \in {"up", "deaf"}
    /\ doc \in [content : SUBSET Edit, path : Path \cup {Null}, dirty : BOOLEAN]
    /\ sketch \subseteq Edit
    /\ disk \in [Path -> {Null} \cup SUBSET Edit]
    /\ slots \in Seq(Snapshot)
    /\ \A i, j \in DOMAIN slots : slots[i].slot = slots[j].slot => i = j
    /\ timer \in BOOLEAN
    /\ writing \in {Null} \cup Snapshot /\ offer \in {Null} \cup Offer

Kept(e) ==
    \/ e \in doc.content \cup sketch \cup OnDisk \cup answered
    \/ e \in orphans /\ e \in Contents(slots)

\* Work leaves the program only because the user said so, a crash took what no
\* snapshot held, or no question stood before it (Commit, Continue).
EditsAreKept == \A e \in edits : e \in unguarded \/ Kept(e)

\* A clean title bar means that the file holds what is on screen, except what
\* was changed behind a file operation's back.
CleanIsSaved == ~doc.dirty => doc.content \subseteq OnDisk \cup unguarded \cup answered

\* What files.ts says of a save that has succeeded, without that exception: "the
\* on-disk file is now the truth".  An edit made while the shell wrote is not in it.
DiskIsTheTruth == ~doc.dirty => doc.content \subseteq OnDisk \cup answered

Owed == timer \/ Covered \/ (writing # Null /\ Carried)

\* Unsaved changes are in a snapshot, on their way into one, or due to be, except
\* that since the last edit one of three things may have taken the snapshot away,
\* and nothing makes another before the next edit: the autosave fell due while an
\* older snapshot was still being written ("skipped", recovery.ts:46); the shell
\* refused it ("failed", recovery.ts:64); or a save, or a discard that went no
\* further, cleared it from the slot it was in ("swept", recovery.ts:94).
SnapshotIsOwed == doc.dirty => Owed \/ lapses # {}

\* The window is forced only over a page that does not answer.
ForcedOnlyIfDeaf ==
    [][\A n \in 1..MaxRequests : Watchdog(n) => web # "up"]_vars
============================================================================
