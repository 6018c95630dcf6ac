-------------------------- MODULE RebuildPipeline --------------------------
(***************************************************************************)
(* The document store's rebuild pipeline (src/src/document/store.ts): the  *)
(* edits, the debounce timer, the two flags `rebuilding` and               *)
(* `rebuildQueued` that let one rebuild be open at a time, the drain loop  *)
(* of rebuildNow, Compute All, the derived commits of the associative      *)
(* projections and the busy state behind the Cancel button.                *)
(*                                                                         *)
(* The store is single-threaded JavaScript, and what can go wrong is in    *)
(* the order its continuations run.  So the event loop is modelled: `micro`*)
(* is the microtask queue, first in first out, and a macrotask (a gesture, *)
(* a timer, a message) runs only when it is empty.                         *)
(***************************************************************************)
EXTENDS Integers, Sequences

CONSTANTS
    MaxGestures,  \* bound: what the user does in one session
    ValveLimit,   \* refreshes in a row before the valve closes (5 in the code)
    Null

\* The document as effectiveDoc() sends it: the file it belongs to, the gesture
\* that last changed it, the projected curves a derived commit wrote, which may
\* flap between two values, the gesture that added the feature an import brought
\* (0: none is in it), and whether a preview is in it.
Doc == [file : 0 .. MaxGestures, edit : 0 .. MaxGestures, curve : {0, 1},
        added : 0 .. MaxGestures, preview : BOOLEAN]

Blank == [file |-> 0, edit |-> 0, curve |-> 0, added |-> 0, preview |-> FALSE]

OpenCall == [kind : {"rebuild", "computeAll"}, doc : Doc]

\* A derived commit solves the sketches it refreshes, and at least this many
\* awaits lie between its first line and the write: solveSketchOutcome,
\* solveConstrainedSketch and solveRefreshedSketch.
SolveTicks == 3

\* The continuations the store leaves in the microtask queue.
Outcome == {"ok", "error", "cancelled"}
Settled == [step : {"settle"}, call : OpenCall, outcome : Outcome, moved : BOOLEAN]
Task == Settled \cup [step : {"commit", "busyDone", "rebuildDone"}]
                \cup [step : {"solve"}, left : 0 .. SolveTicks]

ASSUME PipelineAssumption ==
    /\ MaxGestures \in Nat
    /\ ValveLimit \in Nat
    /\ Null \notin Doc
    /\ Null \notin [edit : Nat, behind : BOOLEAN]

VARIABLES
    doc,         \* the effective document
    shown,       \* the document of the model on screen (build.result), or Null
    timer,       \* is the 120 ms debounce running?
    rebuilding,  \* the serialization flag
    queued,      \* rebuildQueued: another rebuild is wanted
    calls,       \* the open rebuild()/computeAll() calls
    asked,       \* the document of the last one
    answer,      \* the document of the last one that resolved ok, else Null
    micro,       \* the microtask queue
    chain,       \* paramChain: the replies whose projections wait to be applied
    solving,     \* the document the head of the chain read, or Null
    waiting,     \* is that solve outside the microtask queue (the solver loads)?
    streak,      \* projStreak: refreshes applied in a row
    busy,        \* busy.active
    importing,   \* an import: "none", or ahead of or behind the open calls
    adding,      \* addFeatureAndBuild: the add it waits for, and whether it is
                 \* behind a build that was open already; or Null
    gestures     \* what the user has done so far

vars == <<doc, shown, timer, rebuilding, queued, calls, asked, answer, micro,
          chain, solving, waiting, streak, busy, importing, adding, gestures>>

callVars   == <<rebuilding, queued, calls, asked, answer, busy>>
commitVars == <<chain, solving, waiting, streak>>

TypeOK ==
    /\ doc \in Doc
    /\ shown \in Doc \cup {Null}
    /\ timer \in BOOLEAN
    /\ rebuilding \in BOOLEAN
    /\ queued \in BOOLEAN
    /\ calls \in Seq(OpenCall)
    /\ asked \in Doc \cup {Null}
    /\ answer \in Doc \cup {Null}
    /\ micro \in Seq(Task)
    /\ chain \in Seq(Doc)
    /\ solving \in Doc \cup {Null}
    /\ waiting \in BOOLEAN
    /\ streak \in 0 .. ValveLimit
    /\ busy \in BOOLEAN
    /\ importing \in {"none", "ahead", "behind"}
    /\ adding \in [edit : 1 .. MaxGestures, behind : BOOLEAN] \cup {Null}
    /\ gestures \in 0 .. MaxGestures

-----------------------------------------------------------------------------
(* Starting a rebuild.                                                     *)

Ask(kind, d) ==
    /\ calls' = Append(calls, [kind |-> kind, doc |-> d])
    /\ asked' = d
    /\ answer' = Null

\* Mutants of RebuildNow: it does not look at the flag, or forgets the request
\* that finds it up.
RebuildNowAlways(d) ==
    /\ rebuilding' = TRUE
    /\ queued' = FALSE
    /\ busy' = TRUE
    /\ Ask("rebuild", d)

RebuildNowForgets(d) ==
    \/ /\ rebuilding
       /\ UNCHANGED callVars
    \/ /\ ~rebuilding
       /\ rebuilding' = TRUE
       /\ queued' = FALSE
       /\ busy' = TRUE
       /\ Ask("rebuild", d)

\* rebuildNow, up to its first await, when the effective document is d.
RebuildNow(d) ==
    \/ /\ rebuilding
       /\ queued' = TRUE
       /\ UNCHANGED <<rebuilding, calls, asked, answer, busy>>
    \/ /\ ~rebuilding
       /\ rebuilding' = TRUE
       /\ queued' = FALSE
       /\ busy' = TRUE
       /\ Ask("rebuild", d)

\* scheduleRebuild.
Schedule(immediate, d) ==
    \/ /\ immediate
       /\ timer' = FALSE
       /\ RebuildNow(d)
    \/ /\ ~immediate
       /\ timer' = TRUE
       /\ UNCHANGED callVars

-----------------------------------------------------------------------------
(* Macrotasks: what the user does.                                         *)

Gesture ==
    /\ micro = <<>>
    /\ gestures < MaxGestures
    /\ gestures' = gestures + 1
    /\ UNCHANGED micro

\* mutate, undo, redo, setRollback, toggleSuppress, a parameter commit: some
\* rebuild at once and some debounced, and some re-arm the projection valve.
\* An edit that commits a preview puts it away (endEditPreview(false)); an undo
\* or a deletion may take the feature that was added out again.
Edit(immediate, rearm) ==
    /\ Gesture
    /\ \E preview \in {FALSE, doc.preview}, added \in {0, doc.added} :
          LET d == [doc EXCEPT !.edit = gestures', !.preview = preview,
                               !.added = added] IN
          doc' = d /\ Schedule(immediate, d)
    /\ streak' = IF rearm THEN 0 ELSE streak
    /\ UNCHANGED <<shown, chain, solving, waiting, importing, adding>>

\* addFeatureAndBuild: what an import brings in, and the wait for the build with
\* it.  The build that is open already, if one is, has the older document.
AddFeatureAndBuild ==
    /\ Gesture
    /\ adding = Null
    /\ adding' = [edit |-> gestures', behind |-> rebuilding]
    /\ LET d == [doc EXCEPT !.edit = gestures', !.added = gestures'] IN
       doc' = d /\ Schedule(TRUE, d)
    /\ streak' = 0
    /\ UNCHANGED <<shown, chain, solving, waiting, importing>>

\* setPreview and the edit preview: shown, moved or put away, never committed.
Preview(on) ==
    /\ Gesture
    /\ on \/ doc.preview
    /\ LET d == [doc EXCEPT !.edit = gestures', !.preview = on] IN
       doc' = d /\ Schedule(TRUE, d)
    /\ UNCHANGED <<shown, commitVars, importing, adding>>

\* newDocument and load: the model leaves the screen with its document.  What
\* is building is asked to stop, which may come too late.  The publication of
\* the empty screen also ends the wait for a build that has started.
Replace ==
    /\ Gesture
    /\ LET d == [doc EXCEPT !.file = gestures', !.edit = gestures', !.curve = 0,
                            !.added = 0] IN
       doc' = d /\ Schedule(TRUE, d)
    /\ shown' = Null
    /\ streak' = 0
    /\ adding' = IF rebuilding /\ adding # Null /\ ~adding.behind THEN Null ELSE adding
    /\ UNCHANGED <<chain, solving, waiting, importing>>

\* computeAllNow, up to its await.  It takes the flag and not the drain loop.
ComputeAllNow ==
    /\ Gesture
    /\ \/ /\ rebuilding
          /\ queued' = TRUE
          /\ UNCHANGED <<rebuilding, calls, asked, answer>>
       \/ /\ ~rebuilding
          /\ rebuilding' = TRUE
          /\ Ask("computeAll", doc)
          /\ UNCHANGED queued
    /\ UNCHANGED <<doc, shown, timer, commitVars, busy, importing, adding>>

\* The socket opened (main.ts, onStatus).
Connected ==
    /\ Gesture
    /\ RebuildNow(doc)
    /\ UNCHANGED <<doc, shown, timer, commitVars, importing, adding>>

\* importPath, exportDocument, insertPart: runBusy around a call of their own,
\* which the sidecar serves after the one it has.
ImportStarts ==
    /\ Gesture
    /\ importing = "none"
    /\ importing' = IF calls = <<>> THEN "ahead" ELSE "behind"
    /\ busy' = TRUE
    /\ UNCHANGED <<doc, shown, timer, rebuilding, queued, calls, asked, answer,
                   commitVars, adding>>

-----------------------------------------------------------------------------
(* Macrotasks: what happens to the store.                                  *)

ImportEnds ==
    /\ micro = <<>>
    /\ importing = "ahead"
    /\ importing' = "none"
    /\ busy' = FALSE
    /\ UNCHANGED <<doc, shown, timer, rebuilding, queued, calls, asked, answer,
                   micro, commitVars, adding, gestures>>

TimerFires ==
    /\ micro = <<>>
    /\ timer
    /\ timer' = FALSE
    /\ RebuildNow(doc)
    /\ UNCHANGED <<doc, shown, micro, commitVars, importing, adding, gestures>>

\* The client settles a call: the store's continuation is queued.  A reply may
\* say that geometry the projected curves came from has moved.
Deliver ==
    /\ micro = <<>>
    /\ \E i \in DOMAIN calls, outcome \in Outcome, moved \in BOOLEAN :
          /\ moved => outcome = "ok"
          /\ calls' = SubSeq(calls, 1, i - 1) \o SubSeq(calls, i + 1, Len(calls))
          /\ answer' = IF outcome = "ok" THEN calls[i].doc ELSE Null
          /\ micro' = <<[step |-> "settle", call |-> calls[i],
                         outcome |-> outcome, moved |-> moved]>>
    /\ importing' = IF importing = "behind" THEN "ahead" ELSE importing
    /\ UNCHANGED <<doc, shown, timer, rebuilding, queued, asked, commitVars,
                   busy, adding, gestures>>

\* The constraint solver has loaded and goes on with the commit that waits.
SolverReady ==
    /\ micro = <<>>
    /\ waiting
    /\ waiting' = FALSE
    /\ micro' = <<[step |-> "solve", left |-> 0]>>
    /\ UNCHANGED <<doc, shown, timer, callVars, chain, solving, streak,
                   importing, adding, gestures>>

-----------------------------------------------------------------------------
(* Microtasks.                                                             *)

Running(step) == micro # <<>> /\ Head(micro).step = step

\* Mutant of Refreshes: the valve never closes.
RefreshesAlways(r, s) ==
    IF r.outcome = "ok" /\ r.moved /\ ~doc.preview THEN <<r.call.doc>> ELSE <<>>

\* What maybeQueueProjectionRefresh adds to paramChain.
Refreshes(r, s) ==
    IF r.outcome = "ok" /\ r.moved /\ ~doc.preview /\ s < ValveLimit
    THEN <<r.call.doc>> ELSE <<>>

\* A quiet reply re-arms the valve, and so does any reply to Compute All.
StreakAfter(r) ==
    IF r.outcome = "ok" /\ (r.call.kind = "computeAll" \/ (~r.moved /\ ~doc.preview))
    THEN 0 ELSE streak

\* The settle addFeatureAndBuild waits for is the first of a build that started
\* after the add.
\* Mutant of AddIsDone: the first settle of any build.
AddIsDoneAtFirst == adding # Null

AddIsDone == adding # Null /\ ~adding.behind

\* withdrawFeature: a cancelled build takes the feature back out, within the
\* settle and so before the loop reads the document again.
Withdraws(r) == AddIsDone /\ r.outcome = "cancelled" /\ doc.added = adding.edit

\* Mutant of NextRound: the loop goes on with the document it began with.
NextRoundSameDoc(r, d) ==
    /\ queued
    /\ queued' = FALSE
    /\ Ask("rebuild", r.call.doc)
    /\ UNCHANGED <<rebuilding, busy>>

\* `while (this.rebuildQueued)`: another round, with the latest document.
NextRound(r, d) ==
    /\ queued
    /\ queued' = FALSE
    /\ Ask("rebuild", d)
    /\ UNCHANGED <<rebuilding, busy>>

LoopEnds ==
    /\ rebuilding' = FALSE
    /\ UNCHANGED <<queued, calls, asked, answer, busy>>

\* The continuation of rebuildNow's loop, and of computeAllNow, after the await.
Settle ==
    /\ Running("settle")
    /\ LET r == Head(micro)
           d == IF Withdraws(r) THEN [doc EXCEPT !.added = 0] ELSE doc
           s == StreakAfter(r)
           refresh == Refreshes(r, s)
           commit == IF refresh # <<>> /\ chain = <<>>
                     THEN <<[step |-> "commit"]>> ELSE <<>>
       IN
       /\ shown' = IF r.outcome = "ok" THEN r.call.doc ELSE shown
       /\ doc' = d
       /\ timer' = (timer \/ Withdraws(r))
       /\ streak' = s
       /\ chain' = chain \o refresh
       /\ \/ /\ r.call.kind = "rebuild"
             /\ NextRound(r, d)
             /\ micro' = Tail(micro) \o commit
          \/ /\ r.call.kind = "rebuild"
             /\ ~queued
             /\ LoopEnds
             /\ micro' = Tail(micro) \o commit \o <<[step |-> "busyDone"]>>
          \/ /\ r.call.kind = "computeAll"
             /\ LoopEnds
             /\ micro' = Tail(micro) \o commit
    /\ adding' = IF adding = Null \/ AddIsDone
                 THEN Null ELSE [adding EXCEPT !.behind = FALSE]
    /\ UNCHANGED <<solving, waiting, importing, gestures>>

\* Mutant of BusyDone: the state is not cleared.
BusyDoneKeeps ==
    /\ Running("busyDone")
    /\ micro' = Append(Tail(micro), [step |-> "rebuildDone"])
    /\ UNCHANGED <<doc, shown, timer, rebuilding, queued, calls, asked, answer,
                   busy, commitVars, importing, adding, gestures>>

\* runBusy's `finally`, one tick after the loop returned.
BusyDone ==
    /\ Running("busyDone")
    /\ busy' = FALSE
    /\ micro' = Append(Tail(micro), [step |-> "rebuildDone"])
    /\ UNCHANGED <<doc, shown, timer, rebuilding, queued, calls, asked, answer,
                   commitVars, importing, adding, gestures>>

\* rebuildNow's outer `finally`, one tick later: the flag is cleared AGAIN.
RebuildDone ==
    /\ Running("rebuildDone")
    /\ rebuilding' = FALSE
    /\ micro' = Tail(micro)
    /\ UNCHANGED <<doc, shown, timer, queued, calls, asked, answer, commitVars,
                   busy, importing, adding, gestures>>

\* The next commit of the chain starts when this one is done.
LeaveChain ==
    /\ chain' = Tail(chain)
    /\ micro' = Tail(micro) \o
          (IF Len(chain) > 1 THEN <<[step |-> "commit"]>> ELSE <<>>)

\* commitProjectionRefresh, up to its first await: nothing in the document is
\* left to refresh (or it is in the open sketch), or the solves begin.
Commit ==
    /\ Running("commit")
    /\ \/ /\ LeaveChain
          /\ UNCHANGED solving
       \/ /\ solving' = doc
          /\ micro' = Append(Tail(micro), [step |-> "solve", left |-> SolveTicks])
          /\ UNCHANGED chain
    /\ UNCHANGED <<doc, shown, timer, callVars, waiting, streak, importing,
                   adding, gestures>>

\* One await of the solve returns; the first solve of a session also waits for
\* the solver itself.
SolveTick ==
    /\ Running("solve")
    /\ Head(micro).left > 0
    /\ \/ /\ micro' = Append(Tail(micro), [Head(micro) EXCEPT !.left = @ - 1])
          /\ UNCHANGED waiting
       \/ /\ micro' = Tail(micro)
          /\ waiting' = TRUE
    /\ UNCHANGED <<doc, shown, timer, callVars, chain, solving, streak,
                   importing, adding, gestures>>

\* The rest of commitProjectionRefresh: dropped when the sketch it read is no
\* longer the document's, else written and rebuilt at once.  (The code counts
\* the streak on past the limit, where only `>=` reads it.)
Land ==
    /\ Running("solve")
    /\ Head(micro).left = 0
    /\ LeaveChain
    /\ solving' = Null
    /\ \/ /\ UNCHANGED <<doc, timer, callVars, streak>>
       \/ /\ solving.file = doc.file
          /\ streak' = IF streak < ValveLimit THEN streak + 1 ELSE streak
          /\ LET d == [doc EXCEPT !.curve = 1 - @] IN
             doc' = d /\ Schedule(TRUE, d)
    /\ UNCHANGED <<shown, waiting, importing, adding, gestures>>

-----------------------------------------------------------------------------
Init ==
    /\ doc = Blank
    /\ shown = Null
    /\ timer = FALSE
    /\ rebuilding = FALSE
    /\ queued = FALSE
    /\ calls = <<>>
    /\ asked = Null
    /\ answer = Null
    /\ micro = <<>>
    /\ chain = <<>>
    /\ solving = Null
    /\ waiting = FALSE
    /\ streak = 0
    /\ busy = FALSE
    /\ importing = "none"
    /\ adding = Null
    /\ gestures = 0

User ==
    \/ \E immediate, rearm \in BOOLEAN : Edit(immediate, rearm)
    \/ AddFeatureAndBuild
    \/ \E on \in BOOLEAN : Preview(on)
    \/ Replace
    \/ ComputeAllNow
    \/ Connected
    \/ ImportStarts

Microtask == Settle \/ BusyDone \/ RebuildDone \/ Commit \/ SolveTick \/ Land

Next == User \/ ImportEnds \/ TimerFires \/ Deliver \/ SolverReady \/ Microtask

Spec == Init /\ [][Next]_vars

\* Microtasks run before anything else; timers fire; every call settles (that
\* is RebuildService); the solver loads or fails to.
Fairness ==
    /\ WF_vars(Microtask)
    /\ WF_vars(TimerFires)
    /\ WF_vars(Deliver)
    /\ WF_vars(SolverReady)

FairSpec == Spec /\ Fairness

-----------------------------------------------------------------------------
(* Properties.                                                             *)

\* "Without overlapping or out-of-order sidecar round-trips": one call at most.
OneInFlight == Len(calls) <= 1

\* The model on screen is never replaced by that of an older document.
NeverShowsOlder ==
    [][shown # Null /\ shown' # Null => shown'.edit >= shown.edit]_vars

\* addFeatureAndBuild reports on a build of a document at least as new as its
\* add, and once the user has cancelled it the feature is not built again.
AddReportsItsBuild ==
    [][(adding # Null /\ adding' = Null /\ Running("settle")) =>
          /\ Head(micro).call.doc.edit >= adding.edit
          /\ Head(micro).outcome = "cancelled" =>
                \A i \in DOMAIN calls' : calls'[i].doc.added # adding.edit]_vars

Idle == micro = <<>> /\ ~rebuilding /\ ~timer

\* When nothing runs, what was last built is the document as it is and, unless
\* that build failed, what is on screen; or a rebuild is still owed.
CurrentWhenIdle ==
    Idle => \/ queued
            \/ doc = Blank
            \/ asked = doc /\ (answer # Null => shown = doc)

\* The Cancel button does not outlive what it would cancel, whichever of an
\* import and a rebuild ends first.
BusyMeansRunning == (micro = <<>> /\ busy) => calls # <<>> \/ importing # "none"

\* When the user stops, so does the pipeline: a drain loop ends, and projections
\* that flap between two values for ever do not rebuild for ever.
Quiesces == <>[](Idle /\ calls = <<>> /\ chain = <<>>)

SameDoc(m, d) == m = d

\* The store uses the geometry client as one caller that waits for each answer,
\* which module DeltaSync relies on.
Service == INSTANCE RebuildService
    WITH Docs <- Doc, Models <- Doc, BuiltFrom <- SameDoc,
         asked <- IF calls = <<>> THEN Null ELSE asked

WaitsForEachAnswer == Service!Spec

-----------------------------------------------------------------------------
(* The inductive invariant behind the safety properties.                   *)

\* The microtask queue: a settled call is alone in it; behind it come the two
\* `finally` blocks of a loop that ended, and at most one commit, which cannot
\* write before both have run.
InOrder(a, b) ==
    \/ a.step = "commit" /\ b.step \in {"busyDone", "rebuildDone"}
    \/ a.step \in {"busyDone", "rebuildDone"} /\ b.step = "commit"
    \/ a.step = "busyDone" /\ b.step = "solve" /\ b.left = SolveTicks
    \/ a.step = "solve" /\ a.left = SolveTicks /\ b.step = "rebuildDone"
    \/ a.step = "rebuildDone" /\ b.step = "solve" /\ b.left >= SolveTicks - 1

MicroInOrder ==
    /\ Len(micro) <= 2
    /\ Len(micro) = 2 => InOrder(micro[1], micro[2])

\* The head of the chain is at one place: about to start, solving, or waiting.
Committing(t) == t.step \in {"commit", "solve"}

ChainMoves ==
    /\ waiting => /\ chain # <<>>
                  /\ \A i \in DOMAIN micro : ~Committing(micro[i])
    /\ \A i \in DOMAIN micro : Committing(micro[i]) => chain # <<>>

\* The flag is up exactly while a call is open or its continuation is due, and
\* the call is the last one asked for.
Settling == Running("settle")

FlagMeansOpen ==
    /\ OneInFlight
    /\ rebuilding <=> (calls # <<>> \/ Settling)
    /\ calls # <<>> =>
          /\ calls[1].doc = asked
          /\ answer = Null
          /\ micro = <<>> \/ Head(micro).step \in {"commit", "solve"}
          /\ Len(micro) <= 1
    /\ Settling => Head(micro).call.doc = asked

\* A change of the document is on its way to the worker, or is still owed to it.
NothingForgotten == asked = doc \/ queued \/ timer \/ doc = Blank

\* A model that was built is on screen, or is about to be.
AnswerIsShown ==
    answer # Null =>
        /\ answer = asked
        /\ shown = asked \/ (Settling /\ Head(micro).outcome = "ok")

EditsInOrder ==
    /\ doc.edit <= gestures
    /\ asked # Null => asked.edit <= doc.edit
    /\ shown # Null => asked # Null /\ shown.edit <= asked.edit

\* Once the build that was open before an add has settled, any that is open has
\* the add in its document's past.
AddIsAwaited ==
    adding # Null =>
        /\ adding.edit <= doc.edit
        /\ adding.behind => rebuilding
        /\ (rebuilding /\ ~adding.behind) => asked.edit >= adding.edit

IInv ==
    /\ TypeOK
    /\ MicroInOrder
    /\ ChainMoves
    /\ FlagMeansOpen
    /\ NothingForgotten
    /\ AnswerIsShown
    /\ EditsInOrder
    /\ AddIsAwaited
=============================================================================
