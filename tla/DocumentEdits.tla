--------------------------- MODULE DocumentEdits ---------------------------
(***************************************************************************)
(* The editing of the document in the store: the changes with their undo   *)
(* and redo, the timeline's marker and suppressed features, the chain of   *)
(* commits that wait for the sketch solver, the tools that hold the name   *)
(* of a feature to be, and the import that can be called off.              *)
(*                                                                         *)
(* A feature is a closed sketch driven by the one parameter of the model.  *)
(* Which value its geometry was solved for is data the program derives.    *)
(* JavaScript runs a step to its end; only the solver is awaited.          *)
(***************************************************************************)
EXTENDS Integers, FiniteSets, Sequences, SequencesExt, FiniteSetsExt, ListFilter

CONSTANTS Null, UndoCap,
          MaxChanges,   \* bound: changes the user makes
          MaxFeatures,  \* bound: features in the document
          MaxQueued     \* bound: commits waiting behind the one that is solved

ASSUME BoundsAssumption ==
    /\ UndoCap \in Nat \ {0} /\ MaxFeatures \in Nat \ {0}
    /\ MaxChanges \in Nat /\ MaxQueued \in Nat

ASSUME NullAssumption == Null \notin Nat

VARIABLES
    doc,         \* the document: features and the parameter
    rollback,    \* the timeline's marker, Null at the end
    suppressed,  \* names of the features that are not built
    undoStack,   \* documents, the one before the last change last
    redoStack,
    solving,     \* the commit on the paramChain that awaits the solver
    paramChain,  \* the ones behind it
    tool,        \* the name an open tool took for its feature
    import,      \* the import under way
    changes      \* counter: changes made, which name what they wrote

vars == <<doc, rollback, suppressed, undoStack, redoStack, solving, paramChain,
          tool, import, changes>>

Ids(features) == {f.id : f \in Range(features)}
IndexOf(features, id) == CHOOSE i \in DOMAIN features : features[i].id = id

------------------------------------------------------------------------
\* The document and its history.

NextId(features) ==
    LET n == Cardinality(Ids(features)) + 1
    IN Min((n..(n + Len(features))) \ Ids(features))

rollbackIndex == IF rollback = Null THEN Len(doc.features) ELSE rollback

\* effectiveDoc: what is built.
Built(features, marker, skipped) ==
    {f.id : f \in Range(SubSeq(features, 1, Min({marker, Len(features)})))} \ skipped

\* Mutant: the stack is not capped.
PushedAll == Append(undoStack, [doc |-> doc, added |-> FALSE])

Pushed == LET stack == Append(undoStack, [doc |-> doc, added |-> FALSE])
          IN IF Len(stack) > UndoCap THEN Tail(stack) ELSE stack

\* Mutant: a change keeps the old future.
MutateKeepsRedo(new) == doc' = new /\ undoStack' = Pushed /\ UNCHANGED redoStack

\* mutate: one undo step, a new future.
Mutate(new) == doc' = new /\ undoStack' = Pushed /\ redoStack' = <<>>

\* commitWithCascade awaits the solver for each affected sketch, and every feature of its
\* draft is one: without any it lands before anything else can happen.
LoopIsFree == solving.kind = "param" => solving.draft.features # <<>>

\* The change that is made now, and the feature it makes.
Stamp == changes + 1
Made(id) == [id |-> id, born |-> Stamp, val |-> Stamp, at |-> doc.param]

MayChange == changes < MaxChanges /\ LoopIsFree
Changed == changes' = Stamp

\* addFeature: at the marker, which moves on.
Added(id) ==
    [doc EXCEPT !.features = InsertAt(@, Min({rollbackIndex, Len(@)}) + 1, Made(id))]
MarkerAfterAdd == IF rollback = Null THEN Null ELSE rollback + 1

Room == Len(doc.features) < MaxFeatures

\* A starter adds at once, and refuses while a tool is open.
AddFeature ==
    /\ MayChange /\ Room /\ tool = Null
    /\ Mutate(Added(NextId(doc.features))) /\ rollback' = MarkerAfterAdd /\ Changed
    /\ UNCHANGED <<suppressed, solving, paramChain, tool, import>>

EditFeature ==
    /\ MayChange
    /\ \E i \in DOMAIN doc.features :
           Mutate([doc EXCEPT !.features[i].val = Stamp, !.features[i].at = doc.param])
    /\ Changed
    /\ UNCHANGED <<rollback, suppressed, solving, paramChain, tool, import>>

\* Mutant: the marker stays when the feature right before it goes.
MarkerAfterRemoveStays(i) == IF rollback # Null /\ i < rollback THEN rollback - 1 ELSE rollback

MarkerAfterRemove(i) == IF rollback # Null /\ i <= rollback THEN rollback - 1 ELSE rollback

RemoveFeature ==
    /\ MayChange
    /\ \E i \in DOMAIN doc.features :
          /\ Mutate([doc EXCEPT !.features = RemoveAt(@, i)])
          /\ rollback' = MarkerAfterRemove(i)
          /\ suppressed' = suppressed \ {doc.features[i].id}
    /\ Changed
    /\ UNCHANGED <<solving, paramChain, tool, import>>

MoveFeature ==
    /\ MayChange
    /\ \E i, j \in DOMAIN doc.features :
          /\ i # j
          /\ Mutate([doc EXCEPT !.features = InsertAt(RemoveAt(@, i), j, @[i])])
    /\ Changed
    /\ UNCHANGED <<rollback, suppressed, solving, paramChain, tool, import>>

\* Undo and redo swap the document only: the marker and the suppressed names stay.
\* They cancel an open tool first.  The solver's commit finds other objects.
Resting == [kind |-> "none", value |-> 0, sameObjects |-> FALSE, at |-> 0, seen |-> {},
            draft |-> Null]

Swapped == [solving EXCEPT !.sameObjects = FALSE]

Undo ==
    /\ LoopIsFree /\ undoStack # <<>>
    /\ redoStack' = Append(redoStack, doc)
    /\ doc' = undoStack[Len(undoStack)].doc /\ undoStack' = Front(undoStack)
    /\ tool' = Null /\ solving' = Swapped
    /\ UNCHANGED <<rollback, suppressed, paramChain, import, changes>>

Redo ==
    /\ LoopIsFree /\ redoStack # <<>>
    /\ undoStack' = Pushed
    /\ doc' = redoStack[Len(redoStack)] /\ redoStack' = Front(redoStack)
    /\ tool' = Null /\ solving' = Swapped
    /\ UNCHANGED <<rollback, suppressed, paramChain, import, changes>>

\* New and Open: another document, no history.  The chain goes on.
Replace ==
    /\ MayChange
    /\ doc' \in {[features |-> <<>>, param |-> 0],
                 [features |-> <<[Made(1) EXCEPT !.at = 0]>>, param |-> 0]}
    /\ Changed
    /\ rollback' = Null /\ suppressed' = {} /\ undoStack' = <<>> /\ redoStack' = <<>>
    /\ tool' = Null /\ solving' = Swapped
    /\ UNCHANGED <<paramChain, import>>

------------------------------------------------------------------------
\* The timeline.

SetRollback ==
    /\ LoopIsFree
    /\ \E i \in 0..Len(doc.features) :
           rollback' = IF i = Len(doc.features) THEN Null ELSE i
    /\ UNCHANGED <<doc, suppressed, undoStack, redoStack, solving, paramChain, tool,
                   import, changes>>

ToggleSuppress ==
    /\ LoopIsFree
    /\ \E id \in Ids(doc.features) :
           suppressed' = IF id \in suppressed THEN suppressed \ {id} ELSE suppressed \cup {id}
    /\ UNCHANGED <<doc, rollback, undoStack, redoStack, solving, paramChain, tool,
                   import, changes>>

------------------------------------------------------------------------
\* The chain of commits.  One begins when the one before it has ended: it reads the
\* document and awaits the solver.

\* commitWithCascade: the parameter set in a draft of the whole document.
Draft(d, v) ==
    [features |-> [i \in DOMAIN d.features |-> [d.features[i] EXCEPT !.at = v]], param |-> v]

Begin(commit, d) ==
    [kind |-> commit.kind, value |-> commit.value, sameObjects |-> TRUE, at |-> d.param,
     seen |-> {f \in Range(d.features) : f.id \in commit.ids},
     draft |-> IF commit.kind = "param" THEN Draft(d, commit.value) ELSE Null]

Queue(commit) ==
    /\ LoopIsFree /\ Len(paramChain) < MaxQueued
    /\ IF solving = Resting THEN solving' = Begin(commit, doc) /\ UNCHANGED paramChain
       ELSE paramChain' = Append(paramChain, commit) /\ UNCHANGED solving
    /\ UNCHANGED <<doc, rollback, suppressed, undoStack, redoStack, tool, import>>

\* setParamExpr, setTargetExpr.
SetParam ==
    /\ changes < MaxChanges /\ Changed
    /\ Queue([kind |-> "param", value |-> Stamp, ids |-> {}])

\* setSketchDimension.
SetSketchDimension ==
    /\ changes < MaxChanges /\ Changed
    /\ \E id \in Ids(doc.features) : Queue([kind |-> "dimension", value |-> Stamp, ids |-> {id}])

\* A build found projected curves that have moved.
RefreshProjections ==
    /\ \E ids \in SUBSET Ids(doc.features) \ {{}} :
           Queue([kind |-> "refresh", value |-> 0, ids |-> ids])
    /\ UNCHANGED changes

\* Mutant: a sketch of the same name will do.
CurrentByName == {f \in solving.seen : f.id \in Ids(doc.features)}

\* The sketches the commit read that are still the same objects.
Current == IF solving.sameObjects THEN solving.seen \cap Range(doc.features) ELSE {}

\* A sketch is written back as it was read, solved for the parameters read.
Rewritten(f) ==
    [f EXCEPT !.at = solving.at,
              !.val = IF solving.kind = "dimension" THEN solving.value ELSE @]
Landed(sketches) ==
    [doc EXCEPT !.features = [i \in DOMAIN @ |->
        IF \E f \in sketches : f.id = @[i].id
        THEN Rewritten(CHOOSE f \in sketches : f.id = @[i].id) ELSE @[i]]]

\* The chain goes on, with the document as the commit left it.
GoOn ==
    /\ IF paramChain = <<>> THEN solving' = Resting /\ UNCHANGED paramChain
       ELSE solving' = Begin(Head(paramChain), doc') /\ paramChain' = Tail(paramChain)
    /\ UNCHANGED <<rollback, suppressed, tool, import, changes>>

CommitWithCascade ==
    /\ solving.kind = "param"
    /\ Mutate(solving.draft)
    /\ GoOn

CommitSketchDimension ==
    /\ solving.kind = "dimension"
    /\ Current # {} /\ Mutate(Landed(Current))
    /\ GoOn

\* A derived commit is no undo step.
CommitProjectionRefresh ==
    /\ solving.kind = "refresh"
    /\ Current # {} /\ doc' = Landed(Current)
    /\ UNCHANGED <<undoStack, redoStack>>
    /\ GoOn

\* The solver refused the value, or the sketches have changed meanwhile.
CommitIsDropped ==
    /\ solving.kind # "none" /\ LoopIsFree
    /\ solving.kind # "param" => Current = {}
    /\ UNCHANGED <<doc, undoStack, redoStack>>
    /\ GoOn

------------------------------------------------------------------------
\* Tools and imports.

StartTool ==
    /\ LoopIsFree /\ tool = Null /\ tool' = NextId(doc.features)
    /\ UNCHANGED <<doc, rollback, suppressed, undoStack, redoStack, solving, paramChain,
                   import, changes>>

CommitTool ==
    /\ tool # Null /\ tool' = Null
    /\ MayChange /\ Room /\ Changed
    /\ Mutate(Added(tool)) /\ rollback' = MarkerAfterAdd
    /\ UNCHANGED <<suppressed, solving, paramChain, import>>

CancelTool ==
    /\ LoopIsFree /\ tool # Null /\ tool' = Null
    /\ UNCHANGED <<doc, rollback, suppressed, undoStack, redoStack, solving, paramChain,
                   import, changes>>

\* importPath, insertPartFromFile: the name is taken when the file has been read.
StartImport ==
    /\ LoopIsFree /\ tool = Null /\ import.pc = "none"
    /\ import' = [import EXCEPT !.pc = "reading"]
    /\ UNCHANGED <<doc, rollback, suppressed, undoStack, redoStack, solving, paramChain,
                   tool, changes>>

\* addFeatureAndBuild keeps the undo entry of its add.
ImportRead ==
    /\ import.pc = "reading" /\ MayChange /\ Room /\ Changed
    /\ LET id == NextId(doc.features) IN
       /\ import' = [pc |-> "building", id |-> id]
       /\ doc' = Added(id) /\ redoStack' = <<>>
       /\ undoStack' = [Pushed EXCEPT ![Len(Pushed)].added = TRUE]
    /\ rollback' = MarkerAfterAdd
    /\ UNCHANGED <<suppressed, solving, paramChain, tool>>

NoImport == [pc |-> "none", id |-> 0]

Unmarked(stack) == [i \in DOMAIN stack |-> [stack[i] EXCEPT !.added = FALSE]]

ImportEnds ==
    /\ LoopIsFree /\ import.pc # "none" /\ import' = NoImport
    /\ undoStack' = Unmarked(undoStack)
    /\ UNCHANGED <<doc, rollback, suppressed, redoStack, solving, paramChain, tool, changes>>

\* withdrawFeature: out of the document and of every snapshot since its add.
Without(d) ==
    [d EXCEPT !.features = Filtered(@, {i \in DOMAIN @ : @[i].id # import.id})]

WithdrawFeature ==
    /\ LoopIsFree /\ import.pc = "building" /\ import' = NoImport
    /\ import.id \in Ids(doc.features)
    /\ \E at \in DOMAIN undoStack :
          /\ undoStack[at].added
          /\ undoStack' = [k \in 1..(Len(undoStack) - 1) |->
                IF k < at THEN undoStack[k]
                ELSE [doc |-> Without(undoStack[k + 1].doc), added |-> FALSE]]
    /\ redoStack' = [k \in DOMAIN redoStack |-> Without(redoStack[k])]
    /\ doc' = Without(doc)
    /\ rollback' = MarkerAfterRemove(IndexOf(doc.features, import.id))
    /\ suppressed' = suppressed \ {import.id}
    /\ UNCHANGED <<solving, paramChain, tool, changes>>

------------------------------------------------------------------------
Init ==
    /\ doc = [features |-> <<>>, param |-> 0]
    /\ rollback = Null /\ suppressed = {} /\ undoStack = <<>> /\ redoStack = <<>>
    /\ solving = Resting /\ paramChain = <<>> /\ tool = Null /\ import = NoImport
    /\ changes = 0

Others ==
    \/ AddFeature \/ EditFeature \/ RemoveFeature \/ MoveFeature \/ Undo \/ Redo \/ Replace
    \/ SetRollback \/ ToggleSuppress
    \/ SetParam \/ SetSketchDimension \/ RefreshProjections
    \/ CommitSketchDimension \/ CommitProjectionRefresh \/ CommitIsDropped
    \/ StartTool \/ CancelTool \/ StartImport \/ ImportRead \/ ImportEnds

Next == Others \/ CommitWithCascade \/ CommitTool \/ WithdrawFeature

Spec == Init /\ [][Next]_vars

------------------------------------------------------------------------
\* The three steps that break what the user is promised of his history, for a code that
\* does not keep them from happening.

\* A parameter edit lands over a document that is not the one its draft was made of:
\* what was changed while the solver ran is undone in silence.
Overwrites == CommitWithCascade /\ solving.draft # Draft(doc, solving.value)

\* A tool commits under a name that was free when it started.
Doubles == CommitTool /\ tool \in Ids(doc.features)

\* The documents since the import's feature was added, and all that are to come.
SinceAdd ==
    {doc} \cup Range(redoStack)
    \cup {undoStack[k].doc : k \in {j \in DOMAIN undoStack : \E i \in 1..(j - 1) : undoStack[i].added}}

\* An import is called off after its feature was removed and another took the name.
Mistakes ==
    /\ WithdrawFeature
    /\ \E d, e \in SinceAdd : \E f \in Range(d.features), g \in Range(e.features) :
          f.id = import.id /\ g.id = import.id /\ f.born # g.born

Departs == Overwrites \/ Doubles \/ Mistakes

\* The same store, as far as none of the three has happened.
OrderlyNext ==
    \/ Others
    \/ CommitWithCascade /\ ~Overwrites
    \/ CommitTool /\ ~Doubles
    \/ WithdrawFeature /\ ~Mistakes

Orderly == Init /\ [][OrderlyNext]_vars

------------------------------------------------------------------------
Feature == [id : 1..(2 * MaxFeatures + 1), born : 1..MaxChanges, val : 1..MaxChanges, at : 0..MaxChanges]

IsDocument(d) ==
    /\ DOMAIN d = {"features", "param"} /\ d.param \in 0..MaxChanges
    /\ d.features \in Seq(Feature)

TypeOK ==
    /\ IsDocument(doc)
    /\ rollback \in {Null} \cup 0..(MaxFeatures + MaxChanges)
    /\ suppressed \subseteq 1..(2 * MaxFeatures + 1)
    /\ \A i \in DOMAIN undoStack : IsDocument(undoStack[i].doc)
    /\ \A i \in DOMAIN redoStack : IsDocument(redoStack[i])
    /\ Len(undoStack) <= UndoCap
    /\ Len(paramChain) <= MaxQueued
    /\ tool \in {Null} \cup 1..(2 * MaxFeatures + 1)
    /\ import.pc \in {"none", "reading", "building"}

\* Whatever lands late, the geometry of every feature was solved for the parameters of
\* its document, in the document and in every one that undo and redo can bring back.
GeometryFollowsParams ==
    \A d \in {doc} \cup Range(redoStack) \cup {e.doc : e \in Range(undoStack)} :
        \A f \in Range(d.features) : f.at = d.param

\* Adding, removing and withdrawing a feature changes what is built by that feature
\* alone, wherever the marker is and whatever undo has left it at.
MarkerFollowsEdits ==
    [][LET built == Built(doc.features, rollbackIndex, suppressed)
           kept == Ids(doc.features) \cap Ids(doc'.features)
       IN AddFeature \/ CommitTool \/ ImportRead \/ RemoveFeature \/ WithdrawFeature =>
              Built(doc'.features, rollbackIndex', suppressed') =
                  (built \cap kept) \cup ((Ids(doc'.features) \ kept) \ suppressed)]_vars

\* The store implements the history the user is promised.
Plain(d) ==
    [features |-> [i \in DOMAIN d.features |->
                      [id |-> d.features[i].id, born |-> d.features[i].born, val |-> d.features[i].val]],
     param |-> d.param]

History == INSTANCE DocumentHistory WITH
    past <- [i \in DOMAIN undoStack |-> Plain(undoStack[i].doc)],
    present <- Plain(doc),
    future <- [i \in DOMAIN redoStack |-> Plain(redoStack[Len(redoStack) + 1 - i])]

ImplementsHistory == History!Spec
============================================================================
