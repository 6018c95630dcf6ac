------------------------ MODULE RebuildPipelineProofs ------------------------
(***************************************************************************)
(* RebuildPipeline, proved for any number of gestures and any valve limit: *)
(* IInv is inductive, and the safety properties follow from it.            *)
(***************************************************************************)
EXTENDS RebuildPipeline, SequenceTheorems, TLAPS

-----------------------------------------------------------------------------
(* Types.                                                                  *)

\* What rebuildNow and scheduleRebuild leave is of the right type.
LEMMA AskType ==
    ASSUME TypeOK, NEW kind \in {"rebuild", "computeAll"}, NEW d \in Doc, Ask(kind, d)
    PROVE  /\ calls' \in Seq(OpenCall)
           /\ asked' \in Doc \cup {Null}
           /\ answer' \in Doc \cup {Null}
<1>1. [kind |-> kind, doc |-> d] \in OpenCall
    BY DEF OpenCall
<1>2. calls' \in Seq(OpenCall)
    BY <1>1 DEF TypeOK, Ask
<1>3. QED
    BY <1>2 DEF Ask

CallTypes ==
    /\ rebuilding' \in BOOLEAN
    /\ queued' \in BOOLEAN
    /\ calls' \in Seq(OpenCall)
    /\ asked' \in Doc \cup {Null}
    /\ answer' \in Doc \cup {Null}
    /\ busy' \in BOOLEAN

LEMMA RebuildNowType ==
    ASSUME TypeOK, NEW d \in Doc, RebuildNow(d)
    PROVE  CallTypes
<1>1. CASE rebuilding
    BY <1>1 DEF TypeOK, RebuildNow, CallTypes
<1>2. CASE ~rebuilding
    <2>1. Ask("rebuild", d) /\ rebuilding' = TRUE /\ queued' = FALSE /\ busy' = TRUE
        BY <1>2 DEF RebuildNow
    <2>2. QED
        BY <2>1, AskType, Zenon DEF CallTypes
<1>3. QED
    BY <1>1, <1>2

LEMMA ScheduleType ==
    ASSUME TypeOK, NEW immediate \in BOOLEAN, NEW d \in Doc, Schedule(immediate, d)
    PROVE  CallTypes /\ timer' \in BOOLEAN
<1>1. CASE immediate
    <2>1. timer' = FALSE /\ RebuildNow(d)
        BY <1>1 DEF Schedule
    <2>2. QED
        BY <2>1, RebuildNowType, Zenon
<1>2. CASE ~immediate
    <2>1. timer' = TRUE /\ UNCHANGED callVars
        BY <1>2 DEF Schedule
    <2>2. QED
        BY <2>1, Zenon DEF TypeOK, CallTypes, callVars
<1>3. QED
    BY <1>1, <1>2

-----------------------------------------------------------------------------
(* Starting a rebuild keeps the pipeline in order.                         *)

\* When no continuation of a rebuild is due, the flag says whether a call is
\* open.
Calm == /\ ~Settling
        /\ Len(micro) <= 1
        /\ micro # <<>> => Head(micro).step = "solve"

\* What is left of the microtask queue by whoever starts a rebuild.
LeavesCalm == /\ micro' \in Seq(Task)
              /\ Len(micro') <= 1
              /\ micro' # <<>> => Head(micro').step = "commit"

LEMMA RebuildNowCalls ==
    ASSUME IInv, NEW d \in Doc, RebuildNow(d), Calm, LeavesCalm
    PROVE  MicroInOrder' /\ FlagMeansOpen' /\ rebuilding'
<1>1. rebuilding <=> calls # <<>>
    BY DEF IInv, FlagMeansOpen, Calm
<1>2. ~Settling'
    BY DEF LeavesCalm, Settling, Running
<1>3. MicroInOrder'
    BY DEF LeavesCalm, MicroInOrder
<1>4. CASE rebuilding
    <2>1. UNCHANGED <<rebuilding, calls, asked, answer>>
        BY <1>4 DEF RebuildNow
    <2>2. calls # <<>> /\ calls[1].doc = asked /\ answer = Null /\ Len(calls) <= 1
        BY <1>1, <1>4 DEF IInv, FlagMeansOpen, OneInFlight
    <2>3. FlagMeansOpen'
        BY <1>2, <1>4, <2>1, <2>2 DEF FlagMeansOpen, OneInFlight, LeavesCalm
    <2>4. QED
        BY <1>3, <1>4, <2>1, <2>3
<1>5. CASE ~rebuilding
    <2>1. calls = <<>>
        BY <1>1, <1>5
    <2>2. rebuilding' = TRUE /\ Ask("rebuild", d)
        BY <1>5 DEF RebuildNow
    <2>3. calls' = <<[kind |-> "rebuild", doc |-> d]>> /\ asked' = d /\ answer' = Null
        BY <2>1, <2>2 DEF Ask
    <2>4. FlagMeansOpen'
        BY <1>2, <2>2, <2>3 DEF FlagMeansOpen, OneInFlight, LeavesCalm
    <2>5. QED
        BY <1>3, <2>2, <2>4
<1>6. QED
    BY <1>4, <1>5

LEMMA RebuildNowDocs ==
    ASSUME IInv, NEW d \in Doc, RebuildNow(d), Calm,
           doc' = d, doc.edit <= d.edit, d.edit <= gestures',
           shown' \in {shown, Null}
    PROVE  NothingForgotten' /\ AnswerIsShown' /\ EditsInOrder'
<1>1. TypeOK /\ EditsInOrder /\ FlagMeansOpen
    BY DEF IInv
<1>2. CASE rebuilding
    <2>1. queued' = TRUE /\ UNCHANGED <<calls, asked, answer>>
        BY <1>2 DEF RebuildNow
    <2>2. answer = Null
        BY <1>1, <1>2 DEF FlagMeansOpen, Calm
    <2>3. EditsInOrder'
        BY <1>1, <2>1 DEF EditsInOrder, TypeOK, Doc
    <2>4. QED
        BY <2>1, <2>2, <2>3 DEF NothingForgotten, AnswerIsShown
<1>3. CASE ~rebuilding
    <2>1. asked' = d /\ answer' = Null
        BY <1>3 DEF RebuildNow, Ask
    <2>2. shown' # Null => shown.edit <= doc.edit
        BY <1>1 DEF EditsInOrder, TypeOK, Doc
    <2>3. EditsInOrder'
        BY <1>1, <2>1, <2>2, PipelineAssumption DEF EditsInOrder, TypeOK, Doc
    <2>4. QED
        BY <2>1, <2>3 DEF NothingForgotten, AnswerIsShown
<1>4. QED
    BY <1>2, <1>3

LEMMA RebuildNowAdd ==
    ASSUME IInv, NEW d \in Doc, RebuildNow(d),
           doc' = d, doc.edit <= d.edit, adding' = adding
    PROVE  AddIsAwaited'
<1>1. TypeOK /\ AddIsAwaited
    BY DEF IInv
<1>2. CASE adding = Null
    BY <1>2 DEF AddIsAwaited
<1>3. CASE adding # Null
    <2>1. adding.edit <= d.edit
        BY <1>1, <1>3 DEF AddIsAwaited, TypeOK, Doc
    <2>2. CASE rebuilding
        BY <1>1, <1>3, <2>1, <2>2 DEF AddIsAwaited, RebuildNow
    <2>3. CASE ~rebuilding
        BY <1>1, <1>3, <2>1, <2>3 DEF AddIsAwaited, RebuildNow, Ask
    <2>4. QED
        BY <2>2, <2>3
<1>4. QED
    BY <1>2, <1>3

\* The same of scheduleRebuild, called from a gesture.
LEMMA ScheduleKeeps ==
    ASSUME IInv, NEW immediate \in BOOLEAN, NEW d \in Doc, Schedule(immediate, d),
           micro = <<>>, micro' = micro,
           doc' = d, doc.edit <= d.edit, d.edit <= gestures',
           shown' \in {shown, Null}, immediate \/ shown' = shown
    PROVE  /\ CallTypes
           /\ timer' \in BOOLEAN
           /\ MicroInOrder'
           /\ FlagMeansOpen'
           /\ NothingForgotten'
           /\ AnswerIsShown'
           /\ EditsInOrder'
           /\ adding' = adding => AddIsAwaited'
<1>1. CallTypes /\ timer' \in BOOLEAN
    BY ScheduleType DEF IInv
<1>2. Calm /\ LeavesCalm
    BY DEF Calm, LeavesCalm, Settling, Running
<1>3. CASE immediate
    <2>1. RebuildNow(d)
        BY <1>3 DEF Schedule
    <2>2. QED
        BY <1>1, <1>2, <2>1, RebuildNowCalls, RebuildNowDocs, RebuildNowAdd
<1>4. CASE ~immediate
    <2>1. timer' = TRUE /\ UNCHANGED <<rebuilding, queued, calls, asked, answer, shown>>
        BY <1>4 DEF Schedule, callVars
    <2>2. MicroInOrder' /\ FlagMeansOpen' /\ AnswerIsShown'
        BY <2>1 DEF IInv, MicroInOrder, FlagMeansOpen, OneInFlight, Settling, Running,
                    AnswerIsShown
    <2>3. NothingForgotten'
        BY <2>1 DEF NothingForgotten
    <2>4. EditsInOrder'
        BY <2>1 DEF IInv, EditsInOrder, TypeOK, Doc
    <2>5. adding' = adding => AddIsAwaited'
        BY <2>1 DEF IInv, AddIsAwaited, TypeOK, Doc
    <2>6. QED
        BY <1>1, <2>2, <2>3, <2>4, <2>5
<1>5. QED
    BY <1>3, <1>4

-----------------------------------------------------------------------------
(* What the user does.                                                     *)

LEMMA GestureType ==
    ASSUME TypeOK, Gesture
    PROVE  /\ gestures' \in 1 .. MaxGestures
           /\ gestures' = gestures + 1
           /\ micro = <<>>
           /\ micro' = micro
BY PipelineAssumption DEF TypeOK, Gesture

LEMMA EditStep ==
    ASSUME IInv, NEW immediate \in BOOLEAN, NEW rearm \in BOOLEAN, Edit(immediate, rearm)
    PROVE  IInv'
<1>1. TypeOK /\ EditsInOrder
    BY DEF IInv
<1>2. /\ gestures' \in 1 .. MaxGestures
      /\ gestures' = gestures + 1
      /\ micro = <<>>
      /\ micro' = micro
    BY <1>1, GestureType DEF Edit
<1>3. PICK preview \in {FALSE, doc.preview}, added \in {0, doc.added} :
          /\ doc' = [doc EXCEPT !.edit = gestures', !.preview = preview, !.added = added]
          /\ Schedule(immediate, doc')
    BY DEF Edit
<1>4. doc' \in Doc /\ doc'.edit = gestures'
    <2>1. doc \in Doc
        BY <1>1 DEF TypeOK
    <2>2. preview \in BOOLEAN
        BY <2>1, Zenon DEF Doc
    <2>3. added \in 0 .. MaxGestures
        BY <2>1, PipelineAssumption DEF Doc
    <2>4. gestures' \in 0 .. MaxGestures
        BY <1>2, PipelineAssumption
    <2>5. QED
        BY <1>3, <2>1, <2>2, <2>3, <2>4 DEF Doc
<1>5. doc.edit <= doc'.edit /\ doc'.edit <= gestures'
    BY <1>1, <1>2, <1>4 DEF EditsInOrder, TypeOK, Doc
<1>6. UNCHANGED <<shown, chain, solving, waiting, importing, adding>>
    BY DEF Edit
<1>7. PICK d \in Doc : d = doc'
    BY <1>4
<1>8. Schedule(immediate, d) /\ doc' = d /\ doc.edit <= d.edit /\ d.edit <= gestures'
    BY <1>3, <1>5, <1>7
<1>9. /\ CallTypes /\ timer' \in BOOLEAN /\ MicroInOrder' /\ FlagMeansOpen'
      /\ NothingForgotten' /\ AnswerIsShown' /\ EditsInOrder' /\ AddIsAwaited'
    BY <1>2, <1>6, <1>8, ScheduleKeeps
<1>10. streak' \in 0 .. ValveLimit
    BY <1>1, PipelineAssumption DEF Edit, TypeOK
<1>11. TypeOK'
    BY <1>1, <1>2, <1>4, <1>6, <1>9, <1>10 DEF TypeOK, CallTypes
<1>12. ChainMoves'
    BY <1>2, <1>6 DEF IInv, ChainMoves
<1>13. QED
    BY <1>9, <1>11, <1>12 DEF IInv

LEMMA AddFeatureAndBuildStep ==
    ASSUME IInv, AddFeatureAndBuild
    PROVE  IInv'
<1>1. TypeOK /\ EditsInOrder
    BY DEF IInv
<1>2. /\ gestures' \in 1 .. MaxGestures
      /\ gestures' = gestures + 1
      /\ micro = <<>>
      /\ micro' = micro
    BY <1>1, GestureType DEF AddFeatureAndBuild
<1>3. doc' = [doc EXCEPT !.edit = gestures', !.added = gestures'] /\ Schedule(TRUE, doc')
    BY DEF AddFeatureAndBuild
<1>4. doc' \in Doc /\ doc'.edit = gestures'
    <2>1. doc \in Doc /\ gestures' \in 0 .. MaxGestures
        BY <1>1, <1>2, PipelineAssumption DEF TypeOK
    <2>2. QED
        BY <1>3, <2>1 DEF Doc
<1>5. doc.edit <= doc'.edit /\ doc'.edit <= gestures'
    BY <1>1, <1>2, <1>4 DEF EditsInOrder, TypeOK, Doc
<1>6. /\ UNCHANGED <<shown, chain, solving, waiting, importing>>
      /\ adding' = [edit |-> gestures', behind |-> rebuilding]
      /\ streak' = 0
    BY DEF AddFeatureAndBuild
<1>7. PICK d \in Doc : d = doc'
    BY <1>4
<1>8. Schedule(TRUE, d) /\ doc' = d /\ doc.edit <= d.edit /\ d.edit <= gestures'
    BY <1>3, <1>5, <1>7
<1>9. /\ CallTypes /\ timer' \in BOOLEAN /\ MicroInOrder' /\ FlagMeansOpen'
      /\ NothingForgotten' /\ AnswerIsShown' /\ EditsInOrder'
    BY <1>2, <1>6, <1>8, ScheduleKeeps
<1>10. AddIsAwaited'
    <2>1. adding'.edit <= doc'.edit
        BY <1>2, <1>4, <1>6
    <2>2. RebuildNow(d)
        BY <1>8 DEF Schedule
    <2>3. CASE rebuilding
        BY <1>6, <2>1, <2>2, <2>3 DEF AddIsAwaited, RebuildNow
    <2>4. CASE ~rebuilding
        BY <1>2, <1>4, <1>6, <1>7, <2>1, <2>2, <2>4 DEF AddIsAwaited, RebuildNow, Ask
    <2>5. QED
        BY <2>3, <2>4
<1>11. TypeOK'
    <2>1. adding' \in [edit : 1 .. MaxGestures, behind : BOOLEAN]
        <3>1. rebuilding \in BOOLEAN
            BY <1>1 DEF TypeOK
        <3>2. QED
            BY <1>2, <1>6, <3>1, Zenon
    <2>2. streak' \in 0 .. ValveLimit
        BY <1>6, PipelineAssumption
    <2>3. gestures' \in 0 .. MaxGestures
        BY <1>2, PipelineAssumption
    <2>4. QED
        BY <1>1, <1>2, <1>4, <1>6, <1>9, <2>1, <2>2, <2>3 DEF TypeOK, CallTypes
<1>12. ChainMoves'
    BY <1>2, <1>6 DEF IInv, ChainMoves
<1>13. QED
    BY <1>9, <1>10, <1>11, <1>12 DEF IInv

LEMMA PreviewStep ==
    ASSUME IInv, NEW on \in BOOLEAN, Preview(on)
    PROVE  IInv'
<1>1. TypeOK /\ EditsInOrder
    BY DEF IInv
<1>2. /\ gestures' \in 1 .. MaxGestures
      /\ gestures' = gestures + 1
      /\ micro = <<>>
      /\ micro' = micro
    BY <1>1, GestureType DEF Preview
<1>3. doc' = [doc EXCEPT !.edit = gestures', !.preview = on] /\ Schedule(TRUE, doc')
    BY DEF Preview
<1>4. doc' \in Doc /\ doc'.edit = gestures'
    <2>1. doc \in Doc /\ gestures' \in 0 .. MaxGestures
        BY <1>1, <1>2, PipelineAssumption DEF TypeOK
    <2>2. QED
        BY <1>3, <2>1 DEF Doc
<1>5. doc.edit <= doc'.edit /\ doc'.edit <= gestures'
    BY <1>1, <1>2, <1>4 DEF EditsInOrder, TypeOK, Doc
<1>6. UNCHANGED <<shown, chain, solving, waiting, streak, importing, adding>>
    BY DEF Preview, commitVars
<1>7. PICK d \in Doc : d = doc'
    BY <1>4
<1>8. Schedule(TRUE, d) /\ doc' = d /\ doc.edit <= d.edit /\ d.edit <= gestures'
    BY <1>3, <1>5, <1>7
<1>9. /\ CallTypes /\ timer' \in BOOLEAN /\ MicroInOrder' /\ FlagMeansOpen'
      /\ NothingForgotten' /\ AnswerIsShown' /\ EditsInOrder' /\ AddIsAwaited'
    BY <1>2, <1>6, <1>8, ScheduleKeeps
<1>10. TypeOK'
    BY <1>1, <1>2, <1>4, <1>6, <1>9, PipelineAssumption DEF TypeOK, CallTypes
<1>11. ChainMoves'
    BY <1>2, <1>6 DEF IInv, ChainMoves
<1>12. QED
    BY <1>9, <1>10, <1>11 DEF IInv

LEMMA ReplaceStep ==
    ASSUME IInv, Replace
    PROVE  IInv'
<1>1. TypeOK /\ EditsInOrder
    BY DEF IInv
<1>2. /\ gestures' \in 1 .. MaxGestures
      /\ gestures' = gestures + 1
      /\ micro = <<>>
      /\ micro' = micro
    BY <1>1, GestureType DEF Replace
<1>3. /\ doc' = [doc EXCEPT !.file = gestures', !.edit = gestures', !.curve = 0, !.added = 0]
      /\ Schedule(TRUE, doc')
    BY DEF Replace
<1>4. doc' \in Doc /\ doc'.edit = gestures'
    <2>1. doc \in Doc /\ gestures' \in 0 .. MaxGestures /\ 0 \in 0 .. MaxGestures
        BY <1>1, <1>2, PipelineAssumption DEF TypeOK
    <2>2. QED
        BY <1>3, <2>1 DEF Doc
<1>5. doc.edit <= doc'.edit /\ doc'.edit <= gestures'
    BY <1>1, <1>2, <1>4 DEF EditsInOrder, TypeOK, Doc
<1>6. /\ UNCHANGED <<chain, solving, waiting, importing>>
      /\ shown' = Null
      /\ streak' = 0
      /\ adding' \in {adding, Null}
    BY DEF Replace
<1>7. PICK d \in Doc : d = doc'
    BY <1>4
<1>8. Schedule(TRUE, d) /\ doc' = d /\ doc.edit <= d.edit /\ d.edit <= gestures'
    BY <1>3, <1>5, <1>7
<1>9. /\ CallTypes /\ timer' \in BOOLEAN /\ MicroInOrder' /\ FlagMeansOpen'
      /\ NothingForgotten' /\ AnswerIsShown' /\ EditsInOrder'
      /\ adding' = adding => AddIsAwaited'
    BY <1>2, <1>6, <1>8, ScheduleKeeps
<1>10. AddIsAwaited'
    BY <1>6, <1>9 DEF AddIsAwaited
<1>11. TypeOK'
    <2>1. streak' \in 0 .. ValveLimit
        BY <1>6, PipelineAssumption
    <2>2. QED
        BY <1>1, <1>2, <1>4, <1>6, <1>9, <2>1, PipelineAssumption DEF TypeOK, CallTypes
<1>12. ChainMoves'
    BY <1>2, <1>6 DEF IInv, ChainMoves
<1>13. QED
    BY <1>9, <1>10, <1>11, <1>12 DEF IInv

LEMMA ComputeAllNowStep ==
    ASSUME IInv, ComputeAllNow
    PROVE  IInv'
<1>1. TypeOK
    BY DEF IInv
<1>2. /\ gestures' \in 0 .. MaxGestures
      /\ doc.edit <= gestures'
      /\ micro = <<>>
      /\ micro' = micro
    BY <1>1, GestureType, PipelineAssumption DEF ComputeAllNow, IInv, EditsInOrder, TypeOK, Doc
<1>3. UNCHANGED <<doc, shown, timer, chain, solving, waiting, streak, busy, importing, adding>>
    BY DEF ComputeAllNow, commitVars
<1>4. rebuilding <=> calls # <<>>
    BY <1>2 DEF IInv, FlagMeansOpen, Settling, Running
<1>5. CASE rebuilding
    <2>1. queued' = TRUE /\ UNCHANGED <<rebuilding, calls, asked, answer>>
        BY <1>5 DEF ComputeAllNow
    <2>2. TypeOK'
        BY <1>1, <1>2, <1>3, <2>1 DEF TypeOK
    <2>3. EditsInOrder'
        BY <1>1, <1>2, <1>3, <2>1 DEF IInv, EditsInOrder, TypeOK, Doc
    <2>4. QED
        BY <1>2, <1>3, <2>1, <2>2, <2>3 DEF IInv, MicroInOrder, FlagMeansOpen, OneInFlight,
                    NothingForgotten, AnswerIsShown, AddIsAwaited, Settling, Running,
                    ChainMoves
<1>6. CASE ~rebuilding
    <2>1. rebuilding' = TRUE /\ Ask("computeAll", doc) /\ UNCHANGED queued
        BY <1>6 DEF ComputeAllNow
    <2>2. /\ calls' = <<[kind |-> "computeAll", doc |-> doc]>>
          /\ asked' = doc
          /\ answer' = Null
        <3>1. calls = <<>>
            BY <1>4, <1>6
        <3>2. QED
            BY <2>1, <3>1 DEF Ask
    <2>3. calls' \in Seq(OpenCall) /\ asked' \in Doc
        BY <1>1, <2>1, <2>2, AskType DEF TypeOK
    <2>4. TypeOK'
        BY <1>1, <1>2, <1>3, <2>1, <2>2, <2>3 DEF TypeOK
    <2>5. EditsInOrder'
        <3>1. shown # Null => shown.edit <= doc.edit
            BY <1>1 DEF IInv, EditsInOrder, TypeOK, Doc
        <3>2. doc.edit \in Int
            BY <1>1 DEF TypeOK, Doc
        <3>3. asked' # Null
            BY <1>1, <2>2, PipelineAssumption DEF TypeOK
        <3>4. QED
            BY <1>2, <1>3, <2>2, <3>1, <3>2, <3>3 DEF EditsInOrder
    <2>6. FlagMeansOpen' /\ MicroInOrder'
        BY <1>2, <2>1, <2>2 DEF FlagMeansOpen, OneInFlight, MicroInOrder, Settling, Running
    <2>7. AddIsAwaited'
        BY <1>3, <1>6, <2>1, <2>2 DEF IInv, AddIsAwaited
    <2>8. QED
        BY <1>2, <1>3, <2>2, <2>4, <2>5, <2>6, <2>7
           DEF IInv, NothingForgotten, AnswerIsShown, ChainMoves
<1>7. QED
    BY <1>5, <1>6

LEMMA ConnectedStep ==
    ASSUME IInv, Connected
    PROVE  IInv'
<1>1. TypeOK
    BY DEF IInv
<1>2. /\ gestures' \in 0 .. MaxGestures
      /\ doc.edit <= gestures'
      /\ micro = <<>>
      /\ micro' = micro
    BY <1>1, GestureType, PipelineAssumption DEF Connected, IInv, EditsInOrder, TypeOK, Doc
<1>3. UNCHANGED <<doc, shown, timer, chain, solving, waiting, streak, importing, adding>>
    BY DEF Connected, commitVars
<1>4. Calm /\ LeavesCalm /\ RebuildNow(doc) /\ doc \in Doc
    BY <1>1, <1>2 DEF Calm, LeavesCalm, Settling, Running, Connected, TypeOK
<1>5. PICK d \in Doc : d = doc
    BY <1>4
<1>6. /\ RebuildNow(d) /\ doc' = d /\ doc.edit <= d.edit /\ d.edit <= gestures'
      /\ shown' \in {shown, Null}
    BY <1>1, <1>2, <1>3, <1>4, <1>5 DEF TypeOK, Doc
<1>7. /\ CallTypes /\ MicroInOrder' /\ FlagMeansOpen' /\ NothingForgotten'
      /\ AnswerIsShown' /\ EditsInOrder' /\ AddIsAwaited'
    BY <1>1, <1>3, <1>4, <1>6, RebuildNowType, RebuildNowCalls, RebuildNowDocs, RebuildNowAdd
<1>8. TypeOK'
    BY <1>1, <1>2, <1>3, <1>7 DEF TypeOK, CallTypes
<1>9. QED
    BY <1>2, <1>3, <1>7, <1>8 DEF IInv, ChainMoves

LEMMA TimerFiresStep ==
    ASSUME IInv, TimerFires
    PROVE  IInv'
<1>1. TypeOK
    BY DEF IInv
<1>2. /\ UNCHANGED <<doc, shown, micro, chain, solving, waiting, streak, importing, adding, gestures>>
      /\ micro = <<>>
      /\ timer' = FALSE
    BY DEF TimerFires, commitVars
<1>3. doc.edit <= gestures' /\ doc.edit <= doc.edit
    BY <1>1, <1>2 DEF IInv, EditsInOrder, TypeOK, Doc
<1>4. Calm /\ LeavesCalm /\ RebuildNow(doc) /\ doc \in Doc
    BY <1>1, <1>2 DEF Calm, LeavesCalm, Settling, Running, TimerFires, TypeOK
<1>5. PICK d \in Doc : d = doc
    BY <1>4
<1>6. /\ RebuildNow(d) /\ doc' = d /\ doc.edit <= d.edit /\ d.edit <= gestures'
      /\ shown' \in {shown, Null}
    BY <1>2, <1>3, <1>4, <1>5
<1>7. /\ CallTypes /\ MicroInOrder' /\ FlagMeansOpen' /\ NothingForgotten'
      /\ AnswerIsShown' /\ EditsInOrder' /\ AddIsAwaited'
    BY <1>1, <1>2, <1>4, <1>6, RebuildNowType, RebuildNowCalls, RebuildNowDocs, RebuildNowAdd
<1>8. TypeOK'
    BY <1>1, <1>2, <1>7 DEF TypeOK, CallTypes
<1>9. QED
    BY <1>2, <1>3, <1>7, <1>8 DEF IInv, ChainMoves

LEMMA ImportStartsStep ==
    ASSUME IInv, ImportStarts
    PROVE  IInv'
<1>1. TypeOK
    BY DEF IInv
<1>2. /\ gestures' \in 0 .. MaxGestures
      /\ doc.edit <= gestures'
      /\ UNCHANGED <<doc, shown, timer, rebuilding, queued, calls, asked, answer, micro,
                      chain, solving, waiting, streak, adding>>
    BY <1>1, GestureType, PipelineAssumption
       DEF ImportStarts, IInv, EditsInOrder, TypeOK, Doc, commitVars
<1>3. busy' = TRUE /\ importing' \in {"none", "ahead", "behind"}
    BY DEF ImportStarts
<1>4. TypeOK'
    BY <1>1, <1>2, <1>3 DEF TypeOK
<1>5. MicroInOrder' /\ FlagMeansOpen' /\ NothingForgotten' /\ AnswerIsShown' /\ AddIsAwaited'
    BY <1>2 DEF IInv, MicroInOrder, FlagMeansOpen, OneInFlight, NothingForgotten, AnswerIsShown,
                AddIsAwaited, Settling, Running
<1>6. EditsInOrder'
    BY <1>2 DEF IInv, EditsInOrder
<1>7. QED
    BY <1>2, <1>4, <1>5, <1>6 DEF IInv, ChainMoves

LEMMA ImportEndsStep ==
    ASSUME IInv, ImportEnds
    PROVE  IInv'
<1>1. TypeOK
    BY DEF IInv
<1>2. /\ UNCHANGED <<doc, shown, timer, rebuilding, queued, calls, asked, answer, micro,
                      chain, solving, waiting, streak, adding, gestures>>
      /\ importing' = "none"
      /\ busy' = FALSE
    BY DEF ImportEnds, commitVars
<1>3. TypeOK'
    BY <1>1, <1>2 DEF TypeOK
<1>4. QED
    BY <1>2, <1>3 DEF IInv, MicroInOrder, FlagMeansOpen, OneInFlight, NothingForgotten,
                AnswerIsShown, EditsInOrder, AddIsAwaited, Settling, Running, ChainMoves

-----------------------------------------------------------------------------
(* What happens to the store.                                              *)

LEMMA SolverReadyStep ==
    ASSUME IInv, SolverReady
    PROVE  IInv'
<1>1. TypeOK
    BY DEF IInv
<1>2. /\ UNCHANGED <<doc, shown, timer, rebuilding, queued, calls, asked, answer, busy,
                      chain, solving, streak, importing, adding, gestures>>
      /\ micro = <<>>
      /\ waiting' = FALSE
      /\ micro' = <<[step |-> "solve", left |-> 0]>>
    BY DEF SolverReady, callVars
<1>3. micro' \in Seq(Task) /\ Len(micro') = 1 /\ Head(micro').step = "solve"
    BY <1>2 DEF Task, SolveTicks
<1>4. TypeOK'
    BY <1>1, <1>2, <1>3 DEF TypeOK
<1>5. ~Settling /\ ~Settling'
    BY <1>2, <1>3 DEF Settling, Running
<1>6. ChainMoves'
    <2>1. chain # <<>>
        BY DEF IInv, ChainMoves, SolverReady
    <2>2. QED
        BY <1>2, <2>1 DEF ChainMoves
<1>7. QED
    BY <1>2, <1>3, <1>4, <1>5, <1>6 DEF IInv, MicroInOrder, FlagMeansOpen, OneInFlight,
                NothingForgotten, AnswerIsShown, EditsInOrder, AddIsAwaited

LEMMA DeliverStep ==
    ASSUME IInv, Deliver
    PROVE  IInv'
<1>1. TypeOK /\ FlagMeansOpen
    BY DEF IInv
<1>2. PICK i \in DOMAIN calls, outcome \in Outcome, moved \in BOOLEAN :
        /\ calls' = SubSeq(calls, 1, i - 1) \o SubSeq(calls, i + 1, Len(calls))
        /\ answer' = IF outcome = "ok" THEN calls[i].doc ELSE Null
        /\ micro' = <<[step |-> "settle", call |-> calls[i],
                       outcome |-> outcome, moved |-> moved]>>
    BY DEF Deliver
<1>3. /\ UNCHANGED <<doc, shown, timer, rebuilding, queued, asked, chain, solving, waiting,
                      streak, busy, adding, gestures>>
      /\ importing' \in {importing, "ahead"}
      /\ micro = <<>>
    BY DEF Deliver, commitVars
<1>4. calls \in Seq(OpenCall) /\ Len(calls) = 1 /\ i = 1
    <2>1. calls \in Seq(OpenCall)
        BY <1>1 DEF TypeOK
    <2>2. Len(calls) <= 1 /\ Len(calls) \in Nat
        BY <1>1, <2>1 DEF FlagMeansOpen, OneInFlight
    <2>3. i \in 1 .. Len(calls)
        BY <1>2, <2>1
    <2>4. PICK n \in Nat : n = Len(calls)
        BY <2>2
    <2>5. n = 1 /\ i = 1
        BY <2>2, <2>3, <2>4
    <2>6. QED
        BY <2>1, <2>4, <2>5
<1>5. calls' = <<>>
    BY <1>2, <1>4
<1>6. calls[1] \in OpenCall /\ calls[1].doc = asked /\ asked \in Doc /\ rebuilding
    <2>1. calls # <<>> /\ calls[1] \in OpenCall
        BY <1>4
    <2>2. calls[1].doc = asked /\ rebuilding
        BY <1>1, <2>1 DEF FlagMeansOpen
    <2>3. QED
        BY <2>1, <2>2 DEF OpenCall
<1>7. answer' = (IF outcome = "ok" THEN asked ELSE Null)
    BY <1>2, <1>4, <1>6
<1>8. PICK r : r = [step |-> "settle", call |-> calls[1], outcome |-> outcome, moved |-> moved]
    OBVIOUS
<1>9. micro' = <<r>> /\ r \in Task /\ r.step = "settle" /\ r.call.doc = asked /\ r.outcome = outcome
    <2>1. moved \in BOOLEAN /\ outcome \in Outcome
        BY <1>2
    <2>2. r \in Settled
        BY <1>6, <1>8, <2>1, Zenon DEF Settled
    <2>3. QED
        BY <1>2, <1>4, <1>6, <1>8, <2>2 DEF Task
<1>10. TypeOK'
    BY <1>1, <1>3, <1>5, <1>6, <1>7, <1>9 DEF TypeOK
<1>11. Settling' /\ Head(micro') = r /\ Len(micro') = 1
    BY <1>9 DEF Settling, Running
<1>12. FlagMeansOpen' /\ MicroInOrder'
    BY <1>3, <1>5, <1>6, <1>9, <1>11 DEF FlagMeansOpen, OneInFlight, MicroInOrder
<1>13. AnswerIsShown'
    BY <1>3, <1>7, <1>9, <1>11 DEF AnswerIsShown
<1>14. ChainMoves'
    <2>1. \A k \in DOMAIN micro' : ~Committing(micro'[k])
        BY <1>9 DEF Committing
    <2>2. waiting => chain # <<>>
        BY DEF IInv, ChainMoves
    <2>3. QED
        BY <1>3, <2>1, <2>2 DEF ChainMoves
<1>15. QED
    BY <1>3, <1>10, <1>12, <1>13, <1>14 DEF IInv, NothingForgotten, EditsInOrder, AddIsAwaited

-----------------------------------------------------------------------------
(* Microtasks.                                                             *)

LEMMA AppendShort ==
    ASSUME NEW S, NEW a \in S, NEW b \in S
    PROVE  Append(<<>>, b) = <<b>> /\ Append(<<a>>, b) = <<a, b>>
<1>1. <<>> \in Seq(S) /\ <<a>> \in Seq(S) /\ <<b>> \in Seq(S) /\ <<a, b>> \in Seq(S)
    OBVIOUS
<1>2. PICK e \in Seq(S) : e = <<>>
    BY <1>1
<1>3. PICK one \in Seq(S) : one = <<a>>
    BY <1>1
<1>4. Append(e, b) = <<b>>
    <2>1. PICK t \in Seq(S) : t = Append(e, b)
        BY AppendProperties
    <2>2. Len(t) = 1 /\ t[1] = b
        BY <1>2, <2>1, AppendProperties
    <2>3. PICK u \in Seq(S) : u = <<b>>
        BY <1>1
    <2>4. Len(u) = 1 /\ u[1] = b
        BY <2>3
    <2>5. t = u
        <3>1. \A i \in 1 .. 1 : t[i] = u[i]
            BY <2>2, <2>4
        <3>2. QED
            BY <2>2, <2>4, <3>1, SeqEqual
    <2>6. QED
        BY <2>1, <2>3, <2>5
<1>5. Append(one, b) = <<a, b>>
    <2>1. PICK t \in Seq(S) : t = Append(one, b)
        BY AppendProperties
    <2>2. Len(one) = 1 /\ one[1] = a
        BY <1>3
    <2>3. Len(t) = 2 /\ t[1] = a /\ t[2] = b
        <3>1. /\ Len(Append(one, b)) = Len(one) + 1
              /\ \A i \in 1 .. Len(one) : Append(one, b)[i] = one[i]
              /\ Append(one, b)[Len(one) + 1] = b
            BY AppendProperties
        <3>2. /\ Len(t) = 1 + 1
              /\ \A i \in 1 .. 1 : t[i] = one[i]
              /\ t[1 + 1] = b
            BY <2>1, <2>2, <3>1
        <3>3. QED
            BY <2>2, <3>2
    <2>4. PICK u \in Seq(S) : u = <<a, b>>
        BY <1>1
    <2>5. Len(u) = 2 /\ u[1] = a /\ u[2] = b
        BY <2>4
    <2>6. t = u
        <3>1. \A i \in 1 .. 2 : t[i] = u[i]
            BY <2>3, <2>5
        <3>2. QED
            BY <2>3, <2>5, <3>1, SeqEqual
    <2>7. QED
        BY <2>1, <2>4, <2>6
<1>6. QED
    BY <1>2, <1>3, <1>4, <1>5

LEMMA ShortSeq ==
    ASSUME NEW S, NEW q \in Seq(S), Len(q) \in {1, 2}
    PROVE  /\ Head(q) = q[1]
           /\ q[1] \in S
           /\ Len(q) = 1 => q = <<q[1]>> /\ Tail(q) = <<>>
           /\ Len(q) = 2 => q = <<q[1], q[2]>> /\ Tail(q) = <<q[2]>> /\ q[2] \in S
<1>1. q # <<>>
    OBVIOUS
<1>2. Head(q) = q[1] /\ q[1] \in S
    OBVIOUS
<1>3. /\ Tail(q) \in Seq(S)
      /\ Len(Tail(q)) = Len(q) - 1
      /\ \A i \in 1 .. Len(Tail(q)) : Tail(q)[i] = q[i + 1]
    BY <1>1, HeadTailProperties
<1>4. CASE Len(q) = 1
    <2>1. Tail(q) = <<>>
        <3>1. PICK t \in Seq(S) : t = Tail(q)
            BY <1>3
        <3>2. Len(t) = 0
            BY <1>3, <1>4, <3>1
        <3>3. QED
            BY <3>1, <3>2, EmptySeq
    <2>2. <<q[1]>> \in Seq(S) /\ Len(<<q[1]>>) = 1 /\ <<q[1]>>[1] = q[1]
        BY <1>2
    <2>3. q = <<q[1]>>
        BY <1>4, <2>2, SeqEqual
    <2>4. QED
        BY <1>2, <1>4, <2>1, <2>3
<1>5. CASE Len(q) = 2
    <2>1. q[2] \in S
        BY <1>5
    <2>2. /\ <<q[1], q[2]>> \in Seq(S) /\ Len(<<q[1], q[2]>>) = 2
          /\ <<q[1], q[2]>>[1] = q[1] /\ <<q[1], q[2]>>[2] = q[2]
        BY <1>2, <2>1
    <2>3. q = <<q[1], q[2]>>
        BY <1>5, <2>2, SeqEqual
    <2>4. <<q[2]>> \in Seq(S) /\ Len(<<q[2]>>) = 1 /\ <<q[2]>>[1] = q[2]
        BY <2>1
    <2>5. Len(Tail(q)) = 1 /\ Tail(q)[1] = q[2]
        BY <1>3, <1>5
    <2>6. Tail(q) = <<q[2]>>
        <3>1. PICK t \in Seq(S) : t = Tail(q)
            BY <1>3
        <3>2. PICK u \in Seq(S) : u = <<q[2]>>
            BY <2>4
        <3>3. Len(t) = 1 /\ Len(u) = 1 /\ t[1] = u[1]
            BY <2>4, <2>5, <3>1, <3>2
        <3>4. t = u
            BY <3>3, SeqEqual
        <3>5. QED
            BY <3>1, <3>2, <3>4
    <2>7. QED
        BY <1>2, <1>5, <2>1, <2>3, <2>6
<1>6. QED
    BY <1>4, <1>5

LEMMA MicroHead ==
    ASSUME TypeOK, MicroInOrder, micro # <<>>
    PROVE  /\ Head(micro) = micro[1]
           /\ micro[1] \in Task
           /\ \/ micro = <<micro[1]>> /\ Tail(micro) = <<>>
              \/ /\ micro = <<micro[1], micro[2]>>
                 /\ Tail(micro) = <<micro[2]>>
                 /\ micro[2] \in Task
                 /\ InOrder(micro[1], micro[2])
<1>1. micro \in Seq(Task) /\ Len(micro) <= 2
    BY DEF TypeOK, MicroInOrder
<1>2. Len(micro) \in {1, 2}
    <2>1. PICK n \in Nat : n = Len(micro)
        BY <1>1
    <2>2. n # 0
        BY <1>1, <2>1, EmptySeq
    <2>3. QED
        BY <1>1, <2>1, <2>2
<1>3. Len(micro) = 2 => InOrder(micro[1], micro[2])
    BY DEF MicroInOrder
<1>4. QED
    BY <1>1, <1>2, <1>3, ShortSeq

\* The steps and what they hold, told apart.
LEMMA TaskKinds ==
    ASSUME NEW t \in Task
    PROVE  /\ t.step \in {"settle", "commit", "busyDone", "rebuildDone", "solve"}
           /\ t.step = "settle" => t \in Settled
           /\ t.step = "solve" => t.left \in 0 .. SolveTicks
BY DEF Task, Settled

LEMMA Plain ==
    /\ [step |-> "commit"] \in Task
    /\ [step |-> "busyDone"] \in Task
    /\ [step |-> "rebuildDone"] \in Task
    /\ \A k \in 0 .. SolveTicks : [step |-> "solve", left |-> k] \in Task
BY DEF Task

\* While a `finally` is due no call is open.
LEMMA FinallyMeansClosed ==
    ASSUME IInv, Running("busyDone") \/ Running("rebuildDone")
    PROVE  calls = <<>> /\ ~rebuilding /\ ~Settling
BY DEF IInv, FlagMeansOpen, Settling, Running

\* A step that queues nothing of a commit leaves the chain where it is.
NoNewCommit ==
    \A i \in DOMAIN micro' :
        Committing(micro'[i]) => \E j \in DOMAIN micro : micro[j] = micro'[i]

LEMMA ChainStays ==
    ASSUME ChainMoves, NoNewCommit, UNCHANGED <<chain, waiting>>
    PROVE  ChainMoves'
BY DEF ChainMoves, NoNewCommit

LEMMA BusyDoneStep ==
    ASSUME IInv, BusyDone
    PROVE  IInv'
<1>1. TypeOK /\ MicroInOrder
    BY DEF IInv
<1>2. /\ UNCHANGED <<doc, shown, timer, rebuilding, queued, calls, asked, answer, chain,
                      solving, waiting, streak, importing, adding, gestures>>
      /\ Running("busyDone")
      /\ busy' = FALSE
      /\ micro' = Append(Tail(micro), [step |-> "rebuildDone"])
    BY DEF BusyDone, commitVars
<1>3. calls = <<>> /\ ~rebuilding /\ ~Settling
    BY <1>2, FinallyMeansClosed
<1>4. micro # <<>> /\ micro[1].step = "busyDone"
    BY <1>1, <1>2, MicroHead DEF Running
<1>5. /\ micro' \in Seq(Task)
      /\ MicroInOrder'
      /\ ~Settling'
      /\ NoNewCommit
    <2>1. CASE Tail(micro) = <<>>
        <3>1. micro' = <<[step |-> "rebuildDone"]>>
            BY <1>2, <2>1, Plain, AppendShort
        <3>2. QED
            BY <3>1, Plain DEF MicroInOrder, Settling, Running, NoNewCommit, Committing
    <2>2. CASE Tail(micro) = <<micro[2]>> /\ micro[2] \in Task /\ InOrder(micro[1], micro[2])
        <3>1. micro' = <<micro[2], [step |-> "rebuildDone"]>>
            BY <1>2, <2>2, Plain, AppendShort
        <3>2. \/ micro[2].step = "commit"
              \/ micro[2].step = "solve" /\ micro[2].left = SolveTicks
            BY <1>4, <2>2 DEF InOrder
        <3>3. QED
            <4>1. micro'[1] = micro[2] /\ micro'[2].step = "rebuildDone" /\ DOMAIN micro' = 1 .. 2
                BY <3>1
            <4>2. 2 \in DOMAIN micro
                BY <1>1, <1>4, <2>2, MicroHead
            <4>3. NoNewCommit
                BY <4>1, <4>2 DEF NoNewCommit, Committing
            <4>4. QED
                BY <2>2, <3>1, <3>2, <4>3, Plain DEF MicroInOrder, InOrder, Settling, Running
    <2>3. QED
        BY <1>1, <1>4, <2>1, <2>2, MicroHead
<1>6. TypeOK'
    BY <1>1, <1>2, <1>5 DEF TypeOK
<1>7. FlagMeansOpen'
    BY <1>2, <1>3, <1>5 DEF FlagMeansOpen, OneInFlight
<1>8. ChainMoves'
    BY <1>2, <1>5, ChainStays DEF IInv
<1>9. QED
    BY <1>2, <1>3, <1>5, <1>6, <1>7, <1>8
       DEF IInv, NothingForgotten, AnswerIsShown, EditsInOrder, AddIsAwaited

LEMMA RebuildDoneStep ==
    ASSUME IInv, RebuildDone
    PROVE  IInv'
<1>1. TypeOK /\ MicroInOrder
    BY DEF IInv
<1>2. /\ UNCHANGED <<doc, shown, timer, queued, calls, asked, answer, chain, solving, waiting,
                      streak, busy, importing, adding, gestures>>
      /\ Running("rebuildDone")
      /\ rebuilding' = FALSE
      /\ micro' = Tail(micro)
    BY DEF RebuildDone, commitVars
<1>3. calls = <<>> /\ ~rebuilding /\ ~Settling
    BY <1>2, FinallyMeansClosed
<1>4. micro # <<>> /\ micro[1].step = "rebuildDone"
    BY <1>1, <1>2, MicroHead DEF Running
<1>5. /\ micro' \in Seq(Task)
      /\ MicroInOrder'
      /\ ~Settling'
      /\ NoNewCommit
    <2>1. CASE Tail(micro) = <<>>
        <3>1. micro' = <<>>
            BY <1>2, <2>1
        <3>2. QED
            BY <3>1 DEF MicroInOrder, Settling, Running, NoNewCommit
    <2>2. CASE Tail(micro) = <<micro[2]>> /\ micro[2] \in Task /\ InOrder(micro[1], micro[2])
        <3>1. micro[2].step \in {"commit", "solve"}
            BY <1>4, <2>2 DEF InOrder
        <3>2. PICK t \in Task : t = micro[2]
            BY <2>2
        <3>3. micro' = <<t>>
            BY <1>2, <2>2, <3>2
        <3>4. QED
            <4>1. 2 \in DOMAIN micro
                BY <1>1, <1>4, <2>2, MicroHead
            <4>2. NoNewCommit
                BY <3>2, <3>3, <4>1 DEF NoNewCommit
            <4>3. QED
                BY <3>1, <3>2, <3>3, <4>2 DEF MicroInOrder, Settling, Running
    <2>3. QED
        BY <1>1, <1>4, <2>1, <2>2, MicroHead
<1>6. TypeOK'
    BY <1>1, <1>2, <1>5 DEF TypeOK
<1>7. FlagMeansOpen'
    BY <1>2, <1>3, <1>5 DEF FlagMeansOpen, OneInFlight
<1>8. ChainMoves'
    BY <1>2, <1>5, ChainStays DEF IInv
<1>9. QED
    BY <1>2, <1>3, <1>5, <1>6, <1>7, <1>8
       DEF IInv, NothingForgotten, AnswerIsShown, EditsInOrder, AddIsAwaited

LEMMA ConcatShort ==
    ASSUME NEW S, NEW a \in S, NEW b \in S
    PROVE  /\ <<>> \o <<>> = <<>>
           /\ <<a>> \o <<>> = <<a>>
           /\ <<>> \o <<b>> = <<b>>
           /\ <<a>> \o <<b>> = <<a, b>>
<1>1. <<a>> \in Seq(S) /\ <<b>> \in Seq(S) /\ <<>> \in Seq(S)
    OBVIOUS
<1>2. <<>> \o <<>> = <<>> /\ <<a>> \o <<>> = <<a>> /\ <<>> \o <<b>> = <<b>>
    BY <1>1, ConcatEmptySeq
<1>3. Append(<<a>>, b) = <<a>> \o <<b>>
    BY <1>1, AppendIsConcat
<1>4. QED
    BY <1>2, <1>3, AppendShort

\* A commit that runs is the head of the chain, and nothing waits for the solver.
LEMMA CommitAtWork ==
    ASSUME IInv, Running("commit") \/ Running("solve")
    PROVE  /\ ~waiting
           /\ chain # <<>>
           /\ Committing(micro[1])
           /\ ~Settling
<1>1. micro # <<>> /\ Head(micro).step \in {"commit", "solve"}
    BY DEF Running
<1>2. Head(micro) = micro[1] /\ 1 \in DOMAIN micro
    BY <1>1, MicroHead DEF IInv
<1>3. Committing(micro[1])
    BY <1>1, <1>2 DEF Committing
<1>4. QED
    BY <1>1, <1>2, <1>3 DEF IInv, ChainMoves, Settling, Running

\* The task behind the head of the chain, if there is one, is a `finally`.
LEMMA BehindCommit ==
    ASSUME IInv, Running("commit") \/ Running("solve")
    PROVE  \/ Tail(micro) = <<>>
           \/ /\ Tail(micro) = <<micro[2]>>
              /\ micro[2] \in Task
              /\ InOrder(micro[1], micro[2])
              /\ micro[2].step \in {"busyDone", "rebuildDone"}
              /\ calls = <<>>
<1>1. micro # <<>> /\ Head(micro).step \in {"commit", "solve"}
    BY DEF Running
<1>2. TypeOK /\ MicroInOrder
    BY DEF IInv
<1>3. Head(micro) = micro[1]
    BY <1>1, <1>2, MicroHead
<1>4. CASE /\ Tail(micro) = <<micro[2]>>
           /\ micro[2] \in Task
           /\ InOrder(micro[1], micro[2])
           /\ micro = <<micro[1], micro[2]>>
    <2>1. micro[2].step \in {"busyDone", "rebuildDone"}
        BY <1>1, <1>3, <1>4 DEF InOrder
    <2>2. PICK a, b : micro = <<a, b>>
        BY <1>4
    <2>3. Len(micro) = 2
        BY <2>2
    <2>4. calls = <<>>
        BY <2>3 DEF IInv, FlagMeansOpen
    <2>5. QED
        BY <1>4, <2>1, <2>4
<1>5. QED
    BY <1>1, <1>2, <1>4, MicroHead

LEMMA LeaveChainKeeps ==
    ASSUME IInv, LeaveChain, Running("commit") \/ Running("solve"), waiting' = waiting
    PROVE  /\ chain' \in Seq(Doc)
           /\ micro' \in Seq(Task)
           /\ ChainMoves'
           /\ ~Settling'
           /\ Tail(micro) = <<>> => LeavesCalm
           /\ Running("commit") => MicroInOrder'
           /\ Running("commit") => (calls = <<>> \/ LeavesCalm)
<1>1. TypeOK /\ MicroInOrder
    BY DEF IInv
<1>2. ~waiting /\ chain # <<>>
    BY CommitAtWork
<1>3. chain \in Seq(Doc) /\ chain' = Tail(chain)
    BY <1>1 DEF TypeOK, LeaveChain
<1>4. chain' \in Seq(Doc) /\ Len(chain') = Len(chain) - 1
    BY <1>2, <1>3, HeadTailProperties
<1>5. PICK more \in {<<>>, <<[step |-> "commit"]>>} :
        /\ micro' = Tail(micro) \o more
        /\ more # <<>> => chain' # <<>>
    <2>1. CASE Len(chain) > 1
        <3>1. chain' # <<>>
            <4>1. PICK n \in Nat : n = Len(chain)
                BY <1>3
            <4>2. Len(chain') = n - 1 /\ n > 1
                BY <1>4, <2>1, <4>1
            <4>3. Len(chain') # 0
                BY <4>2
            <4>4. QED
                BY <4>3
        <3>2. micro' = Tail(micro) \o <<[step |-> "commit"]>>
            BY <2>1 DEF LeaveChain
        <3>3. QED
            BY <3>1, <3>2
    <2>2. CASE ~(Len(chain) > 1)
        BY <2>2 DEF LeaveChain
    <2>3. QED
        BY <2>1, <2>2
<1>6. CASE Tail(micro) = <<>>
    <2>1. micro' = more
        BY <1>5, <1>6, Plain, ConcatShort
    <2>2. LeavesCalm /\ ~Settling'
        <3>1. CASE more = <<>>
            BY <2>1, <3>1 DEF LeavesCalm, Settling, Running
        <3>2. CASE more = <<[step |-> "commit"]>>
            BY <2>1, <3>2, Plain DEF LeavesCalm, Settling, Running
        <3>3. QED
            BY <1>5, <3>1, <3>2
    <2>3. ChainMoves' /\ MicroInOrder'
        BY <1>2, <1>5, <2>1 DEF ChainMoves, MicroInOrder
    <2>4. QED
        BY <1>4, <2>2, <2>3 DEF LeavesCalm
<1>7. CASE /\ Tail(micro) = <<micro[2]>>
           /\ micro[2] \in Task
           /\ micro[2].step \in {"busyDone", "rebuildDone"}
           /\ calls = <<>>
    <2>1. PICK b \in Task : b = micro[2]
        BY <1>7
    <2>2. b.step \in {"busyDone", "rebuildDone"} /\ Tail(micro) = <<b>>
        BY <1>7, <2>1
    <2>3. CASE more = <<>>
        <3>1. micro' = <<b>>
            BY <1>5, <2>2, <2>3, ConcatShort
        <3>2. ChainMoves'
            BY <1>2, <2>2, <3>1 DEF ChainMoves, Committing
        <3>3. micro' \in Seq(Task) /\ MicroInOrder' /\ ~Settling'
            BY <2>2, <3>1 DEF MicroInOrder, Settling, Running
        <3>4. Tail(micro) # <<>>
            BY <2>2
        <3>5. QED
            BY <1>4, <1>7, <3>2, <3>3, <3>4
    <2>4. CASE more = <<[step |-> "commit"]>>
        <3>1. micro' = <<b, [step |-> "commit"]>>
            BY <1>5, <2>2, <2>4, Plain, ConcatShort
        <3>2. chain' # <<>>
            BY <1>5, <2>4
        <3>3. ChainMoves'
            BY <1>2, <3>2 DEF ChainMoves
        <3>4. micro' \in Seq(Task) /\ MicroInOrder' /\ ~Settling'
            BY <2>2, <3>1, Plain DEF MicroInOrder, InOrder, Settling, Running
        <3>5. Tail(micro) # <<>>
            BY <2>2
        <3>6. QED
            BY <1>4, <1>7, <3>3, <3>4, <3>5
    <2>5. QED
        BY <1>5, <2>3, <2>4
<1>8. QED
    BY <1>6, <1>7, BehindCommit

\* A step of the commit that starts no rebuild and ends none.
LEMMA CommitVarsOnly ==
    ASSUME IInv,
           UNCHANGED <<doc, shown, timer, callVars, importing, adding, gestures>>,
           ~Settling, ~Settling',
           micro' \in Seq(Task), MicroInOrder', ChainMoves',
           chain' \in Seq(Doc), solving' \in Doc \cup {Null},
           waiting' \in BOOLEAN, streak' \in 0 .. ValveLimit,
           \/ calls = <<>>
           \/ /\ Len(micro') <= 1
              /\ micro' # <<>> => Head(micro').step \in {"commit", "solve"}
    PROVE  IInv'
<1>1. UNCHANGED <<rebuilding, queued, calls, asked, answer, busy>>
    BY DEF callVars
<1>2. TypeOK'
    BY <1>1 DEF IInv, TypeOK
<1>3. FlagMeansOpen'
    BY <1>1 DEF IInv, FlagMeansOpen, OneInFlight
<1>4. QED
    BY <1>1, <1>2, <1>3
       DEF IInv, NothingForgotten, AnswerIsShown, EditsInOrder, AddIsAwaited

LEMMA CommitStep ==
    ASSUME IInv, Commit
    PROVE  IInv'
<1>1. TypeOK /\ MicroInOrder
    BY DEF IInv
<1>2. /\ Running("commit")
      /\ UNCHANGED <<doc, shown, timer, callVars, importing, adding, gestures>>
      /\ waiting' = waiting
      /\ streak' = streak
    BY DEF Commit
<1>3. /\ ~waiting /\ chain # <<>> /\ ~Settling
      /\ waiting \in BOOLEAN /\ streak \in 0 .. ValveLimit
      /\ chain \in Seq(Doc) /\ solving \in Doc \cup {Null} /\ doc \in Doc
    BY <1>1, <1>2, CommitAtWork DEF TypeOK
<1>4. CASE LeaveChain /\ UNCHANGED solving
    <2>1. /\ chain' \in Seq(Doc) /\ micro' \in Seq(Task) /\ ChainMoves' /\ ~Settling'
          /\ MicroInOrder' /\ (calls = <<>> \/ LeavesCalm)
        BY <1>2, <1>4, LeaveChainKeeps
    <2>2. solving' \in Doc \cup {Null}
        BY <1>3, <1>4
    <2>3. \/ calls = <<>>
          \/ /\ Len(micro') <= 1
             /\ micro' # <<>> => Head(micro').step \in {"commit", "solve"}
        BY <2>1 DEF LeavesCalm
    <2>4. QED
        BY <1>2, <1>3, <2>1, <2>2, <2>3, CommitVarsOnly
<1>5. CASE /\ solving' = doc
           /\ micro' = Append(Tail(micro), [step |-> "solve", left |-> SolveTicks])
           /\ UNCHANGED chain
    <2>1. PICK t \in Task : t = [step |-> "solve", left |-> SolveTicks]
        BY Plain DEF SolveTicks
    <2>2. t.step = "solve" /\ t.left = SolveTicks
        BY <2>1
    <2>3. /\ micro' \in Seq(Task) /\ MicroInOrder' /\ ~Settling'
          /\ \/ calls = <<>>
             \/ /\ Len(micro') <= 1
                /\ micro' # <<>> => Head(micro').step \in {"commit", "solve"}
        <3>1. CASE Tail(micro) = <<>>
            <4>1. micro' = <<t>>
                BY <1>5, <2>1, <3>1, AppendShort
            <4>2. QED
                BY <2>2, <4>1 DEF MicroInOrder, Settling, Running
        <3>2. CASE /\ Tail(micro) = <<micro[2]>>
                   /\ micro[2] \in Task
                   /\ micro[2].step \in {"busyDone", "rebuildDone"}
                   /\ calls = <<>>
            <4>1. PICK b \in Task : b = micro[2]
                BY <3>2
            <4>2. micro' = <<b, t>>
                BY <1>5, <2>1, <3>2, <4>1, AppendShort
            <4>3. b.step \in {"busyDone", "rebuildDone"}
                BY <3>2, <4>1
            <4>4. InOrder(b, t)
                BY <2>2, <4>3 DEF InOrder, SolveTicks
            <4>5. QED
                BY <3>2, <4>2, <4>3, <4>4 DEF MicroInOrder, Settling, Running
        <3>3. QED
            BY <1>2, <3>1, <3>2, BehindCommit
    <2>4. ChainMoves'
        BY <1>2, <1>3, <1>5 DEF ChainMoves
    <2>5. chain' \in Seq(Doc) /\ solving' \in Doc \cup {Null}
        BY <1>3, <1>5
    <2>6. QED
        BY <1>2, <1>3, <2>3, <2>4, <2>5, CommitVarsOnly
<1>6. QED
    BY <1>4, <1>5 DEF Commit

LEMMA SolveTickStep ==
    ASSUME IInv, SolveTick
    PROVE  IInv'
<1>1. TypeOK /\ MicroInOrder
    BY DEF IInv
<1>2. /\ Running("solve")
      /\ Head(micro).left > 0
      /\ UNCHANGED <<doc, shown, timer, callVars, importing, adding, gestures>>
      /\ UNCHANGED <<chain, solving, streak>>
    BY DEF SolveTick
<1>3. /\ ~waiting /\ chain # <<>> /\ ~Settling
      /\ streak \in 0 .. ValveLimit /\ waiting \in BOOLEAN
      /\ chain \in Seq(Doc) /\ solving \in Doc \cup {Null}
    BY <1>1, <1>2, CommitAtWork DEF TypeOK
<1>4. PICK h \in Task : h = Head(micro) /\ h = micro[1]
    BY <1>1, <1>2, MicroHead DEF Running
<1>5. h.step = "solve" /\ h.left \in 1 .. SolveTicks
    <2>1. h.step = "solve" /\ h.left > 0
        BY <1>2, <1>4 DEF Running
    <2>2. h.left \in 0 .. SolveTicks
        BY <2>1, TaskKinds
    <2>3. QED
        BY <2>1, <2>2 DEF SolveTicks
<1>6. \/ Tail(micro) = <<>>
      \/ \E b \in Task : /\ Tail(micro) = <<b>>
                         /\ b.step = "rebuildDone"
                         /\ h.left = SolveTicks
                         /\ calls = <<>>
    <2>1. InOrder(micro[1], micro[2]) => micro[2].step = "rebuildDone" /\ h.left = SolveTicks
        BY <1>4, <1>5 DEF InOrder
    <2>2. QED
        BY <1>2, <2>1, BehindCommit
<1>7. CASE micro' = Append(Tail(micro), [Head(micro) EXCEPT !.left = @ - 1]) /\ waiting' = waiting
    <2>1. PICK t \in Task : t = [h EXCEPT !.left = @ - 1] /\ t.step = "solve" /\ t.left = h.left - 1
        <3>1. h \in [step : {"solve"}, left : 0 .. SolveTicks]
            BY <1>5 DEF Task, Settled
        <3>2. h.left - 1 \in 0 .. SolveTicks
            BY <1>5 DEF SolveTicks
        <3>3. [h EXCEPT !.left = @ - 1] = [step |-> "solve", left |-> h.left - 1]
            BY <1>5, <3>1
        <3>4. [step |-> "solve", left |-> h.left - 1] \in Task
            BY <3>2, Plain
        <3>5. QED
            BY <3>3, <3>4
    <2>2. /\ micro' \in Seq(Task) /\ MicroInOrder' /\ ~Settling'
          /\ \/ calls = <<>>
             \/ /\ Len(micro') <= 1
                /\ micro' # <<>> => Head(micro').step \in {"commit", "solve"}
        <3>1. CASE Tail(micro) = <<>>
            <4>1. micro' = <<t>>
                BY <1>4, <1>7, <2>1, <3>1, AppendShort
            <4>2. t.step = "solve"
                BY <2>1
            <4>3. QED
                BY <4>1, <4>2 DEF MicroInOrder, Settling, Running
        <3>2. CASE \E b \in Task : /\ Tail(micro) = <<b>>
                                   /\ b.step = "rebuildDone"
                                   /\ h.left = SolveTicks
                                   /\ calls = <<>>
            <4>1. PICK b \in Task : /\ Tail(micro) = <<b>>
                                    /\ b.step = "rebuildDone"
                                    /\ h.left = SolveTicks
                                    /\ calls = <<>>
                BY <3>2
            <4>2. micro' = <<b, t>>
                BY <1>4, <1>7, <2>1, <4>1, AppendShort
            <4>3. InOrder(b, t)
                BY <2>1, <4>1 DEF InOrder, SolveTicks
            <4>4. QED
                BY <4>1, <4>2, <4>3 DEF MicroInOrder, Settling, Running
        <3>3. QED
            BY <1>6, <3>1, <3>2
    <2>3. ChainMoves'
        BY <1>2, <1>3, <1>7 DEF ChainMoves
    <2>4. chain' \in Seq(Doc) /\ solving' \in Doc \cup {Null}
          /\ streak' \in 0 .. ValveLimit /\ waiting' \in BOOLEAN
        BY <1>2, <1>3, <1>7
    <2>5. QED
        BY <1>2, <1>3, <2>2, <2>3, <2>4, CommitVarsOnly
<1>8. CASE micro' = Tail(micro) /\ waiting' = TRUE
    <2>1. /\ micro' \in Seq(Task) /\ MicroInOrder' /\ ~Settling'
          /\ \A i \in DOMAIN micro' : ~Committing(micro'[i])
          /\ calls = <<>> \/ micro' = <<>>
        <3>1. CASE Tail(micro) = <<>>
            <4>1. micro' = <<>>
                BY <1>8, <3>1
            <4>2. QED
                BY <4>1 DEF MicroInOrder, Settling, Running
        <3>2. CASE \E b \in Task : /\ Tail(micro) = <<b>>
                                   /\ b.step = "rebuildDone"
                                   /\ calls = <<>>
            <4>1. PICK b \in Task : /\ micro' = <<b>>
                                    /\ b.step = "rebuildDone"
                                    /\ calls = <<>>
                BY <1>8, <3>2
            <4>2. \A i \in DOMAIN micro' : micro'[i] = b
                BY <4>1
            <4>3. \A i \in DOMAIN micro' : ~Committing(micro'[i])
                BY <4>1, <4>2 DEF Committing
            <4>4. micro' \in Seq(Task) /\ MicroInOrder' /\ ~Settling'
                BY <4>1 DEF MicroInOrder, Settling, Running
            <4>5. QED
                BY <4>1, <4>3, <4>4
        <3>3. QED
            BY <1>6, <3>1, <3>2
    <2>2. ChainMoves'
        BY <1>2, <1>3, <2>1 DEF ChainMoves
    <2>3. chain' \in Seq(Doc) /\ solving' \in Doc \cup {Null}
          /\ streak' \in 0 .. ValveLimit /\ waiting' \in BOOLEAN
        BY <1>2, <1>3, <1>8
    <2>4. QED
        BY <1>2, <1>3, <2>1, <2>2, <2>3, CommitVarsOnly
<1>9. QED
    BY <1>7, <1>8 DEF SolveTick

LEMMA LandStep ==
    ASSUME IInv, Land
    PROVE  IInv'
<1>1. TypeOK /\ MicroInOrder
    BY DEF IInv
<1>2. /\ Running("solve")
      /\ Head(micro).left = 0
      /\ LeaveChain
      /\ solving' = Null
      /\ UNCHANGED <<shown, waiting, importing, adding, gestures>>
    BY DEF Land
<1>3. ~Settling /\ micro # <<>> /\ Head(micro).step = "solve"
    BY <1>2, CommitAtWork DEF Running
<1>4. /\ micro[1].step = "solve" /\ micro[1].left = 0
      /\ \/ micro = <<micro[1]>> /\ Tail(micro) = <<>>
         \/ InOrder(micro[1], micro[2])
    BY <1>1, <1>2, <1>3, MicroHead
<1>5. Tail(micro) = <<>> /\ micro = <<micro[1]>>
    BY <1>4 DEF InOrder, SolveTicks
<1>6. Calm
    <2>1. PICK a : micro = <<a>>
        BY <1>5
    <2>2. Len(micro) = 1
        BY <2>1
    <2>3. QED
        BY <1>3, <2>2 DEF Calm
<1>7. /\ chain' \in Seq(Doc) /\ micro' \in Seq(Task) /\ ChainMoves' /\ ~Settling'
      /\ LeavesCalm
    BY <1>2, <1>5, LeaveChainKeeps
<1>8. CASE UNCHANGED <<doc, timer, callVars, streak>>
    <2>1. MicroInOrder'
        BY <1>7 DEF LeavesCalm, MicroInOrder
    <2>2. /\ Len(micro') <= 1
          /\ micro' # <<>> => Head(micro').step \in {"commit", "solve"}
        BY <1>7 DEF LeavesCalm
    <2>3. solving' \in Doc \cup {Null} /\ waiting' \in BOOLEAN /\ streak' \in 0 .. ValveLimit
        BY <1>1, <1>2, <1>8 DEF TypeOK
    <2>4. QED
        BY <1>2, <1>3, <1>7, <1>8, <2>1, <2>2, <2>3, CommitVarsOnly
<1>9. CASE /\ streak' = IF streak < ValveLimit THEN streak + 1 ELSE streak
           /\ doc' = [doc EXCEPT !.curve = 1 - @]
           /\ Schedule(TRUE, doc')
    <2>1. doc' \in Doc /\ doc'.edit = doc.edit
        <3>1. doc \in Doc
            BY <1>1 DEF TypeOK
        <3>2. 1 - doc.curve \in {0, 1}
            BY <3>1 DEF Doc
        <3>3. QED
            BY <1>9, <3>1, <3>2 DEF Doc
    <2>2. PICK d \in Doc : d = doc'
        BY <2>1
    <2>3. timer' = FALSE /\ RebuildNow(d)
        BY <1>9, <2>2 DEF Schedule
    <2>4. doc.edit <= d.edit /\ d.edit <= gestures'
        BY <1>1, <1>2, <2>1, <2>2 DEF IInv, EditsInOrder, TypeOK, Doc
    <2>5. CallTypes
        BY <1>1, <2>3, RebuildNowType
    <2>6. MicroInOrder' /\ FlagMeansOpen'
        BY <1>6, <1>7, <2>3, RebuildNowCalls
    <2>7. NothingForgotten' /\ AnswerIsShown' /\ EditsInOrder'
        BY <1>2, <1>6, <2>2, <2>3, <2>4, RebuildNowDocs
    <2>8. AddIsAwaited'
        BY <1>2, <2>2, <2>3, <2>4, RebuildNowAdd
    <2>9. streak' \in 0 .. ValveLimit
        BY <1>1, <1>9, PipelineAssumption DEF TypeOK
    <2>10. TypeOK'
        BY <1>1, <1>2, <1>7, <2>1, <2>3, <2>5, <2>9 DEF TypeOK, CallTypes
    <2>11. QED
        BY <1>7, <2>6, <2>7, <2>8, <2>10 DEF IInv
<1>10. QED
    BY <1>8, <1>9 DEF Land

\* What a continuation finds: it is alone in the queue, no call is open, and the
\* reply it holds answers the last one.
LEMMA SettlingAlone ==
    ASSUME IInv, Settling
    PROVE  /\ Head(micro) \in Settled
           /\ Tail(micro) = <<>>
           /\ calls = <<>>
           /\ rebuilding
           /\ Head(micro).call.doc = asked
           /\ asked \in Doc
<1>1. TypeOK /\ MicroInOrder
    BY DEF IInv
<1>2. micro # <<>> /\ Head(micro).step = "settle"
    BY DEF Settling, Running
<1>3. Head(micro) = micro[1] /\ micro[1] \in Task
    BY <1>1, <1>2, MicroHead
<1>4. Head(micro) \in Settled
    BY <1>2, <1>3, TaskKinds
<1>5. Tail(micro) = <<>>
    <2>1. ~InOrder(micro[1], micro[2])
        BY <1>2, <1>3 DEF InOrder
    <2>2. QED
        BY <1>1, <1>2, <2>1, MicroHead
<1>6. calls = <<>> /\ rebuilding /\ Head(micro).call.doc = asked
    BY <1>2 DEF IInv, FlagMeansOpen
<1>7. asked \in Doc
    BY <1>4, <1>6 DEF Settled, OpenCall
<1>8. QED
    BY <1>4, <1>5, <1>6, <1>7

LEMMA SettleStep ==
    ASSUME IInv, Settle
    PROVE  IInv'
<1>1. TypeOK /\ MicroInOrder
    BY DEF IInv
<1>2. Settling
    BY DEF Settle, Settling
<1>3. PICK r \in Settled : r = Head(micro)
    BY <1>2, SettlingAlone
<1>4. /\ Tail(micro) = <<>> /\ calls = <<>> /\ rebuilding
      /\ r.call.doc = asked /\ asked \in Doc /\ asked # Null
      /\ r.outcome \in Outcome
    BY <1>2, <1>3, SettlingAlone, PipelineAssumption DEF Settled
<1>5. PICK d \in Doc : /\ d = IF Withdraws(r) THEN [doc EXCEPT !.added = 0] ELSE doc
                       /\ d.edit = doc.edit
                       /\ Withdraws(r) \/ d = doc
    <2>1. doc \in Doc /\ 0 \in 0 .. MaxGestures
        BY <1>1, PipelineAssumption DEF TypeOK
    <2>2. [doc EXCEPT !.added = 0] \in Doc /\ [doc EXCEPT !.added = 0].edit = doc.edit
        BY <2>1 DEF Doc
    <2>3. QED
        BY <2>1, <2>2
<1>6. PICK refresh \in {<<>>, <<asked>>} : refresh = Refreshes(r, StreakAfter(r))
    BY <1>4 DEF Refreshes
<1>7. PICK commit \in {<<>>, <<[step |-> "commit"]>>} :
          /\ commit = IF refresh # <<>> /\ chain = <<>> THEN <<[step |-> "commit"]>> ELSE <<>>
          /\ commit # <<>> => refresh # <<>> /\ chain = <<>>
    OBVIOUS
<1>8. /\ shown' = IF r.outcome = "ok" THEN asked ELSE shown
      /\ doc' = d
      /\ timer' = (timer \/ Withdraws(r))
      /\ streak' = StreakAfter(r)
      /\ chain' = chain \o refresh
      /\ adding' = IF adding = Null \/ AddIsDone THEN Null ELSE [adding EXCEPT !.behind = FALSE]
      /\ UNCHANGED <<solving, waiting, importing, gestures>>
    BY <1>3, <1>4, <1>5, <1>6, <1>7 DEF Settle
<1>9. \/ /\ NextRound(r, d)
         /\ micro' = Tail(micro) \o commit
      \/ /\ LoopEnds
         /\ micro' \in {Tail(micro) \o commit, Tail(micro) \o commit \o <<[step |-> "busyDone"]>>}
    BY <1>3, <1>5, <1>6, <1>7 DEF Settle
<1>10. /\ NextRound(r, d) => micro' = commit
       /\ micro' \in {commit, commit \o <<[step |-> "busyDone"]>>}
    <2>1. Tail(micro) \o commit = commit
        BY <1>4, <1>7, Plain, ConcatShort
    <2>2. NextRound(r, d) => ~LoopEnds
        BY <1>1, <1>4 DEF NextRound, LoopEnds, TypeOK
    <2>3. QED
        BY <1>9, <2>1, <2>2
<1>11. micro' \in {<<>>, <<[step |-> "commit"]>>, <<[step |-> "busyDone"]>>,
                   <<[step |-> "commit"], [step |-> "busyDone"]>>}
    BY <1>7, <1>10, Plain, ConcatShort
<1>12. micro' \in Seq(Task) /\ MicroInOrder' /\ ~Settling'
    <2>1. CASE micro' = <<>>
        BY <2>1 DEF MicroInOrder, Settling, Running
    <2>2. CASE micro' = <<[step |-> "commit"]>>
        BY <2>2, Plain DEF MicroInOrder, Settling, Running
    <2>3. CASE micro' = <<[step |-> "busyDone"]>>
        BY <2>3, Plain DEF MicroInOrder, Settling, Running
    <2>4. CASE micro' = <<[step |-> "commit"], [step |-> "busyDone"]>>
        BY <2>4, Plain DEF MicroInOrder, InOrder, Settling, Running
    <2>5. QED
        BY <1>11, <2>1, <2>2, <2>3, <2>4
<1>13. chain' \in Seq(Doc) /\ (chain # <<>> \/ refresh # <<>> => chain' # <<>>)
    <2>1. chain \in Seq(Doc) /\ refresh \in Seq(Doc)
        <3>1. <<>> \in Seq(Doc) /\ <<asked>> \in Seq(Doc)
            BY <1>4
        <3>2. QED
            BY <1>1, <1>6, <3>1, Zenon DEF TypeOK
    <2>2. chain' \in Seq(Doc) /\ Len(chain') = Len(chain) + Len(refresh)
        BY <1>8, <2>1, ConcatProperties
    <2>3. PICK m \in Nat, n \in Nat : m = Len(chain) /\ n = Len(refresh)
        BY <2>1
    <2>4. (chain # <<>> => m # 0) /\ (refresh # <<>> => n # 0)
        BY <2>1, <2>3, EmptySeq
    <2>5. m # 0 \/ n # 0 => Len(chain') # 0
        BY <2>2, <2>3
    <2>6. QED
        BY <2>2, <2>4, <2>5
<1>14. ChainMoves'
    <2>1. (\A i \in DOMAIN micro' : ~Committing(micro'[i])) \/ commit # <<>>
        <3>1. CASE commit = <<>>
            <4>1. micro' \in {<<>>, <<[step |-> "busyDone"]>>}
                BY <1>10, <3>1, Plain, ConcatShort
            <4>2. QED
                BY <4>1 DEF Committing
        <3>2. QED
            BY <3>1
    <2>2. waiting => chain # <<>>
        BY DEF IInv, ChainMoves
    <2>3. QED
        BY <1>7, <1>8, <1>13, <2>1, <2>2 DEF ChainMoves
<1>15. CallTypes /\ FlagMeansOpen' /\ NothingForgotten' /\ AnswerIsShown' /\ EditsInOrder'
       /\ AddIsAwaited'
    <2>1. /\ EditsInOrder /\ AddIsAwaited /\ NothingForgotten /\ AnswerIsShown
          /\ doc.edit \in Nat /\ asked.edit \in Nat
          /\ shown # Null => shown.edit \in Nat
          /\ adding # Null => adding.edit \in Nat
        <3>1. doc \in Doc /\ (shown # Null => shown \in Doc)
            BY <1>1 DEF TypeOK
        <3>2. adding # Null => adding.edit \in Nat
            BY <1>1, PipelineAssumption DEF TypeOK
        <3>3. QED
            BY <1>4, <3>1, <3>2, PipelineAssumption DEF IInv, Doc
    <2>2. /\ doc'.edit = doc.edit
          /\ shown' # Null => shown'.edit <= asked.edit
          /\ asked.edit <= doc.edit
        BY <1>4, <1>5, <1>8, <2>1 DEF EditsInOrder
    <2>3. adding' # Null => adding # Null /\ adding'.edit = adding.edit /\ adding'.behind = FALSE
        <3>1. CASE adding = Null \/ AddIsDone
            BY <1>8, <3>1
        <3>2. CASE ~(adding = Null \/ AddIsDone)
            <4>1. adding \in [edit : 1 .. MaxGestures, behind : BOOLEAN]
                BY <1>1, <3>2 DEF TypeOK
            <4>2. adding' = [adding EXCEPT !.behind = FALSE]
                BY <1>8, <3>2
            <4>3. QED
                BY <3>2, <4>1, <4>2
        <3>3. QED
            BY <3>1, <3>2
    <2>4. CASE NextRound(r, d)
        <3>1. /\ queued' = FALSE /\ rebuilding' = rebuilding /\ busy' = busy
              /\ calls' = <<[kind |-> "rebuild", doc |-> d]>>
              /\ asked' = d /\ answer' = Null
            BY <1>4, <2>4 DEF NextRound, Ask
        <3>2. [kind |-> "rebuild", doc |-> d] \in OpenCall
            BY DEF OpenCall
        <3>3. CallTypes
            <4>1. <<[kind |-> "rebuild", doc |-> d]>> \in Seq(OpenCall)
                BY <3>2
            <4>2. QED
                BY <1>1, <3>1, <4>1, Zenon DEF CallTypes, TypeOK
        <3>4. micro' = <<>> \/ micro' = <<[step |-> "commit"]>>
            BY <1>7, <1>10, <2>4
        <3>5. micro' = <<>> \/ Head(micro').step \in {"commit", "solve"}
            BY <3>4
        <3>6. Len(micro') <= 1
            BY <3>4
        <3>7. FlagMeansOpen'
            BY <1>4, <1>12, <3>1, <3>5, <3>6 DEF FlagMeansOpen, OneInFlight
        <3>8. NothingForgotten' /\ AnswerIsShown'
            BY <1>8, <3>1 DEF NothingForgotten, AnswerIsShown
        <3>9. EditsInOrder'
            <4>1. d # Null /\ d.edit = doc.edit
                BY <1>5, PipelineAssumption
            <4>2. shown' # Null => shown'.edit \in Nat
                BY <1>8, <2>1
            <4>3. shown' # Null => shown'.edit <= d.edit
                BY <2>1, <2>2, <4>1, <4>2
            <4>4. QED
                BY <1>8, <2>1, <3>1, <4>1, <4>3 DEF EditsInOrder
        <3>10. AddIsAwaited'
            BY <1>5, <2>1, <2>2, <2>3, <3>1 DEF AddIsAwaited
        <3>11. QED
            BY <3>3, <3>7, <3>8, <3>9, <3>10
    <2>5. CASE LoopEnds
        <3>1. rebuilding' = FALSE /\ UNCHANGED <<queued, calls, asked, answer, busy>>
            BY <2>5 DEF LoopEnds
        <3>2. CallTypes
            BY <1>1, <3>1 DEF CallTypes, TypeOK
        <3>3. FlagMeansOpen'
            BY <1>4, <1>12, <3>1 DEF FlagMeansOpen, OneInFlight
        <3>4. NothingForgotten'
            BY <1>5, <1>8, <2>1, <3>1 DEF NothingForgotten
        <3>5. AnswerIsShown'
            BY <1>3, <1>4, <1>8, <2>1, <3>1 DEF AnswerIsShown
        <3>6. EditsInOrder'
            BY <1>4, <1>5, <1>8, <2>1, <2>2, <3>1 DEF EditsInOrder
        <3>7. AddIsAwaited'
            BY <1>5, <2>1, <2>2, <2>3, <3>1 DEF AddIsAwaited
        <3>8. QED
            BY <3>2, <3>3, <3>4, <3>5, <3>6, <3>7
    <2>6. QED
        BY <1>9, <2>4, <2>5
<1>16. TypeOK'
    <2>1. adding' \in [edit : 1 .. MaxGestures, behind : BOOLEAN] \cup {Null}
        BY <1>1, <1>8 DEF TypeOK
    <2>2. streak' \in 0 .. ValveLimit
        <3>1. streak \in 0 .. ValveLimit /\ 0 \in 0 .. ValveLimit
            BY <1>1, PipelineAssumption DEF TypeOK
        <3>2. QED
            BY <1>8, <3>1 DEF StreakAfter
    <2>3. timer' \in BOOLEAN
        BY <1>8
    <2>4. shown' \in Doc \cup {Null}
        BY <1>1, <1>4, <1>8 DEF TypeOK
    <2>5. QED
        BY <1>1, <1>5, <1>8, <1>12, <1>13, <1>15, <2>1, <2>2, <2>3, <2>4 DEF TypeOK, CallTypes
<1>17. QED
    BY <1>12, <1>14, <1>15, <1>16 DEF IInv

-----------------------------------------------------------------------------
LEMMA IInvInit == Init => IInv
<1> SUFFICES ASSUME Init PROVE IInv
    OBVIOUS
<1>1. Blank \in Doc /\ Blank.edit = 0
    BY PipelineAssumption DEF Blank, Doc
<1>2. TypeOK
    <2>1. <<>> \in Seq(OpenCall) /\ <<>> \in Seq(Task) /\ <<>> \in Seq(Doc)
        BY EmptySeq
    <2>2. 0 \in 0 .. ValveLimit /\ 0 \in 0 .. MaxGestures
        BY PipelineAssumption
    <2>3. QED
        BY <1>1, <2>1, <2>2, Zenon DEF Init, TypeOK
<1>3. MicroInOrder /\ ChainMoves /\ FlagMeansOpen
    BY DEF Init, MicroInOrder, ChainMoves, FlagMeansOpen, OneInFlight, Settling, Running
<1>4. NothingForgotten /\ AnswerIsShown /\ EditsInOrder /\ AddIsAwaited
    BY <1>1 DEF Init, NothingForgotten, AnswerIsShown, EditsInOrder, AddIsAwaited
<1>5. QED
    BY <1>2, <1>3, <1>4 DEF IInv

LEMMA IInvStutter ==
    ASSUME IInv, UNCHANGED vars
    PROVE  IInv'
<1>1. TypeOK' /\ MicroInOrder' /\ ChainMoves'
    BY DEF IInv, vars, TypeOK, MicroInOrder, InOrder, ChainMoves, Committing
<1>2. FlagMeansOpen' /\ NothingForgotten' /\ AnswerIsShown' /\ EditsInOrder' /\ AddIsAwaited'
    BY DEF IInv, vars, FlagMeansOpen, OneInFlight, Settling, Running, NothingForgotten,
           AnswerIsShown, EditsInOrder, AddIsAwaited
<1>3. QED
    BY <1>1, <1>2 DEF IInv

LEMMA IInvStep == IInv /\ [Next]_vars => IInv'
<1> SUFFICES ASSUME IInv, [Next]_vars PROVE IInv'
    OBVIOUS
<1>1. CASE User
    BY <1>1, EditStep, AddFeatureAndBuildStep, PreviewStep, ReplaceStep, ComputeAllNowStep,
       ConnectedStep, ImportStartsStep DEF User
<1>2. CASE ImportEnds \/ TimerFires \/ Deliver \/ SolverReady
    BY <1>2, ImportEndsStep, TimerFiresStep, DeliverStep, SolverReadyStep
<1>3. CASE Microtask
    BY <1>3, SettleStep, BusyDoneStep, RebuildDoneStep, CommitStep, SolveTickStep, LandStep
       DEF Microtask
<1>4. CASE UNCHANGED vars
    BY <1>4, IInvStutter
<1>5. QED
    BY <1>1, <1>2, <1>3, <1>4 DEF Next

\* The inductive invariant holds of every behaviour of the pipeline.
THEOREM Invariant == Spec => []IInv
BY IInvInit, IInvStep, PTL DEF Spec

\* rebuildNow and computeAllNow never have two calls to the sidecar open.
THEOREM OneCallAtATime == Spec => []OneInFlight
<1>1. IInv => OneInFlight
    BY DEF IInv, FlagMeansOpen
<1>2. QED
    BY <1>1, Invariant, PTL

\* When the store is at rest the document on screen is the document, or a rebuild
\* of it is still queued, or its build failed.
THEOREM RestsOnTheDocument == Spec => []CurrentWhenIdle
<1>1. IInv => CurrentWhenIdle
    <2> SUFFICES ASSUME IInv, Idle PROVE queued \/ doc = Blank \/ (asked = doc /\ (answer # Null => shown = doc))
        BY DEF CurrentWhenIdle
    <2>1. ~Settling /\ ~timer
        BY DEF Idle, Settling, Running
    <2>2. QED
        BY <2>1 DEF IInv, NothingForgotten, AnswerIsShown
<1>2. QED
    BY <1>1, Invariant, PTL

-----------------------------------------------------------------------------
(* What a step may never do.                                               *)

\* Only the continuation of a call puts a model on screen.
LEMMA ShownBySettle ==
    ASSUME [Next]_vars
    PROVE  Settle \/ shown' \in {shown, Null}
<1>1. CASE User
    BY <1>1 DEF User, Edit, AddFeatureAndBuild, Preview, Replace, ComputeAllNow, Connected,
                ImportStarts
<1>2. CASE ImportEnds \/ TimerFires \/ Deliver \/ SolverReady
    BY <1>2 DEF ImportEnds, TimerFires, Deliver, SolverReady
<1>3. CASE Microtask
    BY <1>3 DEF Microtask, BusyDone, RebuildDone, Commit, SolveTick, Land
<1>4. CASE UNCHANGED vars
    BY <1>4 DEF vars
<1>5. QED
    BY <1>1, <1>2, <1>3, <1>4 DEF Next

\* The model on screen is never replaced by that of an older document.
THEOREM NeverGoesBack == Spec => NeverShowsOlder
<1>1. ASSUME IInv, [Next]_vars, shown # Null, shown' # Null
      PROVE  shown'.edit >= shown.edit
    <2>1. TypeOK /\ EditsInOrder
        BY <1>1 DEF IInv
    <2>2. shown \in Doc /\ shown.edit \in Nat
        BY <1>1, <2>1, PipelineAssumption DEF TypeOK, Doc
    <2>3. CASE Settle
        <3>1. Settling
            BY <2>3 DEF Settle, Settling
        <3>2. asked \in Doc /\ Head(micro).call.doc = asked
            BY <1>1, <3>1, SettlingAlone
        <3>3. shown' \in {shown, asked}
            BY <2>3, <3>2 DEF Settle
        <3>4. asked.edit \in Nat /\ shown.edit <= asked.edit
            BY <1>1, <2>1, <3>2, PipelineAssumption DEF EditsInOrder, Doc
        <3>5. QED
            BY <2>2, <3>3, <3>4
    <2>4. CASE shown' \in {shown, Null}
        BY <1>1, <2>2, <2>4
    <2>5. QED
        BY <1>1, <2>3, <2>4, ShownBySettle
<1>2. IInv /\ [Next]_vars => [shown # Null /\ shown' # Null => shown'.edit >= shown.edit]_vars
    BY <1>1
<1>3. QED
    BY <1>2, Invariant, PTL DEF Spec, NeverShowsOlder

\* addFeatureAndBuild reports on a build that has its feature, and a cancelled one
\* is not built again.
THEOREM ReportsTheRightBuild == Spec => AddReportsItsBuild
<1>1. ASSUME IInv, [Next]_vars, adding # Null, adding' = Null, Running("settle")
      PROVE  /\ Head(micro).call.doc.edit >= adding.edit
             /\ Head(micro).outcome = "cancelled" =>
                   \A i \in DOMAIN calls' : calls'[i].doc.added # adding.edit
    <2>1. TypeOK /\ AddIsAwaited /\ MicroInOrder
        BY <1>1 DEF IInv
    <2>2. Settling
        BY <1>1 DEF Settling
    <2>3. micro # <<>> /\ Head(micro).step = "settle"
        BY <1>1 DEF Running
    <2>4. Settle
        <3>1. ~(UNCHANGED vars)
            BY <1>1 DEF vars
        <3>2. ~User
            BY <2>3 DEF User, Edit, AddFeatureAndBuild, Preview, Replace, ComputeAllNow,
                        Connected, ImportStarts, Gesture
        <3>3. ~(ImportEnds \/ TimerFires \/ Deliver \/ SolverReady)
            BY <2>3 DEF ImportEnds, TimerFires, Deliver, SolverReady
        <3>4. Microtask
            BY <1>1, <3>1, <3>2, <3>3 DEF Next
        <3>5. QED
            BY <2>3, <3>4 DEF Microtask, BusyDone, RebuildDone, Commit, SolveTick, Land, Running
    <2>5. /\ calls = <<>> /\ rebuilding /\ asked \in Doc
          /\ Head(micro).call.doc = asked
        BY <1>1, <2>2, SettlingAlone
    <2>6. adding \in [edit : 1 .. MaxGestures, behind : BOOLEAN]
        BY <1>1, <2>1 DEF TypeOK
    <2>7. AddIsDone
        <3>1. SUFFICES ASSUME ~AddIsDone PROVE FALSE
            OBVIOUS
        <3>2. adding' = [adding EXCEPT !.behind = FALSE]
            BY <1>1, <2>4, <3>1 DEF Settle
        <3>3. adding' \in [edit : Nat, behind : BOOLEAN]
            <4>1. adding' = [edit |-> adding.edit, behind |-> FALSE]
                BY <2>6, <3>2
            <4>2. adding.edit \in Nat
                BY <2>6, PipelineAssumption
            <4>3. QED
                BY <4>1, <4>2
        <3>4. QED
            BY <1>1, <3>3, PipelineAssumption
    <2>8. ~adding.behind
        BY <2>7 DEF AddIsDone
    <2>9. asked.edit >= adding.edit
        BY <1>1, <2>1, <2>5, <2>8 DEF AddIsAwaited
    <2>10. ASSUME Head(micro).outcome = "cancelled"
           PROVE  \A i \in DOMAIN calls' : calls'[i].doc.added # adding.edit
        <3>1. PICK r : r = Head(micro)
            OBVIOUS
        <3>2. PICK d : d = IF Withdraws(r) THEN [doc EXCEPT !.added = 0] ELSE doc
            OBVIOUS
        <3>3. d.added # adding.edit
            <4>1. doc \in Doc /\ adding.edit # 0
                BY <2>1, <2>6 DEF TypeOK
            <4>2. CASE Withdraws(r)
                BY <3>2, <4>1, <4>2 DEF Doc
            <4>3. CASE ~Withdraws(r)
                BY <2>7, <2>10, <3>1, <3>2, <4>3 DEF Withdraws
            <4>4. QED
                BY <4>2, <4>3
        <3>4. NextRound(r, d) \/ LoopEnds
            BY <2>4, <3>1, <3>2 DEF Settle
        <3>5. calls' = <<[kind |-> "rebuild", doc |-> d]>> \/ calls' = <<>>
            <4>1. CASE NextRound(r, d)
                BY <2>5, <4>1 DEF NextRound, Ask
            <4>2. CASE LoopEnds
                BY <2>5, <4>2 DEF LoopEnds
            <4>3. QED
                BY <3>4, <4>1, <4>2
        <3>6. QED
            BY <3>3, <3>5
    <2>11. QED
        BY <2>5, <2>9, <2>10
<1>2. IInv /\ [Next]_vars =>
        [(adding # Null /\ adding' = Null /\ Running("settle")) =>
            /\ Head(micro).call.doc.edit >= adding.edit
            /\ Head(micro).outcome = "cancelled" =>
                  \A i \in DOMAIN calls' : calls'[i].doc.added # adding.edit]_vars
    BY <1>1
<1>3. QED
    BY <1>2, Invariant, PTL DEF Spec, AddReportsItsBuild

-----------------------------------------------------------------------------
(* The store is a caller the geometry client's service was made for.       *)

\* A step touches no call, opens the one call there is, or settles it.
Touches ==
    \/ UNCHANGED <<calls, asked, answer>>
    \/ calls = <<>> /\ calls' # <<>> /\ answer' = Null
    \/ calls # <<>> /\ calls' = <<>> /\ answer' \in {Null, asked}

LEMMA RebuildNowTouches ==
    ASSUME IInv, NEW d, RebuildNow(d), ~Settling
    PROVE  Touches
<1>1. CASE rebuilding
    BY <1>1 DEF RebuildNow, Touches
<1>2. CASE ~rebuilding
    <2>1. calls = <<>>
        BY <1>2 DEF IInv, FlagMeansOpen
    <2>2. calls' = <<[kind |-> "rebuild", doc |-> d]>> /\ answer' = Null
        BY <1>2, <2>1 DEF RebuildNow, Ask
    <2>3. QED
        BY <2>1, <2>2 DEF Touches
<1>3. QED
    BY <1>1, <1>2

LEMMA ScheduleTouches ==
    ASSUME IInv, NEW immediate, NEW d, Schedule(immediate, d), ~Settling
    PROVE  Touches
<1>1. CASE immediate
    BY <1>1, RebuildNowTouches DEF Schedule
<1>2. CASE ~immediate
    BY <1>2 DEF Schedule, callVars, Touches
<1>3. QED
    BY <1>1, <1>2

LEMMA StepTouches ==
    ASSUME IInv, [Next]_vars
    PROVE  Touches
<1>1. micro = <<>> => ~Settling
    BY DEF Settling, Running
<1>2. ASSUME NEW immediate \in BOOLEAN, NEW rearm \in BOOLEAN, Edit(immediate, rearm)
      PROVE  Touches
    <2>1. micro = <<>> /\ \E d : Schedule(immediate, d)
        BY <1>2 DEF Edit, Gesture
    <2>2. QED
        BY <1>1, <2>1, ScheduleTouches
<1>3. CASE AddFeatureAndBuild \/ Replace \/ \E on \in BOOLEAN : Preview(on)
    <2>1. micro = <<>> /\ \E d : Schedule(TRUE, d)
        BY <1>3 DEF AddFeatureAndBuild, Replace, Preview, Gesture
    <2>2. QED
        BY <1>1, <2>1, ScheduleTouches
<1>4. CASE ComputeAllNow
    <2>1. CASE rebuilding
        BY <1>4, <2>1 DEF ComputeAllNow, Touches
    <2>2. CASE ~rebuilding
        <3>1. calls = <<>>
            BY <2>2 DEF IInv, FlagMeansOpen
        <3>2. calls' = <<[kind |-> "computeAll", doc |-> doc]>> /\ answer' = Null
            BY <1>4, <2>2, <3>1 DEF ComputeAllNow, Ask
        <3>3. QED
            BY <3>1, <3>2 DEF Touches
    <2>3. QED
        BY <2>1, <2>2
<1>5. CASE Connected \/ TimerFires
    BY <1>1, <1>5, RebuildNowTouches DEF Connected, TimerFires, Gesture
<1>6. CASE ImportStarts \/ ImportEnds \/ SolverReady \/ BusyDone \/ RebuildDone \/ Commit
           \/ SolveTick \/ UNCHANGED vars
    BY <1>6 DEF ImportStarts, ImportEnds, SolverReady, BusyDone, RebuildDone, Commit,
                SolveTick, callVars, vars, Touches
<1>7. CASE Land
    <2>1. CASE UNCHANGED callVars
        BY <2>1 DEF callVars, Touches
    <2>2. CASE \E d : Schedule(TRUE, d)
        <3>1. ~Settling
            BY <1>7 DEF Land, Running, Settling
        <3>2. QED
            BY <2>2, <3>1, ScheduleTouches
    <2>3. QED
        BY <1>7, <2>1, <2>2 DEF Land
<1>8. CASE Settle
    <2>1. calls = <<>>
        BY <1>8, SettlingAlone DEF Settle, Settling
    <2>2. (\E r, d : NextRound(r, d)) \/ LoopEnds
        BY <1>8 DEF Settle
    <2>3. CASE LoopEnds
        BY <2>3 DEF LoopEnds, Touches
    <2>4. CASE \E r, d : NextRound(r, d)
        <3>1. PICK r, d : NextRound(r, d)
            BY <2>4
        <3>2. calls' = <<[kind |-> "rebuild", doc |-> d]>> /\ answer' = Null
            BY <2>1, <3>1 DEF NextRound, Ask
        <3>3. QED
            BY <2>1, <3>2 DEF Touches
    <2>5. QED
        BY <2>2, <2>3, <2>4
<1>9. CASE Deliver
    <2>1. PICK i \in DOMAIN calls, outcome \in Outcome :
              /\ calls' = SubSeq(calls, 1, i - 1) \o SubSeq(calls, i + 1, Len(calls))
              /\ answer' = IF outcome = "ok" THEN calls[i].doc ELSE Null
        BY <1>9 DEF Deliver
    <2>2. calls \in Seq(OpenCall) /\ Len(calls) <= 1
        BY DEF IInv, TypeOK, FlagMeansOpen, OneInFlight
    <2>3. i = 1 /\ Len(calls) = 1 /\ calls # <<>>
        <3>1. PICK n \in Nat : n = Len(calls)
            BY <2>2
        <3>2. i \in 1 .. n /\ n <= 1
            BY <2>2, <3>1
        <3>3. i = 1 /\ n = 1
            BY <3>1, <3>2
        <3>4. QED
            BY <3>1, <3>3
    <2>4. calls' = <<>>
        <3>1. calls' = SubSeq(calls, 1, 0) \o SubSeq(calls, 2, 1)
            BY <2>1, <2>3
        <3>2. SubSeq(calls, 1, 0) = <<>> /\ SubSeq(calls, 2, 1) = <<>>
            OBVIOUS
        <3>3. <<>> \o <<>> = <<>>
            BY Plain, ConcatShort
        <3>4. QED
            BY <3>1, <3>2, <3>3
    <2>5. calls[1].doc = asked
        BY <2>3 DEF IInv, FlagMeansOpen
    <2>6. QED
        BY <2>1, <2>3, <2>4, <2>5 DEF Touches
<1>10. QED
    BY <1>2, <1>3, <1>4, <1>5, <1>6, <1>7, <1>8, <1>9 DEF Next, User, Microtask

\* The document of the open call is a document.
LEMMA OpenIsDoc == IInv /\ calls # <<>> => asked \in Doc
<1> SUFFICES ASSUME IInv, calls # <<>> PROVE asked \in Doc
    OBVIOUS
<1>1. calls \in Seq(OpenCall) /\ calls[1].doc = asked
    BY DEF IInv, TypeOK, FlagMeansOpen
<1>2. Len(calls) # 0
    BY <1>1, EmptySeq
<1>3. calls[1] \in OpenCall
    BY <1>1, <1>2
<1>4. QED
    BY <1>1, <1>3 DEF OpenCall

\* The store asks for one rebuild at a time and waits for its answer: it is a
\* caller as the abstract service, which DeltaSync implements, takes one.
THEOREM UsesTheService == Spec => WaitsForEachAnswer
<1>1. Init => Service!Init
    BY DEF Init, Service!Init
<1>2. ASSUME IInv, IInv', [Next]_vars
      PROVE  [Service!Next]_(Service!vars)
    <2>1. Touches
        BY <1>2, StepTouches
    <2>2. CASE UNCHANGED <<calls, asked, answer>>
        BY <2>2 DEF Service!vars
    <2>3. CASE calls = <<>> /\ calls' # <<>> /\ answer' = Null
        <3>1. asked' \in Doc
            <4>1. (IInv /\ calls # <<>> => asked \in Doc)'
                BY OpenIsDoc, PTL
            <4>2. QED
                BY <1>2, <2>3, <4>1
        <3>2. Service!Ask(asked')
            BY <2>3 DEF Service!Ask
        <3>3. QED
            BY <3>1, <3>2 DEF Service!Next
    <2>4. CASE calls # <<>> /\ calls' = <<>> /\ answer' \in {Null, asked}
        <3>1. asked \in Doc /\ asked # Null
            BY <1>2, <2>4, OpenIsDoc, PipelineAssumption
        <3>2. CASE answer' = Null
            <4>1. Service!Fail
                BY <2>4, <3>1, <3>2 DEF Service!Fail
            <4>2. QED
                BY <4>1 DEF Service!Next, Service!Settle
        <3>3. CASE answer' = asked
            <4>1. Service!Build(asked)
                BY <2>4, <3>1, <3>3 DEF Service!Build, SameDoc
            <4>2. QED
                BY <3>1, <4>1 DEF Service!Next, Service!Settle
        <3>4. QED
            BY <2>4, <3>2, <3>3
    <2>5. QED
        BY <2>1, <2>2, <2>3, <2>4 DEF Touches
<1>3. QED
    BY <1>1, <1>2, Invariant, PTL DEF Spec, Service!Spec, WaitsForEachAnswer

-----------------------------------------------------------------------------
(* The Cancel button.                                                      *)

\* Whoever keeps the busy state up is still to take it down: an import, or a
\* rebuild whose loop has not run its `finally`.
BusyHasCause ==
    busy => \/ importing # "none"
            \/ calls # <<>> /\ calls[1].kind = "rebuild"
            \/ Settling /\ Head(micro).call.kind = "rebuild"
            \/ \E i \in DOMAIN micro : micro[i].step = "busyDone"

\* A rebuild that starts, or is queued behind an open call.
LEMMA RebuildNowBusy ==
    ASSUME IInv, NEW d, RebuildNow(d), ~Settling, importing' = importing,
           busy => importing # "none" \/ (calls # <<>> /\ calls[1].kind = "rebuild")
    PROVE  BusyHasCause'
<1>1. CASE rebuilding
    BY <1>1 DEF RebuildNow, BusyHasCause
<1>2. CASE ~rebuilding
    <2>1. calls = <<>>
        BY <1>2 DEF IInv, FlagMeansOpen
    <2>2. calls' = <<[kind |-> "rebuild", doc |-> d]>>
        BY <1>2, <2>1 DEF RebuildNow, Ask
    <2>3. calls' # <<>> /\ calls'[1].kind = "rebuild"
        BY <2>2
    <2>. QED
        BY <2>3 DEF BusyHasCause
<1>. QED
    BY <1>1, <1>2

LEMMA ScheduleBusy ==
    ASSUME IInv, NEW immediate, NEW d, Schedule(immediate, d), ~Settling, importing' = importing,
           busy => importing # "none" \/ (calls # <<>> /\ calls[1].kind = "rebuild")
    PROVE  BusyHasCause'
<1>1. CASE immediate
    BY <1>1, RebuildNowBusy DEF Schedule
<1>2. CASE ~immediate
    BY <1>2 DEF Schedule, callVars, BusyHasCause
<1>. QED
    BY <1>1, <1>2

LEMMA MacrotaskBusy ==
    ASSUME IInv, BusyHasCause, User \/ ImportEnds \/ TimerFires \/ Deliver \/ SolverReady
    PROVE  BusyHasCause'
<1>1. micro = <<>> /\ ~Settling
    BY DEF User, Edit, AddFeatureAndBuild, Preview, Replace, ComputeAllNow, Connected,
           ImportStarts, Gesture, ImportEnds, TimerFires, Deliver, SolverReady, Settling, Running
<1>2. busy => importing # "none" \/ (calls # <<>> /\ calls[1].kind = "rebuild")
    BY <1>1 DEF BusyHasCause
<1>3. ASSUME NEW immediate \in BOOLEAN, NEW rearm \in BOOLEAN, Edit(immediate, rearm)
      PROVE  BusyHasCause'
    <2>1. importing' = importing /\ \E d : Schedule(immediate, d)
        BY <1>3 DEF Edit
    <2>. QED
        BY <1>1, <1>2, <2>1, ScheduleBusy
<1>4. CASE AddFeatureAndBuild \/ Replace \/ \E on \in BOOLEAN : Preview(on)
    <2>1. importing' = importing /\ \E d : Schedule(TRUE, d)
        BY <1>4 DEF AddFeatureAndBuild, Replace, Preview
    <2>. QED
        BY <1>1, <1>2, <2>1, ScheduleBusy
<1>5. CASE Connected \/ TimerFires
    BY <1>1, <1>2, <1>5, RebuildNowBusy DEF Connected, TimerFires
<1>6. CASE ComputeAllNow
    <2>1. busy' = busy /\ importing' = importing
        BY <1>6 DEF ComputeAllNow
    <2>2. CASE rebuilding
        BY <1>2, <1>6, <2>1, <2>2 DEF ComputeAllNow, BusyHasCause
    <2>3. CASE ~rebuilding
        <3>1. calls = <<>>
            BY <2>3 DEF IInv, FlagMeansOpen
        <3>. QED
            BY <1>2, <2>1, <3>1 DEF BusyHasCause
    <2>. QED
        BY <2>2, <2>3
<1>7. CASE ImportStarts
    <2>1. importing' # "none"
        BY <1>7 DEF ImportStarts
    <2>. QED
        BY <2>1 DEF BusyHasCause
<1>8. CASE ImportEnds
    BY <1>8 DEF ImportEnds, BusyHasCause
<1>9. CASE SolverReady
    BY <1>2, <1>9 DEF SolverReady, callVars, BusyHasCause
<1>10. CASE Deliver
    <2>1. PICK i \in DOMAIN calls, outcome \in Outcome, moved \in BOOLEAN :
              micro' = <<[step |-> "settle", call |-> calls[i],
                          outcome |-> outcome, moved |-> moved]>>
        BY <1>10 DEF Deliver
    <2>2. calls \in Seq(OpenCall) /\ Len(calls) <= 1
        BY DEF IInv, TypeOK, FlagMeansOpen, OneInFlight
    <2>3. i = 1
        BY <2>1, <2>2
    <2>4. Settling' /\ Head(micro').call = calls[1]
        BY <2>1, <2>3 DEF Settling, Running
    <2>5. busy' = busy /\ (importing # "none" => importing' # "none")
        BY <1>10 DEF Deliver
    <2>. QED
        BY <1>2, <2>4, <2>5 DEF BusyHasCause
<1>. QED
    BY <1>3, <1>4, <1>5, <1>6, <1>7, <1>8, <1>9, <1>10 DEF User

\* What is queued behind a task that runs.
LEMMA BusyDoneIsBehind ==
    ASSUME IInv, micro # <<>>, Head(micro).step # "busyDone",
           NEW i \in DOMAIN micro, micro[i].step = "busyDone"
    PROVE  /\ Head(micro).step = "commit"
           /\ Tail(micro) = <<micro[2]>>
           /\ micro[2] \in Task
           /\ micro[2].step = "busyDone"
<1>1. TypeOK /\ MicroInOrder
    BY DEF IInv
<1>2. Head(micro) = micro[1] /\ i # 1
    BY <1>1, MicroHead
<1>3. PICK m1, m2 : m1 = micro[1] /\ m2 = micro[2]
    OBVIOUS
<1>4. CASE micro = <<micro[1]>>
    <2>1. DOMAIN <<m1>> = {1}
        OBVIOUS
    <2>. QED
        BY <1>2, <1>3, <1>4, <2>1
<1>5. CASE /\ micro = <<micro[1], micro[2]>> /\ Tail(micro) = <<micro[2]>>
           /\ micro[2] \in Task /\ InOrder(micro[1], micro[2])
    <2>1. DOMAIN <<m1, m2>> = {1, 2}
        OBVIOUS
    <2>2. i = 2
        BY <1>2, <1>3, <1>5, <2>1
    <2>3. micro[2].step = "busyDone"
        BY <2>2
    <2>4. micro[1].step = "commit"
        BY <1>5, <2>3 DEF InOrder
    <2>. QED
        BY <1>2, <1>5, <2>3, <2>4
<1>. QED
    BY <1>1, <1>4, <1>5, MicroHead

LEMMA MicrotaskBusy ==
    ASSUME IInv, BusyHasCause, Microtask
    PROVE  BusyHasCause'
<1>1. CASE Settle
    <2>1. Settling /\ importing' = importing
        BY <1>1 DEF Settle, Settling
    <2>2. calls = <<>> /\ Tail(micro) = <<>> /\ Head(micro) \in Settled /\ Head(micro).step = "settle"
        BY <2>1, SettlingAlone DEF Settling, Running
    <2>3. busy => importing # "none" \/ Head(micro).call.kind = "rebuild"
        <3>1. ~\E i \in DOMAIN micro : micro[i].step = "busyDone"
            BY <2>1, <2>2, BusyDoneIsBehind DEF Settling, Running
        <3>. QED
            BY <2>2, <3>1 DEF BusyHasCause
    <2>4. CASE \E r, d : NextRound(r, d)
        <3>1. PICK r, d : NextRound(r, d)
            BY <2>4
        <3>2. calls' = <<[kind |-> "rebuild", doc |-> d]>>
            BY <2>2, <3>1 DEF NextRound, Ask
        <3>3. calls' # <<>> /\ calls'[1].kind = "rebuild"
            BY <3>2
        <3>. QED
            BY <3>3 DEF BusyHasCause
    <2>5. CASE LoopEnds /\ Head(micro).call.kind = "computeAll"
        BY <2>1, <2>3, <2>5 DEF LoopEnds, BusyHasCause
    <2>6. ASSUME NEW commit \in {<<>>, <<[step |-> "commit"]>>}, LoopEnds,
                 micro' = Tail(micro) \o commit \o <<[step |-> "busyDone"]>>
          PROVE  BusyHasCause'
        <3>1. Tail(micro) \o commit = commit
            BY <2>2, <2>6, Plain, ConcatShort
        <3>2. micro' = <<[step |-> "busyDone"]>>
              \/ micro' = <<[step |-> "commit"], [step |-> "busyDone"]>>
            BY <2>6, <3>1, Plain, ConcatShort
        <3>3. \E i \in DOMAIN micro' : micro'[i].step = "busyDone"
            <4>1. CASE micro' = <<[step |-> "busyDone"]>>
                BY <4>1
            <4>2. CASE micro' = <<[step |-> "commit"], [step |-> "busyDone"]>>
                <5>1. 2 \in DOMAIN micro' /\ micro'[2].step = "busyDone"
                    BY <4>2
                <5>. QED
                    BY <5>1
            <4>. QED
                BY <3>2, <4>1, <4>2
        <3>. QED
            BY <3>3 DEF BusyHasCause
    <2>7. \/ \E r, d : NextRound(r, d)
          \/ LoopEnds /\ Head(micro).call.kind = "computeAll"
          \/ /\ LoopEnds
             /\ \E commit \in {<<>>, <<[step |-> "commit"]>>} :
                   micro' = Tail(micro) \o commit \o <<[step |-> "busyDone"]>>
        BY <1>1 DEF Settle
    <2>. QED
        BY <2>4, <2>5, <2>6, <2>7
<1>2. CASE BusyDone
    BY <1>2 DEF BusyDone, BusyHasCause
<1>3. CASE RebuildDone \/ SolveTick
    <2>1. micro # <<>> /\ Head(micro).step \in {"rebuildDone", "solve"}
          /\ UNCHANGED <<busy, calls, importing>>
        BY <1>3 DEF RebuildDone, SolveTick, Running, callVars
    <2>2. ~\E i \in DOMAIN micro : micro[i].step = "busyDone"
        BY <2>1, BusyDoneIsBehind
    <2>3. ~Settling
        BY <2>1 DEF Settling, Running
    <2>. QED
        BY <2>1, <2>2, <2>3 DEF BusyHasCause
<1>4. CASE Land
    <2>1. micro # <<>> /\ Head(micro).step = "solve" /\ importing' = importing
        BY <1>4 DEF Land, Running
    <2>2. ~\E i \in DOMAIN micro : micro[i].step = "busyDone"
        BY <2>1, BusyDoneIsBehind
    <2>3. ~Settling
        BY <2>1 DEF Settling, Running
    <2>4. busy => importing # "none" \/ (calls # <<>> /\ calls[1].kind = "rebuild")
        BY <2>2, <2>3 DEF BusyHasCause
    <2>5. CASE UNCHANGED callVars
        BY <2>1, <2>4, <2>5 DEF callVars, BusyHasCause
    <2>6. CASE \E d : Schedule(TRUE, d)
        BY <2>1, <2>3, <2>4, <2>6, ScheduleBusy
    <2>. QED
        BY <1>4, <2>5, <2>6 DEF Land
<1>5. CASE Commit
    <2>1. micro # <<>> /\ Head(micro).step = "commit" /\ UNCHANGED <<busy, calls, importing>>
        BY <1>5 DEF Commit, Running, callVars
    <2>2. ~Settling
        BY <2>1 DEF Settling, Running
    <2>3. ASSUME NEW i \in DOMAIN micro, micro[i].step = "busyDone"
          PROVE  \E j \in DOMAIN micro' : micro'[j].step = "busyDone"
        <3>1. PICK b \in Task : Tail(micro) = <<b>> /\ b.step = "busyDone"
            BY <2>1, <2>3, BusyDoneIsBehind
        <3>2. PICK s \in Task : s = [step |-> "solve", left |-> SolveTicks]
            BY Plain DEF SolveTicks
        <3>3. PICK c \in Task : c = [step |-> "commit"]
            BY Plain
        <3>4. \/ micro' = <<b>> \o <<>>
              \/ micro' = <<b>> \o <<c>>
              \/ micro' = Append(<<b>>, s)
            BY <1>5, <3>1, <3>2, <3>3 DEF Commit, LeaveChain
        <3>5. micro' = <<b>> \/ micro' = <<b, c>> \/ micro' = <<b, s>>
            BY <3>4, ConcatShort, AppendShort
        <3>6. 1 \in DOMAIN micro' /\ micro'[1] = b
            BY <3>5
        <3>. QED
            BY <3>1, <3>6
    <2>. QED
        BY <2>1, <2>2, <2>3 DEF BusyHasCause
<1>. QED
    BY <1>1, <1>2, <1>3, <1>4, <1>5 DEF Microtask

\* The Cancel button does not outlive what it would cancel: whichever of an import
\* and a rebuild ends first, the busy state goes with the last (runBusy).
THEOREM BusyGoesWithItsCause == Spec => []BusyMeansRunning
<1>1. Init => BusyHasCause
    BY DEF Init, BusyHasCause
<1>2. IInv /\ BusyHasCause /\ [Next]_vars => BusyHasCause'
    <2>1. SUFFICES ASSUME IInv, BusyHasCause, [Next]_vars PROVE BusyHasCause'
        OBVIOUS
    <2>2. CASE UNCHANGED vars
        BY <2>1, <2>2 DEF vars, BusyHasCause, Settling, Running
    <2>. QED
        BY <2>1, <2>2, MacrotaskBusy, MicrotaskBusy DEF Next
<1>3. BusyHasCause => BusyMeansRunning
    BY DEF BusyHasCause, BusyMeansRunning, Settling, Running
<1>. QED
    BY <1>1, <1>2, <1>3, Invariant, PTL DEF Spec
=============================================================================
