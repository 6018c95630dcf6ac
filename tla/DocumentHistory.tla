-------------------------- MODULE DocumentHistory --------------------------
(***************************************************************************)
(* What the user is promised of the document: a line of documents, one for *)
(* each change he made, with the present one somewhere on it.  A change    *)
(* changes one thing and starts a new future; undo and redo walk the line; *)
(* an addition that is called off leaves the line as if it had never been; *)
(* New and Open start another line.  What the program derives from a       *)
(* document (solved coordinates, projected curves) is not a change.        *)
(***************************************************************************)
EXTENDS Naturals, Sequences, SequencesExt, ListFilter

CONSTANT UndoCap

VARIABLES past, present, future   \* documents: oldest first, and next first

Ids(d) == {f.id : f \in Range(d.features)}

\* The last UndoCap documents.
Capped(line) == IF Len(line) > UndoCap THEN Tail(line) ELSE line

\* d with one feature more.  Its name is not in use.
Adds(d, e, i) ==
    /\ i \in DOMAIN e.features
    /\ e = [d EXCEPT !.features = InsertAt(@, i, e.features[i])]
    /\ e.features[i].id \notin Ids(d)

\* d with one feature edited, which stays the one that was made as born.
Edits(d, e, i) ==
    /\ Len(e.features) = Len(d.features)
    /\ e = [d EXCEPT !.features[i] = e.features[i]]
    /\ e.features[i].id = d.features[i].id /\ e.features[i].born = d.features[i].born

Removes(d, e, i) == e = [d EXCEPT !.features = RemoveAt(@, i)]

Moves(d, e) ==
    /\ e = [d EXCEPT !.features = e.features]
    /\ Len(e.features) = Len(d.features) /\ Range(e.features) = Range(d.features)

SetsParam(d, e) == e = [d EXCEPT !.param = e.param]

Change ==
    /\ past' = Capped(Append(past, present))
    /\ future' = <<>>
    /\ \/ \E i \in 1..(Len(present.features) + 1) : Adds(present, present', i)
       \/ \E i \in DOMAIN present.features :
              Edits(present, present', i) \/ Removes(present, present', i)
       \/ Moves(present, present')
       \/ SetsParam(present, present')

Undo ==
    /\ past # <<>>
    /\ past' = Front(past) /\ present' = past[Len(past)] /\ future' = <<present>> \o future

Redo ==
    /\ future # <<>>
    /\ past' = Capped(Append(past, present)) /\ present' = Head(future) /\ future' = Tail(future)

\* The feature made as born, out of a document.
Without(d, born) ==
    [d EXCEPT !.features = Filtered(@, {i \in DOMAIN @ : @[i].born # born})]

\* The change that added it is no step any more, and no document that came of it
\* has it.
Withdraw ==
    \E i \in DOMAIN past : \E j \in 1..(Len(past[i].features) + 1) :
        LET line == Append(past, present)
            born == line[i + 1].features[j].born
        IN /\ Adds(past[i], line[i + 1], j)
           /\ past' = [k \in DOMAIN RemoveAt(past, i) |->
                          IF k < i THEN past[k] ELSE Without(past[k + 1], born)]
           /\ present' = Without(present, born)
           /\ future' = [k \in DOMAIN future |-> Without(future[k], born)]

Replace ==
    /\ past' = <<>> /\ future' = <<>>
    /\ \A d \in {present} \cup Range(past) \cup Range(future) :
           \A f \in Range(d.features), g \in Range(present'.features) : f.born # g.born

Init == past = <<>> /\ future = <<>> /\ present = [features |-> <<>>, param |-> 0]

Next == Change \/ Undo \/ Redo \/ Withdraw \/ Replace

Spec == Init /\ [][Next]_<<past, present, future>>
============================================================================
