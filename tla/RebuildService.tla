--------------------------- MODULE RebuildService ---------------------------
(***************************************************************************)
(* What the geometry client promises its one caller, the document store:   *)
(* a rebuild is asked for a document, and it settles, either with a model  *)
(* built from that document or with a failure.  Nothing here knows of      *)
(* sockets, deltas, revisions or workers; module DeltaSync implements it.  *)
(***************************************************************************)
CONSTANTS
    Docs,             \* the documents a rebuild may be asked for
    Models,           \* what a reply may have been built from
    BuiltFrom(_, _),  \* BuiltFrom(m, d): model m is a model of document d
    Null

VARIABLES
    asked,   \* the document of the open rebuild, or Null
    answer   \* the model of the last rebuild, Null when it failed

vars == <<asked, answer>>

Init == asked = Null /\ answer = Null

Ask(d) ==
    /\ asked = Null
    /\ asked' = d
    /\ answer' = Null

\* The rebuild is refused before it leaves, or the page is loaded anew.
Refuse ==
    /\ asked = Null
    /\ answer' = Null
    /\ UNCHANGED asked

Build(m) ==
    /\ asked # Null
    /\ BuiltFrom(m, asked)
    /\ asked' = Null
    /\ answer' = m

Fail ==
    /\ asked # Null
    /\ asked' = Null
    /\ answer' = Null

Settle == Fail \/ \E m \in Models : Build(m)

Next == (\E d \in Docs : Ask(d)) \/ Refuse \/ Settle

Spec == Init /\ [][Next]_vars

\* Every rebuild settles.
FairSpec == Spec /\ WF_vars(Settle)
=============================================================================
