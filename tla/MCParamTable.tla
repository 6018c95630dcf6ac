--------------------------- MODULE MCParamTable ---------------------------
EXTENDS ParamTable, TLC

CONSTANTS w, x, offset, count, length

Num(v) == [refs |-> <<>>, plus |-> v, parses |-> TRUE]
Ref(n, v) == [refs |-> <<n>>, plus |-> v, parses |-> TRUE]

MCTyped == {Num(-1), Ref(w, 2), Ref(1, 0)}

\* A count is at least one.
MCMinimum == count :> 2

Def(expr, value, target) == [expr |-> expr, value |-> value, target |-> target]
Both == (offset :> -3 @@ count :> 4)

\* A new model; one whose parameters drive an offset; and files edited by hand: a cycle
\* with a name that leads to it, a name that is unknown, an expression that does not
\* parse, and cached values that are not the ones of the expressions.
MCLoaded ==
    {[defs |-> <<>>, fields |-> Both],
     [defs |-> (w :> Def(Num(1), 1, Null) @@ 1 :> Def(Ref(w, 1), 2, offset)),
      fields |-> (offset :> -2 @@ length :> 3)],
     [defs |-> (w :> Def(Ref(x, 0), 1, Null) @@ x :> Def(Ref(w, 1), 2, Null)
                @@ 1 :> Def(Ref(w, 0), 0, offset)), fields |-> Both],
     [defs |-> (w :> Def(Ref(2, 0), 1, Null) @@ 1 :> Def(Ref(w, 1), 0, count)), fields |-> Both],
     [defs |-> (w :> Def([Num(0) EXCEPT !.parses = FALSE], 1, Null)
                @@ 1 :> Def(Ref(w, 1), 0, length)), fields |-> (length :> 3)]}
===========================================================================
