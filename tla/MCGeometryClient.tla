-------------------------- MODULE MCGeometryClient --------------------------
EXTENDS GeometryClient

CONSTANTS b1, b2, e1, e2

\* Two bodies; between the models one of them changes and the other goes.
TwoBodies == {(b1 :> e1) @@ (b2 :> e1), b1 :> e2}
=============================================================================
