\* Feature lists of two slots, so that a delta changes one feature of several,
\* grows or shrinks the timeline; two parameter tables.
SPECIFICATION Spec
CONSTANTS
    Null = Null
    Ref = {r1, r2, r3}
    Content = {c1, c2}
    Parameters = {p1, p2}
    Visibility = {none}
    NoVisibility = none
    MaxFeatures = 2
    SmallDelta = 1
    MaxRevision = 2
    MaxInFlight = 1
SYMMETRY Symmetry
INVARIANTS BuiltIsAsked
