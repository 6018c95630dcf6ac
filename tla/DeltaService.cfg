\* Queues of two, an abandoned request ahead of a live one; the visibility map;
\* and what holds eventually.
SPECIFICATION FairSpec
CONSTANTS
    Null = Null
    Ref = {r1}
    Content = {c1}
    Parameters = {p1}
    Visibility = {none, v1}
    NoVisibility = none
    MaxFeatures = 1
    SmallDelta = 1
    MaxRevision = 2
    MaxInFlight = 2
INVARIANT IInv
PROPERTIES CallSettles ImplementsService
