SPECIFICATION Spec
CONSTANTS
    None = None
    Feature <- MCFeature
    Touches <- MCTouches
    Reads = {"cut"}
    Projected = {"sketch"}
    Curves <- MCCurves
    Built <- MCBuilt
    Document <- MCDocument
    Window = 2
    MaxRows = 3
    Fragile <- MCFragile
INVARIANTS
    TypeOK
    KeysNameShapes
    ResultIsFull
    StaleCurvesAreReported
    NoRowPointsAtAHole
    NoWorkIsRedone
