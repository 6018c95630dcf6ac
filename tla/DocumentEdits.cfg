SPECIFICATION Orderly
CONSTANTS
    Null = Null
    UndoCap = 2
    MaxChanges = 3
    MaxFeatures = 3
    MaxQueued = 1
INVARIANTS TypeOK GeometryFollowsParams
PROPERTIES MarkerFollowsEdits ImplementsHistory
CHECK_DEADLOCK FALSE
