SPECIFICATION Spec
CONSTANTS
    Null = Null
    UndoCap = 2
    MaxChanges = 3
    MaxFeatures = 1
    MaxQueued = 1
PROPERTIES ImplementsHistory
CHECK_DEADLOCK FALSE
