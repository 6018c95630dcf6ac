\* Three gestures, of every kind and at every moment, and refreshes that flap.
SPECIFICATION FairSpec
CONSTANTS
    Null = Null
    MaxGestures = 3
    ValveLimit = 2
INVARIANTS IInv CurrentWhenIdle BusyMeansRunning
PROPERTIES AddReportsItsBuild NeverShowsOlder Quiesces WaitsForEachAnswer
CHECK_DEADLOCK FALSE
