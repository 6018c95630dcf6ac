SPECIFICATION Spec
CONSTANTS
    Null = Null
    Path = {p1}
    Edit = {e1, e2}
    MaxLaunches = 2
    MaxRequests = 2
    MaxTasks = 1
SYMMETRY Symmetry
INVARIANTS TypeOK EditsAreKept CleanIsSaved SnapshotIsOwed
PROPERTIES ForcedOnlyIfDeaf
CHECK_DEADLOCK FALSE
