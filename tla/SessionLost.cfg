SPECIFICATION Spec
CONSTANTS
    Null = Null
    Path = {p1}
    Edit = {e1, e2}
    MaxLaunches = 1
    MaxRequests = 0
    MaxTasks = 1
INVARIANTS DiskIsTheTruth
CHECK_DEADLOCK FALSE
