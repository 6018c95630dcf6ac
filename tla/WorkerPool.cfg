\* What operations are told: two supervised operations (an import is tried again), two
\* deaths, a cancel or a disconnection, and any reaps.
SPECIFICATION Spec
CONSTANTS
    Null = Null
    Conn = {c1, c2}
    Kinds = {"rebuild", "import"}
    MaxAttempts = 2
    MaxOps = 2
    MaxTicks = 1
    MaxDeaths = 2
    MaxCancels = 1
INVARIANTS IInv NoOpIsStranded KillsAreNotBlamed HealthyIsNeverGivenUp
 
CHECK_DEADLOCK FALSE
