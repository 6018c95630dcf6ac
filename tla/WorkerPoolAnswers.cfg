\* Every operation is answered: an operation with a deadline too, one death.
SPECIFICATION FairSpec
CONSTANTS
    Null = Null
    Conn = {c1, c2}
    Kinds = {"import", "quick"}
    MaxAttempts = 1
    MaxOps = 2
    MaxTicks = 1
    MaxDeaths = 1
    MaxCancels = 1
PROPERTIES EveryOpIsAnswered
CHECK_DEADLOCK FALSE
