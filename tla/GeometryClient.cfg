SPECIFICATION FairSpec
CONSTANTS
    Null = Null
    b1 = b1
    b2 = b2
    e1 = e1
    e2 = e2
    Body = {b1, b2}
    Etag = {e1, e2}
    Builds <- TwoBodies
    MaxIds = 3
INVARIANTS IInv NoSplice OneRepeatSuffices
PROPERTIES EveryCallSettles
