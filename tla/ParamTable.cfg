SPECIFICATION Spec
CONSTANTS
    w = w
    x = x
    offset = offset
    count = count
    length = length
    User = {w, x}
    MaxAuto = 2
    Field = {offset, count, length}
    Minimum <- MCMinimum
    Signed = {offset}
    Null = Null
    Typed <- MCTyped
    Entered = {3}
    Loaded <- MCLoaded
    MaxValue = 3
    UndoCap = 1
    MaxEdits = 4
    MaxQueued = 2
INVARIANTS TypeOK EveryTableHolds
PROPERTIES TableIsConsistent EditsKeepMeaning
CHECK_DEADLOCK FALSE
