SPECIFICATION HeatSpec
CONSTANTS
    p1 = p1  i1 = i1  b1 = b1
    Phones = {p1}
    Instances = {i1}
    Batches = {b1}
    UtcTicks = 2
    Behind = 1
    MaxAge = 2
    KThreshold = 2
    LastTick = 3
    MaxRows = 2
    MaxStarts = 0
INVARIANT LoneUserHidden
\* LastTick ends a behaviour.
CHECK_DEADLOCK FALSE
