SPECIFICATION FairSpec
CONSTANTS
    w1 = w1  w2 = w2
    Rollups = {w1, w2}
    Types = {"search_select"}
    Hours = {0}
    Retentions = {2}
    Age = 0
    West = 1
    East = 0
    InOrder = TRUE
    KeepsUp = TRUE
    MaxEvents = 2
    MaxDay = 2
    MaxFailures = 1
INVARIANT CountedExactly
CHECK_DEADLOCK FALSE
PROPERTY Drained
\* MaxEvents and MaxDay end a behaviour.
