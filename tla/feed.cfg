SPECIFICATION FairSpec
CONSTANTS
    Workers <- BootAndAdmin
    f1 = f1  f2 = f2  f3 = f3
    Feeds = {f1, f2, f3}
    Whole = {f1, f2}
    None = None
    Overlap = FALSE
    Stamped = TRUE
    MaxPublish = 2
    MaxTx = 3
    MaxForced = 1
    MaxFaults = 1
INVARIANTS MemoryFollows
PROPERTIES Registers Adopts
\* MaxTx ends a behaviour: the feed that is never whole is stored again at
\* every refresh.
CHECK_DEADLOCK FALSE
