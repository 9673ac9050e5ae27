SPECIFICATION FairSpec
CONSTANTS
    w1 = w1  w2 = w2
    Workers = {w1, w2}
    Feeds = {"full", "half", "next"}
    Trips <- FeedTrips
    Graphs = {"old", "new"}
    Shared <- Recognised
    None = None
    MaxPublish = 2
    MaxRebuilds = 1
    MaxRefusals = 2
    MaxErrors = 1
    MaxCrashes = 1
INVARIANT ToldOnce
PROPERTIES DriftTold
