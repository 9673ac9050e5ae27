SPECIFICATION Spec
CONSTANTS
    t1 = t1
    r1 = r1
    r2 = r2
    a1 = a1
    a2 = a2
    Tokens = {t1}
    Slots = {r1, r2}
    CityTtl = 2
    MaxTtl = 3
    Wanted <- WantedTtls
    Window = 2
    Limit = 1
    MaxTime = 3
    Attempts = {a1, a2}
    Mails = {"mail", "other"}
    Hosts = {"home"}
    FailLimit = 2
    FailWindow = 3
    CheckTime = 1
    MaxFailed = 4
    KeysKept = 1
    LastInstant = 4
    States = {t1}
    Browsers = {"laptop", "phone"}
    Providers = {"google", "microsoft"}
    Callbacks = {r1, r2}
    StateTtl = 2
    KeysTtl = 4
    MinRefetch = 2
    MaxKeys = 2
    LastSecond = 5
    Replies = {r1, r2}
    Sessions = {"s"}
    DailyBudget = 2
    PerSession = 2
    PerReply = 2
    MaxRounds = 2
    Asked <- TwoCalls
    Known <- TwoTools
    LastDay = 2
    Urls = {"vehicles", "alerts"}
    Alerts = "alerts"
    BackoffStart = 1
    BackoffMax = 4
    AlertsInterval = 2
    Types = {"bike"}
    Bicycles = {"bike"}
    Searches = {r1, r2}
    HitTtl = 5
    MissTtl = 2
    Flight = 1
    LastHour = 6
    RefreshDays = 2
    MaxEditions = 2
    MaxFaults = 1
    Phones = {t1, r1}
    Instances = {a1, a2}
    Batches = {r1, r2}
    UtcTicks = 1
    Behind = 0
    MaxAge = 1
    KThreshold = 2
    LastTick = 1
    MaxRows = 1
    MaxStarts = 1
    Editors = {"x", "y"}
    RideIds = {"r1", "r2"}
    YamlIds = {"r1"}
    MaxTyped = 2
    MaxRotations = 1
    Asks <- PlanAsks
    Found <- Lists
    LegRides <- AllRides
    CityModes <- TwoModes
    MaxFeeder = 50
    MaxDrive = 60
    MaxParkWalk = 5
    MaxWalk = 4
    Rush = 5
    RushPct = 150
    DayTicks = 4
    Week = 2
    Holidays = {1, 4}
    DayLength = 6
    PairWithin = 2
    Stale = 1
    Hop = 2
    MaxFanout = 3
    LongGap = 8
    ForecastTtl = 2
    CacheSize = 2
    FareQuestions <- Trips
    KerbQuestions <- KerbsAsked
    WindowQuestions <- WindowsAsked
    BoardQuestions <- BoardsAsked
    BusQuestions <- BusesAsked
    WatchQuestions <- WatchesAsked
    SegmentQuestions <- SegmentsAsked
    ListQuestions <- ListsAsked
    ShapeQuestions <- ShapesAsked
    TimetableQuestions <- TimetablesAsked
    ForecastQuestions <- ForecastsAsked
INVARIANTS LinkDies GuessesBounded    MissForgotten  DevicesCounted
INVARIANTS SearchesMatched BestTransitKept TimelineKept
INVARIANTS FaresAgree KerbHonest   
PROPERTIES SourcesRecover AreasFollow
CHECK_DEADLOCK FALSE
