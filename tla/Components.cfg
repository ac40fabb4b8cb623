SPECIFICATION Spec
CONSTANTS
    o1 = o1
    o2 = o2
    o3 = o3
    lane1 = lane1
    lane2 = lane2
    lane3 = lane3
    engine = engine
    tool = tool
    h1 = h1
    h2 = h2
    ops = ops
    client = client
    p1 = p1
    p2 = p2
    Pages <- MCPages
    OverflowPages = 1
    BfMaxFaults = 3
    AuditLane = {lane1, lane2}
    OrderIn <- MCOrderIn
    Oversized = {o2}
    Attempts = 2
    DedupRows = 3
    OtherRows = 2
    AuditMaxFaults = 2
    GateLane = {lane1, lane2}
    StrayTtl = 1
    StrayFail = 1
    Customer = {o1}
    CustDays = 4
    CustRows = 2
    CustAttempts = 2
    CustMaxFaults = 2
    ZidMaxFaults = 2
    Process = {engine, tool}
    Order = {o1}
    HsId = {h1}
    NoId = NoId
    MaxRows = 3
    Lane = {lane1, lane2}
    Top = 4
    Interval <- Intervals
    Hard <- Halved
    Soft <- ThreeQuarters
    Start = 3
    Floor = 2
    Full = 4
    Yield = 1
    Step = 1
    GrowthEvery = 2
    Cooldown = 5
    SoftCooldown = 1
    RetryAfter = {0, 3}
    Adaptive = TRUE
    MaxClock = 3
    Channel = {ops, client}
    Episodes = 2
    IrMaxFaults = 2
    Product = {p1, p2}
    HtOrder = {o1, o2}
    Items <- MCItems
    HtMaxFaults = 1
    Host = {h1, h2}
    BeatEvery = 1
    StaleAfter = 3
    BatchTicks = 3
    HbMaxFaults = 2
    Thresholds = {1, 2}
    Ample = 3
    RetryQueue = {p1, p2}
    LongFail = 2
    AlertEvery = 2
    NoReading = NoReading
    CwMaxEvents = 3
    CwMaxFaults = 1
    GiftOrders <- MCGifts
    SearchLimit = 2
    GiftBatch = 1
    MissMax = 2
    GtMaxFaults = 1
    LiveEngine = engine
    Halting = {tool}
    Threshold = 2
    FailWindow = 3
    IntakeStale = 2
    AlertPause = 2
    RhMaxFaults = 2
    Plan <- MCPlan
    PlanLines <- MCPlanLines
    ChunkOrders = 2
    EmMaxFaults = 2
    Swept <- MCGifts
    Delivered = 3
    HydrateMax = 1
    PatchBatch = 2
    BackfillMax = 1
    InsaneOrders = 1
    RcRuns = 2
    RcMaxFaults = 1
    CtEngine = {engine, tool}
    CtLanes <- MCCtLanes
    Buyer = {p1, p2}
    WithPhone = {p1}
    WithId = {p1, p2}
    MaxContacts = 2
    CtOrders = 2
    CtMaxFaults = 1
    HoldMoves = 2
    EsMaxFaults = 2
    DigestFull = 2
    DigestDays = 3
INVARIANTS
    EmailOnce
    DoneComplete
    DriftRepaired
    BuyersApart
    PassedKept
    OneRowPerCall
    LostIsReplayable
    LineFollowsGate
    SweptAccounted
    MovedWhole
    OwnWritesSeen
    HeadlineOnce
    ReplyKept
    WaitingListed
    TabConsumersApart
    ThreadsTell
    ChasedOnce
    TurnComes
    OutageSeen
    Paced
PROPERTIES
    Frozen
CHECK_DEADLOCK FALSE
