SPECIFICATION ResearchSpec
CONSTANTS
    Strikes <- MCStrikes
    Step = 100
    Expiries <- MCExpiries
    CallDelta <- MCCallDelta
    TimeValue <- MCTimeValue
    HalfSpread = 5
    OffsetPct = 20
    ProfitTakePct = 50
    LossStopPct = 100
    DteClose = 1
    DeltaTolerance = 15
    MaxSpreadPct = 50
    TargetDte = 3
    FrontDte = 2
    BackDte = 4
    InnerWing = 100
    OuterWing = 200
    CalendarSlack = 100
    ShortOffset = 100
    WingWidth = 100
    Iv <- MCIv
    Vix <- MCVix
    NearDte = 2
    FarDte = 4
    RankWindow = 3
    MinHistory = 2
    CapitalCap = 240
    ExpiryCap = 200
    SuspendPct = 50
    RvWindow = 2
    RvHistory = 2
    RvMinHistory = 3
    Prices <- MCPrices
    Other <- MCOther
    Quirks <- MCQuirks
    MaxQuirks = 1
    Setups <- MCSetups
    Days = 7
    Outlook <- MCOutlook
    Studies <- MCStudies
    MaxSharpe = 50
    OosPct = 50
    MedianSharpe = 8
    NegativePct = 20
    EntryAt = 2
    SettleAt = 5
    CheckEvery = 1
    WalkBack = 1
    Basis = 100
    TapePrices <- MCTapePrices
    Quiet <- MCQuiet
    MaxOdd = 1
    Sessions <- MCSessions
CHECK_DEADLOCK FALSE
INVARIANTS ClosesAtAPossiblePrice OnlyReTaggedStack CapsHold BooksAgree RanksOnThePast PassedMadeMoney PaidWithinTheWings OneFuture
