SPECIFICATION Spec
CONSTANTS
    t1 = t1
    t2 = t2
    t3 = t3
    t4 = t4
    Tickers <- AllTickers
    Prices = {70000, 83322, 110000}
    FillPrices = {70000, 110000}
    Rule <- Rules
    Mentions <- MentionTimes
    Liquid = {t1, t2, t3}
    Window = 1
    MaxCandidates = 2
    SlotsPerDay = 2
    DaysPerWeek = 2
    MaxSlots = 4
    MaxCycles = 3
    MaxProposals = 2
    Unpriced = Unpriced
INVARIANTS
    TypeOK
    IInv
    PeakIsRunningMax
    TakeProfitOnce
    ExitsAreSent
    OrdersMatchDecisions
    BuysWithinLimits
    BuysAreJustified
CHECK_DEADLOCK FALSE
