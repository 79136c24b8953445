SPECIFICATION FairSpec
CONSTANTS
    NoDecision = NoDecision
    Tickers = {t1, t2}
    MaxCycles = 2
    Lot = 2
    MaxPositions = 1
    PollBudget = 1
    DbFaults = {"decision", "snapshot", "halt", "record", "failed", "submitted", "fill", "status", "finish", "position", "trade"}
INVARIANTS
    TypeOK
    IInv
    SlotsInv
    PositionLimit
    LedgerNeverAheadOfBroker
    StatusFollowsBroker
PROPERTIES
    OrdersOnlyWhileOpen
    NoOrderWhileHalted
    CycleEnds
CHECK_DEADLOCK FALSE
