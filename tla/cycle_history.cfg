SPECIFICATION Spec
CONSTANTS
    NoDecision = NoDecision
    Tickers = {t1}
    MaxCycles = 3
    Lot = 2
    MaxPositions = 1
    PollBudget = 0
    DbFaults = {"fill", "status"}
INVARIANTS
    PositionsInv
    PositionsDerivedFromFills
    EveryClosedPositionIsATrade
CHECK_DEADLOCK FALSE
