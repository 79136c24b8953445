SPECIFICATION Spec
CONSTANTS
    NoDecision = NoDecision
    Tickers = {t1}
    MaxCycles = 1
    Lot = 1
    MaxPositions = 1
    PollBudget = 0
    DbFaults = {"position"}
INVARIANTS
    PositionsDerivedFromFills
CHECK_DEADLOCK FALSE
