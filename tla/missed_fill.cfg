SPECIFICATION Spec
CONSTANTS
    NoDecision = NoDecision
    Tickers = {t1}
    MaxCycles = 2
    Lot = 1
    MaxPositions = 1
    PollBudget = 0
    DbFaults = {}
PROPERTIES
    NoBuyOfHeldTicker
CHECK_DEADLOCK FALSE
