SPECIFICATION Spec
CONSTANTS
    NoDecision = NoDecision
    Tickers = {t1, t2}
    MaxCycles = 1
    Lot = 1
    MaxPositions = 2
    PollBudget = 0
    DbFaults = {"record"}
PROPERTIES
    RecordedFillsSurvive
CHECK_DEADLOCK FALSE
