SPECIFICATION Spec
CONSTANTS
    NoDecision = NoDecision
    Tickers = {t1, t2}
    MaxCycles = 2
    Lot = 1
    MaxPositions = 2
    PollBudget = 0
    DbFaults = {"record"}
INVARIANTS
    RecordedBeforeSent
    StoppedCyclesNeverTrade
PROPERTIES
    WriteAheadLog
    CommitsKeepTheBook
SYMMETRY Symmetry
CHECK_DEADLOCK FALSE
