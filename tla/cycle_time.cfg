SPECIFICATION Spec
CONSTANTS
    MaxHeld = 1
    MaxPositions = 2
    Candidates = 2
    PollRounds = 1
    PollInterval = 4
    Waits = 2
    Latencies = {20, 120}
    Faults = TRUE
INVARIANTS
    TypeOK
    IInv
    WithinWorstCase
CHECK_DEADLOCK FALSE
