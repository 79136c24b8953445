SPECIFICATION Spec
CONSTANTS
    Procs = {p1, p2}
    Rules = {r1, r2}
    Signed = {r1, r2}
    Tweets = {t1, t2}
    Malformed = {t2}
    Tickers = {k1}
    Cashtags <- AllCashtags
    Modes = {"paper", "live"}
    Statements = 2
    MaxCommands = 3
    MaxEdits = 2
    NoFile = NoFile
    NoProc = NoProc
SYMMETRY Symmetry
INVARIANTS
    TypeOK
    IInv
    VersionMeansSchema
    DecisionsObeyRecordedRules
    LockGovernsDecisions
    ImportsAreWhole
CHECK_DEADLOCK FALSE
