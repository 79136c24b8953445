SPECIFICATION Spec
CONSTANTS
    Procs = {p1}
    Rules = {r1}
    Signed = {r1}
    Tweets = {t1}
    Malformed = {}
    Tickers = {k1}
    Cashtags <- AllCashtags
    Modes = {"live"}
    Statements = 1
    MaxCommands = 4
    MaxEdits = 0
    NoFile = NoFile
    NoProc = NoProc
INVARIANTS
    ApprovedDecisionsAreSent
CHECK_DEADLOCK FALSE
