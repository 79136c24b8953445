SPECIFICATION Spec
CONSTANTS
    Prices = {40, 103333}
    Lot = 3
    MaxOrders = 4
    MaxDays = 2
INVARIANTS
    TypeOK
    IInv
    ReplayAgrees
    MoneyConserved
    FillRowsFollowBroker
    EveryFillIsExplained
PROPERTIES
    FillsKeepTheBook
CHECK_DEADLOCK FALSE
