SPECIFICATION Spec
CONSTANTS
    Prices = {100000, 103333}
    Lot = 2
    MaxOrders = 2
    MaxDays = 1
INVARIANTS
    LossesCounted
CHECK_DEADLOCK FALSE
