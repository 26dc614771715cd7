\* Balances so close to their limit that settlements are refused.
SPECIFICATION FairSpec
CONSTANTS
    Users = {u1, u2}
    Scale = 4
    DecimalMax = 6
    MakerFeeRate = 3
    TakerFeeRate = 2
    InitialBtc = 4
    InitialUsd = 5
    OrderForms <- CapacityForms
    MaxCancels = 2
    MaxOrders = 3
INVARIANTS
    RefusedOnlyAtCapacity
PROPERTIES
    MarketLockReleased
