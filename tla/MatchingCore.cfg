\* Three users: rounding, better prices, partial fills, dust in front of a
\* maker, and sweeps of two makers.
SPECIFICATION Spec
CONSTANTS
    Users = {u1, u2, u3}
    Scale = 4
    DecimalMax = 12
    MakerFeeRate = 3
    TakerFeeRate = 2
    InitialBtc = 4
    InitialUsd = 5
    OrderForms <- CoreForms
    MaxCancels = 1
    MaxOrders = 3
SYMMETRY UserSymmetry
INVARIANTS
    TypeOK
    ReservationsExact
    DraftBacked
    LockDiscipline
    NoWaitCycle
    Conservation
    QuantitiesMatchTrades
    NoExecutableCross
    HistoryExplainsWallet
    BookIsBacked
PROPERTIES
    EveryChangeAnnounced
    ImplementsExchange
