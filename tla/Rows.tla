-------------------------------- MODULE Rows --------------------------------
(***************************************************************************)
(* The rows of the orders, wallets and trades tables                       *)
(* (prisma/schema.prisma) and what the services compute from a row alone.  *)
(***************************************************************************)
EXTENDS Decimals, FiniteSets

CONSTANTS
    Users,
    MakerFeeRate,   \* MAKER_FEE_RATE, in units
    TakerFeeRate,   \* TAKER_FEE_RATE, in units
    InitialBtc,     \* what a new wallet holds, in units
    InitialUsd,
    OrderForms,     \* the side, amount and price of the orders users place
    MaxOrders,      \* bound: how many orders are ever created
    MaxCancels      \* bound: how many cancellations run at a time

Side == {"BUY", "SELL"}

ASSUME RowsAssumption ==
    /\ IsFiniteSet(Users)
    /\ MakerFeeRate \in 0..Scale
    /\ TakerFeeRate \in 0..Scale
    /\ InitialBtc \in Money
    /\ InitialUsd \in Money
    /\ OrderForms \subseteq
          [side : Side, amount : Money \ {0}, price : Money \ {0}]
    /\ MaxOrders \in Nat
    /\ MaxCancels \in Nat

OrderStatus ==
    {"QUEUED", "OPEN", "PARTIALLY_FILLED", "FILLED", "CANCELLED", "REJECTED"}
BookStatuses == {"OPEN", "PARTIALLY_FILLED"}
ActiveStatuses == {"QUEUED"} \cup BookStatuses

Order == [userId : Users, side : Side, price : Money, originalAmount : Money,
          remainingAmount : Money, status : OrderStatus]

Wallet == [availableBtc : Money, reservedBtc : Money,
           availableUsd : Money, reservedUsd : Money]

Trade == [makerOrderId : Nat, takerOrderId : Nat, takerSide : Side,
          price : Money, amount : Money,
          makerFeeAmount : Money, takerFeeAmount : Money]

\* A row as createOrder inserts it.
QueuedOrder(u, form) ==
    [userId |-> u, side |-> form.side, price |-> form.price,
     originalAmount |-> form.amount, remainingAmount |-> form.amount,
     status |-> "QUEUED"]

\* What an order with this much left to trade keeps reserved: USD for a BUY,
\* BTC for a SELL.
Escrow(side, amount, price) ==
    IF side = "BUY" THEN MultiplyScaled(amount, price) ELSE amount

\* The prices, sides and owners for which a resting order serves a taker.
Opposes(taker, maker) ==
    /\ maker.userId # taker.userId
    /\ maker.side # taker.side
    /\ IF taker.side = "BUY" THEN maker.price <= taker.price
                             ELSE maker.price >= taker.price

\* isEligibleMaker, on the row as reloaded under its lock.
IsEligibleMaker(taker, maker) ==
    /\ Opposes(taker, maker)
    /\ maker.status \in BookStatuses
    /\ maker.remainingAmount > 0

\* Price-time priority between two rows of a table: the better price for the
\* taker's side, then the lower sequence.
Ahead(table, takerSide, m, n) ==
    \/ IF takerSide = "BUY" THEN table[m].price < table[n].price
                            ELSE table[m].price > table[n].price
    \/ table[m].price = table[n].price /\ m < n

\* Mutant: nobody notices that nothing is left.
AfterTradesNeverFilled(order, left, matched) ==
    [order EXCEPT !.remainingAmount = left,
                  !.status = IF matched THEN "PARTIALLY_FILLED" ELSE "OPEN"]

\* An order's row after trades that left it this much; matched says whether
\* there were any.
AfterTrades(order, left, matched) ==
    [order EXCEPT !.remainingAmount = left,
                  !.status = IF ~matched THEN "OPEN"
                             ELSE IF left = 0 THEN "FILLED"
                             ELSE "PARTIALLY_FILLED"]

Lesser(a, b) == IF a < b THEN a ELSE b

\* The trade row of amount at the maker's price.  buildFeeDetails: each side
\* pays its fee in the asset it receives, BTC for a BUY and USD for a SELL.
TradeRow(makerId, takerId, takerSide, price, amount) ==
    LET cost == MultiplyScaled(amount, price)
        takerReceives == IF takerSide = "BUY" THEN amount ELSE cost
        makerReceives == IF takerSide = "BUY" THEN cost ELSE amount
    IN  [makerOrderId |-> makerId, takerOrderId |-> takerId,
         takerSide |-> takerSide, price |-> price, amount |-> amount,
         makerFeeAmount |-> MultiplyScaled(makerReceives, MakerFeeRate),
         takerFeeAmount |-> MultiplyScaled(takerReceives, TakerFeeRate)]

\* A trade's cost, parties and fees by side instead of by role.
CostOf(trade) == MultiplyScaled(trade.amount, trade.price)
BuyOrderId(trade) ==
    IF trade.takerSide = "BUY" THEN trade.takerOrderId ELSE trade.makerOrderId
SellOrderId(trade) ==
    IF trade.takerSide = "SELL" THEN trade.takerOrderId ELSE trade.makerOrderId
BtcFee(trade) == IF trade.takerSide = "BUY"
                 THEN trade.takerFeeAmount ELSE trade.makerFeeAmount
UsdFee(trade) == IF trade.takerSide = "SELL"
                 THEN trade.takerFeeAmount ELSE trade.makerFeeAmount
=============================================================================
