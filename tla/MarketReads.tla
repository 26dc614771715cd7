---------------------------- MODULE MarketReads ----------------------------
(***************************************************************************)
(* What users read about the trading core: the order book by price levels  *)
(* and a user's own trades.  Each is what one statement returns, over the  *)
(* rows that are committed.                                                *)
(***************************************************************************)
EXTENDS Matching

\* findOrderBookLevels, toOrderBookLevel: the resting orders of a side, grouped
\* by price.
Resting(side) == {o \in DOMAIN orders : /\ orders[o].side = side
                                        /\ orders[o].status \in BookStatuses}

\* Mutant: the levels show the amounts that were ordered.
LevelAsOrdered(side, price) ==
    LET mine == {o \in Resting(side) : orders[o].price = price}
    IN  [price |-> price,
         amount |-> SumOver([o \in mine |-> orders[o].originalAmount], mine),
         orderCount |-> Cardinality(mine)]

OrderBookLevel(side, price) ==
    LET mine == {o \in Resting(side) : orders[o].price = price}
    IN  [price |-> price,
         amount |-> SumOver([o \in mine |-> orders[o].remainingAmount], mine),
         orderCount |-> Cardinality(mine)]

OrderBook(side) ==
    {OrderBookLevel(side, orders[o].price) : o \in Resting(side)}

\* The owners of a trade's orders.
Buyer(trade) == orders[BuyOrderId(trade)].userId
Seller(trade) == orders[SellOrderId(trade)].userId

\* Mutant: the side is the taker's, whichever party reads.
HistoryItemOfTaker(u, trade) ==
    LET role == IF orders[trade.takerOrderId].userId = u THEN "TAKER" ELSE "MAKER"
    IN  [price |-> trade.price, amount |-> trade.amount,
         side |-> trade.takerSide, role |-> role,
         feeAmount |-> IF role = "TAKER" THEN trade.takerFeeAmount
                                         ELSE trade.makerFeeAmount,
         feeAsset |-> IF (role = "TAKER") = (trade.takerSide = "BUY")
                      THEN "BTC" ELSE "USD"]

\* TradesService.getUserHistory: a trade as one of its parties sees it.  A fee
\* is in the asset that its payer received.
HistoryItem(u, trade) ==
    LET role == IF orders[trade.takerOrderId].userId = u THEN "TAKER" ELSE "MAKER"
    IN  [price |-> trade.price, amount |-> trade.amount,
         side |-> IF Buyer(trade) = u THEN "BUY" ELSE "SELL", role |-> role,
         feeAmount |-> IF role = "TAKER" THEN trade.takerFeeAmount
                                         ELSE trade.makerFeeAmount,
         feeAsset |-> IF (role = "TAKER") = (trade.takerSide = "BUY")
                      THEN "BTC" ELSE "USD"]

\* findUserHistory, by the number of the trade's row.
UserHistory(u) ==
    [i \in {j \in DOMAIN trades : u \in {Buyer(trades[j]), Seller(trades[j])}}
       |-> HistoryItem(u, trades[i])]

-----------------------------------------------------------------------------
(* Properties *)

\* What an item of the history says that its reader received and paid, of each
\* asset.
BtcIn(item) == IF item.side = "BUY" THEN item.amount ELSE 0
UsdIn(item) ==
    IF item.side = "SELL" THEN MultiplyScaled(item.amount, item.price) ELSE 0
BtcOut(item) == (IF item.side = "SELL" THEN item.amount ELSE 0)
                    + (IF item.feeAsset = "BTC" THEN item.feeAmount ELSE 0)
UsdOut(item) ==
    (IF item.side = "BUY" THEN MultiplyScaled(item.amount, item.price) ELSE 0)
        + (IF item.feeAsset = "USD" THEN item.feeAmount ELSE 0)

\* A user can reconcile the wallet with the trade history, to the last unit:
\* what the wallet holds, available and reserved, is what it started with and
\* what the listed sides, costs and fees add up to, whichever orders were
\* filled in part, at better prices, cancelled or refused meanwhile.
HistoryExplainsWallet ==
    \A u \in Users :
        LET history == UserHistory(u)
            wallet == wallets[u]
            Total(Of(_)) == SumOver([i \in DOMAIN history |-> Of(history[i])],
                                    DOMAIN history)
        IN  /\ wallet.availableBtc + wallet.reservedBtc + Total(BtcOut)
                  = InitialBtc + Total(BtcIn)
            /\ wallet.availableUsd + wallet.reservedUsd + Total(UsdOut)
                  = InitialUsd + Total(UsdIn)

\* The book offers no more than the wallets hold in reserve for it: every unit
\* of an ask level is reserved BTC, and the cost of the bid levels exceeds the
\* reserved USD by less than one unit of rounding for each of their orders.
BookIsBacked ==
    LET bids == OrderBook("BUY")
        asks == OrderBook("SELL")
    IN  /\ SumOver([l \in asks |-> l.amount], asks)
              <= SumOver([u \in Users |-> wallets[u].reservedBtc], Users)
        /\ bids # {} =>
              SumOver([l \in bids |-> MultiplyScaled(l.amount, l.price)], bids)
                 < SumOver([u \in Users |-> wallets[u].reservedUsd], Users)
                   + SumOver([l \in bids |-> l.orderCount], bids)
=============================================================================
