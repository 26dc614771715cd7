------------------------------ MODULE Exchange ------------------------------
(***************************************************************************)
(* What the exchange promises its users, without locks, transactions or    *)
(* reservations: an order is placed, executed, refused or cancelled in one *)
(* indivisible step.  An execution trades with the book in strict          *)
(* price-time priority, at the makers' prices, and moves wealth only along *)
(* the trades it records.  wealth is what a user owns of each asset,       *)
(* whether available or reserved.                                          *)
(***************************************************************************)
EXTENDS Rows, Sums, Sequences

VARIABLES orders, trades, wealth

vars == <<orders, trades, wealth>>

Init ==
    /\ orders = <<>>
    /\ trades = <<>>
    /\ wealth = [u \in Users |-> [btc |-> InitialBtc, usd |-> InitialUsd]]

\* All that the active orders of u on one side commit u to deliver.
Committed(u, side) ==
    LET mine == {o \in DOMAIN orders : /\ orders[o].userId = u
                                       /\ orders[o].side = side
                                       /\ orders[o].status \in ActiveStatuses}
    IN  SumOver([o \in mine |-> Escrow(side, orders[o].remainingAmount,
                                       orders[o].price)], mine)

\* An order is taken only if its owner can still pay for it in full.
Place(u, form) ==
    /\ Len(orders) < MaxOrders
    /\ LET owned == IF form.side = "BUY" THEN wealth[u].usd ELSE wealth[u].btc
       IN  Committed(u, form.side)
              + Escrow(form.side, form.amount, form.price) <= owned
    /\ orders' = Append(orders, QueuedOrder(u, form))
    /\ UNCHANGED <<trades, wealth>>

\* A queued or resting order leaves with what it has not traded.
Withdraw(o, status) ==
    /\ orders' = [orders EXCEPT ![o].status = status]
    /\ UNCHANGED <<trades, wealth>>

Cancel(o) == orders[o].status \in ActiveStatuses /\ Withdraw(o, "CANCELLED")

Refuse(o) == orders[o].status = "QUEUED" /\ Withdraw(o, "REJECTED")

Makers(t) == {m \in DOMAIN orders : IsEligibleMaker(orders[t], orders[m])}

\* How much each maker trades with t: as much as both have left once every
\* maker ahead of it is served, unless that is not worth one unit of USD.
Fill(t) ==
    LET makers == Makers(t)
        fill[m \in makers] ==
            LET ahead == {b \in makers : Ahead(orders, orders[t].side, b, m)}
                left == orders[t].remainingAmount
                           - SumOver([b \in ahead |-> fill[b]], ahead)
                amount == Lesser(left, orders[m].remainingAmount)
            IN  IF MultiplyScaled(amount, orders[m].price) = 0
                THEN 0 ELSE amount
    IN  fill

Execute(t) ==
    LET fill == Fill(t)
        served == {m \in Makers(t) : fill[m] > 0}
        left == orders[t].remainingAmount
                   - SumOver([m \in served |-> fill[m]], served)
        rank(m) == Cardinality({b \in served :
                                   Ahead(orders, orders[t].side, b, m)}) + 1
        new == [i \in 1..Cardinality(served) |->
                  LET m == CHOOSE m \in served : rank(m) = i
                  IN  TradeRow(m, t, orders[t].side, orders[m].price, fill[m])]
        buys(u) == {i \in DOMAIN new : orders[BuyOrderId(new[i])].userId = u}
        sells(u) == {i \in DOMAIN new : orders[SellOrderId(new[i])].userId = u}
    IN  /\ orders[t].status = "QUEUED"
        /\ trades' = trades \o new
        /\ orders' = [o \in DOMAIN orders |->
              IF o = t THEN AfterTrades(orders[t], left, served # {})
              ELSE IF o \in served
                   THEN AfterTrades(orders[o],
                                    orders[o].remainingAmount - fill[o], TRUE)
              ELSE orders[o]]
        /\ wealth' = [u \in Users |->
              [btc |-> wealth[u].btc
                  + SumOver([i \in buys(u) |-> new[i].amount - BtcFee(new[i])],
                            buys(u))
                  - SumOver([i \in sells(u) |-> new[i].amount], sells(u)),
               usd |-> wealth[u].usd
                  + SumOver([i \in sells(u) |->
                                CostOf(new[i]) - UsdFee(new[i])], sells(u))
                  - SumOver([i \in buys(u) |-> CostOf(new[i])], buys(u))]]

Next ==
    \/ \E u \in Users, form \in OrderForms : Place(u, form)
    \/ \E o \in DOMAIN orders : Cancel(o) \/ Refuse(o) \/ Execute(o)

Spec == Init /\ [][Next]_vars
=============================================================================
