--------------------------- MODULE Ledger_proofs ----------------------------
(***************************************************************************)
(* Proofs about what users own and what they trade: no unit of an asset is *)
(* made or lost, an order is filled by what its trades say, what users     *)
(* read of the book and their histories adds up with their wallets, and    *)
(* Matching implements Exchange.                                           *)
(***************************************************************************)
EXTENDS MarketReads, Matching_proofs

USE DEF MatchingPhases

-----------------------------------------------------------------------------
(* What the book's levels add up to *)

\* What an order keeps reserved for its owner.
KeptBy(side) ==
    [o \in DOMAIN orders |-> EscrowFor(orders[o], orders[o].userId, side)]

LEMMA KeptType ==
    ASSUME TypeOK, NEW side \in Side
    PROVE  /\ IsFiniteSet(DOMAIN orders)
           /\ EscrowBound \in Nat
           /\ \A o \in DOMAIN orders : KeptBy(side)[o] \in 0..EscrowBound
<1>1. IsTable(orders)
  BY OrdersTable
<1> QED
  BY <1>1, TableFinite, EscrowBoundNat, EscrowForType DEF IsTable, KeptBy

\* All users' reservations are what all orders keep.
LEMMA ReservedInAll ==
    ASSUME TypeOK, NEW side \in Side
    PROVE  SumOver([u \in Users |-> Reserved(orders, u, side)], Users)
              = SumOver(KeptBy(side), DOMAIN orders)
<1> DEFINE S == DOMAIN orders
           own == KeptBy(side)
           owner == [o \in S |-> orders[o].userId]
           Mine(u) == {o \in S : owner[o] = u}
<1>1. /\ IsFiniteSet(S) /\ EscrowBound \in Nat
      /\ \A o \in S : own[o] \in 0..EscrowBound
  BY KeptType
<1>2. \A o \in S : owner[o] \in Users
  BY OrderRows DEF Order
<1>3. ASSUME NEW u \in Users
      PROVE  Reserved(orders, u, side) = SumOver(own, Mine(u))
  <2> DEFINE f == [o \in S |-> EscrowFor(orders[o], u, side)]
  <2>1. \A o \in S \ Mine(u) : f[o] = 0
    BY DEF EscrowFor
  <2>2. \A o \in Mine(u) : f[o] = own[o]
    BY DEF KeptBy
  <2>3. Reserved(orders, u, side) = SumOver(f, S)
    BY DEF Reserved
  <2> HIDE DEF f, own
  <2>4. SumOver(f, S) = SumOver(f, Mine(u))
    BY <2>1, SumOfSupport
  <2>5. SumOver(f, Mine(u)) = SumOver(own, Mine(u))
    BY <2>2, SumCongruent
  <2> QED
    BY <2>3, <2>4, <2>5
<1>4. IsFiniteSet(Users)
  BY RowsAssumption
<1> HIDE DEF own, owner, S
<1>5. SumOver([u \in Users |-> SumOver(own, {o \in S : owner[o] = u})], Users)
         = SumOver(own, S)
  BY ONLY <1>1, <1>2, <1>4, SumOfParts
<1>6. \A u \in Users : [v \in Users |-> Reserved(orders, v, side)][u]
                       = [v \in Users |-> SumOver(own, {o \in S : owner[o] = v})][u]
  BY <1>3
<1>7. SumOver([u \in Users |-> Reserved(orders, u, side)], Users)
         = SumOver([u \in Users |-> SumOver(own, {o \in S : owner[o] = u})], Users)
  BY ONLY <1>6, SumCongruent
<1> QED
  BY <1>5, <1>7 DEF own, S

\* A level's orders.
AtPrice(side, price) == {o \in Resting(side) : orders[o].price = price}

LEMMA BookFinite ==
    ASSUME TypeOK, NEW side \in Side
    PROVE  /\ Resting(side) \subseteq DOMAIN orders
           /\ IsFiniteSet(Resting(side))
           /\ IsFiniteSet(OrderBook(side))
<1>1. Resting(side) \subseteq DOMAIN orders
  BY DEF Resting
<1>2. IsFiniteSet(Resting(side))
  BY <1>1, KeptType, FS_Subset
<1> DEFINE level == [o \in Resting(side) |-> OrderBookLevel(side, orders[o].price)]
<1>3. OrderBook(side) = {level[o] : o \in Resting(side)}
  BY DEF OrderBook
<1>4. IsFiniteSet(OrderBook(side))
  <2>1. level \in [Resting(side) -> {level[o] : o \in Resting(side)}]
    OBVIOUS
  <2> HIDE DEF level
  <2>2. level \in Surjection(Resting(side), {level[o] : o \in Resting(side)})
    BY <2>1 DEF Surjection
  <2> QED
    BY <1>2, <1>3, <2>2, FS_Surjection
<1> QED
  BY <1>1, <1>2, <1>4

LEMMA LevelFields ==
    ASSUME NEW side \in Side, NEW l \in OrderBook(side)
    PROVE  /\ l.amount = SumOver([o \in AtPrice(side, l.price) |->
                                      orders[o].remainingAmount],
                                 AtPrice(side, l.price))
           /\ l.orderCount = Cardinality(AtPrice(side, l.price))
           /\ AtPrice(side, l.price) # {}
           /\ \A o \in Resting(side) :
                 OrderBookLevel(side, orders[o].price) = l
                    <=> orders[o].price = l.price
<1>1. PICK x \in Resting(side) : l = OrderBookLevel(side, orders[x].price)
  BY DEF OrderBook
<1>2. l.price = orders[x].price
  BY <1>1 DEF OrderBookLevel
<1>3. x \in AtPrice(side, l.price)
  BY <1>2 DEF AtPrice
<1>4. ASSUME NEW o \in Resting(side), OrderBookLevel(side, orders[o].price) = l
      PROVE  orders[o].price = l.price
  BY <1>4 DEF OrderBookLevel
<1>5. /\ l.amount = SumOver([o \in AtPrice(side, l.price) |->
                                 orders[o].remainingAmount],
                            AtPrice(side, l.price))
      /\ l.orderCount = Cardinality(AtPrice(side, l.price))
  BY <1>1, <1>2 DEF OrderBookLevel, AtPrice
<1> QED
  BY <1>1, <1>2, <1>3, <1>4, <1>5

\* Adding up over the levels is adding up over the resting orders.
LEMMA LevelSums ==
    ASSUME TypeOK, NEW side \in Side, NEW B \in Nat,
           NEW f, \A o \in Resting(side) : f[o] \in 0..B
    PROVE  /\ SumOver(f, Resting(side)) \in Nat
           /\ SumOver([l \in OrderBook(side) |-> SumOver(f, AtPrice(side, l.price))],
                      OrderBook(side))
                 = SumOver(f, Resting(side))
<1> DEFINE S == Resting(side)
           P == OrderBook(side)
           level == [o \in S |-> OrderBookLevel(side, orders[o].price)]
<1>1. IsFiniteSet(S) /\ IsFiniteSet(P)
  BY BookFinite
<1>2. \A o \in S : level[o] \in P
  BY DEF OrderBook
<1>3. \A l \in P : {o \in S : level[o] = l} = AtPrice(side, l.price)
  BY LevelFields DEF AtPrice
<1>4. \A o \in S : f[o] \in 0..B
  OBVIOUS
<1> HIDE DEF level, S, P
<1>5. /\ SumOver(f, S) \in Nat
      /\ SumOver([l \in P |-> SumOver(f, {o \in S : level[o] = l})], P)
            = SumOver(f, S)
  BY ONLY <1>1, <1>2, <1>4, B \in Nat, SumOfParts
<1>6. \A l \in P : [k \in P |-> SumOver(f, {o \in S : level[o] = k})][l]
                    = [k \in P |-> SumOver(f, AtPrice(side, k.price))][l]
  BY <1>3
<1>7. SumOver([l \in P |-> SumOver(f, {o \in S : level[o] = l})], P)
         = SumOver([l \in P |-> SumOver(f, AtPrice(side, l.price))], P)
  BY ONLY <1>6, SumCongruent
<1> QED
  BY <1>5, <1>7 DEF S, P

\* A resting order's remaining amount and what it costs at its own price.
LEMMA RestingRow ==
    ASSUME TypeOK, NEW side \in Side, NEW o \in Resting(side)
    PROVE  /\ orders[o].remainingAmount \in 0..DecimalMax
           /\ orders[o].price \in Nat
           /\ orders[o].side = side /\ orders[o].status \in ActiveStatuses
           /\ Escrow(side, orders[o].remainingAmount, orders[o].price)
                 = KeptBy(side)[o]
<1>1. o \in DOMAIN orders /\ orders[o].side = side /\ orders[o].status \in BookStatuses
  BY DEF Resting
<1>2. orders[o] \in Order
  BY <1>1, OrderRows
<1> QED
  BY <1>1, <1>2, DecimalsAssumption DEF KeptBy, EscrowFor, Order, Money, ActiveStatuses

\* What resting orders keep is part of what the wallets reserve.
LEMMA RestingReserved ==
    ASSUME TypeOK, NEW side \in Side, NEW f,
           \A o \in Resting(side) : f[o] = KeptBy(side)[o]
    PROVE  /\ SumOver(f, Resting(side)) \in Nat
           /\ SumOver([u \in Users |-> Reserved(orders, u, side)], Users) \in Nat
           /\ SumOver(f, Resting(side))
                 <= SumOver([u \in Users |-> Reserved(orders, u, side)], Users)
<1> DEFINE own == KeptBy(side)
           S == DOMAIN orders
           T == Resting(side)
<1>1. /\ IsFiniteSet(S) /\ EscrowBound \in Nat
      /\ \A o \in S : own[o] \in 0..EscrowBound
  BY KeptType
<1>2. T \in SUBSET S
  BY BookFinite
<1>3. \A o \in T : f[o] \in Nat /\ f[o] <= own[o]
  BY <1>1, <1>2
<1>4. SumOver([u \in Users |-> Reserved(orders, u, side)], Users) = SumOver(own, S)
  BY ReservedInAll
<1> HIDE DEF own, S, T
<1>5. /\ SumOver(f, T) \in Nat /\ SumOver(own, S) \in Nat
      /\ SumOver(f, T) <= SumOver(own, S)
  BY ONLY <1>1, <1>2, <1>3, SumMonotone
<1> QED
  BY <1>4, <1>5 DEF T

LEMMA AsksBacked ==
    ASSUME TypeOK, ReservationsExact
    PROVE  SumOver([l \in OrderBook("SELL") |-> l.amount], OrderBook("SELL"))
              <= SumOver([u \in Users |-> wallets[u].reservedBtc], Users)
<1> DEFINE P == OrderBook("SELL")
           f == [o \in Resting("SELL") |-> orders[o].remainingAmount]
<1>1. "SELL" \in Side
  BY DEF Side
<1>2. \A o \in Resting("SELL") : f[o] \in 0..DecimalMax /\ f[o] = KeptBy("SELL")[o]
  <2>1. ASSUME NEW o \in Resting("SELL")
        PROVE  f[o] \in 0..DecimalMax /\ f[o] = KeptBy("SELL")[o]
    BY <1>1, RestingRow DEF Escrow
  <2> QED
    BY <2>1
<1>3. ASSUME NEW l \in P
      PROVE  l.amount = SumOver(f, AtPrice("SELL", l.price))
  <2> DEFINE A == AtPrice("SELL", l.price)
             g == [o \in A |-> orders[o].remainingAmount]
  <2>1. l.amount = SumOver(g, A)
    BY <1>1, LevelFields
  <2>2. \A o \in A : g[o] = f[o]
    BY DEF AtPrice
  <2> HIDE DEF A, f, g
  <2>3. SumOver(g, A) = SumOver(f, A)
    BY <2>2, SumCongruent
  <2> QED
    BY <2>1, <2>3 DEF A
<1> HIDE DEF f, P
<1>4. \A l \in P : [k \in P |-> k.amount][l]
                    = [k \in P |-> SumOver(f, AtPrice("SELL", k.price))][l]
  BY <1>3
<1>5. SumOver([l \in P |-> l.amount], P)
         = SumOver([l \in P |-> SumOver(f, AtPrice("SELL", l.price))], P)
  BY ONLY <1>4, SumCongruent
<1>6. DecimalMax \in Nat
  BY DecimalsAssumption
<1>7. SumOver([l \in P |-> SumOver(f, AtPrice("SELL", l.price))], P)
         = SumOver(f, Resting("SELL"))
  BY <1>1, <1>2, <1>6, LevelSums DEF P
<1>8. SumOver(f, Resting("SELL"))
         <= SumOver([u \in Users |-> Reserved(orders, u, "SELL")], Users)
  BY <1>1, <1>2, RestingReserved
<1>9. \A u \in Users : [v \in Users |-> Reserved(orders, v, "SELL")][u]
                        = [v \in Users |-> wallets[v].reservedBtc][u]
  BY DEF ReservationsExact, Backed
<1>10. SumOver([u \in Users |-> Reserved(orders, u, "SELL")], Users)
          = SumOver([u \in Users |-> wallets[u].reservedBtc], Users)
  BY ONLY <1>9, SumCongruent
<1> QED
  BY <1>5, <1>7, <1>8, <1>10 DEF P

LEMMA BidsBacked ==
    ASSUME TypeOK, ReservationsExact, OrderBook("BUY") # {}
    PROVE  SumOver([l \in OrderBook("BUY") |-> MultiplyScaled(l.amount, l.price)],
                   OrderBook("BUY"))
              < SumOver([u \in Users |-> wallets[u].reservedUsd], Users)
                + SumOver([l \in OrderBook("BUY") |-> l.orderCount], OrderBook("BUY"))
<1> DEFINE P == OrderBook("BUY")
           T == Resting("BUY")
           amount == [o \in T |-> orders[o].remainingAmount]
           cost == [o \in T |-> MultiplyScaled(orders[o].remainingAmount,
                                               orders[o].price)]
           one == [o \in T |-> 1]
           level == [l \in P |-> MultiplyScaled(l.amount, l.price)]
           costs == [l \in P |-> SumOver(cost, AtPrice("BUY", l.price))]
           counts == [l \in P |-> l.orderCount]
           both == [l \in P |-> costs[l] + counts[l]]
<1>1. "BUY" \in Side /\ DecimalMax \in Nat /\ EscrowBound \in Nat
  BY DecimalsAssumption, EscrowBoundNat DEF Side
<1>2. IsFiniteSet(T) /\ IsFiniteSet(P) /\ T \subseteq DOMAIN orders
  BY <1>1, BookFinite
<1>3. \A o \in T : /\ amount[o] \in 0..DecimalMax
                   /\ orders[o].price \in Nat
                   /\ cost[o] = MultiplyScaled(amount[o], orders[o].price)
                   /\ cost[o] = KeptBy("BUY")[o]
                   /\ cost[o] \in 0..EscrowBound
  <2>1. ASSUME NEW o \in T
        PROVE  /\ amount[o] \in 0..DecimalMax
               /\ orders[o].price \in Nat
               /\ cost[o] = MultiplyScaled(amount[o], orders[o].price)
               /\ cost[o] = KeptBy("BUY")[o]
    BY <1>1, RestingRow DEF Escrow
  <2>2. \A o \in T : KeptBy("BUY")[o] \in 0..EscrowBound
    BY <1>1, <1>2, KeptType
  <2> HIDE DEF amount, cost, T
  <2> QED
    BY <2>1, <2>2
<1>4. ASSUME NEW l \in P
      PROVE  /\ counts[l] \in 0..Cardinality(T)
             /\ costs[l] \in 0..SumOver(cost, T)
             /\ level[l] \in Nat
             /\ level[l] < both[l]
             /\ counts[l] = Cardinality(AtPrice("BUY", l.price))
  <2> DEFINE A == AtPrice("BUY", l.price)
             g == [o \in A |-> orders[o].remainingAmount]
             ca == SumOver(cost, A)
             am == SumOver(amount, A)
  <2>1. /\ l.amount = SumOver(g, A)
        /\ l.orderCount = Cardinality(A)
        /\ A # {}
    BY <1>1, LevelFields
  <2>2. A \in SUBSET T /\ \A o \in A : orders[o].price = l.price
    BY DEF AtPrice
  <2>3. IsFiniteSet(A) /\ Cardinality(A) \in 0..Cardinality(T)
    BY <1>2, <2>2, FS_Subset, FS_CardinalityType
  <2>4. l.amount = am
    <3>1. \A o \in A : g[o] = amount[o]
      BY <2>2
    <3> HIDE DEF A, g, amount
    <3>2. SumOver(g, A) = SumOver(amount, A)
      BY <3>1, SumCongruent
    <3> QED
      BY <2>1, <3>2
  <2>5. l.price \in Nat
    BY <1>3, <2>1, <2>2
  <2>6. costs[l] = ca /\ counts[l] = Cardinality(A)
    BY <2>1
  <2>7. level[l] = MultiplyScaled(l.amount, l.price) /\ both[l] = costs[l] + counts[l]
    OBVIOUS
  <2> HIDE DEF A, g, amount, cost, T, level, both, costs, counts, P
  <2>8. \A o \in A : /\ amount[o] \in 0..DecimalMax
                     /\ cost[o] = MultiplyScaled(amount[o], l.price)
                     /\ cost[o] \in Nat /\ cost[o] <= cost[o]
    BY <1>3, <2>2
  <2>9. /\ ca \in Nat /\ SumOver(cost, T) \in Nat
        /\ ca <= SumOver(cost, T)
    <3>1. \A o \in T : cost[o] \in 0..EscrowBound
      BY <1>3
    <3>2. \A o \in A : cost[o] \in Nat /\ cost[o] <= cost[o]
      BY <2>8
    <3> QED
      BY ONLY <1>1, <1>2, <2>2, <3>1, <3>2, SumMonotone
  <2>10. am \in Nat
    <3>1. \A o \in A : amount[o] \in 0..DecimalMax
      BY <2>8
    <3> QED
      BY ONLY <1>1, <2>3, <3>1, TokensFinite
  <2>11. MultiplyScaled(am, l.price) < ca + Cardinality(A)
    <3>1. \A o \in A : amount[o] \in 0..DecimalMax
      BY <2>8
    <3>2. \A o \in A : cost[o] = MultiplyScaled(amount[o], l.price)
      BY <2>8
    <3> QED
      BY ONLY <1>1, <2>1, <2>3, <2>5, <3>1, <3>2, CostOfSum
  <2>12. MultiplyScaled(am, l.price) \in Nat
    BY <2>5, <2>10, MultiplyScaledNat
  <2> QED
    BY <2>3, <2>4, <2>6, <2>7, <2>9, <2>11, <2>12 DEF A
<1> DEFINE B == SumOver(cost, T) + Cardinality(T)
<1>5. SumOver(cost, T) \in Nat /\ Cardinality(T) \in Nat /\ B \in Nat
  <2>1. \A o \in T : cost[o] \in 0..EscrowBound
    BY <1>3
  <2> HIDE DEF cost, T
  <2>2. SumOver(cost, T) \in Nat
    BY ONLY <1>1, <1>2, <2>1, TokensFinite
  <2>3. Cardinality(T) \in Nat
    BY <1>2, FS_CardinalityType
  <2> QED
    BY <2>2, <2>3
<1>6. \A l \in P : both[l] = costs[l] + counts[l]
  OBVIOUS
<1> HIDE DEF amount, cost, one, level, both, costs, counts, T, P
<1>7. \A l \in P : /\ costs[l] \in 0..B /\ counts[l] \in 0..B /\ both[l] \in 0..B
                   /\ level[l] \in Nat /\ level[l] < both[l]
  BY <1>4, <1>5, <1>6
<1> HIDE DEF B
<1>14. P # {}
  BY DEF P
<1>8. /\ SumOver(level, P) \in Nat /\ SumOver(both, P) \in Nat
      /\ SumOver(level, P) < SumOver(both, P)
  BY ONLY <1>2, <1>5, <1>7, <1>14, SumLess
<1>9. /\ SumOver(costs, P) \in Nat /\ SumOver(counts, P) \in Nat
      /\ SumOver(both, P) = SumOver(costs, P) + SumOver(counts, P)
  BY ONLY <1>2, <1>5, <1>6, <1>7, SumOfPairs
<1>10. SumOver(costs, P) = SumOver(cost, T)
  <2>1. \A o \in Resting("BUY") : cost[o] \in 0..EscrowBound
    BY <1>3 DEF T
  <2> QED
    BY <1>1, <2>1, LevelSums DEF costs, P, T
<1>11. SumOver(cost, T)
         <= SumOver([u \in Users |-> Reserved(orders, u, "BUY")], Users)
       /\ SumOver([u \in Users |-> Reserved(orders, u, "BUY")], Users) \in Nat
  <2>1. \A o \in Resting("BUY") : cost[o] = KeptBy("BUY")[o]
    BY <1>3 DEF T
  <2> QED
    BY <1>1, <2>1, RestingReserved DEF T
<1>12. \A u \in Users : [v \in Users |-> Reserved(orders, v, "BUY")][u]
                         = [v \in Users |-> wallets[v].reservedUsd][u]
  BY DEF ReservationsExact, Backed
<1>13. SumOver([u \in Users |-> Reserved(orders, u, "BUY")], Users)
          = SumOver([u \in Users |-> wallets[u].reservedUsd], Users)
  BY ONLY <1>12, SumCongruent
<1> QED
  BY <1>5, <1>8, <1>9, <1>10, <1>11, <1>13 DEF level, counts, P

\* What the order book shows (findOrderBookLevels) is backed by the wallets: an
\* ask's units are reserved, and so are the costs of the bids, but for less than
\* one unit of rounding for each order.
THEOREM BookAlwaysBacked == Spec => []BookIsBacked
<1>1. Reserving => BookIsBacked
  BY AsksBacked, BidsBacked DEF Reserving, Locked, BookIsBacked
<1> QED
  BY <1>1, AlwaysReserving, PTL

-----------------------------------------------------------------------------
(* What wallets hold and what trades move *)

Asset == {"BTC", "USD"}

\* All that a wallet holds of an asset, what it started with, and the fee that
\* a trade leaves in it.
Holds(wallet, asset) == IF asset = "BTC"
                        THEN wallet.availableBtc + wallet.reservedBtc
                        ELSE wallet.availableUsd + wallet.reservedUsd
Initial(asset) == IF asset = "BTC" THEN InitialBtc ELSE InitialUsd
FeeIn(trade, asset) == IF asset = "BTC" THEN BtcFee(trade) ELSE UsdFee(trade)

\* What a trade brings the user on one of its sides, fee deducted.
Gain(trade, side, asset) ==
    CASE side = "BUY"  /\ asset = "BTC" -> trade.amount - BtcFee(trade)
      [] side = "BUY"  /\ asset = "USD" -> 0 - CostOf(trade)
      [] side = "SELL" /\ asset = "BTC" -> 0 - trade.amount
      [] side = "SELL" /\ asset = "USD" -> CostOf(trade) - UsdFee(trade)

\* The trades of a state, with those that its match has drafted.
Made == trades \o draft.trades

HoldsBound == DecimalMax + DecimalMax

LEMMA HoldsType ==
    ASSUME NEW wallet \in Wallet, NEW asset
    PROVE  Holds(wallet, asset) \in 0..HoldsBound
<1>1. /\ wallet.availableBtc \in 0..DecimalMax /\ wallet.reservedBtc \in 0..DecimalMax
      /\ wallet.availableUsd \in 0..DecimalMax /\ wallet.reservedUsd \in 0..DecimalMax
      /\ DecimalMax \in Nat
  BY DecimalsAssumption DEF Wallet, Money
<1>2. QED
  BY <1>1 DEF Holds, HoldsBound

LEMMA HoldsBoundNat == HoldsBound \in Nat /\ DecimalMax \in Nat
BY DecimalsAssumption DEF HoldsBound

LEMMA FeeType ==
    ASSUME NEW trade \in Trade, NEW asset
    PROVE  FeeIn(trade, asset) \in 0..DecimalMax
BY DEF FeeIn, BtcFee, UsdFee, Trade, Money

LEMMA TradeAmounts ==
    ASSUME NEW trade \in Trade
    PROVE  /\ trade.amount \in Nat /\ BtcFee(trade) \in Nat
           /\ UsdFee(trade) \in Nat /\ CostOf(trade) \in Nat
<1>1. /\ trade.amount \in Nat /\ trade.price \in Nat
      /\ trade.makerFeeAmount \in Nat /\ trade.takerFeeAmount \in Nat
  BY MoneyNat DEF Trade
<1>2. QED
  BY <1>1, MultiplyScaledNat DEF BtcFee, UsdFee, CostOf

\* The two sides of a trade gain nothing together but for the fees they pay.
LEMMA GainsOffset ==
    ASSUME NEW trade \in Trade, NEW asset \in Asset
    PROVE  /\ Gain(trade, "BUY", asset) \in Int /\ Gain(trade, "SELL", asset) \in Int
           /\ Gain(trade, "BUY", asset) + Gain(trade, "SELL", asset)
                 + FeeIn(trade, asset) = 0
<1>1. CASE asset = "BTC"
  BY <1>1, TradeAmounts DEF Gain, FeeIn
<1>2. CASE asset = "USD"
  BY <1>2, TradeAmounts DEF Gain, FeeIn
<1>3. QED
  BY <1>1, <1>2 DEF Asset

\* What buying and selling do to a wallet's holdings: the buyer's refund makes
\* up for what the reservation exceeds the cost by.
LEMMA TradedHoldings ==
    ASSUME Locked, Settling, NEW wallet \in Wallet, NEW fee \in Int
    PROVE  /\ Holds(WalletAfterBuying(wallet, fee), "BTC")
                 = Holds(wallet, "BTC") + TradeAmount - fee
           /\ Holds(WalletAfterBuying(wallet, fee), "USD")
                 = Holds(wallet, "USD") - ExecutedCost
           /\ Holds(WalletAfterSelling(wallet, fee), "BTC")
                 = Holds(wallet, "BTC") - TradeAmount
           /\ Holds(WalletAfterSelling(wallet, fee), "USD")
                 = Holds(wallet, "USD") + ExecutedCost - fee
<1>1. /\ wallet.availableBtc \in Int /\ wallet.reservedBtc \in Int
      /\ wallet.availableUsd \in Int /\ wallet.reservedUsd \in Int
  BY DecimalsAssumption DEF Wallet, Money
<1>2. /\ ExecutedCost \in Int /\ ReservedCost \in Int
      /\ Refund = ReservedCost - ExecutedCost /\ Refund >= 0
  BY PayableCost DEF Refund
<1>3. TradeAmount \in Int
  BY NextMakerRow, DecimalsAssumption DEF Money
<1> DEFINE bought == WalletAfterBuying(wallet, fee)
           sold == WalletAfterSelling(wallet, fee)
<1>4. /\ bought.availableBtc = wallet.availableBtc + (TradeAmount - fee)
      /\ bought.reservedBtc = wallet.reservedBtc
      /\ bought.availableUsd = IF Refund > 0 THEN wallet.availableUsd + Refund
                                             ELSE wallet.availableUsd
      /\ bought.reservedUsd = wallet.reservedUsd - ReservedCost
  BY DEF WalletAfterBuying, Wallet
<1>5. /\ sold.availableBtc = wallet.availableBtc
      /\ sold.reservedBtc = wallet.reservedBtc - TradeAmount
      /\ sold.availableUsd = wallet.availableUsd + (ExecutedCost - fee)
      /\ sold.reservedUsd = wallet.reservedUsd
  BY DEF WalletAfterSelling, Wallet
<1> HIDE DEF bought, sold
<1>6. /\ Holds(bought, "BTC") = Holds(wallet, "BTC") + TradeAmount - fee
      /\ Holds(bought, "USD") = Holds(wallet, "USD") - ExecutedCost
      /\ Holds(sold, "BTC") = Holds(wallet, "BTC") - TradeAmount
      /\ Holds(sold, "USD") = Holds(wallet, "USD") + ExecutedCost - fee
  BY <1>1, <1>2, <1>3, <1>4, <1>5 DEF Holds
<1>7. QED
  BY <1>6 DEF bought, sold

\* What a settlement's trade row says of its amount, cost and fees.
LEMMA NextTradeMoney ==
    ASSUME Locked, Settling
    PROVE  /\ NextTrade.amount = TradeAmount /\ NextTrade.takerSide = Taker.side
           /\ NextTrade.price = TradePrice
           /\ NextTrade.takerOrderId = tx.taker
           /\ NextTrade.makerOrderId = NextMaker.id
           /\ CostOf(NextTrade) = ExecutedCost
           /\ NextTrade.takerFeeAmount \in Int /\ NextTrade.makerFeeAmount \in Int
<1>1. /\ MakerFeeRate \in Nat /\ TakerFeeRate \in Nat
  BY RowsAssumption, DecimalsAssumption
<1>2. TradeAmount \in Nat /\ ExecutedCost \in Nat
  BY NextMakerRow, PayableCost, DecimalsAssumption DEF Money
<1>3. /\ NextTrade.makerFeeAmount = MultiplyScaled(
            IF Taker.side = "BUY" THEN ExecutedCost ELSE TradeAmount, MakerFeeRate)
      /\ NextTrade.takerFeeAmount = MultiplyScaled(
            IF Taker.side = "BUY" THEN TradeAmount ELSE ExecutedCost, TakerFeeRate)
  BY DEF NextTrade, TradeRow, ExecutedCost
<1>4. /\ NextTrade.makerFeeAmount \in Nat
      /\ NextTrade.takerFeeAmount \in Nat
  BY <1>1, <1>2, <1>3, MultiplyScaledNat
<1>5. QED
  BY <1>4 DEF NextTrade, TradeRow, CostOf, ExecutedCost

\* A settlement moves what its trade row says.
LEMMA SettledHoldings ==
    ASSUME Locked, Settling, NEW asset \in Asset
    PROVE  LET m == NextMaker.id IN
           /\ Holds(TakerWallet, asset)
                 = Holds(SeenWallets[Taker.userId], asset)
                      + Gain(NextTrade, Taker.side, asset)
           /\ Holds(MakerWallet, asset)
                 = Holds(SeenWallets[orders[m].userId], asset)
                      + Gain(NextTrade, orders[m].side, asset)
<1> DEFINE m == NextMaker.id
           t == SeenWallets[Taker.userId]
           w == SeenWallets[orders[m].userId]
<1>1. /\ Taker.userId \in Users /\ orders[m].userId \in Users
      /\ Taker.side \in {"BUY", "SELL"} /\ orders[m].side \in {"BUY", "SELL"}
      /\ Taker.side # orders[m].side
  BY TakerRow, NextMakerRow DEF Settling, Order, Side, IsEligibleMaker, Opposes
<1>2. /\ t \in Wallet /\ w \in Wallet
      /\ \A a \in Asset : Holds(t, a) \in Int /\ Holds(w, a) \in Int
  <2>1. t \in Wallet /\ w \in Wallet
    BY <1>1, SeenWalletRow
  <2> HIDE DEF t, w
  <2>2. \A a \in Asset :
           Holds(t, a) \in 0..HoldsBound /\ Holds(w, a) \in 0..HoldsBound
    BY <2>1, HoldsType
  <2>3. QED
    BY <2>1, <2>2, HoldsBoundNat
<1>3. /\ NextTrade.amount = TradeAmount /\ NextTrade.takerSide = Taker.side
      /\ CostOf(NextTrade) = ExecutedCost
      /\ NextTrade.takerFeeAmount \in Int /\ NextTrade.makerFeeAmount \in Int
      /\ TradeAmount \in Int /\ ExecutedCost \in Int
  BY NextTradeMoney, NextMakerRow, PayableCost, DecimalsAssumption DEF Money
<1>4. CASE Taker.side = "BUY"
  <2>1. /\ TakerWallet = WalletAfterBuying(t, NextTrade.takerFeeAmount)
        /\ MakerWallet = WalletAfterSelling(w, NextTrade.makerFeeAmount)
        /\ BtcFee(NextTrade) = NextTrade.takerFeeAmount
        /\ UsdFee(NextTrade) = NextTrade.makerFeeAmount
        /\ orders[m].side = "SELL"
    BY <1>1, <1>3, <1>4 DEF TakerWallet, MakerWallet, BtcFee, UsdFee
  <2> HIDE DEF t, w, m
  <2>2. /\ Holds(TakerWallet, "BTC") = Holds(t, "BTC") + Gain(NextTrade, "BUY", "BTC")
        /\ Holds(TakerWallet, "USD") = Holds(t, "USD") + Gain(NextTrade, "BUY", "USD")
        /\ Holds(MakerWallet, "BTC") = Holds(w, "BTC") + Gain(NextTrade, "SELL", "BTC")
        /\ Holds(MakerWallet, "USD") = Holds(w, "USD") + Gain(NextTrade, "SELL", "USD")
    BY <1>2, <1>3, <2>1, TradedHoldings DEF Gain, Asset
  <2>3. QED
    BY <1>4, <2>1, <2>2 DEF Asset, t, w, m
<1>5. CASE Taker.side = "SELL"
  <2>1. /\ TakerWallet = WalletAfterSelling(t, NextTrade.takerFeeAmount)
        /\ MakerWallet = WalletAfterBuying(w, NextTrade.makerFeeAmount)
        /\ BtcFee(NextTrade) = NextTrade.makerFeeAmount
        /\ UsdFee(NextTrade) = NextTrade.takerFeeAmount
        /\ orders[m].side = "BUY"
    BY <1>1, <1>3, <1>5 DEF TakerWallet, MakerWallet, BtcFee, UsdFee
  <2> HIDE DEF t, w, m
  <2>2. /\ Holds(TakerWallet, "BTC") = Holds(t, "BTC") + Gain(NextTrade, "SELL", "BTC")
        /\ Holds(TakerWallet, "USD") = Holds(t, "USD") + Gain(NextTrade, "SELL", "USD")
        /\ Holds(MakerWallet, "BTC") = Holds(w, "BTC") + Gain(NextTrade, "BUY", "BTC")
        /\ Holds(MakerWallet, "USD") = Holds(w, "USD") + Gain(NextTrade, "BUY", "USD")
    BY <1>2, <1>3, <2>1, TradedHoldings DEF Gain, Asset
  <2>3. QED
    BY <1>5, <2>1, <2>2 DEF Asset, t, w, m
<1>6. QED
  BY <1>1, <1>4, <1>5

\* Two wallet tables with the same totals.
SameHoldings(funds, funds2) ==
    \A u \in Users, asset \in Asset : Holds(funds2[u], asset) = Holds(funds[u], asset)

\* Reservations and releases move a user's funds and change no total.
LEMMA OrdersKeepHoldings ==
    ASSUME Locked,
           \/ \E u \in Users, form \in OrderForms : CreateOrder(u, form)
           \/ \E o \in DOMAIN orders : CommitCancel(o)
           \/ RejectTaker
    PROVE  /\ trades' = trades /\ draft' = draft
           /\ SameHoldings(wallets, wallets')
           /\ SameHoldings(SeenWallets, SeenWallets')
<1> DEFINE Kept == /\ trades' = trades /\ draft' = draft
                   /\ SameHoldings(wallets, wallets')
                   /\ DOMAIN wallets' = Users
<1>1. /\ DOMAIN wallets = Users
      /\ \A v \in Users : /\ wallets[v] \in Wallet
                          /\ wallets[v].availableBtc \in Int
                          /\ wallets[v].reservedBtc \in Int
                          /\ wallets[v].availableUsd \in Int
                          /\ wallets[v].reservedUsd \in Int
  BY DecimalsAssumption DEF Locked, TypeOK, Wallet, Money
<1>2. ASSUME NEW u \in Users, NEW wallet, wallets' = [wallets EXCEPT ![u] = wallet],
             \A asset \in Asset : Holds(wallet, asset) = Holds(wallets[u], asset)
      PROVE  DOMAIN wallets' = Users /\ SameHoldings(wallets, wallets')
  BY <1>1, <1>2 DEF SameHoldings
<1>3. ASSUME NEW u \in Users, NEW side, NEW value \in Int, NEW asset \in Asset
      PROVE  /\ Holds(ReserveFunds(wallets[u], side, value), asset)
                   = Holds(wallets[u], asset)
             /\ Holds(ReleaseFunds(wallets[u], side, value), asset)
                   = Holds(wallets[u], asset)
  <2>1. CASE side = "BUY"
    BY <1>1, <2>1 DEF ReserveFunds, ReleaseFunds, Holds, Wallet
  <2>2. CASE side # "BUY"
    BY <1>1, <2>2 DEF ReserveFunds, ReleaseFunds, Holds, Wallet
  <2>3. QED
    BY <2>1, <2>2
<1>4. ASSUME NEW side \in Side, NEW amount \in Money, NEW price \in Money
      PROVE  Escrow(side, amount, price) \in Int
  <2>1. amount \in Nat /\ price \in Nat
    BY DecimalsAssumption DEF Money
  <2>2. QED
    BY <2>1, MultiplyScaledNat DEF Escrow
<1>5. ASSUME NEW u \in Users, NEW form \in OrderForms, CreateOrder(u, form)
      PROVE  Kept
  <2>1. Escrow(form.side, form.amount, form.price) \in Int
    BY <1>4, RowsAssumption
  <2>2. /\ trades' = trades /\ draft' = draft
        /\ wallets' = [wallets EXCEPT ![u] = ReserveFunds(wallets[u], form.side,
                          Escrow(form.side, form.amount, form.price))]
    BY <1>5 DEF CreateOrder
  <2>3. \A asset \in Asset : Holds(ReserveFunds(wallets[u], form.side,
              Escrow(form.side, form.amount, form.price)), asset)
                 = Holds(wallets[u], asset)
    BY <2>1, <1>3
  <2>4. QED
    BY <2>2, <2>3, <1>2
<1>6. ASSUME NEW o \in DOMAIN orders, CommitCancel(o)
      PROVE  Kept
  <2>1. /\ orders[o].userId \in Users /\ orders[o].side \in Side
        /\ orders[o].price \in Money /\ cancels[o] \in Money
    BY <1>6, OrderRows DEF CommitCancel, Locked, TypeOK, Order
  <2>2. Escrow(orders[o].side, cancels[o], orders[o].price) \in Int
    BY <1>4, <2>1
  <2>3. /\ trades' = trades /\ draft' = draft
        /\ wallets' = [wallets EXCEPT ![orders[o].userId] = WalletAfterCancel(o)]
    BY <1>6 DEF CommitCancel
  <2>4. \A asset \in Asset : Holds(WalletAfterCancel(o), asset)
                                = Holds(wallets[orders[o].userId], asset)
    BY <2>1, <2>2, <1>3 DEF WalletAfterCancel
  <2>5. QED
    BY <2>1, <2>3, <2>4, <1>2
<1>7. ASSUME RejectTaker
      PROVE  Kept
  <2>1. /\ Taker.userId \in Users /\ Taker.side \in Side
        /\ Taker.price \in Money /\ Taker.remainingAmount \in Money
    BY <1>7, TakerRow DEF RejectTaker
  <2>2. Escrow(Taker.side, Taker.remainingAmount, Taker.price) \in Int
    BY <1>4, <2>1
  <2>3. /\ trades' = trades /\ draft' = draft
        /\ wallets' = [wallets EXCEPT ![Taker.userId] = WalletAfterRejection]
    BY <1>7 DEF RejectTaker
  <2>4. \A asset \in Asset : Holds(WalletAfterRejection, asset)
                                = Holds(wallets[Taker.userId], asset)
    BY <2>1, <2>2, <1>3 DEF WalletAfterRejection
  <2>5. QED
    BY <2>1, <2>3, <2>4, <1>2
<1>8. Kept
  BY <1>5, <1>6, <1>7
<1>9. SameHoldings(SeenWallets, SeenWallets')
  BY <1>1, <1>8 DEF SameHoldings, SeenWallets, Overlay
<1>10. QED
  BY <1>8, <1>9

-----------------------------------------------------------------------------
(* Conservation *)

TotalHeld(funds, asset) ==
    SumOver([u \in Users |-> Holds(funds[u], asset)], Users)
TotalFees(made, asset) ==
    SumOver([i \in DOMAIN made |-> FeeIn(made[i], asset)], DOMAIN made)

\* What the wallets hold and what the trades' fees took is what there was.
Conserved(funds, made) ==
    \A asset \in Asset :
       TotalHeld(funds, asset) + TotalFees(made, asset)
          = Cardinality(Users) * Initial(asset)

LEMMA ConservationByAsset == Conservation <=> Conserved(wallets, trades)
<1>1. /\ TotalHeld(wallets, "BTC") = SumOver([u \in Users |->
             wallets[u].availableBtc + wallets[u].reservedBtc], Users)
      /\ TotalHeld(wallets, "USD") = SumOver([u \in Users |->
             wallets[u].availableUsd + wallets[u].reservedUsd], Users)
      /\ TotalFees(trades, "BTC") = SumOver([i \in DOMAIN trades |->
             BtcFee(trades[i])], DOMAIN trades)
      /\ TotalFees(trades, "USD") = SumOver([i \in DOMAIN trades |->
             UsdFee(trades[i])], DOMAIN trades)
  BY DEF TotalHeld, TotalFees, Holds, FeeIn
<1>2. QED
  BY <1>1 DEF Conservation, Conserved, Asset, Initial

LEMMA ConservedSame ==
    ASSUME NEW funds, NEW funds2, NEW made, Conserved(funds, made),
           SameHoldings(funds, funds2)
    PROVE  Conserved(funds2, made)
<1>1. ASSUME NEW asset \in Asset
      PROVE  TotalHeld(funds2, asset) = TotalHeld(funds, asset)
  <2>1. \A u \in Users : Holds(funds2[u], asset) = Holds(funds[u], asset)
    BY DEF SameHoldings
  <2>2. [u \in Users |-> Holds(funds2[u], asset)]
           = [u \in Users |-> Holds(funds[u], asset)]
    BY <2>1
  <2>3. QED
    BY <2>2 DEF TotalHeld
<1>2. QED
  BY <1>1 DEF Conserved

\* One wallet changes by an amount.
LEMMA HeldUpdate ==
    ASSUME NEW funds, NEW funds2, NEW u \in Users, NEW asset \in Asset,
           \A v \in Users : /\ Holds(funds[v], asset) \in 0..HoldsBound
                            /\ Holds(funds2[v], asset) \in 0..HoldsBound,
           \A v \in Users \ {u} : Holds(funds2[v], asset) = Holds(funds[v], asset)
    PROVE  /\ TotalHeld(funds, asset) \in Nat
           /\ TotalHeld(funds2, asset) = TotalHeld(funds, asset)
                 - Holds(funds[u], asset) + Holds(funds2[u], asset)
<1> DEFINE f == [v \in Users |-> Holds(funds[v], asset)]
           g == [v \in Users |-> Holds(funds2[v], asset)]
<1>1. /\ \A v \in Users : f[v] \in 0..HoldsBound /\ g[v] \in 0..HoldsBound
      /\ \A v \in Users \ {u} : f[v] = g[v]
      /\ f[u] = Holds(funds[u], asset) /\ g[u] = Holds(funds2[u], asset)
  OBVIOUS
<1>2. IsFiniteSet(Users) /\ HoldsBound \in Nat
  BY RowsAssumption, HoldsBoundNat
<1>3. TotalHeld(funds, asset) = SumOver(f, Users) /\ TotalHeld(funds2, asset) = SumOver(g, Users)
  BY DEF TotalHeld
<1> HIDE DEF f, g
<1>4. /\ SumOver(f, Users) \in Nat
      /\ SumOver(g, Users) = SumOver(f, Users) - f[u] + g[u]
  BY <1>1, <1>2, SumUpdate
<1>5. QED
  BY <1>1, <1>3, <1>4

\* The pending trades of a state are rows; a drafted one is added at the end.
LEMMA MadeRows == Locked => Made \in Seq(Trade)
BY DEF Locked, TypeOK, Made

LEMMA MadeAppended ==
    ASSUME Locked, SettleMaker
    PROVE  LET last == Len(Made) + 1 IN
           /\ NextTrade \in Trade
           /\ IsFiniteSet(DOMAIN Made)
           /\ last \notin DOMAIN Made
           /\ DOMAIN Made' = DOMAIN Made \cup {last}
           /\ Made'[last] = NextTrade
           /\ \A i \in DOMAIN Made : Made'[i] = Made[i] /\ Made[i] \in Trade
<1>1. NextTrade \in Trade
  BY NextTradeType DEF SettleMaker
<1>2. /\ trades' = trades /\ draft'.trades = Append(draft.trades, NextTrade)
      /\ trades \in Seq(Trade) /\ draft.trades \in Seq(Trade)
  BY DEF SettleMaker, Locked, TypeOK
<1>3. Made' = Append(Made, NextTrade)
  BY <1>1, <1>2 DEF Made
<1>4. Made \in Seq(Trade)
  BY MadeRows
<1> HIDE DEF Made
<1>5. Len(Made) \in Nat /\ DOMAIN Made = 1..Len(Made)
  BY <1>4
<1>6. IsFiniteSet(1..Len(Made))
  BY <1>5, FS_Interval, SMT
<1>7. QED
  BY <1>1, <1>3, <1>4, <1>5, <1>6

\* The wallets that a settlement drafts.
LEMMA SettledWallets ==
    ASSUME Locked, SettleMaker
    PROVE  LET w == orders[NextMaker.id].userId IN
           /\ Taker.userId \in Users /\ w \in Users /\ Taker.userId # w
           /\ SeenWallets'[Taker.userId] = TakerWallet
           /\ SeenWallets'[w] = MakerWallet
           /\ TakerWallet \in Wallet /\ MakerWallet \in Wallet
           /\ \A u \in Users \ {Taker.userId, w} : SeenWallets'[u] = SeenWallets[u]
<1> DEFINE w == orders[NextMaker.id].userId
<1>1. Settling /\ BalancesAccepted
  BY DEF SettleMaker
<1>2. Taker.userId \in Users /\ w \in Users /\ Taker.userId # w
  BY <1>1, TakerRow, NextMakerRow DEF Settling, Order, IsEligibleMaker, Opposes
<1>3. /\ wallets' = wallets /\ DOMAIN wallets = Users
      /\ draft'.wallets = Write(Write(draft.wallets, Taker.userId, TakerWallet),
                                w, MakerWallet)
  BY DEF SettleMaker, Locked, TypeOK
<1>4. /\ \A u \in Users \ {Taker.userId, w} : SeenWallets'[u] = SeenWallets[u]
      /\ SeenWallets'[Taker.userId] = TakerWallet
      /\ SeenWallets'[w] = MakerWallet
  BY <1>2, <1>3 DEF SeenWallets, Overlay, Write
<1>5. QED
  BY <1>1, <1>2, <1>4 DEF BalancesAccepted, WithinBounds

\* Conservation is inductive only together with what it becomes once the
\* drafted trades and wallets are committed.
Balanced == Conserved(wallets, trades) /\ Conserved(SeenWallets, Made)

\* The two wallets of a trade and its row change together.
LEMMA SettleMakerBalanced ==
    ASSUME Locked, Balanced, SettleMaker
    PROVE  Conserved(SeenWallets', Made')
<1> SUFFICES ASSUME NEW asset \in Asset
             PROVE  TotalHeld(SeenWallets', asset) + TotalFees(Made', asset)
                       = Cardinality(Users) * Initial(asset)
  BY DEF Conserved
<1> DEFINE t == Taker.userId
           w == orders[NextMaker.id].userId
           mid == [u \in Users |-> IF u = t THEN TakerWallet ELSE SeenWallets[u]]
           last == SeenWallets'
<1>1. Settling
  BY DEF SettleMaker
<1>2. /\ t \in Users /\ w \in Users /\ t # w
      /\ last[t] = TakerWallet /\ last[w] = MakerWallet
      /\ TakerWallet \in Wallet /\ MakerWallet \in Wallet
      /\ \A u \in Users \ {t, w} : last[u] = SeenWallets[u]
  BY SettledWallets
<1>3. \A u \in Users : SeenWallets[u] \in Wallet
  BY SeenWalletRow
<1>4. /\ \A u \in Users : mid[u] \in Wallet
      /\ \A u \in Users \ {t} : mid[u] = SeenWallets[u]
      /\ mid[t] = TakerWallet /\ mid[w] = SeenWallets[w]
      /\ \A u \in Users : last[u] \in Wallet
      /\ \A u \in Users \ {w} : last[u] = mid[u]
  BY <1>2, <1>3
<1>5. /\ Holds(TakerWallet, asset)
            = Holds(SeenWallets[t], asset) + Gain(NextTrade, Taker.side, asset)
      /\ Holds(MakerWallet, asset) = Holds(SeenWallets[w], asset)
            + Gain(NextTrade, orders[NextMaker.id].side, asset)
  BY <1>1, SettledHoldings
<1>6. /\ Taker.side \in {"BUY", "SELL"}
      /\ orders[NextMaker.id].side = IF Taker.side = "BUY" THEN "SELL" ELSE "BUY"
  BY <1>1, TakerRow, NextMakerRow
     DEF Settling, Order, Side, IsEligibleMaker, Opposes
<1> HIDE DEF t, w, mid, last
<1>7. \A u \in Users : /\ Holds(SeenWallets[u], asset) \in 0..HoldsBound
                       /\ Holds(mid[u], asset) \in 0..HoldsBound
                       /\ Holds(last[u], asset) \in 0..HoldsBound
  BY <1>3, <1>4, HoldsType
<1>8. /\ TotalHeld(SeenWallets, asset) \in Nat
      /\ TotalHeld(mid, asset) = TotalHeld(SeenWallets, asset)
            - Holds(SeenWallets[t], asset) + Holds(mid[t], asset)
  <2>1. PICK seen : seen = SeenWallets
    OBVIOUS
  <2>2. \A u \in Users \ {t} : Holds(mid[u], asset) = Holds(seen[u], asset)
    BY <1>4, <2>1
  <2>3. \A u \in Users : /\ Holds(seen[u], asset) \in 0..HoldsBound
                         /\ Holds(mid[u], asset) \in 0..HoldsBound
    BY <1>7, <2>1
  <2>4. t \in Users /\ asset \in Asset
    BY <1>2
  <2>5. /\ TotalHeld(seen, asset) \in Nat
        /\ TotalHeld(mid, asset) = TotalHeld(seen, asset)
              - Holds(seen[t], asset) + Holds(mid[t], asset)
    BY ONLY <2>2, <2>3, <2>4, HeldUpdate
  <2> QED
    BY <2>1, <2>5
<1>9. /\ TotalHeld(mid, asset) \in Nat
      /\ TotalHeld(last, asset) = TotalHeld(mid, asset)
            - Holds(mid[w], asset) + Holds(last[w], asset)
  <2>1. \A u \in Users \ {w} : Holds(last[u], asset) = Holds(mid[u], asset)
    BY <1>4
  <2>2. \A u \in Users : /\ Holds(mid[u], asset) \in 0..HoldsBound
                         /\ Holds(last[u], asset) \in 0..HoldsBound
    BY <1>7
  <2>3. w \in Users /\ asset \in Asset
    BY <1>2
  <2>4. QED
    BY ONLY <2>1, <2>2, <2>3, HeldUpdate
<1>10. /\ TotalFees(Made, asset) \in Nat
       /\ TotalFees(Made', asset) = TotalFees(Made, asset) + FeeIn(NextTrade, asset)
  <2> DEFINE made == Made
             made2 == Made'
             rows == DOMAIN Made
             last2 == Len(Made) + 1
             f == [i \in rows |-> FeeIn(made[i], asset)]
             g == [i \in rows \cup {last2} |-> FeeIn(made2[i], asset)]
  <2>1. /\ NextTrade \in Trade
        /\ IsFiniteSet(rows) /\ last2 \notin rows
        /\ DOMAIN made2 = rows \cup {last2}
        /\ made2[last2] = NextTrade
        /\ \A i \in rows : made2[i] = made[i] /\ made[i] \in Trade
    BY MadeAppended
  <2>2. /\ TotalFees(made, asset) = SumOver(f, rows)
        /\ TotalFees(made2, asset) = SumOver(g, rows \cup {last2})
    BY <2>1 DEF TotalFees
  <2> HIDE DEF made, made2, rows, last2
  <2>3. /\ \A i \in rows : f[i] \in 0..DecimalMax /\ g[i] = f[i]
        /\ g[last2] \in 0..DecimalMax
        /\ g[last2] = FeeIn(NextTrade, asset)
    BY <2>1, FeeType
  <2> HIDE DEF f, g
  <2>4. /\ SumOver(f, rows) \in Nat
        /\ SumOver(g, rows \cup {last2}) = SumOver(f, rows) + g[last2]
    BY <2>1, <2>3, HoldsBoundNat, SumGrows
  <2>5. QED
    BY <2>2, <2>3, <2>4 DEF made, made2
<1>11. /\ Holds(SeenWallets[t], asset) \in Int /\ Holds(SeenWallets[w], asset) \in Int
  BY <1>2, <1>7, HoldsBoundNat
<1>12. /\ Gain(NextTrade, "BUY", asset) \in Int /\ Gain(NextTrade, "SELL", asset) \in Int
       /\ Gain(NextTrade, "BUY", asset) + Gain(NextTrade, "SELL", asset)
             + FeeIn(NextTrade, asset) = 0
       /\ FeeIn(NextTrade, asset) \in Int
  BY MadeAppended, GainsOffset, FeeType, HoldsBoundNat
<1>13. TotalHeld(SeenWallets, asset) + TotalFees(Made, asset)
          = Cardinality(Users) * Initial(asset)
  BY DEF Balanced, Conserved
<1>14. TotalHeld(last, asset) + TotalFees(Made', asset)
          = TotalHeld(SeenWallets, asset) + TotalFees(Made, asset)
  BY <1>2, <1>4, <1>5, <1>6, <1>8, <1>9, <1>10, <1>11, <1>12
<1>15. QED
  BY <1>13, <1>14 DEF last

LEMMA NextBalanced ==
    ASSUME Locked, Balanced, [Next]_vars
    PROVE  Balanced'
<1> USE DEF Balanced
<1>1. CASE \/ \E u \in Users, form \in OrderForms : CreateOrder(u, form)
           \/ \E o \in DOMAIN orders : CommitCancel(o)
           \/ RejectTaker
  <2>1. /\ trades' = trades /\ draft' = draft
        /\ SameHoldings(wallets, wallets')
        /\ SameHoldings(SeenWallets, SeenWallets')
    BY <1>1, OrdersKeepHoldings
  <2>2. Made' = Made
    BY <2>1 DEF Made
  <2>3. Conserved(wallets', trades') /\ Conserved(SeenWallets', Made')
    BY <2>1, <2>2, ConservedSame
  <2>4. QED
    BY <2>3 DEF Conserved
<1>2. CASE SettleMaker
  <2>1. Conserved(SeenWallets', Made')
    BY <1>2, SettleMakerBalanced
  <2>2. wallets' = wallets /\ trades' = trades
    BY <1>2 DEF SettleMaker
  <2>3. QED
    BY <2>1, <2>2 DEF Conserved
<1>3. CASE /\ draft' = NoWrites
           /\ \/ wallets' = wallets /\ trades' = trades
              \/ wallets' = SeenWallets /\ trades' = Made
  <2>1. Conserved(wallets', trades')
    BY <1>3
  <2>2. SeenWallets' = [u \in DOMAIN wallets' |-> wallets'[u]]
    BY <1>3 DEF SeenWallets, Overlay, NoWrites
  <2>3. DOMAIN wallets' = Users
    BY <1>3 DEF SeenWallets, Overlay, Locked, TypeOK
  <2>4. Made' = trades'
    <3>1. trades' \in Seq(Trade)
      BY <1>3, MadeRows DEF Locked, TypeOK
    <3>2. draft'.trades = << >>
      BY <1>3 DEF NoWrites
    <3>3. QED
      BY <3>1, <3>2 DEF Made
  <2>5. SameHoldings(wallets', SeenWallets')
    BY <2>2, <2>3 DEF SameHoldings
  <2>6. Conserved(SeenWallets', Made')
    BY <2>1, <2>4, <2>5, ConservedSame
  <2>7. QED
    BY <2>1, <2>6 DEF Conserved
<1>4. CASE QuietStep
  <2>1. CASE draft' = NoWrites
    BY <1>3, <1>4, <2>1 DEF QuietStep
  <2>2. CASE draft' = draft
    <3>1. wallets' = wallets /\ trades' = trades
      BY <1>4 DEF QuietStep
    <3>2. SeenWallets' = SeenWallets /\ Made' = Made
      BY <2>2, <3>1 DEF SeenWallets, Made
    <3>3. QED
      BY <3>1, <3>2 DEF Conserved
  <2>3. QED
    BY <1>4, <2>1, <2>2 DEF QuietStep
<1>5. CASE CommitMatch
  BY <1>3, <1>5 DEF CommitMatch, Made
<1>6. QED
  BY <1>1, <1>2, <1>4, <1>5, StepKinds

LEMMA InitBalanced == Init => Balanced
<1> SUFFICES ASSUME Init PROVE Balanced
  OBVIOUS
<1>1. ASSUME NEW asset \in Asset
      PROVE  TotalHeld(wallets, asset) = Cardinality(Users) * Initial(asset)
  <2> DEFINE f == [u \in Users |-> Holds(wallets[u], asset)]
  <2>1. \A u \in Users : f[u] = Initial(asset)
    BY DecimalsAssumption, RowsAssumption DEF Init, Holds, Initial, Money
  <2>2. Initial(asset) \in Nat
    BY DecimalsAssumption, RowsAssumption DEF Initial, Money
  <2>3. TotalHeld(wallets, asset) = SumOver(f, Users)
    BY DEF TotalHeld
  <2> HIDE DEF f
  <2>4. QED
    BY <2>1, <2>2, <2>3, RowsAssumption, SumConstant
<1>2. ASSUME NEW asset \in Asset
      PROVE  TotalFees(trades, asset) = 0
  BY SumEmpty DEF TotalFees, Init
<1>3. Conserved(wallets, trades)
  <2>1. Cardinality(Users) \in Nat /\ InitialBtc \in Nat /\ InitialUsd \in Nat
    BY FS_CardinalityType, RowsAssumption, DecimalsAssumption DEF Money
  <2>2. \A asset \in Asset : Cardinality(Users) * Initial(asset) \in Nat
    BY <2>1 DEF Initial
  <2>3. QED
    BY <1>1, <1>2, <2>2 DEF Conserved
<1>4. SeenWallets = wallets /\ Made = trades
  <2>1. trades = << >> /\ draft.trades = << >> /\ DOMAIN draft.wallets = {}
    BY DEF Init, NoWrites
  <2>2. Made = trades
    BY <2>1 DEF Made
  <2>3. SeenWallets = wallets
    BY <2>1 DEF SeenWallets, Overlay, Init
  <2>4. QED
    BY <2>2, <2>3
<1>5. QED
  BY <1>3, <1>4 DEF Balanced

LEMMA AlwaysBalanced == Spec => [](Locked /\ Balanced)
<1>1. Init => Locked /\ Balanced
  BY InitLocked, InitBalanced
<1>2. Locked /\ Balanced /\ [Next]_vars => (Locked /\ Balanced)'
  BY NextLocked, NextBalanced
<1>3. QED
  BY <1>1, <1>2, PTL DEF Spec

\* No money appears or disappears: after any number of orders, fills at better
\* prices, fragments, cancellations, rejections and rollbacks the wallets and
\* the fees kept add up to what the users started with.
THEOREM MoneyIsConserved == Spec => []Conservation
<1>1. Balanced => Conservation
  BY ConservationByAsset DEF Balanced
<1>2. QED
  BY <1>1, AlwaysBalanced, PTL

-----------------------------------------------------------------------------
(* The trades of an order *)

\* The trades of a table that an order is a party of, and what they traded.
TradesOf(o, made) ==
    {i \in DOMAIN made : o \in {made[i].makerOrderId, made[i].takerOrderId}}
Traded(o, made) ==
    SumOver([i \in TradesOf(o, made) |-> made[i].amount], TradesOf(o, made))

\* An order's row agrees with what it has traded.
AgreesWith(row, traded) ==
    /\ row.remainingAmount + traded = row.originalAmount
    /\ row.status \in {"QUEUED", "OPEN", "REJECTED"} => traded = 0
    /\ row.status = "PARTIALLY_FILLED" => traded > 0 /\ row.remainingAmount > 0
    /\ (row.status = "FILLED") = (row.remainingAmount = 0)

LEMMA QuantitiesByOrder ==
    QuantitiesMatchTrades
       <=> \A o \in DOMAIN orders : AgreesWith(orders[o], Traded(o, trades))
BY DEF QuantitiesMatchTrades, AgreesWith, Traded, TradesOf

\* A trade is between two orders of two users on opposite sides, and of a
\* positive amount.
Party(trade) ==
    LET m == trade.makerOrderId
        t == trade.takerOrderId
    IN  /\ m \in DOMAIN orders /\ t \in DOMAIN orders
        /\ orders[t].side = trade.takerSide
        /\ orders[m].side # orders[t].side
        /\ orders[m].userId # orders[t].userId
        /\ trade.amount > 0
        /\ trade.price = orders[m].price

Parties == \A i \in DOMAIN Made : Party(Made[i])

\* What was traded does not change who the orders' owners are.
LEMMA PartiesKept ==
    ASSUME Parties,
           \A i \in DOMAIN Made' : i \in DOMAIN Made /\ Made'[i] = Made[i],
           \A x \in DOMAIN orders :
              /\ x \in DOMAIN orders'
              /\ orders'[x].side = orders[x].side
              /\ orders'[x].userId = orders[x].userId
              /\ orders'[x].price = orders[x].price
    PROVE  Parties'
BY DEF Parties, Party

\* An order's identity: no step changes its owner, side, price or amount.
LEMMA OrdersKeepTerms ==
    ASSUME Locked, DraftedMakers, [Next]_vars, NEW o \in DOMAIN orders
    PROVE  /\ o \in DOMAIN orders'
           /\ orders'[o].userId = orders[o].userId
           /\ orders'[o].side = orders[o].side
           /\ orders'[o].price = orders[o].price
           /\ orders'[o].originalAmount = orders[o].originalAmount
<1> DEFINE Kept == /\ o \in DOMAIN orders'
                   /\ orders'[o].userId = orders[o].userId
                   /\ orders'[o].side = orders[o].side
                   /\ orders'[o].price = orders[o].price
                   /\ orders'[o].originalAmount = orders[o].originalAmount
<1>0. orders[o] \in Order
  BY OrderRows DEF Locked
<1>1. ASSUME NEW u \in Users, NEW form \in OrderForms, CreateOrder(u, form)
      PROVE  Kept
  <2>1. QueuedOrder(u, form) \in Order
    BY RowsAssumption DEF QueuedOrder, Order, OrderStatus, ActiveStatuses
  <2>2. orders' = Append(orders, QueuedOrder(u, form))
    BY <1>1 DEF CreateOrder
  <2>3. QED
    BY <2>1, <2>2, AppendedOrder DEF Locked
<1>2. ASSUME NEW c \in DOMAIN orders, NEW status \in OrderStatus,
             orders' = [orders EXCEPT ![c].status = status]
      PROVE  Kept
  <2>1. /\ DOMAIN orders' = DOMAIN orders
        /\ orders'[c] = [orders[c] EXCEPT !.status = status]
        /\ orders[c] \in Order
        /\ o # c => orders'[o] = orders[o]
    BY <1>2, UpdatedOrder, OrderRows DEF Locked
  <2>2. CASE o = c
    BY <1>0, <2>1, <2>2 DEF Order
  <2>3. QED
    BY <2>1, <2>2
<1>3. ASSUME NEW c \in DOMAIN orders, CommitCancel(c)
      PROVE  Kept
  BY <1>2, <1>3 DEF CommitCancel, OrderStatus
<1>4. CASE RejectTaker
  BY <1>2, <1>4, TakerRow DEF RejectTaker, OrderStatus
<1>5. CASE CommitMatch
  <2>1. /\ DOMAIN orders' = DOMAIN orders
        /\ orders'[tx.taker]
              = AfterTrades(Taker, tx.remaining, draft.trades # <<>>)
        /\ o # tx.taker => orders'[o] = SeenOrders[o]
    BY <1>5, MatchedOrders DEF CommitMatch
  <2>2. CASE o = tx.taker
    BY <1>0, <2>1, <2>2 DEF AfterTrades, Order, Taker
  <2>3. CASE o # tx.taker /\ o \in DOMAIN draft.orders
    <3>1. orders'[o] = AfterTrades(orders[o], draft.orders[o].remainingAmount, TRUE)
      BY <2>1, <2>3
         DEF SeenOrders, Overlay, Locked, LockDiscipline, DraftHeld
    <3>2. QED
      BY <1>0, <2>1, <3>1 DEF AfterTrades, Order
  <2>4. CASE o # tx.taker /\ o \notin DOMAIN draft.orders
    BY <2>1, <2>4 DEF SeenOrders, Overlay
  <2>5. QED
    BY <2>2, <2>3, <2>4
<1>6. CASE SettleMaker \/ QuietStep
  BY <1>6 DEF SettleMaker, QuietStep
<1>7. QED
  BY <1>1, <1>3, <1>4, <1>5, <1>6, StepKinds

\* What each kind of step makes of the pending trades.
LEMMA StepsOfMade ==
    ASSUME Locked, [Next]_vars
    PROVE  \/ SettleMaker
           \/ /\ Made' = Made
              /\ trades' = trades
           \/ /\ Made' = trades' /\ draft' = NoWrites
              /\ trades' = trades \/ (CommitMatch /\ trades' = Made)
<1>1. CASE \/ \E u \in Users, form \in OrderForms : CreateOrder(u, form)
           \/ \E o \in DOMAIN orders : CommitCancel(o)
           \/ RejectTaker
  BY <1>1, OrdersKeepHoldings DEF Made
<1>2. CASE /\ draft' = NoWrites
           /\ trades' = trades \/ (CommitMatch /\ trades' = Made)
  <2>1. trades' \in Seq(Trade)
    BY <1>2, MadeRows DEF Locked, TypeOK
  <2>2. draft'.trades = << >>
    BY <1>2 DEF NoWrites
  <2>3. Made' = trades'
    BY <2>1, <2>2 DEF Made
  <2>4. QED
    BY <1>2, <2>3
<1>3. CASE QuietStep
  <2>1. CASE draft' = NoWrites
    BY <1>2, <1>3, <2>1 DEF QuietStep
  <2>2. CASE draft' = draft
    BY <1>3, <2>2 DEF QuietStep, Made
  <2>3. QED
    BY <1>3, <2>1, <2>2 DEF QuietStep
<1>4. CASE CommitMatch
  BY <1>2, <1>4 DEF CommitMatch, Made
<1>5. QED
  BY <1>1, <1>3, <1>4, StepKinds

\* The committed trades come first.
LEMMA TradesFirst ==
    ASSUME Locked
    PROVE  \A i \in DOMAIN trades : i \in DOMAIN Made /\ Made[i] = trades[i]
BY DEF Locked, TypeOK, Made

LEMMA NextParties ==
    ASSUME Locked, DraftedMakers, Parties, [Next]_vars
    PROVE  Parties'
<1>1. \A x \in DOMAIN orders :
         /\ x \in DOMAIN orders'
         /\ orders'[x].side = orders[x].side
         /\ orders'[x].userId = orders[x].userId
         /\ orders'[x].price = orders[x].price
  BY OrdersKeepTerms
<1>2. CASE SettleMaker
  <2>1. /\ orders' = orders
        /\ \A i \in DOMAIN Made : Made'[i] = Made[i]
        /\ \A i \in DOMAIN Made' \ DOMAIN Made : Made'[i] = NextTrade
    BY <1>2, MadeAppended DEF SettleMaker
  <2>2. Settling /\ ExecutedCost > 0
    BY <1>2 DEF SettleMaker
  <2>3. Party(NextTrade)
    <3>1. /\ NextMaker.id \in DOMAIN orders /\ tx.taker \in DOMAIN orders
          /\ Taker = orders[tx.taker]
          /\ orders[NextMaker.id].side # Taker.side
          /\ orders[NextMaker.id].userId # Taker.userId
      BY <2>2, TakerRow, NextMakerRow DEF Settling, IsEligibleMaker, Opposes
    <3>2. TradeAmount > 0
      BY <2>2, NextMakerRow, MoneyNat, MultiplyScaledZero, DecimalsAssumption
         DEF ExecutedCost, Money
    <3>3. QED
      BY <2>2, <3>1, <3>2, NextTradeMoney DEF Party, TradePrice
  <2>4. ASSUME NEW trade, Party(trade) PROVE Party(trade)'
    BY <2>1, <2>4 DEF Party
  <2>5. QED
    BY <2>1, <2>3, <2>4 DEF Parties
<1>3. CASE /\ \A i \in DOMAIN Made' : i \in DOMAIN Made /\ Made'[i] = Made[i]
  BY <1>1, <1>3, PartiesKept
<1>4. QED
  BY <1>2, <1>3, StepsOfMade, TradesFirst

-----------------------------------------------------------------------------
(* Quantities *)

LEMMA TradedType ==
    ASSUME NEW made \in Seq(Trade), NEW o
    PROVE  Traded(o, made) \in Nat
<1> DEFINE mine == TradesOf(o, made)
           f == [i \in mine |-> made[i].amount]
<1>1. \A i \in mine : f[i] \in 0..DecimalMax
  <2>1. \A i \in mine : made[i] \in Trade
    BY DEF TradesOf
  <2> HIDE DEF mine
  <2>2. QED
    BY <2>1 DEF Trade, Money
<1>2. IsFiniteSet(mine)
  <2>1. IsFiniteSet(DOMAIN made)
    BY FS_Interval, SMT
  <2>2. QED
    BY <2>1, FS_Subset DEF TradesOf
<1>3. Traded(o, made) = SumOver(f, mine)
  BY DEF Traded
<1> HIDE DEF f, mine
<1>4. QED
  BY <1>1, <1>2, <1>3, HoldsBoundNat, TokensFinite

\* A settled trade adds its amount to what its two orders traded.
LEMMA TradedAdds ==
    ASSUME Locked, SettleMaker, NEW o
    PROVE  Traded(o, Made') = IF o \in {NextMaker.id, tx.taker}
                              THEN Traded(o, Made) + TradeAmount
                              ELSE Traded(o, Made)
<1> DEFINE made == Made
           made2 == Made'
           last == Len(Made) + 1
           mine == TradesOf(o, made)
           f == [i \in mine |-> made[i].amount]
           g == [i \in TradesOf(o, made2) |-> made2[i].amount]
<1>1. /\ NextTrade \in Trade
      /\ IsFiniteSet(DOMAIN made)
      /\ last \notin DOMAIN made
      /\ DOMAIN made2 = DOMAIN made \cup {last}
      /\ made2[last] = NextTrade
      /\ \A i \in DOMAIN made : made2[i] = made[i] /\ made[i] \in Trade
  BY MadeAppended
<1>2. /\ NextTrade.makerOrderId = NextMaker.id
      /\ NextTrade.takerOrderId = tx.taker
      /\ NextTrade.amount = TradeAmount
  BY NextTradeMoney DEF SettleMaker
<1> HIDE DEF made, made2, last
<1>3. /\ IsFiniteSet(mine) /\ last \notin mine
      /\ \A i \in mine : made2[i] = made[i] /\ made[i].amount \in 0..DecimalMax
      /\ TradeAmount \in 0..DecimalMax
  <2>1. mine \subseteq DOMAIN made
    BY DEF TradesOf
  <2>2. QED
    BY <1>1, <1>2, <2>1, FS_Subset DEF Trade, Money
<1>4. Traded(o, made) = SumOver(f, mine)
  BY DEF Traded
<1>5. CASE o \in {NextMaker.id, tx.taker}
  <2>1. TradesOf(o, made2) = mine \cup {last}
    BY <1>1, <1>2, <1>5 DEF TradesOf
  <2>2. /\ Traded(o, made2) = SumOver(g, mine \cup {last})
        /\ \A i \in mine : f[i] \in 0..DecimalMax /\ g[i] = f[i]
        /\ g[last] = TradeAmount /\ g[last] \in 0..DecimalMax
    BY <1>1, <1>2, <1>3, <2>1 DEF Traded
  <2> HIDE DEF f, g, mine
  <2>3. /\ SumOver(f, mine) \in Nat
        /\ SumOver(g, mine \cup {last}) = SumOver(f, mine) + g[last]
    <3>1. /\ IsFiniteSet(mine) /\ last \notin mine /\ DecimalMax \in Nat
          /\ \A i \in mine : f[i] \in 0..DecimalMax /\ g[i] = f[i]
          /\ g[last] \in 0..DecimalMax
      BY <1>3, <2>2, HoldsBoundNat
    <3> HIDE DEF last
    <3>2. /\ SumOver(f, mine) \in Nat
          /\ SumOver(g, mine) = SumOver(f, mine)
      BY ONLY <3>1, TokensFinite, SumCongruent
    <3>3. \A i \in mine : g[i] \in 0..DecimalMax
      BY ONLY <3>1
    <3>4. SumOver(g, mine \cup {last}) = SumOver(g, mine) + g[last]
      BY ONLY <3>1, <3>3, SumAdd
    <3>5. QED
      BY ONLY <3>2, <3>4
  <2>4. QED
    BY <1>4, <1>5, <2>2, <2>3 DEF made, made2
<1>6. CASE o \notin {NextMaker.id, tx.taker}
  <2>1. TradesOf(o, made2) = mine
    BY <1>1, <1>2, <1>6 DEF TradesOf
  <2>2. g = f
    BY <1>3, <2>1
  <2>3. Traded(o, made2) = SumOver(f, mine)
    BY <2>1, <2>2 DEF Traded
  <2>4. QED
    BY <1>4, <1>6, <2>3 DEF made, made2
<1>7. QED
  BY <1>5, <1>6

\* A number that no order has has no trades.
LEMMA NeverTraded ==
    ASSUME Locked, Parties, NEW o, o \notin DOMAIN orders
    PROVE  Traded(o, Made) = 0 /\ Traded(o, trades) = 0
<1>1. TradesOf(o, Made) = {}
  BY DEF TradesOf, Parties, Party
<1>2. TradesOf(o, trades) = {}
  BY <1>1, TradesFirst DEF TradesOf
<1>3. QED
  BY <1>1, <1>2, SumEmpty DEF Traded

\* Every row agrees with the committed trades, and while a match is being
\* settled every row but the taker's agrees, as the match sees it, with the
\* pending ones.
Agreed == \A o \in DOMAIN orders : AgreesWith(orders[o], Traded(o, trades))

PendingAgreed ==
    /\ \A o \in DOMAIN orders \ {tx.taker} :
          AgreesWith(SeenOrders[o], Traded(o, Made))
    /\ tx.remaining + Traded(tx.taker, Made) = Taker.originalAmount
    /\ Traded(tx.taker, Made) = 0 <=> draft.trades = << >>

Filling ==
    Parties /\ Agreed /\ (tx.phase = "settle" => PendingAgreed)

LEMMA StatusAgrees ==
    ASSUME NEW row, NEW row2, NEW traded, AgreesWith(row, traded),
           row2.remainingAmount = row.remainingAmount,
           row2.originalAmount = row.originalAmount,
           \/ row.status = "QUEUED" /\ row2.status = "REJECTED"
           \/ row.status \in ActiveStatuses /\ row2.status = "CANCELLED"
    PROVE  AgreesWith(row2, traded)
BY DEF AgreesWith, ActiveStatuses, BookStatuses

LEMMA CreateOrderFilling ==
    ASSUME Locked, Filling, NEW u \in Users, NEW form \in OrderForms,
           CreateOrder(u, form)
    PROVE  Agreed' /\ (tx'.phase = "settle" => PendingAgreed')
<1> DEFINE row == QueuedOrder(u, form)
           id == Len(orders) + 1
<1>1. row \in Order
  BY RowsAssumption DEF QueuedOrder, Order, OrderStatus, ActiveStatuses
<1>2. /\ orders' = Append(orders, row) /\ trades' = trades /\ draft' = draft
      /\ tx' = tx
  BY DEF CreateOrder
<1>3. /\ id \notin DOMAIN orders
      /\ DOMAIN orders' = DOMAIN orders \cup {id}
      /\ orders'[id] = row
      /\ \A o \in DOMAIN orders : orders'[o] = orders[o]
  BY <1>1, <1>2, AppendedOrder DEF Locked
<1>4. Traded(id, Made) = 0 /\ Traded(id, trades) = 0
  BY <1>3, NeverTraded DEF Filling
<1>5. AgreesWith(row, 0)
  <2>1. form.amount \in Money \ {0}
    BY RowsAssumption
  <2>2. form.amount \in Int /\ form.amount # 0
    BY <2>1, DecimalsAssumption DEF Money
  <2>3. QED
    BY <2>2 DEF QueuedOrder, AgreesWith
<1>6. Made' = Made
  BY <1>2 DEF Made
<1> HIDE DEF row, id
<1>7. Agreed'
  BY <1>2, <1>3, <1>4, <1>5 DEF Filling, Agreed
<1>8. ASSUME tx'.phase = "settle" PROVE PendingAgreed'
  <2>1. PendingAgreed /\ tx.phase = "settle"
    BY <1>2, <1>8 DEF Filling
  <2>2. tx.taker \in DOMAIN orders /\ DOMAIN draft.orders \subseteq DOMAIN orders
    BY <2>1, TakerRow DEF Locked, TypeOK
  <2>3. /\ \A o \in DOMAIN orders : SeenOrders'[o] = SeenOrders[o]
        /\ SeenOrders'[id] = row
        /\ Taker' = Taker
    BY <1>2, <1>3, <2>2 DEF SeenOrders, Overlay, Taker
  <2>4. /\ \A o \in DOMAIN orders \ {tx.taker} :
              AgreesWith(SeenOrders'[o], Traded(o, Made'))
        /\ AgreesWith(SeenOrders'[id], Traded(id, Made'))
    BY <1>4, <1>5, <1>6, <2>1, <2>3 DEF PendingAgreed
  <2>5. \A o \in DOMAIN orders' \ {tx.taker} :
           AgreesWith(SeenOrders'[o], Traded(o, Made'))
    BY <1>3, <2>4
  <2>6. QED
    BY <1>2, <1>6, <2>1, <2>3, <2>5 DEF PendingAgreed
<1>9. QED
  BY <1>7, <1>8

LEMMA CommitCancelFilling ==
    ASSUME Locked, Filling, NEW c \in DOMAIN orders, CommitCancel(c)
    PROVE  Agreed' /\ (tx'.phase = "settle" => PendingAgreed')
<1>1. /\ orders' = [orders EXCEPT ![c].status = "CANCELLED"]
      /\ trades' = trades /\ draft' = draft /\ tx' = tx
      /\ orders[c].status \in ActiveStatuses /\ c \notin tx.locks
  BY DEF CommitCancel, Locked, LockDiscipline, CancelsHeld
<1>2. /\ DOMAIN orders' = DOMAIN orders
      /\ orders'[c] = [orders[c] EXCEPT !.status = "CANCELLED"]
      /\ orders[c] \in Order
      /\ \A o \in DOMAIN orders \ {c} : orders'[o] = orders[o]
  BY <1>1, UpdatedOrder, OrderRows DEF Locked, OrderStatus
<1>3. /\ orders'[c].remainingAmount = orders[c].remainingAmount
      /\ orders'[c].originalAmount = orders[c].originalAmount
      /\ orders'[c].status = "CANCELLED"
  BY <1>2 DEF Order
<1>4. ASSUME NEW traded, AgreesWith(orders[c], traded)
      PROVE  AgreesWith(orders'[c], traded)
  BY <1>1, <1>3, <1>4, StatusAgrees
<1>5. Agreed'
  BY <1>1, <1>2, <1>4 DEF Filling, Agreed
<1>6. Made' = Made
  BY <1>1 DEF Made
<1>7. ASSUME tx'.phase = "settle" PROVE PendingAgreed'
  <2>1. PendingAgreed /\ tx.phase = "settle"
    BY <1>1, <1>7 DEF Filling
  <2>2. c # tx.taker /\ c \notin DOMAIN draft.orders
    BY <1>1, <2>1 DEF Locked, LockDiscipline, TakerHeld, DraftHeld
  <2>3. /\ \A o \in DOMAIN orders \ {c} : SeenOrders'[o] = SeenOrders[o]
        /\ SeenOrders[c] = orders[c] /\ SeenOrders'[c] = orders'[c]
        /\ Taker' = Taker
    <3>1. Taker' = Taker
      BY <1>1, <1>2, <2>1, <2>2, TakerRow DEF Taker
    <3>2. QED
      BY <1>1, <1>2, <2>2, <3>1 DEF SeenOrders, Overlay
  <2>4. AgreesWith(SeenOrders'[c], Traded(c, Made'))
    BY <1>4, <1>6, <2>1, <2>2, <2>3 DEF PendingAgreed
  <2>5. \A o \in DOMAIN orders' \ {tx.taker} :
           AgreesWith(SeenOrders'[o], Traded(o, Made'))
    BY <1>2, <1>6, <2>1, <2>3, <2>4 DEF PendingAgreed
  <2>6. QED
    BY <1>1, <1>6, <2>1, <2>3, <2>5 DEF PendingAgreed
<1>8. QED
  BY <1>5, <1>7

LEMMA RejectTakerFilling ==
    ASSUME Locked, Filling, RejectTaker
    PROVE  Agreed' /\ tx'.phase # "settle"
<1>1. /\ orders' = [orders EXCEPT ![tx.taker].status = "REJECTED"]
      /\ trades' = trades /\ tx' = Idle
      /\ tx.taker \in DOMAIN orders
      /\ orders[tx.taker].status = "QUEUED"
  BY TakerRow DEF RejectTaker, Taker
<1>2. /\ DOMAIN orders' = DOMAIN orders
      /\ orders'[tx.taker] = [orders[tx.taker] EXCEPT !.status = "REJECTED"]
      /\ orders[tx.taker] \in Order
      /\ \A o \in DOMAIN orders \ {tx.taker} : orders'[o] = orders[o]
  BY <1>1, UpdatedOrder, OrderRows DEF Locked, OrderStatus
<1>3. /\ orders'[tx.taker].remainingAmount = orders[tx.taker].remainingAmount
      /\ orders'[tx.taker].originalAmount = orders[tx.taker].originalAmount
      /\ orders'[tx.taker].status = "REJECTED"
  BY <1>2 DEF Order
<1>4. AgreesWith(orders'[tx.taker], Traded(tx.taker, trades))
  BY <1>1, <1>3, StatusAgrees DEF Filling, Agreed
<1>5. QED
  BY <1>1, <1>2, <1>4 DEF Filling, Agreed, Idle

\* A row after trades agrees with what they traded.
LEMMA AgreesAfterTrades ==
    ASSUME NEW row \in Order, NEW left \in Nat, NEW traded \in Nat,
           left + traded = row.originalAmount,
           NEW matched \in BOOLEAN,
           IF matched THEN traded > 0 ELSE traded = 0 /\ left > 0
    PROVE  AgreesWith(AfterTrades(row, left, matched), traded)
<1> DEFINE after == AfterTrades(row, left, matched)
<1>1. /\ after.remainingAmount = left
      /\ after.originalAmount = row.originalAmount
      /\ after.status = IF ~matched THEN "OPEN"
                        ELSE IF left = 0 THEN "FILLED" ELSE "PARTIALLY_FILLED"
  BY DEF AfterTrades, Order
<1> HIDE DEF after
<1>2. AgreesWith(after, traded)
  <2>1. CASE matched /\ left = 0
    BY <1>1, <2>1 DEF AgreesWith
  <2>2. CASE matched /\ left # 0
    BY <1>1, <2>2 DEF AgreesWith
  <2>3. CASE ~matched
    BY <1>1, <2>3 DEF AgreesWith
  <2>4. QED
    BY <2>1, <2>2, <2>3
<1>3. QED
  BY <1>2 DEF after

LEMMA SettleMakerFilling ==
    ASSUME Locked, Filling, SettleMaker
    PROVE  Agreed' /\ PendingAgreed'
<1>1. PICK m : m = NextMaker.id
  OBVIOUS
<1>2. /\ Settling /\ tx.phase = "settle" /\ ExecutedCost > 0
      /\ orders' = orders /\ trades' = trades
      /\ draft'.orders = Write(draft.orders, m, MakerAfterTrade)
      /\ draft'.trades = Append(draft.trades, NextTrade)
      /\ tx \in Transaction /\ draft.trades \in Seq(Trade)
  BY <1>1 DEF SettleMaker, Settling, Locked, TypeOK
<1>3. /\ tx'.taker = tx.taker /\ tx'.remaining = tx.remaining - TradeAmount
      /\ Taker' = Taker
  BY <1>2 DEF SettleMaker, Transaction, Taker
<1>4. /\ m \in DOMAIN orders /\ m # tx.taker /\ m \notin DOMAIN draft.orders
      /\ orders[m] \in Order
      /\ NextMaker.remainingAmount = orders[m].remainingAmount
      /\ orders[m].remainingAmount \in Nat
      /\ tx.remaining \in Nat /\ TradeAmount \in Nat
      /\ orders[m].remainingAmount - TradeAmount \in Nat
  BY <1>1, <1>2, NextMakerRow, MoneyNat
<1>5. TradeAmount > 0
  BY <1>2, NextMakerRow, MoneyNat, MultiplyScaledZero, DecimalsAssumption
     DEF ExecutedCost, Money
<1>6. PendingAgreed
  BY <1>2 DEF Filling
<1>7. /\ SeenOrders[m] = orders[m] /\ SeenOrders'[m] = MakerAfterTrade
      /\ \A o \in DOMAIN orders \ {m} : SeenOrders'[o] = SeenOrders[o]
  BY <1>2, <1>4 DEF SeenOrders, Overlay, Write
<1>8. /\ Made \in Seq(Trade)
      /\ \A o : Traded(o, Made) \in Nat
      /\ \A o : Traded(o, Made') = IF o \in {m, tx.taker}
                                   THEN Traded(o, Made) + TradeAmount
                                   ELSE Traded(o, Made)
  BY <1>1, MadeRows, TradedType, TradedAdds
<1>9. AgreesWith(SeenOrders'[m], Traded(m, Made'))
  <2>1. orders[m].remainingAmount + Traded(m, Made) = orders[m].originalAmount
    BY <1>4, <1>6, <1>7 DEF PendingAgreed, AgreesWith
  <2>2. Traded(m, Made') = Traded(m, Made) + TradeAmount /\ Traded(m, Made) \in Nat
    BY <1>8
  <2> DEFINE left == orders[m].remainingAmount - TradeAmount
             traded == Traded(m, Made')
  <2>3. /\ left \in Nat /\ traded \in Nat /\ traded > 0
        /\ left + traded = orders[m].originalAmount
    BY <1>4, <1>5, <2>1, <2>2
  <2>4. MakerAfterTrade = AfterTrades(orders[m], left, TRUE)
    BY <1>1, <1>4 DEF MakerAfterTrade
  <2> HIDE DEF left, traded
  <2>5. AgreesWith(AfterTrades(orders[m], left, TRUE), traded)
    BY <1>4, <2>3, AgreesAfterTrades
  <2>6. QED
    BY <1>7, <2>4, <2>5 DEF traded
<1>10. /\ \A o \in DOMAIN orders' \ {tx'.taker} :
             AgreesWith(SeenOrders'[o], Traded(o, Made'))
       /\ tx'.remaining + Traded(tx'.taker, Made') = Taker'.originalAmount
       /\ Traded(tx'.taker, Made') # 0 /\ draft'.trades # << >>
  <2>1. ASSUME NEW o \in DOMAIN orders' \ {tx'.taker}
        PROVE  AgreesWith(SeenOrders'[o], Traded(o, Made'))
    <3>1. CASE o = m
      BY <1>9, <3>1
    <3>2. CASE o # m
      BY <1>2, <1>3, <1>6, <1>7, <1>8, <3>2 DEF PendingAgreed
    <3>3. QED
      BY <3>1, <3>2
  <2>2. /\ Traded(tx.taker, Made) \in Nat
        /\ Traded(tx.taker, Made') = Traded(tx.taker, Made) + TradeAmount
        /\ tx.remaining + Traded(tx.taker, Made) = Taker.originalAmount
    BY <1>6, <1>8 DEF PendingAgreed
  <2>3. draft'.trades # << >>
    BY <1>2, MadeAppended
  <2>4. QED
    BY <1>3, <1>4, <1>5, <2>1, <2>2, <2>3
<1>11. Agreed'
  BY <1>2 DEF Filling, Agreed
<1>12. QED
  BY <1>10, <1>11 DEF PendingAgreed

LEMMA CommitMatchFilling ==
    ASSUME Locked, Filling, CommitMatch
    PROVE  Agreed' /\ tx'.phase # "settle"
<1>1. /\ tx.phase = "settle" /\ tx' = Idle /\ trades' = Made
      /\ tx.remaining \in Nat
      /\ tx.taker \in DOMAIN orders
      /\ Taker = orders[tx.taker] /\ Taker \in Order
      /\ Taker.status = "QUEUED"
  BY TakerRow, MoneyNat DEF CommitMatch, Locked, LockDiscipline, TakerHeld,
                  TypeOK, Transaction, Made
<1>2. /\ DOMAIN orders' = DOMAIN orders
      /\ orders'[tx.taker] = AfterTrades(Taker, tx.remaining, draft.trades # <<>>)
      /\ \A o \in DOMAIN orders \ {tx.taker} : orders'[o] = SeenOrders[o]
  BY MatchedOrders
<1>3. PendingAgreed
  BY <1>1 DEF Filling
<1>4. AgreesWith(orders'[tx.taker], Traded(tx.taker, Made))
  <2> DEFINE matched == draft.trades # <<>>
             traded == Traded(tx.taker, Made)
  <2>1. traded \in Nat
    BY MadeRows, TradedType
  <2>2. /\ tx.remaining + traded = Taker.originalAmount
        /\ matched <=> traded # 0
    BY <1>3 DEF PendingAgreed
  <2>3. Taker.originalAmount # 0
    <3>1. AgreesWith(Taker, Traded(tx.taker, trades))
      BY <1>1 DEF Filling, Agreed
    <3>2. /\ Taker.remainingAmount = Taker.originalAmount
          /\ Taker.remainingAmount # 0
      BY <1>1, <3>1, DecimalsAssumption DEF AgreesWith, Order, Money
    <3>3. QED
      BY <3>2
  <2>4. matched \in BOOLEAN
    OBVIOUS
  <2>5. orders'[tx.taker] = AfterTrades(Taker, tx.remaining, matched)
    BY <1>2
  <2> HIDE DEF matched, traded
  <2>6. IF matched THEN traded > 0 ELSE traded = 0 /\ tx.remaining > 0
    BY <1>1, <2>1, <2>2, <2>3
  <2>7. AgreesWith(AfterTrades(Taker, tx.remaining, matched), traded)
    BY <1>1, <2>1, <2>2, <2>4, <2>6, AgreesAfterTrades
  <2>8. QED
    BY <2>5, <2>7 DEF traded
<1>5. \A o \in DOMAIN orders \ {tx.taker} :
         AgreesWith(orders'[o], Traded(o, Made))
  BY <1>2, <1>3 DEF PendingAgreed
<1>6. QED
  BY <1>1, <1>2, <1>4, <1>5 DEF Agreed, Idle

LEMMA QuietStepFilling ==
    ASSUME Locked, Locked', Filling, QuietStep
    PROVE  Agreed' /\ (tx'.phase = "settle" => PendingAgreed')
<1>1. Agreed'
  BY DEF QuietStep, Filling, Agreed
<1>2. CASE draft' = draft /\ tx'.phase = tx.phase /\ tx'.taker = tx.taker
           /\ tx'.remaining = tx.remaining
  <2>1. Made' = Made /\ SeenOrders' = SeenOrders /\ Taker' = Taker
    BY <1>2 DEF QuietStep, Made, SeenOrders, Taker
  <2>2. QED
    BY <1>1, <1>2, <2>1 DEF QuietStep, Filling, PendingAgreed
<1>3. CASE /\ draft' = NoWrites
           /\ tx'.phase = "settle" =>
                 tx'.remaining = orders[tx'.taker].remainingAmount
  <2>1. SUFFICES ASSUME tx'.phase = "settle" PROVE PendingAgreed'
    BY <1>1
  <2>2. /\ orders' = orders /\ trades' = trades
    BY DEF QuietStep
  <2>3. /\ Made' = trades /\ draft'.trades = << >>
        /\ DOMAIN draft'.orders = {}
    <3>1. draft'.trades = << >> /\ trades \in Seq(Trade)
      BY <1>3 DEF NoWrites, Locked, TypeOK
    <3>2. QED
      BY <1>3, <2>2, <3>1, NoDraftedOrders DEF Made
  <2>4. \A o \in DOMAIN orders : SeenOrders'[o] = orders[o]
    BY <2>2, <2>3 DEF SeenOrders, Overlay
  <2>5. /\ tx'.taker \in DOMAIN orders /\ Taker' = orders[tx'.taker]
        /\ orders[tx'.taker].status = "QUEUED"
    BY <2>1, <2>2 DEF Locked, LockDiscipline, TakerHeld, Taker
  <2>6. AgreesWith(orders[tx'.taker], Traded(tx'.taker, trades))
    BY <2>5 DEF Filling, Agreed
  <2>7. Traded(tx'.taker, trades) = 0
    BY <2>5, <2>6 DEF AgreesWith
  <2>8. tx'.remaining + Traded(tx'.taker, trades) = orders[tx'.taker].originalAmount
    BY <1>3, <2>1, <2>6 DEF AgreesWith
  <2>9. QED
    BY <2>2, <2>3, <2>4, <2>5, <2>7, <2>8 DEF Filling, Agreed, PendingAgreed
<1>4. QED
  BY <1>2, <1>3 DEF QuietStep

Accounted == Locked /\ DraftedMakers /\ Filling

LEMMA AlwaysAccounted == Spec => []Accounted
<1>1. Init => Accounted
  <2> SUFFICES ASSUME Init PROVE Accounted
    OBVIOUS
  <2>1. /\ trades = << >> /\ draft.trades = << >> /\ DOMAIN draft.orders = {}
        /\ DOMAIN orders = {} /\ tx.phase = "idle"
    BY NoDraftedOrders DEF Init, NoWrites, Idle
  <2>2. DOMAIN Made = {}
    BY <2>1 DEF Made
  <2>3. QED
    BY <2>1, <2>2, InitLocked
       DEF Accounted, DraftedMakers, Filling, Parties, Agreed
<1>2. Accounted /\ [Next]_vars => Accounted'
  <2> SUFFICES ASSUME Accounted, [Next]_vars PROVE Accounted'
    OBVIOUS
  <2>1. Locked' /\ DraftedMakers' /\ Parties'
    BY NextLocked, NextDrafted, NextParties DEF Accounted, Filling
  <2>2. Agreed' /\ (tx'.phase = "settle" => PendingAgreed')
    BY <2>1, StepKinds, CreateOrderFilling, CommitCancelFilling,
       RejectTakerFilling, SettleMakerFilling, CommitMatchFilling,
       QuietStepFilling DEF Accounted
  <2>3. QED
    BY <2>1, <2>2 DEF Accounted, Filling
<1>3. QED
  BY <1>1, <1>2, PTL DEF Spec

\* An order's missing amount is always recorded as trades and its status says
\* how far it got, as orders_status_remaining_amount_consistency demands,
\* however its fills were interleaved with cancellations and rollbacks.
THEOREM QuantitiesAreTraded == Spec => []QuantitiesMatchTrades
<1>1. Accounted => QuantitiesMatchTrades
  BY QuantitiesByOrder DEF Accounted, Filling, Agreed
<1>2. QED
  BY <1>1, AlwaysAccounted, PTL

-----------------------------------------------------------------------------
(* What a history adds up to *)

Ways == {"in", "out"}

\* What an item says its reader received or paid of an asset.
Flow(item, asset, way) ==
    IF way = "in" THEN (IF asset = "BTC" THEN BtcIn(item) ELSE UsdIn(item))
                  ELSE (IF asset = "BTC" THEN BtcOut(item) ELSE UsdOut(item))

\* The trades of a user among some, and what they add up to.
Own(u, made) ==
    {i \in DOMAIN made : u \in {Buyer(made[i]), Seller(made[i])}}
Flows(u, made, asset, way) ==
    SumOver([i \in Own(u, made) |-> Flow(HistoryItem(u, made[i]), asset, way)],
            Own(u, made))

\* A wallet holds what it started with and what its owner's trades moved.
Explained(u, wallet, made) ==
    \A asset \in Asset :
       Holds(wallet, asset) + Flows(u, made, asset, "out")
          = Initial(asset) + Flows(u, made, asset, "in")

LEMMA HistoryByUser ==
    HistoryExplainsWallet <=> \A u \in Users : Explained(u, wallets[u], trades)
<1>1. ASSUME NEW u \in Users
      PROVE  /\ DOMAIN UserHistory(u) = Own(u, trades)
             /\ \A i \in Own(u, trades) :
                   UserHistory(u)[i] = HistoryItem(u, trades[i])
  BY DEF UserHistory, Own
<1>2. ASSUME NEW u \in Users
      PROVE  LET history == UserHistory(u) IN
             /\ SumOver([i \in DOMAIN history |-> BtcOut(history[i])], DOMAIN history)
                   = Flows(u, trades, "BTC", "out")
             /\ SumOver([i \in DOMAIN history |-> BtcIn(history[i])], DOMAIN history)
                   = Flows(u, trades, "BTC", "in")
             /\ SumOver([i \in DOMAIN history |-> UsdOut(history[i])], DOMAIN history)
                   = Flows(u, trades, "USD", "out")
             /\ SumOver([i \in DOMAIN history |-> UsdIn(history[i])], DOMAIN history)
                   = Flows(u, trades, "USD", "in")
  <2> DEFINE history == UserHistory(u)
  <2>1. /\ DOMAIN history = Own(u, trades)
        /\ \A i \in Own(u, trades) : history[i] = HistoryItem(u, trades[i])
    BY <1>1
  <2> HIDE DEF history
  <2>2. /\ [i \in DOMAIN history |-> BtcOut(history[i])] = [i \in Own(u, trades) |->
               Flow(HistoryItem(u, trades[i]), "BTC", "out")]
        /\ [i \in DOMAIN history |-> BtcIn(history[i])] = [i \in Own(u, trades) |->
               Flow(HistoryItem(u, trades[i]), "BTC", "in")]
        /\ [i \in DOMAIN history |-> UsdOut(history[i])] = [i \in Own(u, trades) |->
               Flow(HistoryItem(u, trades[i]), "USD", "out")]
        /\ [i \in DOMAIN history |-> UsdIn(history[i])] = [i \in Own(u, trades) |->
               Flow(HistoryItem(u, trades[i]), "USD", "in")]
    BY <2>1 DEF Flow
  <2>3. QED
    BY <2>1, <2>2 DEF Flows, history
<1>3. QED
  BY <1>2 DEF HistoryExplainsWallet, Explained, Asset, Holds, Initial

\* No item moves more than this.
FlowBound == EscrowBound + DecimalMax

\* An item says what its reader's side of the trade gained.
LEMMA ItemFlows ==
    ASSUME NEW trade \in Trade, Party(trade), trade.takerSide \in Side,
           NEW u, u \in {Buyer(trade), Seller(trade)}, NEW asset \in Asset
    PROVE  LET item == HistoryItem(u, trade) IN
           /\ \A way \in Ways : Flow(item, asset, way) \in 0..FlowBound
           /\ Flow(item, asset, "in") - Flow(item, asset, "out")
                 = Gain(trade, item.side, asset)
           /\ item.side \in Side
<1> DEFINE item == HistoryItem(u, trade)
           taker == orders[trade.takerOrderId].userId = u
           fee == IF taker THEN trade.takerFeeAmount ELSE trade.makerFeeAmount
           cost == MultiplyScaled(trade.amount, trade.price)
<1>1. /\ trade.takerSide \in {"BUY", "SELL"}
      /\ orders[trade.makerOrderId].userId # orders[trade.takerOrderId].userId
      /\ u \in {orders[trade.makerOrderId].userId, orders[trade.takerOrderId].userId}
  BY DEF Party, Buyer, Seller, BuyOrderId, SellOrderId, Side
<1>2. /\ item.price = trade.price /\ item.amount = trade.amount
      /\ item.side = (IF taker = (trade.takerSide = "BUY") THEN "BUY" ELSE "SELL")
      /\ item.feeAmount = fee
      /\ item.feeAsset = (IF taker = (trade.takerSide = "BUY") THEN "BTC" ELSE "USD")
  BY <1>1 DEF HistoryItem, Buyer, BuyOrderId
<1>3. /\ trade.amount \in 0..DecimalMax /\ fee \in 0..DecimalMax
      /\ cost \in 0..EscrowBound /\ EscrowBound \in Nat /\ DecimalMax \in Nat
      /\ DecimalMax <= EscrowBound
  <2>1. /\ trade.amount \in Money /\ trade.price \in Money
        /\ trade.takerFeeAmount \in Money /\ trade.makerFeeAmount \in Money
    BY DEF Trade
  <2>2. Escrow("BUY", trade.amount, trade.price) \in 0..EscrowBound
    BY <2>1, EscrowType DEF Side
  <2>3. DecimalMax <= EscrowBound /\ EscrowBound \in Nat /\ DecimalMax \in Nat
    <3>1. DecimalMax \in Nat
      BY DecimalsAssumption
    <3>2. MultiplyScaled(DecimalMax, DecimalMax) \in Nat
      BY <3>1, MultiplyScaledNat
    <3>3. QED
      BY <3>1, <3>2 DEF EscrowBound
  <2>4. QED
    BY <2>1, <2>2, <2>3 DEF Escrow, Money
<1>4. /\ BtcFee(trade) = (IF taker = (trade.takerSide = "BUY") THEN fee ELSE BtcFee(trade))
      /\ UsdFee(trade) = (IF taker = (trade.takerSide = "BUY") THEN UsdFee(trade) ELSE fee)
      /\ CostOf(trade) = cost
  BY <1>1 DEF BtcFee, UsdFee, CostOf
<1> HIDE DEF item, taker, fee, cost
<1>5. MultiplyScaled(item.amount, item.price) = cost
  BY <1>2 DEF cost
<1>6. CASE taker = (trade.takerSide = "BUY")
  <2>1. /\ item.side = "BUY" /\ item.feeAsset = "BTC" /\ BtcFee(trade) = fee
    BY <1>2, <1>4, <1>6
  <2>2. /\ BtcIn(item) = trade.amount /\ UsdIn(item) = 0
        /\ BtcOut(item) = fee /\ UsdOut(item) = cost
    BY <1>2, <1>3, <1>5, <2>1 DEF BtcIn, UsdIn, BtcOut, UsdOut
  <2>3. /\ \A way \in Ways : Flow(item, asset, way) \in 0..FlowBound
        /\ Flow(item, asset, "in") - Flow(item, asset, "out")
              = Gain(trade, item.side, asset)
    <3>1. CASE asset = "BTC"
      BY <3>1, <1>3, <2>1, <2>2 DEF Flow, Gain, FlowBound, Ways
    <3>2. CASE asset = "USD"
      BY <3>2, <1>3, <1>4, <2>1, <2>2 DEF Flow, Gain, FlowBound, Ways
    <3>3. QED
      BY <3>1, <3>2 DEF Asset
  <2>4. QED
    BY <2>1, <2>3 DEF item, Side
<1>7. CASE taker # (trade.takerSide = "BUY")
  <2>1. /\ item.side = "SELL" /\ item.feeAsset = "USD" /\ UsdFee(trade) = fee
    BY <1>2, <1>4, <1>7
  <2>2. /\ BtcIn(item) = 0 /\ UsdIn(item) = cost
        /\ BtcOut(item) = trade.amount /\ UsdOut(item) = fee
    BY <1>2, <1>3, <1>5, <2>1 DEF BtcIn, UsdIn, BtcOut, UsdOut
  <2>3. /\ \A way \in Ways : Flow(item, asset, way) \in 0..FlowBound
        /\ Flow(item, asset, "in") - Flow(item, asset, "out")
              = Gain(trade, item.side, asset)
    <3>1. CASE asset = "BTC"
      BY <3>1, <1>3, <2>1, <2>2 DEF Flow, Gain, FlowBound, Ways
    <3>2. CASE asset = "USD"
      BY <3>2, <1>3, <1>4, <2>1, <2>2 DEF Flow, Gain, FlowBound, Ways
    <3>3. QED
      BY <3>1, <3>2 DEF Asset
  <2>4. QED
    BY <2>1, <2>3 DEF item, Side
<1>8. QED
  BY <1>6, <1>7

LEMMA FlowBoundNat == FlowBound \in Nat
BY EscrowBoundNat, DecimalsAssumption DEF FlowBound

\* The pending trades of a state have their parties and their rows.
PartyRows(made) ==
    /\ IsFiniteSet(DOMAIN made)
    /\ \A i \in DOMAIN made : made[i] \in Trade /\ Party(made[i])

LEMMA MadePartyRows ==
    ASSUME Locked, Parties
    PROVE  PartyRows(Made) /\ PartyRows(trades)
<1>1. Made \in Seq(Trade) /\ trades \in Seq(Trade)
  BY MadeRows DEF Locked, TypeOK
<1>2. ASSUME NEW made \in Seq(Trade) PROVE IsFiniteSet(DOMAIN made)
  BY FS_Interval, SMT
<1>3. /\ IsFiniteSet(DOMAIN Made) /\ IsFiniteSet(DOMAIN trades)
      /\ \A i \in DOMAIN Made : Made[i] \in Trade /\ Party(Made[i])
  BY <1>1, <1>2 DEF Parties
<1>4. \A i \in DOMAIN trades : trades[i] \in Trade /\ Party(trades[i])
  BY <1>3, TradesFirst
<1>5. QED
  BY <1>3, <1>4 DEF PartyRows

LEMMA FlowsType ==
    ASSUME NEW made, PartyRows(made), NEW u, NEW asset \in Asset, NEW way \in Ways
    PROVE  Flows(u, made, asset, way) \in Nat
<1> DEFINE mine == Own(u, made)
           f == [i \in mine |-> Flow(HistoryItem(u, made[i]), asset, way)]
<1>1. \A i \in mine : f[i] \in 0..FlowBound
  <2>1. ASSUME NEW i \in mine
        PROVE  /\ made[i] \in Trade /\ Party(made[i])
               /\ made[i].takerSide \in Side
               /\ u \in {Buyer(made[i]), Seller(made[i])}
    BY DEF Own, PartyRows, Trade
  <2>2. QED
    BY <2>1, ItemFlows
<1>2. IsFiniteSet(mine)
  BY FS_Subset DEF Own, PartyRows
<1>3. Flows(u, made, asset, way) = SumOver(f, mine)
  BY DEF Flows
<1> HIDE DEF f, mine
<1>4. QED
  BY <1>1, <1>2, <1>3, FlowBoundNat, TokensFinite

\* What some trades moved stays the same while their orders keep their owners.
LEMMA FlowsKept ==
    ASSUME NEW made, PartyRows(made),
           \A x \in DOMAIN orders : orders'[x].userId = orders[x].userId,
           NEW u, NEW asset, NEW way
    PROVE  Flows(u, made, asset, way)' = Flows(u, made, asset, way)
<1>1. ASSUME NEW i \in DOMAIN made
      PROVE  /\ Buyer(made[i])' = Buyer(made[i]) /\ Seller(made[i])' = Seller(made[i])
             /\ HistoryItem(u, made[i])' = HistoryItem(u, made[i])
  <2>1. /\ made[i].makerOrderId \in DOMAIN orders
        /\ made[i].takerOrderId \in DOMAIN orders
    BY DEF PartyRows, Party
  <2>2. Buyer(made[i])' = Buyer(made[i]) /\ Seller(made[i])' = Seller(made[i])
    BY <2>1 DEF Buyer, Seller, BuyOrderId, SellOrderId
  <2>3. QED
    BY <2>1, <2>2 DEF HistoryItem
<1>2. Own(u, made)' = Own(u, made)
  BY <1>1 DEF Own
<1>3. [i \in Own(u, made)' |-> Flow(HistoryItem(u, made[i])', asset, way)]
         = [i \in Own(u, made) |-> Flow(HistoryItem(u, made[i]), asset, way)]
  BY <1>1, <1>2 DEF Own
<1>4. Flows(u, made, asset, way)'
         = SumOver([i \in Own(u, made)' |-> Flow(HistoryItem(u, made[i])', asset, way)],
                   Own(u, made)')
  BY DEF Flows, Flow, BtcIn, BtcOut, UsdIn, UsdOut
<1>5. QED
  BY <1>2, <1>3, <1>4 DEF Flows

\* One more trade adds its item to the histories of its parties.
LEMMA FlowsAdd ==
    ASSUME NEW made, NEW made2, NEW last, PartyRows(made), PartyRows(made2),
           last \notin DOMAIN made, DOMAIN made2 = DOMAIN made \cup {last},
           \A i \in DOMAIN made : made2[i] = made[i],
           NEW u, NEW asset \in Asset, NEW way \in Ways
    PROVE  Flows(u, made2, asset, way)
              = IF u \in {Buyer(made2[last]), Seller(made2[last])}
                THEN Flows(u, made, asset, way)
                        + Flow(HistoryItem(u, made2[last]), asset, way)
                ELSE Flows(u, made, asset, way)
<1> DEFINE mine == Own(u, made)
           more == Own(u, made2)
           f == [i \in mine |-> Flow(HistoryItem(u, made[i]), asset, way)]
           g == [i \in more |-> Flow(HistoryItem(u, made2[i]), asset, way)]
           party == u \in {Buyer(made2[last]), Seller(made2[last])}
<1>1. Flows(u, made, asset, way) = SumOver(f, mine)
  BY DEF Flows
<1>2. Flows(u, made2, asset, way) = SumOver(g, more)
  BY DEF Flows
<1>3. more = IF party THEN mine \cup {last} ELSE mine
  BY DEF Own
<1>4. /\ IsFiniteSet(mine) /\ last \notin mine /\ mine \subseteq DOMAIN made
  BY FS_Subset DEF Own, PartyRows
<1>5. \A i \in mine : f[i] \in 0..FlowBound
  <2>1. ASSUME NEW i \in mine
        PROVE  /\ made[i] \in Trade /\ Party(made[i])
               /\ made[i].takerSide \in Side
               /\ u \in {Buyer(made[i]), Seller(made[i])}
    BY DEF Own, PartyRows, Trade
  <2>2. QED
    BY <2>1, ItemFlows
<1>6. CASE ~party
  <2>1. more = mine
    BY <1>3, <1>6
  <2>2. g = f
    BY <1>4, <2>1
  <2>3. QED
    BY <1>1, <1>2, <1>6, <2>1, <2>2
<1>7. CASE party
  <2>1. more = mine \cup {last}
    BY <1>3, <1>7
  <2>2. Flow(HistoryItem(u, made2[last]), asset, way) \in 0..FlowBound
    <3>1. made2[last] \in Trade /\ Party(made2[last]) /\ made2[last].takerSide \in Side
      BY DEF PartyRows, Trade
    <3>2. QED
      BY <1>7, <3>1, ItemFlows
  <2>3. /\ g[last] = Flow(HistoryItem(u, made2[last]), asset, way)
        /\ g[last] \in 0..FlowBound
        /\ \A i \in mine : f[i] \in 0..FlowBound /\ g[i] = f[i]
    BY <1>4, <1>5, <2>1, <2>2
  <2> HIDE DEF f, g, mine, more
  <2>4. /\ SumOver(f, mine) \in Nat
        /\ SumOver(g, mine \cup {last}) = SumOver(f, mine) + g[last]
    <3>1. /\ IsFiniteSet(mine) /\ last \notin mine /\ FlowBound \in Nat
          /\ \A i \in mine : f[i] \in 0..FlowBound /\ g[i] = f[i]
          /\ g[last] \in 0..FlowBound
      BY <1>4, <2>3, FlowBoundNat
    <3>2. QED
      BY ONLY <3>1, SumGrows
  <2>5. QED
    BY <1>1, <1>2, <1>7, <2>1, <2>3, <2>4
<1>8. QED
  BY <1>6, <1>7

-----------------------------------------------------------------------------
(* Histories explain wallets *)

\* Inductive only together with what it becomes once the draft is committed.
Explaining == /\ \A u \in Users : Explained(u, wallets[u], trades)
              /\ \A u \in Users : Explained(u, SeenWallets[u], Made)

LEMMA SettleMakerExplaining ==
    ASSUME Locked, DraftedMakers, Parties, Parties', Explaining, SettleMaker
    PROVE  \A u \in Users : Explained(u, SeenWallets[u], Made)'
<1>1. PICK m : m = NextMaker.id
  OBVIOUS
<1>2. PICK made : made = Made
  OBVIOUS
<1>3. PICK made2 : made2 = Made'
  OBVIOUS
<1>4. PICK last : last = Len(Made) + 1
  OBVIOUS
<1>5. /\ Settling /\ orders' = orders
      /\ m \in DOMAIN orders /\ tx.taker \in DOMAIN orders
      /\ Taker = orders[tx.taker]
      /\ Taker.side \in {"BUY", "SELL"}
      /\ orders[m].side = IF Taker.side = "BUY" THEN "SELL" ELSE "BUY"
      /\ orders[m].userId # Taker.userId
  BY <1>1, TakerRow, NextMakerRow
     DEF SettleMaker, Settling, Order, Side, IsEligibleMaker, Opposes
<1>6. /\ last \notin DOMAIN made
      /\ DOMAIN made2 = DOMAIN made \cup {last}
      /\ made2[last] = NextTrade /\ NextTrade \in Trade
      /\ \A i \in DOMAIN made : made2[i] = made[i]
  BY <1>2, <1>3, <1>4, MadeAppended
<1>7. PartyRows(made) /\ PartyRows(made2)
  <2>1. PartyRows(made)
    BY <1>2, MadePartyRows
  <2>2. \A i \in DOMAIN made2 : Party(made2[i])
    BY <1>3, <1>5 DEF Parties, Party
  <2>3. IsFiniteSet(DOMAIN made2)
    BY <1>6, <2>1, FS_AddElement DEF PartyRows
  <2>4. QED
    BY <1>6, <2>1, <2>2, <2>3 DEF PartyRows
<1>8. /\ NextTrade.makerOrderId = m /\ NextTrade.takerOrderId = tx.taker
      /\ NextTrade.takerSide = Taker.side
  BY <1>1, <1>5, NextTradeMoney
<1>9. /\ Buyer(NextTrade) = IF Taker.side = "BUY" THEN Taker.userId ELSE orders[m].userId
      /\ Seller(NextTrade) = IF Taker.side = "BUY" THEN orders[m].userId ELSE Taker.userId
  BY <1>5, <1>8 DEF Buyer, Seller, BuyOrderId, SellOrderId
<1>10. /\ HistoryItem(Taker.userId, NextTrade).side = Taker.side
       /\ HistoryItem(orders[m].userId, NextTrade).side = orders[m].side
  BY <1>5, <1>9 DEF HistoryItem
<1>11. ASSUME NEW u \in Users, NEW asset \in Asset
       PROVE  Holds(SeenWallets'[u], asset) + Flows(u, made2, asset, "out")
                 = Initial(asset) + Flows(u, made2, asset, "in")
  <2> DEFINE item == HistoryItem(u, NextTrade)
             parties == {Taker.userId, orders[m].userId}
  <2>1. Holds(SeenWallets[u], asset) + Flows(u, made, asset, "out")
           = Initial(asset) + Flows(u, made, asset, "in")
    BY <1>2 DEF Explaining, Explained
  <2>2. \A way \in Ways : Flows(u, made2, asset, way)
           = IF u \in parties THEN Flows(u, made, asset, way) + Flow(item, asset, way)
                              ELSE Flows(u, made, asset, way)
    <3>1. ASSUME NEW way \in Ways
          PROVE  Flows(u, made2, asset, way)
                    = IF u \in {Buyer(made2[last]), Seller(made2[last])}
                      THEN Flows(u, made, asset, way)
                              + Flow(HistoryItem(u, made2[last]), asset, way)
                      ELSE Flows(u, made, asset, way)
      BY <1>6, <1>7, FlowsAdd
    <3>2. {Buyer(NextTrade), Seller(NextTrade)} = parties
      BY <1>9
    <3>3. QED
      BY <1>6, <3>1, <3>2
  <2>3. /\ Flows(u, made, asset, "in") \in Nat
        /\ Flows(u, made, asset, "out") \in Nat
    BY <1>7, FlowsType DEF Ways
  <2>4. Holds(SeenWallets[u], asset) \in Int
    <3>1. SeenWallets[u] \in Wallet
      BY SeenWalletRow
    <3>2. Holds(SeenWallets[u], asset) \in 0..HoldsBound
      BY <3>1, HoldsType
    <3>3. QED
      BY <3>2, HoldsBoundNat
  <2>5. "in" \in Ways /\ "out" \in Ways
    BY DEF Ways
  <2>6. Initial(asset) \in Int
    BY RowsAssumption, DecimalsAssumption DEF Initial, Money
  <2>7. CASE u \notin parties
    <3>1. SeenWallets'[u] = SeenWallets[u]
      BY <1>1, <2>7, SettledWallets
    <3>2. QED
      BY <2>1, <2>2, <2>5, <2>7, <3>1
  <2>8. CASE u \in parties
    <3>1. Holds(SeenWallets'[u], asset)
             = Holds(SeenWallets[u], asset) + Gain(NextTrade, item.side, asset)
      BY <1>1, <1>5, <1>10, <2>8, SettledWallets, SettledHoldings
    <3>2. /\ Flow(item, asset, "in") \in Int /\ Flow(item, asset, "out") \in Int
          /\ Flow(item, asset, "in") - Flow(item, asset, "out")
                = Gain(NextTrade, item.side, asset)
      <4>1. /\ NextTrade \in Trade /\ Party(NextTrade) /\ NextTrade.takerSide \in Side
            /\ u \in {Buyer(NextTrade), Seller(NextTrade)}
        BY <1>6, <1>7, <1>9, <2>8 DEF PartyRows, Trade
      <4>2. /\ \A way \in Ways : Flow(item, asset, way) \in 0..FlowBound
            /\ Flow(item, asset, "in") - Flow(item, asset, "out")
                  = Gain(NextTrade, item.side, asset)
        BY <4>1, ItemFlows
      <4>3. QED
        BY <2>5, <4>2, FlowBoundNat
    <3>3. /\ Flows(u, made2, asset, "in")
                = Flows(u, made, asset, "in") + Flow(item, asset, "in")
          /\ Flows(u, made2, asset, "out")
                = Flows(u, made, asset, "out") + Flow(item, asset, "out")
      BY <2>2, <2>5, <2>8
    <3> HIDE DEF item, parties
    <3>4. QED
      BY <2>1, <2>3, <2>4, <2>6, <3>1, <3>2, <3>3
  <2>9. QED
    BY <2>7, <2>8
<1>12. \A u, asset, way : Flows(u, made2, asset, way)' = Flows(u, made2, asset, way)
  BY <1>5, <1>7, FlowsKept
<1>13. ASSUME NEW u \in Users, NEW asset \in Asset
       PROVE  Holds(SeenWallets'[u], asset) + Flows(u, made2, asset, "out")'
                 = Initial(asset) + Flows(u, made2, asset, "in")'
  BY <1>11, <1>12
<1>14. QED
  BY <1>3, <1>13 DEF Explained

LEMMA NextExplaining ==
    ASSUME Locked, Locked', DraftedMakers, Parties, Parties', Explaining, [Next]_vars
    PROVE  Explaining'
<1>1. PICK made : made = Made
  OBVIOUS
<1>2. PICK kept : kept = trades
  OBVIOUS
<1>3. PartyRows(made) /\ PartyRows(kept)
  BY <1>1, <1>2, MadePartyRows
<1>4. \A x \in DOMAIN orders : orders'[x].userId = orders[x].userId
  BY OrdersKeepTerms
<1>5. ASSUME NEW rows, PartyRows(rows), NEW funds, NEW funds2,
             SameHoldings(funds, funds2),
             \A u \in Users : Explained(u, funds[u], rows)
      PROVE  \A u \in Users, asset \in Asset :
                Holds(funds2[u], asset) + Flows(u, rows, asset, "out")'
                   = Initial(asset) + Flows(u, rows, asset, "in")'
  BY <1>4, <1>5, FlowsKept DEF Explained, SameHoldings
<1>6. ASSUME SameHoldings(wallets, wallets'), trades' = trades
      PROVE  \A u \in Users : Explained(u, wallets[u], trades)'
  <2>1. \A u \in Users, asset \in Asset :
           Holds(wallets'[u], asset) + Flows(u, kept, asset, "out")'
              = Initial(asset) + Flows(u, kept, asset, "in")'
    BY <1>2, <1>3, <1>5, <1>6 DEF Explaining
  <2>2. QED
    BY <1>2, <1>6, <2>1 DEF Explained
<1>7. ASSUME SameHoldings(SeenWallets, SeenWallets'), Made' = Made
      PROVE  \A u \in Users : Explained(u, SeenWallets[u], Made)'
  <2>1. \A u \in Users, asset \in Asset :
           Holds(SeenWallets'[u], asset) + Flows(u, made, asset, "out")'
              = Initial(asset) + Flows(u, made, asset, "in")'
    BY <1>1, <1>3, <1>5, <1>7 DEF Explaining
  <2>2. QED
    BY <1>1, <1>7, <2>1 DEF Explained
<1>8. ASSUME SeenWallets' = wallets', Made' = trades',
             \A u \in Users : Explained(u, wallets[u], trades)'
      PROVE  \A u \in Users : Explained(u, SeenWallets[u], Made)'
  BY <1>8 DEF Explained
<1>9. CASE \/ \E u \in Users, form \in OrderForms : CreateOrder(u, form)
           \/ \E o \in DOMAIN orders : CommitCancel(o)
           \/ RejectTaker
  <2>1. /\ trades' = trades /\ draft' = draft
        /\ SameHoldings(wallets, wallets')
        /\ SameHoldings(SeenWallets, SeenWallets')
    BY <1>9, OrdersKeepHoldings
  <2>2. Made' = Made
    BY <2>1 DEF Made
  <2>3. QED
    BY <1>6, <1>7, <2>1, <2>2 DEF Explaining
<1>10. CASE SettleMaker
  <2>1. wallets' = wallets /\ trades' = trades
    BY <1>10 DEF SettleMaker
  <2>2. SameHoldings(wallets, wallets')
    BY <2>1 DEF SameHoldings
  <2>3. QED
    BY <1>6, <1>10, <2>1, <2>2, SettleMakerExplaining DEF Explaining
<1>11. ASSUME draft' = NoWrites
       PROVE  SeenWallets' = wallets' /\ Made' = trades'
  <2>1. /\ draft'.trades = << >> /\ DOMAIN draft'.wallets = {}
        /\ trades' \in Seq(Trade) /\ wallets' \in [Users -> Wallet]
    BY <1>11 DEF NoWrites, Locked, TypeOK
  <2>2. QED
    BY <2>1 DEF SeenWallets, Overlay, Made
<1>12. CASE CommitMatch
  <2>1. wallets' = SeenWallets /\ trades' = Made /\ draft' = NoWrites
    BY <1>12 DEF CommitMatch, Made
  <2>2. SeenWallets' = wallets' /\ Made' = trades'
    BY <1>11, <2>1
  <2>3. SameHoldings(SeenWallets, SeenWallets') /\ Made' = Made
    BY <2>1, <2>2 DEF SameHoldings
  <2>4. \A u \in Users : Explained(u, SeenWallets[u], Made)'
    BY <1>7, <2>3
  <2>5. \A u \in Users : Explained(u, wallets[u], trades)'
    BY <2>2, <2>4 DEF Explained
  <2>6. QED
    BY <2>4, <2>5 DEF Explaining
<1>13. CASE QuietStep
  <2>1. wallets' = wallets /\ trades' = trades
    BY <1>13 DEF QuietStep
  <2>2. \A u \in Users : Explained(u, wallets[u], trades)'
    <3>1. SameHoldings(wallets, wallets')
      BY <2>1 DEF SameHoldings
    <3>2. QED
      BY <1>6, <2>1, <3>1
  <2>3. CASE draft' = NoWrites
    BY <1>8, <1>11, <2>2, <2>3 DEF Explaining
  <2>4. CASE draft' = draft
    <3>1. SeenWallets' = SeenWallets /\ Made' = Made
      BY <2>1, <2>4 DEF SeenWallets, Made
    <3>2. SameHoldings(SeenWallets, SeenWallets')
      BY <3>1 DEF SameHoldings
    <3>3. QED
      BY <1>7, <2>2, <3>1, <3>2 DEF Explaining
  <2>5. QED
    BY <1>13, <2>3, <2>4 DEF QuietStep
<1>14. QED
  BY <1>9, <1>10, <1>12, <1>13, StepKinds

LEMMA InitExplaining == Init => Explaining
<1> SUFFICES ASSUME Init PROVE Explaining
  OBVIOUS
<1>1. /\ DOMAIN trades = {} /\ DOMAIN draft.wallets = {} /\ Made = trades
  <2>1. trades = << >> /\ draft.trades = << >> /\ draft.wallets = << >>
    BY DEF Init, NoWrites
  <2>2. QED
    BY <2>1 DEF Made
<1>2. \A u \in Users : SeenWallets[u] = wallets[u]
  BY <1>1 DEF SeenWallets, Overlay, Init
<1>3. ASSUME NEW u \in Users, NEW asset \in Asset
      PROVE  /\ Holds(wallets[u], asset) = Initial(asset)
             /\ Initial(asset) \in Int
             /\ \A way : Flows(u, trades, asset, way) = 0
  <2>1. Own(u, trades) = {}
    BY <1>1 DEF Own
  <2>2. \A way : Flows(u, trades, asset, way) = 0
    BY <2>1, SumEmpty DEF Flows
  <2>3. QED
    BY <2>2, RowsAssumption, DecimalsAssumption DEF Init, Holds, Initial, Money
<1>4. QED
  BY <1>1, <1>2, <1>3 DEF Explaining, Explained

LEMMA AlwaysExplaining == Spec => [](Accounted /\ Explaining)
<1>1. Init => Explaining
  BY InitExplaining
<1>2. Accounted /\ Accounted' /\ Explaining /\ [Next]_vars => Explaining'
  BY NextExplaining DEF Accounted, Filling
<1>3. QED
  BY <1>1, <1>2, AlwaysAccounted, PTL DEF Spec

\* Every user can reconcile the wallet with the trade history of
\* TradesService.getUserHistory to the last unit: start, sides, costs and fees
\* add up to what is available and reserved, after any sequence of orders,
\* matches, cancellations, rejections and rollbacks.
THEOREM HistoriesReconcile == Spec => []HistoryExplainsWallet
<1>1. Explaining => HistoryExplainsWallet
  BY HistoryByUser DEF Explaining
<1>2. QED
  BY <1>1, AlwaysExplaining, PTL

-----------------------------------------------------------------------------
(* What the exchange and its matching have in common *)

\* Exchange's own copies of the operators are the same.
LEMMA SameRows ==
    /\ \A f, S : Visible!SumOver(f, S) = SumOver(f, S)
    /\ \A a, b : Visible!MultiplyScaled(a, b) = MultiplyScaled(a, b)
    /\ \A a, b : Visible!Lesser(a, b) = Lesser(a, b)
    /\ \A a, b, c : Visible!Escrow(a, b, c) = Escrow(a, b, c)
    /\ \A u, form : Visible!QueuedOrder(u, form) = QueuedOrder(u, form)
    /\ Visible!ActiveStatuses = ActiveStatuses
    /\ \A a, b : Visible!IsEligibleMaker(a, b) = IsEligibleMaker(a, b)
    /\ \A a, b, c, d : Visible!Ahead(a, b, c, d) = Ahead(a, b, c, d)
<1>1. \A f, S : Visible!SumOver(f, S) = SumOver(f, S)
  BY DEF Visible!SumOver, SumOver, Visible!Tokens, Tokens, Visible!Cardinality,
         Cardinality
<1>2. \A a, b : Visible!MultiplyScaled(a, b) = MultiplyScaled(a, b)
  BY DEF Visible!MultiplyScaled, MultiplyScaled
<1>3. \A a, b : Visible!Lesser(a, b) = Lesser(a, b)
  BY DEF Visible!Lesser, Lesser
<1>4. \A a, b, c : Visible!Escrow(a, b, c) = Escrow(a, b, c)
  BY <1>2 DEF Visible!Escrow, Escrow
<1>5. \A u, form : Visible!QueuedOrder(u, form) = QueuedOrder(u, form)
  BY DEF Visible!QueuedOrder, QueuedOrder
<1>6. Visible!ActiveStatuses = ActiveStatuses
  BY DEF Visible!ActiveStatuses, ActiveStatuses, Visible!BookStatuses, BookStatuses
<1>7. \A a, b : Visible!IsEligibleMaker(a, b) = IsEligibleMaker(a, b)
  BY DEF Visible!IsEligibleMaker, IsEligibleMaker, Visible!Opposes, Opposes,
         Visible!BookStatuses, BookStatuses
<1>8. \A a, b, c, d : Visible!Ahead(a, b, c, d) = Ahead(a, b, c, d)
  BY DEF Visible!Ahead, Ahead
<1> QED
  BY <1>1, <1>2, <1>3, <1>4, <1>5, <1>6, <1>7, <1>8

\* So are the rows of trades and what they say.
LEMMA SameTrades ==
    /\ \A a, b, c : Visible!AfterTrades(a, b, c) = AfterTrades(a, b, c)
    /\ \A a, b, c, d, e : Visible!TradeRow(a, b, c, d, e) = TradeRow(a, b, c, d, e)
    /\ \A x : Visible!CostOf(x) = CostOf(x)
    /\ \A x : Visible!BtcFee(x) = BtcFee(x)
    /\ \A x : Visible!UsdFee(x) = UsdFee(x)
    /\ \A x : Visible!BuyOrderId(x) = BuyOrderId(x)
    /\ \A x : Visible!SellOrderId(x) = SellOrderId(x)
<1>1. \A a, b, c : Visible!AfterTrades(a, b, c) = AfterTrades(a, b, c)
  BY DEF Visible!AfterTrades, AfterTrades
<1>2. \A a, b, c, d, e : Visible!TradeRow(a, b, c, d, e) = TradeRow(a, b, c, d, e)
  BY SameRows DEF Visible!TradeRow, TradeRow
<1>3. \A x : Visible!CostOf(x) = CostOf(x)
  BY SameRows DEF Visible!CostOf, CostOf
<1>4. \A x : /\ Visible!BtcFee(x) = BtcFee(x)
             /\ Visible!UsdFee(x) = UsdFee(x)
             /\ Visible!BuyOrderId(x) = BuyOrderId(x)
             /\ Visible!SellOrderId(x) = SellOrderId(x)
  BY DEF Visible!BtcFee, BtcFee, Visible!UsdFee, UsdFee, Visible!BuyOrderId,
         BuyOrderId, Visible!SellOrderId, SellOrderId
<1> QED
  BY <1>1, <1>2, <1>3, <1>4

\* What the users own, by asset: the refinement mapping.
Wealth(funds) ==
    [u \in Users |-> [btc |-> funds[u].availableBtc + funds[u].reservedBtc,
                      usd |-> funds[u].availableUsd + funds[u].reservedUsd]]

\* The empty exchange is the empty exchange.
LEMMA InitRefines == Init => Visible!Init
<1> SUFFICES ASSUME Init PROVE Visible!Init
  OBVIOUS
<1>1. InitialBtc \in Int /\ InitialUsd \in Int
  BY RowsAssumption, DecimalsAssumption DEF Money
<1>2. \A u \in Users : /\ wallets[u].availableBtc + wallets[u].reservedBtc = InitialBtc
                       /\ wallets[u].availableUsd + wallets[u].reservedUsd = InitialUsd
  BY <1>1 DEF Init
<1> QED
  BY <1>2 DEF Visible!Init, Init

\* Wallets with the same totals hold the same wealth.
LEMMA SameWealth ==
    ASSUME NEW funds, NEW funds2, SameHoldings(funds, funds2)
    PROVE  Wealth(funds2) = Wealth(funds)
BY DEF SameHoldings, Wealth, Holds, Asset

\* What a user has committed on a side is what is reserved there.
LEMMA CommittedReserved ==
    ASSUME TypeOK, ReservationsExact, NEW u \in Users, NEW side \in Side
    PROVE  Visible!Committed(u, side)
              = IF side = "BUY" THEN wallets[u].reservedUsd ELSE wallets[u].reservedBtc
<1> DEFINE mine == {o \in DOMAIN orders : /\ orders[o].userId = u
                                       /\ orders[o].side = side
                                       /\ orders[o].status \in ActiveStatuses}
           f == [o \in mine |-> Escrow(side, orders[o].remainingAmount, orders[o].price)]
           g == [o \in DOMAIN orders |-> EscrowFor(orders[o], u, side)]
<1>1. Visible!Committed(u, side) = SumOver(f, mine)
  BY SameRows DEF Visible!Committed
<1>2. \A o \in mine : f[o] = g[o]
  BY DEF EscrowFor
<1>3. \A o \in DOMAIN orders \ mine : g[o] = 0
  BY DEF EscrowFor
<1>4. mine \in SUBSET DOMAIN orders
  OBVIOUS
<1>5. Reserved(orders, u, side) = SumOver(g, DOMAIN orders)
  BY DEF Reserved
<1> HIDE DEF mine, f, g
<1>6. SumOver(f, mine) = SumOver(g, mine)
  BY <1>2, SumCongruent
<1>7. SumOver(g, DOMAIN orders) = SumOver(g, mine)
  BY ONLY <1>3, <1>4, SumOfSupport
<1> QED
  BY <1>1, <1>5, <1>6, <1>7 DEF ReservationsExact, Backed, Side

-----------------------------------------------------------------------------
(* The fills of an execution *)

\* The makers of t's fill that go before one.
AheadIn(t, m) == {b \in Visible!Makers(t) : Ahead(orders, orders[t].side, b, m)}

\* What a maker trades with t when t has this much left.
Worth(m, left) ==
    LET amount == Lesser(left, orders[m].remainingAmount)
    IN  IF MultiplyScaled(amount, orders[m].price) = 0 THEN 0 ELSE amount

\* The equation that Exchange!Fill solves: what each maker trades, given what
\* the makers ahead of it trade.
Turn(t, f) ==
    [m \in Visible!Makers(t) |->
       Worth(m, orders[t].remainingAmount
                   - SumOver([b \in AheadIn(t, m) |-> f[b]], AheadIn(t, m)))]

\* Fill chooses a solution of its equation.
LEMMA FillChosen ==
    ASSUME NEW t
    PROVE  Visible!Fill(t) = CHOOSE f : f = Turn(t, f)
BY SameRows DEF Visible!Fill, Turn, Worth, AheadIn

\* Of some orders, one comes first in priority.
LEMMA FirstAhead ==
    ASSUME TypeOK, NEW side \in Side, NEW S \in SUBSET DOMAIN orders, S # {}
    PROVE  \E m \in S : \A n \in S : ~Ahead(orders, side, n, m)
<1> DEFINE HasFirst(T) == T = {} \/ \E m \in T : \A n \in T : ~Ahead(orders, side, n, m)
           Good == {T \in SUBSET S : HasFirst(T)}
<1>1. IsFiniteSet(S)
  BY OrdersTable, TableFinite, FS_Subset
<1>2. {} \in Good
  OBVIOUS
<1>3. ASSUME NEW T \in SUBSET S, NEW x \in S \ T, T \in Good
      PROVE  T \cup {x} \in Good
  <2>1. ~Ahead(orders, side, x, x)
    BY AheadOrder
  <2>2. CASE T = {}
    BY <2>1, <2>2
  <2>3. CASE T # {}
    <3>1. PICK m \in T : \A n \in T : ~Ahead(orders, side, n, m)
      BY <1>3, <2>3
    <3>2. CASE Ahead(orders, side, x, m)
      <4>1. \A n \in T : ~Ahead(orders, side, n, x)
        BY <3>1, <3>2, AheadOrder
      <4>2. QED
        BY <4>1, <2>1
    <3>3. CASE ~Ahead(orders, side, x, m)
      BY <3>1, <3>3
    <3>4. QED
      BY <3>2, <3>3
  <2>4. QED
    BY <2>2, <2>3
<1>4. S \in Good
  <2> HIDE DEF Good
  <2>1. QED
    BY <1>1, <1>2, <1>3, SetInduction
<1> QED
  BY <1>4

\* The equation has no two solutions: the first maker on which they differed
\* would have the same makers ahead of it in both, trading the same.
LEMMA FillUnique ==
    ASSUME TypeOK, NEW t \in DOMAIN orders, NEW f, f = Turn(t, f)
    PROVE  Visible!Fill(t) = f
<1>1. ASSUME NEW g, g = Turn(t, g)
      PROVE  g = f
  <2> DEFINE D == {m \in Visible!Makers(t) : g[m] # f[m]}
  <2>1. D = {}
    <3> SUFFICES ASSUME D # {} PROVE FALSE
      OBVIOUS
    <3>1. D \in SUBSET DOMAIN orders
      BY DEF Visible!Makers
    <3>2. orders[t].side \in Side
      BY OrderRows DEF Order
    <3> HIDE DEF D
    <3>3. PICK m \in D : \A n \in D : ~Ahead(orders, orders[t].side, n, m)
      BY <3>1, <3>2, FirstAhead
    <3> USE DEF D
    <3>4. \A b \in AheadIn(t, m) : g[b] = f[b]
      BY <3>3 DEF AheadIn
    <3>5. SumOver([b \in AheadIn(t, m) |-> g[b]], AheadIn(t, m))
             = SumOver([b \in AheadIn(t, m) |-> f[b]], AheadIn(t, m))
      BY <3>4, SumCongruent
    <3>6. /\ g[m] = Turn(t, g)[m] /\ f[m] = Turn(t, f)[m]
      BY <1>1
    <3>7. g[m] = f[m]
      BY <3>5, <3>6 DEF Turn
    <3>8. QED
      BY <3>7
  <2>2. /\ g = [m \in Visible!Makers(t) |-> g[m]]
        /\ f = [m \in Visible!Makers(t) |-> f[m]]
    BY <1>1 DEF Turn
  <2>3. QED
    BY <2>1, <2>2
<1>2. QED
  BY <1>1, FillChosen

-----------------------------------------------------------------------------
(* Makers trade in their turn *)

\* What the match has drafted of a maker, and the drafted makers ahead of one.
Drafted(m) ==
    IF m \in DOMAIN draft.orders
    THEN orders[m].remainingAmount - draft.orders[m].remainingAmount ELSE 0

DraftedAhead(m) ==
    {b \in DOMAIN draft.orders : Ahead(orders, Taker.side, b, m)}

\* What they have left of the taker for it.
LeftFor(m) ==
    Taker.remainingAmount
       - SumOver([b \in DraftedAhead(m) |-> Drafted(b)], DraftedAhead(m))

\* Makers are settled in the order of their priority.
InTurn ==
    /\ \A i, j \in DOMAIN tx.makers : i < j =>
          Ahead(orders, Taker.side, tx.makers[i].id, tx.makers[j].id)
    /\ \A o \in DOMAIN draft.orders : \A i \in DOMAIN tx.makers :
          Ahead(orders, Taker.side, o, tx.makers[i].id)

\* What is left of the taker is what the drafted fills leave of it.
RemainingIsLeft ==
    tx.phase \in MatchingPhases =>
        tx.remaining = Taker.remainingAmount
           - SumOver([o \in DOMAIN draft.orders |-> Drafted(o)],
                     DOMAIN draft.orders)

\* A maker whose turn is over, and one that the search did not come to.
TurnOver(m) ==
    /\ Drafted(m) = Worth(m, LeftFor(m))
    /\ \A i \in DOMAIN tx.makers : Ahead(orders, Taker.side, m, tx.makers[i].id)
NotReached(m) ==
    /\ tx.toCover = 0
    /\ \A o \in DOMAIN draft.orders : Ahead(orders, Taker.side, o, m)
    /\ \A i \in DOMAIN tx.makers : Ahead(orders, Taker.side, tx.makers[i].id, m)

\* Every maker of the book waits for its turn, has had it, or comes after the end.
TurnsTaken ==
    tx.phase \in MatchingPhases =>
        \A m \in Visible!Makers(tx.taker) :
            \/ Listed(m)
            \/ tx.phase = "settle" /\ (TurnOver(m) \/ NotReached(m))
            \/ /\ tx.phase # "settle"
               /\ tx.cursor # 0 => Ahead(orders, Taker.side, tx.cursor, m)
            \/ tx.phase = "lock" /\ m = tx.cursor

\* The drafted trades are the drafted makers, in the order of their priority.
TradesInTurn ==
    /\ \A i \in DOMAIN draft.trades :
          LET m == draft.trades[i].makerOrderId
          IN  /\ m \in DOMAIN draft.orders /\ Drafted(m) > 0
              /\ draft.trades[i] = TradeRow(m, tx.taker, Taker.side,
                                            orders[m].price, Drafted(m))
    /\ \A o \in DOMAIN draft.orders :
          \E i \in DOMAIN draft.trades : draft.trades[i].makerOrderId = o
    /\ \A i, j \in DOMAIN draft.trades : i < j =>
          Ahead(orders, Taker.side, draft.trades[i].makerOrderId,
                draft.trades[j].makerOrderId)

\* What every settlement keeps true on its way to the fills of Exchange.
Turns == InTurn /\ RemainingIsLeft /\ TurnsTaken /\ TradesInTurn

\* A drafted order is a locked maker of the taker, and trades at most a column.
LEMMA DraftedRow ==
    ASSUME Locked, DraftedMakers, NEW o \in DOMAIN draft.orders
    PROVE  /\ tx.phase = "settle" /\ o \in tx.locks /\ o \in DOMAIN orders
           /\ o # tx.taker /\ o \in Visible!Makers(tx.taker)
           /\ Drafted(o) \in 0..DecimalMax
<1>1. tx.phase = "settle" /\ o \in tx.locks /\ o \in DOMAIN orders /\ o # tx.taker
  BY NoDraftedOrders DEF Locked, LockDiscipline, DraftHeld, CursorHeld
<1>2. o \in Visible!Makers(tx.taker)
  BY <1>1, SameRows DEF Visible!Makers, DraftedMakers, Taker
<1>3. orders[o] \in Order /\ draft.orders[o] \in Order
  BY <1>1, OrderRows DEF Locked, TypeOK
<1>4. /\ orders[o].remainingAmount \in 0..DecimalMax
      /\ draft.orders[o].remainingAmount \in 0..DecimalMax
      /\ draft.orders[o].remainingAmount <= orders[o].remainingAmount
  BY <1>3 DEF Order, Money, DraftedMakers
<1>5. Drafted(o) \in 0..DecimalMax
  BY <1>4, DecimalsAssumption DEF Drafted
<1> QED
  BY <1>1, <1>2, <1>5

LEMMA NoDraftedTrades == NoWrites.trades = <<>> /\ DOMAIN NoWrites.trades = {}
BY DEF NoWrites

\* Between two matches nothing is to be settled.
LEMMA NoTurns ==
    ASSUME tx'.makers = <<>>, draft' = NoWrites, tx'.phase \notin MatchingPhases
    PROVE  Turns'
<1>1. DOMAIN draft'.orders = {} /\ DOMAIN draft'.trades = {} /\ DOMAIN tx'.makers = {}
  BY NoDraftedOrders, NoDraftedTrades
<1>2. InTurn'
  BY <1>1 DEF InTurn
<1>3. TradesInTurn'
  BY <1>1 DEF TradesInTurn
<1> QED
  BY <1>2, <1>3 DEF Turns, RemainingIsLeft, TurnsTaken

\* A step that leaves the transaction and its locked rows alone, and takes at
\* most makers off the book.
LEMMA TurnsKept ==
    ASSUME Locked, DraftedMakers, Turns, tx' = tx, draft' = draft,
           \A o \in tx.locks : orders'[o] = orders[o],
           \A o \in DOMAIN orders : orders'[o].price = orders[o].price,
           \A o \in DOMAIN orders' :
              \/ orders'[o].status \notin BookStatuses
              \/ o \in DOMAIN orders /\ orders'[o] = orders[o]
    PROVE  Turns'
<1>1. CASE tx.phase \notin MatchingPhases
  BY <1>1, NoTurns DEF Locked, LockDiscipline, CursorHeld, DraftHeld
<1>2. CASE tx.phase \in MatchingPhases
  <2>1. Taker' = Taker /\ tx.taker \in tx.locks /\ orders'[tx.taker] = orders[tx.taker]
    BY <1>2 DEF Taker, Locked, LockDiscipline, TakerHeld
  <2>2. ASSUME NEW a \in DOMAIN orders, NEW b \in DOMAIN orders
        PROVE  Ahead(orders', Taker'.side, a, b) = Ahead(orders, Taker.side, a, b)
    BY <2>1 DEF Ahead
  <2>3. /\ \A o \in DOMAIN draft.orders :
              /\ o \in DOMAIN orders /\ orders'[o] = orders[o]
        /\ \A i \in DOMAIN tx.makers : tx.makers[i].id \in DOMAIN orders
    BY DraftedRow, MakersSeq
  <2>4. \A m : Drafted(m)' = Drafted(m)
    BY <2>3 DEF Drafted
  <2>5. \A m \in DOMAIN orders : DraftedAhead(m)' = DraftedAhead(m)
    BY <2>2, <2>3 DEF DraftedAhead
  <2>6. \A m \in DOMAIN orders : LeftFor(m)' = LeftFor(m)
    BY <2>1, <2>4, <2>5 DEF LeftFor
  <2>7. InTurn'
    BY <2>2, <2>3 DEF InTurn, Turns
  <2>8. RemainingIsLeft'
    BY <2>1, <2>4 DEF RemainingIsLeft, Turns
  <2>9. TradesInTurn'
    <3>1. \A i \in DOMAIN draft.trades : draft.trades[i].makerOrderId \in DOMAIN draft.orders
      BY DEF Turns, TradesInTurn
    <3>2. QED
      BY <3>1, <2>1, <2>2, <2>3, <2>4 DEF TradesInTurn, Turns
  <2>10. TurnsTaken'
    <3>1. ASSUME NEW m \in Visible!Makers(tx.taker)'
          PROVE  /\ m \in DOMAIN orders /\ orders'[m] = orders[m]
                 /\ m \in Visible!Makers(tx.taker)
      <4>1. /\ m \in DOMAIN orders' /\ IsEligibleMaker(orders'[tx.taker], orders'[m])
        BY <3>1, SameRows DEF Visible!Makers
      <4>2. m \in DOMAIN orders /\ orders'[m] = orders[m]
        BY <4>1 DEF IsEligibleMaker
      <4>3. QED
        BY <4>1, <4>2, <2>1, SameRows DEF Visible!Makers
    <3>2. ASSUME NEW m \in DOMAIN orders, orders'[m] = orders[m]
          PROVE  /\ Listed(m)' = Listed(m)
                 /\ Worth(m, LeftFor(m))' = Worth(m, LeftFor(m))
                 /\ TurnOver(m)' = TurnOver(m)
                 /\ NotReached(m)' = NotReached(m)
                 /\ tx.cursor # 0 => Ahead(orders', Taker'.side, tx.cursor, m)
                                        = Ahead(orders, Taker.side, tx.cursor, m)
      <4>1. Listed(m)' = Listed(m)
        BY DEF Listed
      <4>2. Worth(m, LeftFor(m))' = Worth(m, LeftFor(m))
        BY <3>2, <2>6 DEF Worth
      <4>3. TurnOver(m)' = TurnOver(m)
        BY <4>2, <2>2, <2>3, <2>4 DEF TurnOver
      <4>4. NotReached(m)' = NotReached(m)
        BY <2>2, <2>3 DEF NotReached
      <4>5. tx.cursor # 0 => tx.cursor \in DOMAIN orders
        BY DEF Locked, LockDiscipline, CursorHeld
      <4> QED
        BY <4>1, <4>2, <4>3, <4>4, <4>5, <2>2
    <3>3. QED
      BY <3>1, <3>2, <1>2 DEF TurnsTaken, Turns
  <2> QED
    BY <2>7, <2>8, <2>9, <2>10 DEF Turns
<1> QED
  BY <1>1, <1>2

\* Before settlement nothing is drafted, and the order of the list and the
\* makers not listed are all there is to say.
LEMMA TurnsOfSearch ==
    ASSUME Locked', tx'.phase \in {"select", "lock"},
           \A i, j \in DOMAIN tx'.makers : i < j =>
              Ahead(orders', Taker'.side, tx'.makers[i].id, tx'.makers[j].id),
           \A m \in Visible!Makers(tx.taker)' :
              \/ Listed(m)'
              \/ tx'.cursor # 0 => Ahead(orders', Taker'.side, tx'.cursor, m)
              \/ tx'.phase = "lock" /\ m = tx'.cursor
    PROVE  Turns'
<1>1. /\ draft' = NoWrites /\ tx'.remaining = Taker'.remainingAmount
      /\ tx'.taker \in DOMAIN orders' /\ orders' \in Seq(Order)
  BY DEF Locked, LockDiscipline, DraftHeld, TakerHeld, TypeOK
<1>2. DOMAIN draft'.orders = {} /\ DOMAIN draft'.trades = {}
  BY <1>1, NoDraftedOrders, NoDraftedTrades
<1>3. InTurn' /\ TradesInTurn'
  BY <1>2 DEF InTurn, TradesInTurn
<1>4. RemainingIsLeft'
  <2>1. SumOver([o \in DOMAIN draft'.orders |-> Drafted(o)'], DOMAIN draft'.orders) = 0
    BY <1>2, SumEmpty
  <2>2. Taker'.remainingAmount \in Int
    <3>1. orders'[tx'.taker] \in Order
      BY <1>1
    <3>2. Taker'.remainingAmount \in Money
      BY <3>1 DEF Taker, Order
    <3>3. \A x \in Money : x \in Int
      BY ONLY DecimalsAssumption DEF Money
    <3>4. QED
      BY ONLY <3>2, <3>3
  <2>3. QED
    BY <2>1, <2>2, <1>1 DEF RemainingIsLeft
<1>5. TurnsTaken'
  BY DEF TurnsTaken
<1> QED
  BY <1>3, <1>4, <1>5 DEF Turns

\* Every maker is still to be found.
LEMMA LockTakerTurns ==
    ASSUME Locked, Locked', LockTaker
    PROVE  Turns'
<1>1. /\ tx'.phase = "select" /\ tx'.makers = <<>> /\ tx'.cursor = 0
  BY DEF LockTaker, Locked, TypeOK, Transaction, LockDiscipline, CursorHeld
<1> QED
  BY <1>1, TurnsOfSearch

\* The next candidate is the first of those that are not listed.
LEMMA FindCandidateTurns ==
    ASSUME Locked, Locked', Turns, FindCandidate
    PROVE  Turns'
<1>1. PICK c \in Candidates :
         /\ \A m \in Candidates \ {c} : Ahead(orders, Taker.side, c, m)
         /\ tx' = [tx EXCEPT !.phase = "lock", !.cursor = c]
  BY DEF FindCandidate
<1>2. /\ tx.phase = "select" /\ tx'.phase = "lock" /\ tx'.cursor = c
      /\ tx'.taker = tx.taker
      /\ tx'.makers = tx.makers /\ orders' = orders /\ draft' = draft
      /\ Taker' = Taker
  BY <1>1 DEF FindCandidate, Locked, TypeOK, Transaction, Taker
<1>3. ASSUME NEW m \in Visible!Makers(tx.taker)
      PROVE  \/ Listed(m) \/ m = c \/ Ahead(orders, Taker.side, c, m)
  <2>1. /\ m \in DOMAIN orders /\ Opposes(Taker, orders[m])
        /\ orders[m].status \in BookStatuses
    BY SameRows DEF Visible!Makers, IsEligibleMaker, Taker
  <2>2. \/ Listed(m)
        \/ tx.cursor # 0 => Ahead(orders, Taker.side, tx.cursor, m)
    BY <1>2 DEF Turns, TurnsTaken
  <2>3. Listed(m) \/ m \in Candidates
    BY <2>1, <2>2 DEF Candidates
  <2>4. QED
    BY <1>1, <2>3
<1>4. \A m : Listed(m)' = Listed(m)
  BY <1>2 DEF Listed
<1>5. Visible!Makers(tx.taker)' = Visible!Makers(tx.taker)
  BY <1>2 DEF Visible!Makers
<1>6. \A i, j \in DOMAIN tx'.makers : i < j =>
         Ahead(orders', Taker'.side, tx'.makers[i].id, tx'.makers[j].id)
  BY <1>2 DEF Turns, InTurn
<1>7. \A m \in Visible!Makers(tx.taker)' :
              \/ Listed(m)'
              \/ tx'.cursor # 0 => Ahead(orders', Taker'.side, tx'.cursor, m)
              \/ tx'.phase = "lock" /\ m = tx'.cursor
  BY <1>2, <1>3, <1>4, <1>5
<1> QED
  BY <1>2, <1>6, <1>7, TurnsOfSearch

\* A candidate under its lock is listed last, or is no maker any more.
LEMMA LockCandidateTurns ==
    ASSUME Locked, Locked', Turns, LockCandidate
    PROVE  Turns'
<1>c. PICK c : c = tx.cursor
  OBVIOUS
<1>f. PICK found : found = [id |-> c, remainingAmount |-> orders[c].remainingAmount]
  OBVIOUS
<1>1. /\ tx.phase = "lock" /\ tx'.phase = "select" /\ tx'.cursor = c
      /\ tx'.taker = tx.taker /\ found.id = c
      /\ orders' = orders
      /\ Taker' = Taker /\ c # 0 /\ c \in DOMAIN orders
      /\ tx'.makers = IF IsEligibleMaker(Taker, orders[c])
                      THEN Append(tx.makers, found) ELSE tx.makers
  BY <1>c, <1>f DEF LockCandidate, Locked, TypeOK, Transaction, LockDiscipline,
                   CursorHeld, Taker
<1>2. /\ Len(tx.makers) \in Nat /\ DOMAIN tx.makers = 1..Len(tx.makers)
      /\ tx.makers \in Seq(Maker)
  BY MakersSeq
<1>3. CASE IsEligibleMaker(Taker, orders[c])
  <2>1. /\ DOMAIN tx'.makers = 1..(Len(tx.makers) + 1)
        /\ tx'.makers[Len(tx.makers) + 1] = found
        /\ \A i \in 1..Len(tx.makers) : tx'.makers[i] = tx.makers[i]
    BY <1>1, <1>2, <1>3
  <2>2. /\ \A i \in DOMAIN tx'.makers : i \in DOMAIN tx.makers \/ i = Len(tx.makers) + 1
        /\ \A i \in DOMAIN tx.makers : i \in DOMAIN tx'.makers /\ i < Len(tx.makers) + 1
        /\ Len(tx.makers) + 1 \in DOMAIN tx'.makers
    BY <2>1, <1>2
  <2>3. \A i \in DOMAIN tx.makers : Ahead(orders, Taker.side, tx.makers[i].id, c)
    BY <1>1, <1>c DEF Locked, LockDiscipline, MakersHeld
  <2>4. ASSUME NEW i \in DOMAIN tx'.makers, NEW j \in DOMAIN tx'.makers, i < j
        PROVE  Ahead(orders', Taker'.side, tx'.makers[i].id, tx'.makers[j].id)
    <3>1. CASE j \in DOMAIN tx.makers
      <4>1. i \in DOMAIN tx.makers
        BY <2>2, <2>4, <3>1, <1>2
      <4>2. QED
        BY <4>1, <3>1, <2>1, <2>4, <1>1, <1>2 DEF Turns, InTurn
    <3>2. CASE j = Len(tx.makers) + 1
      <4>1. i \in DOMAIN tx.makers
        BY <2>2, <2>4, <3>2, <1>2
      <4>2. QED
        BY <4>1, <3>2, <2>1, <2>3, <1>1, <1>2
    <3>3. QED
      BY <3>1, <3>2, <2>2
  <2>5. ASSUME NEW m
        PROVE  /\ Listed(m) => Listed(m)'
               /\ Listed(c)'
    BY <2>1, <2>2, <1>1, <1>2 DEF Listed
  <2>6. Visible!Makers(tx.taker)' = Visible!Makers(tx.taker)
    BY <1>1 DEF Visible!Makers
  <2>7. \A m \in Visible!Makers(tx.taker)' :
              \/ Listed(m)'
              \/ tx'.cursor # 0 => Ahead(orders', Taker'.side, tx'.cursor, m)
    BY <2>5, <2>6, <1>1, <1>c DEF Turns, TurnsTaken
  <2> QED
    BY <2>4, <2>7, <1>1, TurnsOfSearch
<1>4. CASE ~IsEligibleMaker(Taker, orders[c])
  <2>1. tx'.makers = tx.makers
    BY <1>1, <1>4
  <2>2. \A m : Listed(m)' = Listed(m)
    BY <2>1 DEF Listed
  <2>3. Visible!Makers(tx.taker)' = Visible!Makers(tx.taker)
    BY <1>1 DEF Visible!Makers
  <2>4. c \notin Visible!Makers(tx.taker)
    BY <1>4, SameRows DEF Visible!Makers, Taker
  <2>5. \A i, j \in DOMAIN tx'.makers : i < j =>
         Ahead(orders', Taker'.side, tx'.makers[i].id, tx'.makers[j].id)
    BY <1>1, <2>1 DEF Turns, InTurn
  <2>6. \A m \in Visible!Makers(tx.taker)' :
              \/ Listed(m)'
              \/ tx'.cursor # 0 => Ahead(orders', Taker'.side, tx'.cursor, m)
    BY <2>2, <2>3, <2>4, <1>1, <1>c DEF Turns, TurnsTaken
  <2> QED
    BY <2>5, <2>6, <1>1, TurnsOfSearch
<1> QED
  BY <1>3, <1>4

\* The search ends when the rest of the book is empty or will not be reached.
LEMMA EndSelectionTurns ==
    ASSUME Locked, Locked', Turns, EndSelection
    PROVE  Turns'
<1>1. /\ tx.phase = "select" /\ tx'.phase = "settle"
      /\ tx'.taker = tx.taker /\ tx'.remaining = tx.remaining
      /\ tx'.makers = tx.makers /\ tx'.toCover = tx.toCover
      /\ orders' = orders /\ draft' = draft /\ draft = NoWrites
      /\ Taker' = Taker
      /\ tx.toCover = 0 \/ Candidates = {}
  BY DEF EndSelection, Locked, TypeOK, Transaction, Taker, LockDiscipline, DraftHeld
<1>2. DOMAIN draft.orders = {}
  BY <1>1, NoDraftedOrders
<1>3. InTurn' /\ TradesInTurn'
  BY <1>1 DEF Turns, InTurn, TradesInTurn, Drafted
<1>4. RemainingIsLeft'
  BY <1>1 DEF Turns, RemainingIsLeft, Drafted
<1>5. ASSUME NEW m \in Visible!Makers(tx.taker), ~Listed(m)
      PROVE  NotReached(m)
  <2>1. /\ m \in DOMAIN orders /\ Opposes(Taker, orders[m])
        /\ orders[m].status \in BookStatuses
    BY SameRows DEF Visible!Makers, IsEligibleMaker, Taker
  <2>2. tx.cursor # 0 => Ahead(orders, Taker.side, tx.cursor, m)
    BY <1>1, <1>5 DEF Turns, TurnsTaken
  <2>3. m \in Candidates
    BY <2>1, <2>2 DEF Candidates
  <2>4. tx.toCover = 0
    BY <2>3, <1>1
  <2>5. ASSUME NEW i \in DOMAIN tx.makers
        PROVE  Ahead(orders, Taker.side, tx.makers[i].id, m)
    <3>1. tx.cursor # 0 /\ tx.cursor \in DOMAIN orders
      BY DEF Locked, LockDiscipline, CursorHeld
    <3>2. /\ tx.makers[i].id \in DOMAIN orders
          /\ \/ tx.makers[i].id = tx.cursor
             \/ Ahead(orders, Taker.side, tx.makers[i].id, tx.cursor)
      BY <1>1, MakersSeq DEF Locked, LockDiscipline, MakersHeld
    <3>3. TypeOK /\ Taker.side \in Side
      BY <1>1, TakerRow DEF Locked
    <3>4. QED
      BY <3>1, <3>2, <3>3, <2>1, <2>2, AheadOrder
  <2>6. QED
    BY <2>4, <2>5, <1>2 DEF NotReached
<1>6. TurnsTaken'
  <2>1. Visible!Makers(tx.taker)' = Visible!Makers(tx.taker)
    BY <1>1 DEF Visible!Makers
  <2>2. \A m : Listed(m)' = Listed(m) /\ NotReached(m)' = NotReached(m)
    BY <1>1 DEF Listed, NotReached
  <2>3. QED
    BY <2>1, <2>2, <1>1, <1>5 DEF TurnsTaken
<1> QED
  BY <1>3, <1>4, <1>6 DEF Turns

\* The other makers keep their turns when the first one's is over.
LEMMA TailOfMakers ==
    ASSUME Locked, Settling, tx'.makers = Tail(tx.makers)
    PROVE  /\ 1 \in DOMAIN tx.makers /\ tx.makers[1] = NextMaker
           /\ \A i \in DOMAIN tx'.makers :
                 /\ i \in Nat /\ i + 1 \in DOMAIN tx.makers
                 /\ 1 < i + 1
                 /\ tx'.makers[i] = tx.makers[i + 1]
           /\ \A i \in DOMAIN tx.makers :
                 i = 1 \/ (i - 1 \in DOMAIN tx'.makers
                             /\ tx'.makers[i - 1] = tx.makers[i])
<1>1. /\ tx.makers \in Seq(Maker) /\ tx.makers # <<>>
      /\ DOMAIN tx.makers = 1..Len(tx.makers) /\ Len(tx.makers) \in Nat
  BY MakersSeq DEF Settling
<1>2. /\ DOMAIN tx'.makers = 1..(Len(tx.makers) - 1)
      /\ \A i \in 1..(Len(tx.makers) - 1) : tx'.makers[i] = tx.makers[i + 1]
      /\ Len(tx.makers) > 0
      /\ tx.makers[1] = NextMaker
  BY <1>1 DEF NextMaker
<1>3. \A i \in DOMAIN tx.makers :
         i = 1 \/ (i - 1 \in DOMAIN tx'.makers /\ i - 1 + 1 = i)
  BY <1>1, <1>2
<1> QED
  BY <1>1, <1>2, <1>3

\* The turn of the maker at the head is over: it has traded what it should.
LEMMA HeadTurns ==
    ASSUME Locked, DraftedMakers, Turns, Settling, orders' = orders,
           tx'.phase = "settle", tx'.taker = tx.taker, tx'.toCover = tx.toCover,
           tx'.makers = Tail(tx.makers),
           NEW h, h = NextMaker.id,
           DOMAIN draft.orders \subseteq DOMAIN draft'.orders,
           DOMAIN draft'.orders \subseteq DOMAIN draft.orders \cup {h},
           \A o \in DOMAIN draft.orders : draft'.orders[o] = draft.orders[o],
           Drafted(h)' = Worth(h, tx.remaining)
    PROVE  InTurn' /\ TurnsTaken'
<1>1. /\ TypeOK /\ Taker' = Taker /\ Taker.side \in Side
      /\ tx.phase = "settle" /\ h \in DOMAIN orders /\ h \notin DOMAIN draft.orders
  BY TakerRow, NextMakerRow DEF Settling, Locked, Taker
<1>2. /\ \A i \in DOMAIN tx.makers : tx.makers[i].id \in DOMAIN orders
      /\ \A o \in DOMAIN draft.orders :
            o \in DOMAIN orders /\ Ahead(orders, Taker.side, o, h)
  BY <1>1, MakersSeq, DraftedRow, TailOfMakers DEF Turns, InTurn
<1>3. /\ \A i \in DOMAIN tx'.makers :
            /\ Ahead(orders, Taker.side, h, tx'.makers[i].id)
            /\ \E j \in DOMAIN tx.makers : tx'.makers[i] = tx.makers[j]
      /\ \E j \in DOMAIN tx.makers : tx.makers[j].id = h
  BY TailOfMakers DEF Turns, InTurn
<1>4. InTurn'
  <2>1. ASSUME NEW i \in DOMAIN tx'.makers, NEW j \in DOMAIN tx'.makers, i < j
        PROVE  Ahead(orders, Taker.side, tx'.makers[i].id, tx'.makers[j].id)
    <3>1. /\ i + 1 \in DOMAIN tx.makers /\ j + 1 \in DOMAIN tx.makers
          /\ i + 1 < j + 1
          /\ tx'.makers[i] = tx.makers[i + 1] /\ tx'.makers[j] = tx.makers[j + 1]
      BY <2>1, TailOfMakers
    <3>2. QED
      BY <3>1 DEF Turns, InTurn
  <2>2. ASSUME NEW o \in DOMAIN draft'.orders, NEW i \in DOMAIN tx'.makers
        PROVE  Ahead(orders, Taker.side, o, tx'.makers[i].id)
    BY <1>3 DEF Turns, InTurn
  <2>3. QED
    BY <2>1, <2>2, <1>1 DEF InTurn
<1>5. \A o : o # h => Drafted(o)' = Drafted(o)
  BY DEF Drafted
<1>6. ASSUME NEW m \in DOMAIN orders, ~Ahead(orders, Taker.side, h, m)
      PROVE  LeftFor(m)' = LeftFor(m)
  <2>1. DraftedAhead(m)' = DraftedAhead(m)
    BY <1>1, <1>6 DEF DraftedAhead
  <2>2. \A b \in DraftedAhead(m) : Drafted(b)' = Drafted(b)
    BY <1>1, <1>5 DEF DraftedAhead
  <2>3. QED
    BY <2>1, <2>2, <1>1 DEF LeftFor
<1>7. TurnOver(h)'
  <2>1. DraftedAhead(h) = DOMAIN draft.orders
    BY <1>2 DEF DraftedAhead
  <2>2. LeftFor(h) = tx.remaining
    BY <2>1, <1>1 DEF LeftFor, Turns, RemainingIsLeft
  <2>3. ~Ahead(orders, Taker.side, h, h)
    BY <1>1, AheadOrder
  <2>4. Worth(h, LeftFor(h))' = Worth(h, tx.remaining)
    BY <2>2, <2>3, <1>1, <1>6 DEF Worth
  <2>5. QED
    BY <2>4, <1>1, <1>3 DEF TurnOver
<1>8. ASSUME NEW m \in DOMAIN orders, m # h, TurnOver(m)
      PROVE  TurnOver(m)'
  <2>1. Ahead(orders, Taker.side, m, h)
    BY <1>8, <1>3 DEF TurnOver
  <2>2. ~Ahead(orders, Taker.side, h, m)
    BY <2>1, <1>1, AheadOrder
  <2>3. Worth(m, LeftFor(m))' = Worth(m, LeftFor(m))
    BY <2>2, <1>6 DEF Worth
  <2>4. QED
    BY <2>3, <1>1, <1>3, <1>5, <1>8 DEF TurnOver
<1>9. ASSUME NEW m \in DOMAIN orders, NotReached(m)
      PROVE  NotReached(m)'
  BY <1>1, <1>3, <1>9 DEF NotReached
<1>10. ASSUME NEW m, m # h, Listed(m)
       PROVE  Listed(m)'
  BY <1>10, TailOfMakers DEF Listed
<1>11. Visible!Makers(tx.taker)' = Visible!Makers(tx.taker)
  BY DEF Visible!Makers
<1>12. Visible!Makers(tx.taker) \subseteq DOMAIN orders
  BY DEF Visible!Makers
<1>13. TurnsTaken'
  BY <1>1, <1>7, <1>8, <1>9, <1>10, <1>11, <1>12 DEF Turns, TurnsTaken
<1> QED
  BY <1>4, <1>13

\* A maker whose turn is worth nothing is passed over.
LEMMA SkipDustTurns ==
    ASSUME Locked, DraftedMakers, Turns, SkipDust
    PROVE  Turns'
<1>m. PICK m : m = NextMaker.id
  OBVIOUS
<1>1. /\ Settling /\ orders' = orders /\ draft' = draft
      /\ tx'.phase = "settle" /\ tx'.taker = tx.taker
      /\ tx'.makers = Tail(tx.makers) /\ tx'.toCover = tx.toCover
      /\ tx'.remaining = tx.remaining /\ tx.phase = "settle" /\ Taker' = Taker
  BY DEF SkipDust, Settling, Locked, TypeOK, Transaction, Taker
<1>2. /\ m \in DOMAIN orders /\ m \notin DOMAIN draft.orders
      /\ NextMaker.remainingAmount = orders[m].remainingAmount
  BY <1>1, <1>m, NextMakerRow
<1>3. Worth(m, tx.remaining) = 0
  BY <1>2, <1>m DEF SkipDust, ExecutedCost, TradeAmount, TradePrice, Worth
<1>4. Drafted(m)' = 0
  BY <1>1, <1>2 DEF Drafted
<1>5. InTurn' /\ TurnsTaken'
  BY <1>1, <1>3, <1>4, <1>m, HeadTurns
<1>6. RemainingIsLeft'
  BY <1>1 DEF Turns, RemainingIsLeft, Drafted
<1>7. TradesInTurn'
  BY <1>1 DEF Turns, TradesInTurn, Drafted
<1> QED
  BY <1>5, <1>6, <1>7 DEF Turns

\* A maker is settled for what its turn is worth.
LEMMA SettleMakerTurns ==
    ASSUME Locked, Locked', DraftedMakers, DraftedMakers', Turns, SettleMaker
    PROVE  Turns'
<1>m. PICK m : m = NextMaker.id
  OBVIOUS
<1>1. /\ Settling /\ orders' = orders /\ Taker' = Taker
      /\ draft'.orders = Write(draft.orders, m, MakerAfterTrade)
      /\ draft'.trades = Append(draft.trades, NextTrade)
      /\ tx'.phase = "settle" /\ tx'.taker = tx.taker /\ tx.phase = "settle"
      /\ tx'.makers = Tail(tx.makers) /\ tx'.toCover = tx.toCover
      /\ tx'.remaining = tx.remaining - TradeAmount
  BY <1>m DEF SettleMaker, Settling, Locked, TypeOK, Transaction, Taker
<1>2. /\ m \in DOMAIN orders /\ orders[m] \in Order
      /\ tx.remaining \in Nat /\ NextMaker.remainingAmount \in Nat
      /\ NextMaker.remainingAmount = orders[m].remainingAmount
      /\ TradeAmount \in Nat
      /\ tx.remaining - TradeAmount \in Nat
      /\ NextMaker.remainingAmount - TradeAmount \in Nat
      /\ orders[m].price \in Nat
      /\ m \notin DOMAIN draft.orders
  BY <1>1, <1>m, NextMakerRow, MoneyNat DEF Order
<1>3. /\ DOMAIN draft'.orders = DOMAIN draft.orders \cup {m}
      /\ draft'.orders[m] = MakerAfterTrade
      /\ \A o \in DOMAIN draft.orders : draft'.orders[o] = draft.orders[o]
  BY <1>1, <1>2 DEF Write
<1>4. MakerAfterTrade.remainingAmount = NextMaker.remainingAmount - TradeAmount
  BY <1>2, <1>m DEF MakerAfterTrade, AfterTrades, Order
<1>5. Drafted(m)' = TradeAmount
  BY <1>1, <1>2, <1>3, <1>4 DEF Drafted
<1>6. ExecutedCost > 0 /\ TradeAmount > 0
  <2>1. ExecutedCost > 0
    BY DEF SettleMaker
  <2>2. TradePrice = orders[m].price
    BY <1>m DEF TradePrice
  <2>3. TradeAmount # 0
    BY <2>1, <2>2, <1>2, MultiplyScaledZero DEF ExecutedCost
  <2>4. QED
    BY <2>1, <2>3, <1>2
<1>7. Worth(m, tx.remaining) = TradeAmount
  BY <1>2, <1>6, <1>m DEF ExecutedCost, TradeAmount, TradePrice, Worth
<1>8. InTurn' /\ TurnsTaken'
  BY <1>1, <1>3, <1>5, <1>7, <1>m, HeadTurns
<1>9. \A o \in DOMAIN draft.orders : Drafted(o)' = Drafted(o)
  BY <1>1, <1>2, <1>3 DEF Drafted
<1>10. RemainingIsLeft'
  <2> DEFINE f == [o \in DOMAIN draft.orders |-> Drafted(o)]
             g == [o \in DOMAIN draft'.orders |-> Drafted(o)']
  <2>1. IsFiniteSet(DOMAIN draft.orders)
    BY OrdersTable, TableFinite, FS_Subset DEF Locked, TypeOK
  <2>2. DecimalMax \in Nat
    BY DecimalsAssumption
  <2>3. \A o \in DOMAIN draft.orders : f[o] \in 0..DecimalMax /\ g[o] = f[o]
    BY <1>3, <1>9, DraftedRow
  <2>4. g[m] \in 0..DecimalMax /\ g[m] = TradeAmount
    <3>1. m \in DOMAIN draft'.orders
      BY <1>3
    <3>2. TradeAmount \in Money
      BY <1>1, NextMakerRow
    <3>3. QED
      BY <3>1, <3>2, <1>5 DEF Money
  <2>5. DOMAIN draft'.orders = DOMAIN draft.orders \cup {m}
    BY <1>3
  <2>6. tx.remaining = Taker.remainingAmount - SumOver(f, DOMAIN draft.orders)
    BY <1>1 DEF Turns, RemainingIsLeft
  <2> HIDE DEF f, g
  <2>7. /\ SumOver(f, DOMAIN draft.orders) \in Nat
        /\ SumOver(g, DOMAIN draft.orders \cup {m}) = SumOver(f, DOMAIN draft.orders) + g[m]
    <3>1. m \notin DOMAIN draft.orders
      BY <1>2
    <3>2. g[m] \in 0..DecimalMax
      BY <2>4
    <3>3. SumOver(f, DOMAIN draft.orders) \in Nat
      BY ONLY <2>1, <2>2, <2>3, TokensFinite
    <3>4. SumOver(f, DOMAIN draft.orders) = SumOver(g, DOMAIN draft.orders)
      BY ONLY <2>3, SumCongruent
    <3>5. \A o \in DOMAIN draft.orders : g[o] \in 0..DecimalMax
      BY <2>3
    <3>6. SumOver(g, DOMAIN draft.orders \cup {m})
             = SumOver(g, DOMAIN draft.orders) + g[m]
      BY ONLY <2>1, <2>2, <3>1, <3>2, <3>5, SumAdd
    <3>7. QED
      BY <3>3, <3>4, <3>6
  <2>8. Taker.remainingAmount \in Nat
    BY <1>1, TakerRow, MoneyNat
  <2>9. tx'.remaining = Taker.remainingAmount - SumOver(g, DOMAIN draft'.orders)
    BY <2>4, <2>5, <2>6, <2>7, <2>8, <1>1, <1>2
  <2>10. QED
    BY <2>9, <1>1 DEF RemainingIsLeft, g
<1>11. TradesInTurn'
  <2>1. draft.trades \in Seq(Trade)
    BY DEF Locked, TypeOK
  <2> DEFINE n == Len(draft.trades) + 1
  <2>2. /\ DOMAIN draft.trades = 1..Len(draft.trades) /\ Len(draft.trades) \in Nat
        /\ DOMAIN draft'.trades = 1..n
        /\ draft'.trades[n] = NextTrade
        /\ \A i \in 1..Len(draft.trades) : draft'.trades[i] = draft.trades[i]
    BY <2>1, <1>1
  <2>3. /\ \A i \in DOMAIN draft'.trades : i \in DOMAIN draft.trades \/ i = n
        /\ \A i \in DOMAIN draft.trades : i \in DOMAIN draft'.trades /\ i < n
        /\ n \in DOMAIN draft'.trades
    BY <2>2
  <2> HIDE DEF n
  <2>4. /\ NextTrade = TradeRow(m, tx.taker, Taker.side, orders[m].price, TradeAmount)
        /\ NextTrade.makerOrderId = m
    BY <1>1, <1>m, NextTradeMoney DEF NextTrade, TradePrice
  <2>5. ASSUME NEW i \in DOMAIN draft.trades
        PROVE  /\ draft'.trades[i] = draft.trades[i]
               /\ draft.trades[i].makerOrderId \in DOMAIN draft.orders
               /\ Ahead(orders, Taker.side, draft.trades[i].makerOrderId, m)
    <3>1. draft.trades[i].makerOrderId \in DOMAIN draft.orders
      BY DEF Turns, TradesInTurn
    <3>2. QED
      BY <3>1, <2>2, <1>1, <1>m, TailOfMakers DEF Turns, InTurn
  <2>6. ASSUME NEW i \in DOMAIN draft'.trades,
               NEW x, x = draft'.trades[i].makerOrderId
        PROVE  /\ x \in DOMAIN draft'.orders /\ Drafted(x)' > 0
               /\ draft'.trades[i] = TradeRow(x, tx.taker, Taker.side,
                                              orders[x].price, Drafted(x)')
    <3>1. CASE i = n
      BY <3>1, <2>6, <2>2, <2>4, <1>3, <1>5, <1>6
    <3>2. CASE i \in DOMAIN draft.trades
      BY <3>2, <2>6, <2>5, <1>3, <1>9 DEF Turns, TradesInTurn
    <3>3. QED
      BY <3>1, <3>2, <2>3
  <2>7. ASSUME NEW o \in DOMAIN draft'.orders
        PROVE  \E i \in DOMAIN draft'.trades : draft'.trades[i].makerOrderId = o
    <3>1. CASE o = m
      BY <3>1, <2>2, <2>3, <2>4
    <3>2. CASE o \in DOMAIN draft.orders
      BY <3>2, <2>3, <2>5 DEF Turns, TradesInTurn
    <3>3. QED
      BY <3>1, <3>2, <1>3
  <2>8. ASSUME NEW i \in DOMAIN draft'.trades, NEW j \in DOMAIN draft'.trades, i < j
        PROVE  Ahead(orders, Taker.side, draft'.trades[i].makerOrderId,
                     draft'.trades[j].makerOrderId)
    <3>1. i \in DOMAIN draft.trades
      BY <2>2, <2>3, <2>8 DEF n
    <3>2. CASE j = n
      BY <3>1, <3>2, <2>2, <2>4, <2>5
    <3>3. CASE j \in DOMAIN draft.trades
      BY <3>1, <3>3, <2>5, <2>8 DEF Turns, TradesInTurn
    <3>4. QED
      BY <3>2, <3>3, <2>3
  <2>9. QED
    BY <2>6, <2>7, <2>8, <1>1 DEF TradesInTurn
<1> QED
  BY <1>8, <1>10, <1>11 DEF Turns

\* Turns are kept by every step, whatever is placed and cancelled meanwhile.
LEMMA NextTurns ==
    ASSUME Locked, Locked', DraftedMakers, DraftedMakers', Turns, [Next]_vars
    PROVE  Turns'
<1>1. ASSUME NEW u \in Users, NEW form \in OrderForms, CreateOrder(u, form)
      PROVE  Turns'
  <2>1. QueuedOrder(u, form) \in Order
    BY RowsAssumption DEF QueuedOrder, Order, OrderStatus, ActiveStatuses
  <2>2. /\ orders' = Append(orders, QueuedOrder(u, form))
        /\ tx' = tx /\ draft' = draft
    BY <1>1 DEF CreateOrder
  <2>3. \A o \in tx.locks : orders'[o] = orders[o]
    BY <2>1, <2>2, AppendedOrder DEF Locked, LockDiscipline, CursorHeld
  <2>4. QED
    BY <1>1, <2>2, <2>3, OthersShrinkBook, TurnsKept
<1>2. ASSUME NEW o \in DOMAIN orders, CommitCancel(o)
      PROVE  Turns'
  <2>1. /\ o \notin tx.locks /\ tx' = tx /\ draft' = draft
        /\ orders' = [orders EXCEPT ![o].status = "CANCELLED"]
    BY <1>2 DEF CommitCancel, Locked, LockDiscipline, CancelsHeld
  <2>2. \A x \in tx.locks : orders'[x] = orders[x]
    BY <2>1, UpdatedOrder DEF Locked, LockDiscipline, CursorHeld, OrderStatus
  <2>3. QED
    BY <1>2, <2>1, <2>2, OthersShrinkBook, TurnsKept
<1>3. CASE \/ \E o \in DOMAIN orders :
                 LockForCancel(o) \/ RefuseCancel(o) \/ AbortCancel(o)
           \/ UNCHANGED vars
  <2>1. tx' = tx /\ draft' = draft /\ orders' = orders
    BY <1>3 DEF LockForCancel, RefuseCancel, AbortCancel, vars
  <2>2. QED
    BY <2>1, TurnsKept
<1>4. CASE \/ \E o \in DOMAIN orders :
                 LockMarket(o, "process") \/ LockMarket(o, "reject")
           \/ SkipProcessed \/ RejectTaker \/ CommitMatch
           \/ RefuseSettlement \/ RefuseRejection \/ Rollback
  <2>1. tx \in Transaction /\ (tx.phase # "settle" => draft = NoWrites)
    BY DEF Locked, TypeOK, LockDiscipline, DraftHeld
  <2>2. ASSUME NEW o \in DOMAIN orders, NEW phase \in {"process", "reject"},
               LockMarket(o, phase)
        PROVE  /\ tx'.makers = <<>> /\ tx'.phase \in {"process", "reject"}
               /\ draft' = NoWrites
    BY <2>1, <2>2 DEF LockMarket, Idle
  <2>3. ASSUME \/ SkipProcessed \/ RejectTaker \/ CommitMatch
               \/ RefuseSettlement \/ RefuseRejection \/ Rollback
        PROVE  tx' = Idle /\ draft' = NoWrites
    BY <2>1, <2>3 DEF SkipProcessed, RejectTaker, CommitMatch,
            RefuseSettlement, RefuseRejection, Rollback, Undo
  <2>4. /\ tx'.makers = <<>> /\ tx'.phase \in {"idle", "process", "reject"}
        /\ draft' = NoWrites
    BY <1>4, <2>2, <2>3 DEF Idle
  <2>5. QED
    BY <2>4, NoTurns
<1>6. CASE LockTaker
  BY <1>6, LockTakerTurns
<1>7. CASE FindCandidate
  BY <1>7, FindCandidateTurns
<1>8. CASE LockCandidate
  BY <1>8, LockCandidateTurns
<1>9. CASE EndSelection
  BY <1>9, EndSelectionTurns
<1>10. CASE SkipDust
  BY <1>10, SkipDustTurns
<1>11. CASE SettleMaker
  BY <1>11, SettleMakerTurns
<1>12. QED
  BY <1>1, <1>2, <1>3, <1>4, <1>6, <1>7, <1>8, <1>9, <1>10, <1>11 DEF Next

-----------------------------------------------------------------------------
(* What the drafted trades move *)

\* What the pending trades move is what the committed ones and the drafted move.
LEMMA DraftFlows ==
    ASSUME Locked, Parties, NEW u, NEW asset \in Asset, NEW way \in Ways
    PROVE  /\ PartyRows(draft.trades)
           /\ Flows(u, trades, asset, way) \in Nat
           /\ Flows(u, draft.trades, asset, way) \in Nat
           /\ Flows(u, Made, asset, way)
                 = Flows(u, trades, asset, way) + Flows(u, draft.trades, asset, way)
<1>a. PICK old : old = trades
  OBVIOUS
<1>b. PICK made : made = draft.trades
  OBVIOUS
<1>c. PICK all : all = Made
  OBVIOUS
<1>d. PICK n : n = Len(trades)
  OBVIOUS
<1> DEFINE name == [i \in DOMAIN made |-> n + i]
           S == Own(u, old)
           D == Own(u, made)
           T == {name[i] : i \in D}
           f == [i \in S |-> Flow(HistoryItem(u, old[i]), asset, way)]
           h == [i \in D |-> Flow(HistoryItem(u, made[i]), asset, way)]
           g == [i \in Own(u, all) |-> Flow(HistoryItem(u, all[i]), asset, way)]
<1>1. /\ n \in Nat /\ DOMAIN old = 1..n
      /\ Len(made) \in Nat /\ DOMAIN made = 1..Len(made)
      /\ DOMAIN all = 1..(n + Len(made))
      /\ \A i \in 1..n : all[i] = old[i]
      /\ \A i \in 1..Len(made) : all[n + i] = made[i]
  <2>1. old \in Seq(Trade) /\ made \in Seq(Trade) /\ all = old \o made
    BY <1>a, <1>b, <1>c DEF Locked, TypeOK, Made
  <2>2. n = Len(old)
    BY <1>a, <1>d
  <2> QED
    BY ONLY <2>1, <2>2
<1>2. /\ \A i \in DOMAIN old : i \in DOMAIN all /\ all[i] = old[i]
      /\ \A i \in DOMAIN made : /\ name[i] \in DOMAIN all /\ name[i] \notin DOMAIN old
                                /\ all[name[i]] = made[i]
      /\ \A i, j \in DOMAIN made : i # j => name[i] # name[j]
      /\ \A i \in DOMAIN all : i \in DOMAIN old \/ \E j \in DOMAIN made : i = name[j]
  <2>1. \A i \in DOMAIN made : name[i] = n + i
    OBVIOUS
  <2>2. ASSUME NEW i \in DOMAIN all, i \notin DOMAIN old
        PROVE  \E j \in DOMAIN made : i = name[j]
    <3>1. i - n \in DOMAIN made /\ i = n + (i - n)
      BY <1>1, <2>2
    <3> QED
      BY <3>1, <2>1
  <2> HIDE DEF name
  <2> QED
    BY <1>1, <2>1, <2>2
<1>3. PartyRows(old) /\ PartyRows(all)
  BY <1>a, <1>c, MadePartyRows
<1>4. PartyRows(made)
  <2>1. IsFiniteSet(DOMAIN made)
    BY <1>1, FS_Interval, SMT
  <2> QED
    BY <2>1, <1>2, <1>3 DEF PartyRows
<1>5. /\ IsFiniteSet(S) /\ IsFiniteSet(D)
      /\ S \subseteq DOMAIN old /\ D \subseteq DOMAIN made
  BY <1>3, <1>4, FS_Subset DEF Own, PartyRows
<1> HIDE DEF name
<1>6. Own(u, all) = S \cup T /\ S \cap T = {}
  BY <1>2, <1>5 DEF Own
<1>7. \A i \in S \cup T : g[i] \in 0..FlowBound
  <2>1. ASSUME NEW i \in Own(u, all)
        PROVE  /\ all[i] \in Trade /\ Party(all[i])
               /\ all[i].takerSide \in Side
               /\ u \in {Buyer(all[i]), Seller(all[i])}
    BY <1>3 DEF Own, PartyRows, Trade
  <2>2. ASSUME NEW i \in Own(u, all)
        PROVE  g[i] \in 0..FlowBound
    BY <2>1, ItemFlows
  <2> QED
    BY <2>2, <1>6
<1>8. /\ \A i \in S : g[i] = f[i]
      /\ \A i \in D : g[name[i]] = h[i] /\ name[i] \in T
      /\ \A i, j \in D : i # j => name[i] # name[j]
  BY <1>2, <1>5, <1>6
<1>9. /\ Flows(u, old, asset, way) = SumOver(f, S)
      /\ Flows(u, made, asset, way) = SumOver(h, D)
      /\ Flows(u, all, asset, way) = SumOver(g, S \cup T)
  BY <1>6 DEF Flows
<1>10. \A i \in D : h[i] \in 0..FlowBound /\ g[name[i]] = h[i]
  BY <1>7, <1>8
<1> HIDE DEF f, g, h, S, D
<1>11. /\ IsFiniteSet(T) /\ SumOver(g, T) = SumOver(h, D)
  <2>1. IsFiniteSet(D)
    BY <1>5
  <2>2. \A i, j \in D : i # j => name[i] # name[j]
    BY <1>8
  <2>3. /\ \A i \in D : h[i] \in 0..FlowBound /\ g[name[i]] = h[i] /\ name[i] \in T
        /\ \A y \in T : \E i \in D : y = name[i]
    BY <1>10 DEF T
  <2>4. FlowBound \in Nat
    BY ONLY FlowBoundNat
  <2> HIDE DEF T
  <2> QED
    BY ONLY <2>1, <2>2, <2>3, <2>4, SumRenamed
<1> HIDE DEF T
<1>12. /\ SumOver(g, S) \in Nat /\ SumOver(g, T) \in Nat
       /\ SumOver(g, S \cup T) = SumOver(g, S) + SumOver(g, T)
  <2>1. IsFiniteSet(S) /\ IsFiniteSet(T) /\ S \cap T = {}
    BY <1>5, <1>6, <1>11
  <2>2. PICK both : both = S \cup T
    OBVIOUS
  <2>3. \A i \in both : g[i] \in 0..FlowBound
    BY ONLY <1>7, <2>2
  <2>4. FlowBound \in Nat
    BY ONLY FlowBoundNat
  <2>5. /\ SumOver(g, S) \in Nat /\ SumOver(g, T) \in Nat
        /\ SumOver(g, both) = SumOver(g, S) + SumOver(g, T)
    BY ONLY <2>1, <2>2, <2>3, <2>4, SumDisjoint
  <2> QED
    BY ONLY <2>2, <2>5
<1>13. SumOver(g, S) = SumOver(f, S)
  BY ONLY <1>8, SumCongruent
<1> QED
  BY <1>a, <1>b, <1>c, <1>4, <1>9, <1>11, <1>12, <1>13

\* The trades in which a user receives an asset, and pays it, and what of it
\* each trade moves.
Receiving(u, made, asset) ==
    {i \in DOMAIN made :
        u = IF asset = "BTC" THEN Buyer(made[i]) ELSE Seller(made[i])}
Paying(u, made, asset) ==
    {i \in DOMAIN made :
        u = IF asset = "BTC" THEN Seller(made[i]) ELSE Buyer(made[i])}
Paid(trade, asset) == IF asset = "BTC" THEN trade.amount ELSE CostOf(trade)
Received(trade, asset) == Paid(trade, asset) - FeeIn(trade, asset)

\* What a user receives and pays in all, in some trades.
TotalReceived(u, made, asset) ==
    SumOver([i \in Receiving(u, made, asset) |-> Received(made[i], asset)],
            Receiving(u, made, asset))
TotalPaid(u, made, asset) ==
    SumOver([i \in Paying(u, made, asset) |-> Paid(made[i], asset)],
            Paying(u, made, asset))

\* What one trade moves, seen from one of its parties.
LEMMA ItemMoves ==
    ASSUME NEW trade \in Trade, Party(trade), NEW asset \in Asset,
           FeeIn(trade, asset) <= Paid(trade, asset),
           NEW u, u \in {Buyer(trade), Seller(trade)}
    PROVE  LET item == HistoryItem(u, trade)
               receives == u = IF asset = "BTC" THEN Buyer(trade) ELSE Seller(trade)
               pays == u = IF asset = "BTC" THEN Seller(trade) ELSE Buyer(trade)
           IN  /\ Flow(item, asset, "in") \in 0..FlowBound
               /\ Flow(item, asset, "out") \in 0..FlowBound
               /\ Paid(trade, asset) \in 0..FlowBound
               /\ Received(trade, asset) \in 0..FlowBound
               /\ Flow(item, asset, "in")
                     + (IF pays THEN Paid(trade, asset) ELSE 0)
                  = Flow(item, asset, "out")
                     + (IF receives THEN Received(trade, asset) ELSE 0)
<1> DEFINE item == HistoryItem(u, trade)
<1>1. /\ Flow(item, asset, "in") \in 0..FlowBound
      /\ Flow(item, asset, "out") \in 0..FlowBound
      /\ Flow(item, asset, "in") - Flow(item, asset, "out")
            = Gain(trade, item.side, asset)
  BY ItemFlows DEF Trade, Ways
<1>2. Buyer(trade) # Seller(trade)
  BY DEF Party, Buyer, Seller, BuyOrderId, SellOrderId, Trade, Side
<1>3. item.side = IF Buyer(trade) = u THEN "BUY" ELSE "SELL"
  BY DEF HistoryItem
<1>4. /\ trade.amount \in 0..DecimalMax
      /\ CostOf(trade) \in 0..EscrowBound
      /\ DecimalMax <= FlowBound /\ EscrowBound <= FlowBound
      /\ FlowBound \in Nat /\ DecimalMax \in Nat /\ EscrowBound \in Nat
      /\ FeeIn(trade, asset) \in 0..DecimalMax
  <2>1. DecimalMax \in Nat /\ EscrowBound \in Nat
    BY DecimalsAssumption, EscrowBoundNat
  <2>2. trade.amount \in Money /\ trade.price \in Money
    BY DEF Trade
  <2>3. Escrow("BUY", trade.amount, trade.price) \in 0..EscrowBound
    BY <2>2, EscrowType DEF Side
  <2>4. CostOf(trade) \in 0..EscrowBound
    BY <2>3 DEF Escrow, CostOf
  <2> QED
    BY <2>1, <2>2, <2>4, FeeType DEF Money, FlowBound
<1> HIDE DEF item
<1>5. Paid(trade, asset) \in 0..FlowBound /\ Received(trade, asset) \in 0..FlowBound
  BY <1>4 DEF Paid, Received
<1>6. CASE asset = "BTC"
  <2>1. CASE u = Buyer(trade)
    <3>1. Flow(item, asset, "in") - Flow(item, asset, "out") = trade.amount - BtcFee(trade)
      BY <1>1, <1>3, <1>6, <2>1 DEF Gain
    <3>2. Received(trade, asset) = trade.amount - BtcFee(trade)
      BY <1>6 DEF Received, Paid, FeeIn
    <3> QED
      BY <1>1, <1>2, <1>4, <1>5, <1>6, <2>1, <3>1, <3>2 DEF item
  <2>2. CASE u = Seller(trade)
    <3>1. Flow(item, asset, "in") - Flow(item, asset, "out") = 0 - trade.amount
      BY <1>1, <1>2, <1>3, <1>6, <2>2 DEF Gain
    <3>2. Paid(trade, asset) = trade.amount
      BY <1>6 DEF Paid
    <3> QED
      BY <1>1, <1>2, <1>4, <1>5, <1>6, <2>2, <3>1, <3>2 DEF item
  <2> QED
    BY <2>1, <2>2
<1>7. CASE asset = "USD"
  <2>1. CASE u = Buyer(trade)
    <3>1. Flow(item, asset, "in") - Flow(item, asset, "out") = 0 - CostOf(trade)
      BY <1>1, <1>3, <1>7, <2>1 DEF Gain
    <3>2. Paid(trade, asset) = CostOf(trade)
      BY <1>7 DEF Paid
    <3> QED
      BY <1>1, <1>2, <1>4, <1>5, <1>7, <2>1, <3>1, <3>2 DEF item
  <2>2. CASE u = Seller(trade)
    <3>1. Flow(item, asset, "in") - Flow(item, asset, "out") = CostOf(trade) - UsdFee(trade)
      BY <1>1, <1>2, <1>3, <1>7, <2>2 DEF Gain
    <3>2. Received(trade, asset) = CostOf(trade) - UsdFee(trade)
      BY <1>7 DEF Received, Paid, FeeIn
    <3> QED
      BY <1>1, <1>2, <1>4, <1>5, <1>7, <2>2, <3>1, <3>2 DEF item
  <2> QED
    BY <2>1, <2>2
<1> QED
  BY <1>6, <1>7 DEF Asset

\* What histories say comes in and goes out differs by what is received and
\* what is paid.
LEMMA NetFlows ==
    ASSUME NEW made, PartyRows(made), NEW u, NEW asset \in Asset,
           \A i \in DOMAIN made : FeeIn(made[i], asset) <= Paid(made[i], asset)
    PROVE  /\ TotalReceived(u, made, asset) \in Nat
           /\ TotalPaid(u, made, asset) \in Nat
           /\ Flows(u, made, asset, "in") + TotalPaid(u, made, asset)
                 = Flows(u, made, asset, "out") + TotalReceived(u, made, asset)
<1> DEFINE O == Own(u, made)
           R == Receiving(u, made, asset)
           P == Paying(u, made, asset)
           in == [i \in O |-> Flow(HistoryItem(u, made[i]), asset, "in")]
           out == [i \in O |-> Flow(HistoryItem(u, made[i]), asset, "out")]
           got == [i \in O |-> IF i \in R THEN Received(made[i], asset) ELSE 0]
           gave == [i \in O |-> IF i \in P THEN Paid(made[i], asset) ELSE 0]
           both == [i \in O |-> in[i] + gave[i]]
           r == [i \in R |-> Received(made[i], asset)]
           p == [i \in P |-> Paid(made[i], asset)]
<1>1. /\ R \in SUBSET O /\ P \in SUBSET O /\ IsFiniteSet(O)
  BY FS_Subset DEF Own, Receiving, Paying, PartyRows
<1>2. \A i \in O : /\ i \in DOMAIN made
                   /\ made[i] \in Trade /\ Party(made[i])
                   /\ u \in {Buyer(made[i]), Seller(made[i])}
                   /\ FeeIn(made[i], asset) <= Paid(made[i], asset)
                   /\ i \in R <=> u = IF asset = "BTC" THEN Buyer(made[i])
                                                       ELSE Seller(made[i])
                   /\ i \in P <=> u = IF asset = "BTC" THEN Seller(made[i])
                                                       ELSE Buyer(made[i])
  BY DEF Own, PartyRows, Receiving, Paying
<1> HIDE DEF O, R, P
<1>3. \A i \in O : /\ in[i] \in 0..FlowBound /\ out[i] \in 0..FlowBound
                   /\ got[i] \in 0..FlowBound /\ gave[i] \in 0..FlowBound
                   /\ in[i] + gave[i] = out[i] + got[i]
  <2> SUFFICES ASSUME NEW i \in O
               PROVE  /\ in[i] \in 0..FlowBound /\ out[i] \in 0..FlowBound
                      /\ got[i] \in 0..FlowBound /\ gave[i] \in 0..FlowBound
                      /\ in[i] + gave[i] = out[i] + got[i]
    OBVIOUS
  <2> DEFINE item == HistoryItem(u, made[i])
             got1 == IF i \in R THEN Received(made[i], asset) ELSE 0
             gave1 == IF i \in P THEN Paid(made[i], asset) ELSE 0
  <2>1. /\ Flow(item, asset, "in") \in 0..FlowBound
        /\ Flow(item, asset, "out") \in 0..FlowBound
        /\ Paid(made[i], asset) \in 0..FlowBound
        /\ Received(made[i], asset) \in 0..FlowBound
        /\ Flow(item, asset, "in") + gave1 = Flow(item, asset, "out") + got1
    BY <1>2, ItemMoves
  <2>2. got1 \in 0..FlowBound /\ gave1 \in 0..FlowBound
    BY <2>1, FlowBoundNat
  <2> HIDE DEF got1, gave1
  <2>3. got[i] = got1 /\ gave[i] = gave1
    BY DEF got1, gave1
  <2> QED
    BY <2>1, <2>2, <2>3
<1>4. /\ \A i \in O \ R : got[i] = 0
      /\ \A i \in O \ P : gave[i] = 0
      /\ \A i \in R : got[i] = r[i]
      /\ \A i \in P : gave[i] = p[i]
  BY <1>1
<1>5. /\ \A i \in O : both[i] = in[i] + gave[i]
      /\ \A i \in O : both[i] = out[i] + got[i]
  BY <1>3
<1>6. /\ Flows(u, made, asset, "in") = SumOver(in, O)
      /\ Flows(u, made, asset, "out") = SumOver(out, O)
      /\ TotalReceived(u, made, asset) = SumOver(r, R)
      /\ TotalPaid(u, made, asset) = SumOver(p, P)
  BY DEF Flows, TotalReceived, TotalPaid, O, R, P
<1> HIDE DEF in, out, got, gave, both, r, p
<1>7. SumOver(got, O) = SumOver(r, R)
  <2>1. SumOver(got, O) = SumOver(got, R)
    BY ONLY <1>1, <1>4, SumOfSupport
  <2>2. SumOver(got, R) = SumOver(r, R)
    BY ONLY <1>4, SumCongruent
  <2> QED
    BY <2>1, <2>2
<1>8. SumOver(gave, O) = SumOver(p, P)
  <2>1. SumOver(gave, O) = SumOver(gave, P)
    BY ONLY <1>1, <1>4, SumOfSupport
  <2>2. SumOver(gave, P) = SumOver(p, P)
    BY ONLY <1>4, SumCongruent
  <2> QED
    BY <2>1, <2>2
<1>9. /\ SumOver(in, O) \in Nat /\ SumOver(gave, O) \in Nat
      /\ SumOver(both, O) = SumOver(in, O) + SumOver(gave, O)
  <2>1. IsFiniteSet(O) /\ \A i \in O : /\ in[i] \in 0..FlowBound /\ gave[i] \in 0..FlowBound
                                       /\ both[i] = in[i] + gave[i]
    BY <1>1, <1>3, <1>5
  <2> QED
    BY ONLY <2>1, FlowBoundNat, SumOfPairs
<1>10. /\ SumOver(out, O) \in Nat /\ SumOver(got, O) \in Nat
       /\ SumOver(both, O) = SumOver(out, O) + SumOver(got, O)
  <2>1. IsFiniteSet(O) /\ \A i \in O : /\ out[i] \in 0..FlowBound /\ got[i] \in 0..FlowBound
                                       /\ both[i] = out[i] + got[i]
    BY <1>1, <1>3, <1>5
  <2> QED
    BY ONLY <2>1, FlowBoundNat, SumOfPairs
<1> QED
  BY <1>6, <1>7, <1>8, <1>9, <1>10

-----------------------------------------------------------------------------
(* The end of a settlement *)

\* Settlement is over: CommitMatch may run.
Ended == tx.phase = "settle" /\ (tx.makers = <<>> \/ tx.remaining = 0)

\* At the end every maker has traded what its turn gives it.
LEMMA EndedFill ==
    ASSUME Locked, DraftedMakers, CoverAgrees, Turns, Ended
    PROVE  Visible!Fill(tx.taker) = [m \in Visible!Makers(tx.taker) |-> Drafted(m)]
<1>t. PICK t : t = tx.taker
  OBVIOUS
<1>f. PICK f : f = [m \in Visible!Makers(t) |-> Drafted(m)]
  OBVIOUS
<1>1. /\ TypeOK /\ tx.phase = "settle" /\ t \in DOMAIN orders /\ Taker = orders[t]
      /\ Taker.side \in Side /\ tx.remaining \in Nat
  BY <1>t, TakerRow, MoneyNat DEF Ended, Locked, TypeOK, Transaction
<1>2. \A b \in DOMAIN draft.orders : b \in Visible!Makers(t)
  BY <1>t, DraftedRow
<1>3. ASSUME NEW m
      PROVE  SumOver([b \in AheadIn(t, m) |-> f[b]], AheadIn(t, m))
                = SumOver([b \in DraftedAhead(m) |-> Drafted(b)], DraftedAhead(m))
  <2> DEFINE A == AheadIn(t, m)
             D == DraftedAhead(m)
             g == [b \in A |-> f[b]]
             h == [b \in D |-> Drafted(b)]
  <2>1. D \in SUBSET A
    BY <1>1, <1>2 DEF AheadIn, DraftedAhead
  <2>2. \A b \in A : b \in Visible!Makers(t) /\ (b \notin D => b \notin DOMAIN draft.orders)
    BY <1>1 DEF AheadIn, DraftedAhead
  <2>3. \A b \in A : g[b] = Drafted(b)
    BY <1>f, <2>2
  <2>4. \A b \in A \ D : g[b] = 0
    BY <2>2, <2>3 DEF Drafted
  <2>5. \A b \in D : g[b] = h[b]
    BY <2>1, <2>3
  <2> HIDE DEF A, D, g, h
  <2>6. SumOver(g, A) = SumOver(g, D)
    BY ONLY <2>1, <2>4, SumOfSupport
  <2>7. SumOver(g, D) = SumOver(h, D)
    BY ONLY <2>5, SumCongruent
  <2> QED
    BY <2>6, <2>7 DEF A, D, g, h
<1>4. \A m : orders[t].remainingAmount
                - SumOver([b \in AheadIn(t, m) |-> f[b]], AheadIn(t, m)) = LeftFor(m)
  BY <1>1, <1>3 DEF LeftFor
<1>5. ASSUME NEW m \in Visible!Makers(t)
      PROVE  Drafted(m) = Worth(m, LeftFor(m))
  <2>1. /\ m \in DOMAIN orders /\ orders[m].remainingAmount \in Nat
        /\ orders[m].price \in Nat
    BY OrderRows, MoneyNat DEF Visible!Makers, Locked, Order
  <2>2. Worth(m, 0) = 0
    BY <2>1 DEF Worth, Lesser
  <2>3. ASSUME \A o \in DOMAIN draft.orders : Ahead(orders, Taker.side, o, m)
        PROVE  LeftFor(m) = tx.remaining /\ Drafted(m) = 0
    <3>1. DraftedAhead(m) = DOMAIN draft.orders
      BY <2>3 DEF DraftedAhead
    <3>2. LeftFor(m) = tx.remaining
      BY <3>1, <1>1 DEF LeftFor, Turns, RemainingIsLeft
    <3>3. m \notin DOMAIN draft.orders
      BY <2>1, <2>3, <1>1, AheadOrder
    <3> QED
      BY <3>2, <3>3 DEF Drafted
  <2>4. CASE Listed(m)
    <3>1. PICK i \in DOMAIN tx.makers : tx.makers[i].id = m
      BY <2>4 DEF Listed
    <3>2. tx.makers # <<>>
      BY <3>1
    <3>3. tx.remaining = 0
      BY <3>2 DEF Ended
    <3>4. \A o \in DOMAIN draft.orders : Ahead(orders, Taker.side, o, m)
      BY <3>1 DEF Turns, InTurn
    <3> QED
      BY <2>2, <2>3, <3>3, <3>4
  <2>5. CASE TurnOver(m)
    BY <2>5 DEF TurnOver
  <2>6. CASE NotReached(m)
    <3>1. \A o \in DOMAIN draft.orders : Ahead(orders, Taker.side, o, m)
      BY <2>6 DEF NotReached
    <3>2. tx.remaining = 0
      <4>1. CASE tx.makers = <<>>
        <5>1. PICK left : IsPlan(left)
          BY <1>1 DEF CoverAgrees
        <5>2. tx.remaining = tx.toCover
          BY <4>1, <5>1 DEF IsPlan
        <5> QED
          BY <5>2, <2>6 DEF NotReached
      <4> QED
        BY <4>1 DEF Ended
    <3> QED
      BY <2>2, <2>3, <3>1, <3>2
  <2> QED
    BY <1>t, <1>1, <2>4, <2>5, <2>6 DEF Turns, TurnsTaken
<1>6. f = Turn(t, f)
  BY <1>f, <1>4, <1>5 DEF Turn
<1> QED
  BY <1>t, <1>f, <1>1, <1>6, FillUnique

\* The drafted makers are the list of the drafted trades' makers, and each has
\* the ones before it ahead of it.
LEMMA TradesRank ==
    ASSUME Locked, DraftedMakers, Turns
    PROVE  /\ Len(draft.trades) \in Nat
           /\ DOMAIN draft.trades = 1..Len(draft.trades)
           /\ Cardinality(DOMAIN draft.orders) = Len(draft.trades)
           /\ \A i \in DOMAIN draft.trades :
                 LET m == draft.trades[i].makerOrderId
                 IN  Cardinality({b \in DOMAIN draft.orders :
                                     Ahead(orders, Taker.side, b, m)}) + 1 = i
<1> DEFINE n == Len(draft.trades)
           id == [i \in DOMAIN draft.trades |-> draft.trades[i].makerOrderId]
           S == DOMAIN draft.orders
<1>1. n \in Nat /\ DOMAIN draft.trades = 1..n
  BY DEF Locked, TypeOK
<1>2. /\ \A i \in 1..n : id[i] \in S
      /\ \A o \in S : \E i \in 1..n : id[i] = o
      /\ \A i, j \in 1..n : i < j => Ahead(orders, Taker.side, id[i], id[j])
      /\ \A i \in 1..n : id[i] = draft.trades[i].makerOrderId
  BY <1>1 DEF Turns, TradesInTurn
<1>3. \A o \in S : o \in DOMAIN orders /\ tx.phase = "settle"
  BY DraftedRow
<1> HIDE DEF id, n, S
<1>4. ASSUME NEW i \in 1..n
      PROVE  TypeOK /\ Taker.side \in Side /\ id[i] \in DOMAIN orders
  BY <1>2, <1>3, TakerRow DEF Locked
<1>5. ASSUME NEW i \in 1..n, NEW j \in 1..n
      PROVE  Ahead(orders, Taker.side, id[i], id[j]) <=> i < j
  <2>1. /\ ~Ahead(orders, Taker.side, id[i], id[i])
        /\ Ahead(orders, Taker.side, id[i], id[j]) /\ Ahead(orders, Taker.side, id[j], id[i])
              => Ahead(orders, Taker.side, id[i], id[i])
    BY <1>4, AheadOrder
  <2>2. i < j \/ i = j \/ j < i
    BY <1>1
  <2> QED
    BY <2>1, <2>2, <1>1, <1>2
<1>6. \A i, j \in 1..n : i # j => id[i] # id[j]
  <2> SUFFICES ASSUME NEW i \in 1..n, NEW j \in 1..n, i # j, id[i] = id[j]
               PROVE  FALSE
    OBVIOUS
  <2>1. i < j \/ j < i
    BY <1>1
  <2>2. ~Ahead(orders, Taker.side, id[i], id[i])
    BY <1>4, AheadOrder
  <2> QED
    BY <2>1, <2>2, <1>2
<1>7. S = {id[i] : i \in 1..n}
  BY <1>2
<1>8. Cardinality(S) = n
  <2>1. Cardinality({id[i] : i \in 1..n}) = n
    BY ONLY <1>1, <1>6, CountOfList
  <2> QED
    BY <1>7, <2>1
<1>9. ASSUME NEW i \in 1..n
      PROVE  Cardinality({b \in S : Ahead(orders, Taker.side, b, id[i])}) + 1 = i
  <2> DEFINE k == i - 1
  <2>1. k \in Nat /\ \A j \in 1..n : j \in 1..k <=> j < i
    BY <1>1
  <2>2. \A j \in 1..k : j \in 1..n
    BY <1>1
  <2>3. {b \in S : Ahead(orders, Taker.side, b, id[i])} = {id[j] : j \in 1..k}
    <3>1. ASSUME NEW b \in S
          PROVE  Ahead(orders, Taker.side, b, id[i]) <=> \E j \in 1..k : b = id[j]
      <4>1. PICK j \in 1..n : id[j] = b
        BY <1>2
      <4>2. Ahead(orders, Taker.side, b, id[i]) <=> j \in 1..k
        BY <4>1, <2>1, <1>5
      <4>3. \A j2 \in 1..k : b = id[j2] => j2 = j
        BY <4>1, <1>6, <2>2
      <4> QED
        BY <4>1, <4>2, <4>3
    <3>2. \A j \in 1..k : id[j] \in S
      BY <2>2, <1>2
    <3> QED
      BY <3>1, <3>2
  <2>4. \A j, j2 \in 1..k : j # j2 => id[j] # id[j2]
    BY <2>2, <1>6
  <2>5. k + 1 = i
    BY <1>1
  <2> HIDE DEF k
  <2>6. Cardinality({id[j] : j \in 1..k}) = k
    BY ONLY <2>1, <2>4, CountOfList
  <2> QED
    BY <2>3, <2>5, <2>6
<1> QED
  BY <1>1, <1>2, <1>8, <1>9 DEF n, S

\* No drafted trade costs its receiver more than it brings.
LEMMA FairFees ==
    ASSUME Locked, DraftedMakers, Turns, NEW asset, NEW i \in DOMAIN draft.trades
    PROVE  FeeIn(draft.trades[i], asset) <= Paid(draft.trades[i], asset)
<1>1. PICK m : m = draft.trades[i].makerOrderId
  OBVIOUS
<1>2. /\ m \in DOMAIN draft.orders
      /\ draft.trades[i] = TradeRow(m, tx.taker, Taker.side, orders[m].price, Drafted(m))
  BY <1>1 DEF Turns, TradesInTurn
<1>3. /\ Drafted(m) \in Nat /\ orders[m].price \in Nat /\ Taker.side \in {"BUY", "SELL"}
  <2>1. /\ m \in DOMAIN orders /\ Drafted(m) \in 0..DecimalMax /\ tx.phase = "settle"
    BY <1>2, DraftedRow
  <2>2. orders[m] \in Order /\ Taker.side \in Side
    BY <2>1, OrderRows, TakerRow DEF Locked
  <2>3. orders[m].price \in Nat
    BY <2>2, MoneyNat DEF Order
  <2>4. Drafted(m) \in Nat
    BY <2>1, DecimalsAssumption
  <2> QED
    BY <2>2, <2>3, <2>4 DEF Side
<1> DEFINE amount == Drafted(m)
           cost == MultiplyScaled(Drafted(m), orders[m].price)
           trade == draft.trades[i]
<1>4. /\ amount \in Nat /\ cost \in Nat
      /\ MakerFeeRate \in 0..Scale /\ TakerFeeRate \in 0..Scale
  BY <1>3, MultiplyScaledNat, RowsAssumption
<1>5. /\ trade.amount = amount /\ CostOf(trade) = cost
      /\ trade.takerSide = Taker.side
      /\ trade.makerFeeAmount = MultiplyScaled(
            IF Taker.side = "BUY" THEN cost ELSE amount, MakerFeeRate)
      /\ trade.takerFeeAmount = MultiplyScaled(
            IF Taker.side = "BUY" THEN amount ELSE cost, TakerFeeRate)
  BY <1>2 DEF TradeRow, CostOf
<1> HIDE DEF amount, cost, trade
<1>6. /\ \A x \in {amount, cost} : MultiplyScaled(x, MakerFeeRate) <= x
      /\ \A x \in {amount, cost} : MultiplyScaled(x, TakerFeeRate) <= x
  BY <1>4, FeeAtMostGross
<1>7. FeeIn(trade, asset) <= Paid(trade, asset)
  BY <1>3, <1>5, <1>6 DEF FeeIn, BtcFee, UsdFee, Paid
<1> QED
  BY <1>7 DEF trade

\* What the users will own once the draft is committed differs from what they
\* own by what the drafted trades say.
LEMMA WealthMoved ==
    ASSUME Locked, DraftedMakers, Parties, Explaining, Turns,
           NEW u \in Users, NEW asset \in Asset
    PROVE  Holds(SeenWallets[u], asset)
              = Holds(wallets[u], asset)
                   + TotalReceived(u, draft.trades, asset)
                   - TotalPaid(u, draft.trades, asset)
<1>1. /\ Holds(SeenWallets[u], asset) + Flows(u, Made, asset, "out")
            = Initial(asset) + Flows(u, Made, asset, "in")
      /\ Holds(wallets[u], asset) + Flows(u, trades, asset, "out")
            = Initial(asset) + Flows(u, trades, asset, "in")
  BY DEF Explaining, Explained
<1>2. PICK made : made = draft.trades
  OBVIOUS
<1>3. /\ PartyRows(made)
      /\ \A way \in Ways : /\ Flows(u, trades, asset, way) \in Nat
                           /\ Flows(u, made, asset, way) \in Nat
                           /\ Flows(u, Made, asset, way)
                                 = Flows(u, trades, asset, way) + Flows(u, made, asset, way)
  <2>1. "in" \in Ways
    BY DEF Ways
  <2> QED
    BY <1>2, <2>1, DraftFlows
<1>4. /\ Flows(u, Made, asset, "in") = Flows(u, trades, asset, "in") + Flows(u, made, asset, "in")
      /\ Flows(u, Made, asset, "out") = Flows(u, trades, asset, "out") + Flows(u, made, asset, "out")
      /\ Flows(u, trades, asset, "in") \in Nat /\ Flows(u, trades, asset, "out") \in Nat
      /\ Flows(u, made, asset, "in") \in Nat /\ Flows(u, made, asset, "out") \in Nat
  BY <1>3 DEF Ways
<1>5. /\ TotalReceived(u, made, asset) \in Nat
      /\ TotalPaid(u, made, asset) \in Nat
      /\ Flows(u, made, asset, "in") + TotalPaid(u, made, asset)
            = Flows(u, made, asset, "out") + TotalReceived(u, made, asset)
  <2>1. \A i \in DOMAIN made : FeeIn(made[i], asset) <= Paid(made[i], asset)
    BY <1>2, FairFees
  <2> QED
    BY <1>3, <2>1, NetFlows
<1>6. /\ Holds(SeenWallets[u], asset) \in Int /\ Holds(wallets[u], asset) \in Int
      /\ Initial(asset) \in Int
  <2>1. SeenWallets[u] \in Wallet /\ wallets[u] \in Wallet
    BY SeenWalletRow DEF Locked, TypeOK
  <2>2. /\ Holds(SeenWallets[u], asset) \in 0..HoldsBound
        /\ Holds(wallets[u], asset) \in 0..HoldsBound
    BY <2>1, HoldsType
  <2>3. Initial(asset) \in Int
    BY RowsAssumption, DecimalsAssumption DEF Initial, Money
  <2> QED
    BY <2>2, <2>3, HoldsBoundNat
<1>7. Holds(SeenWallets[u], asset)
              = Holds(wallets[u], asset)
                   + TotalReceived(u, made, asset) - TotalPaid(u, made, asset)
  <2>1. Holds(SeenWallets[u], asset)
              + (Flows(u, trades, asset, "out") + Flows(u, made, asset, "out"))
           = Initial(asset)
              + (Flows(u, trades, asset, "in") + Flows(u, made, asset, "in"))
    BY ONLY <1>1, <1>4
  <2>2. PICK h, w, i, ti, to, mi, mo, got, gave :
           /\ h = Holds(SeenWallets[u], asset) /\ w = Holds(wallets[u], asset)
           /\ i = Initial(asset)
           /\ ti = Flows(u, trades, asset, "in") /\ to = Flows(u, trades, asset, "out")
           /\ mi = Flows(u, made, asset, "in") /\ mo = Flows(u, made, asset, "out")
           /\ got = TotalReceived(u, made, asset) /\ gave = TotalPaid(u, made, asset)
    OBVIOUS
  <2>3. /\ h + (to + mo) = i + (ti + mi) /\ w + to = i + ti /\ mi + gave = mo + got
    BY ONLY <2>1, <2>2, <1>1, <1>5
  <2>4. /\ h \in Int /\ w \in Int /\ i \in Int
        /\ ti \in Int /\ to \in Int /\ mi \in Int /\ mo \in Int
        /\ got \in Int /\ gave \in Int
    BY ONLY <2>2, <1>4, <1>5, <1>6
  <2>5. h = w + got - gave
    BY ONLY <2>3, <2>4
  <2> QED
    BY ONLY <2>2, <2>5
<1> QED
  BY <1>2, <1>7

-----------------------------------------------------------------------------
(* Matching implements the exchange *)

\* What users own does not change while no wallet's total does.
LEMMA WealthKept ==
    ASSUME SameHoldings(wallets, wallets')
    PROVE  Wealth(wallets') = Wealth(wallets)
BY SameWealth

\* Placing an order: the predicate of one balance update decides what Place asks
\* of all the active orders together.
LEMMA CreateOrderPlaces ==
    ASSUME Reserving, NEW u \in Users, NEW form \in OrderForms, CreateOrder(u, form)
    PROVE  Visible!Place(u, form)
<1>1. /\ Len(orders) < MaxOrders
      /\ orders' = Append(orders, QueuedOrder(u, form))
      /\ trades' = trades
      /\ ReserveFunds(wallets[u], form.side,
                      Escrow(form.side, form.amount, form.price)) \in Wallet
  BY DEF CreateOrder, WithinBounds
<1>2. SameHoldings(wallets, wallets')
  BY OrdersKeepHoldings DEF Reserving
<1>3. form.side \in Side /\ wallets[u] \in Wallet
  BY RowsAssumption DEF Reserving, Locked, TypeOK
<1>4. Visible!Committed(u, form.side)
         = IF form.side = "BUY" THEN wallets[u].reservedUsd ELSE wallets[u].reservedBtc
  BY <1>3, CommittedReserved DEF Reserving, Locked
<1>5. Escrow(form.side, form.amount, form.price) \in Int
  <2>1. form.amount \in Money /\ form.price \in Money
    BY RowsAssumption
  <2>2. Escrow(form.side, form.amount, form.price) \in 0..EscrowBound
    BY <1>3, <2>1, EscrowType
  <2> QED
    BY <2>2, EscrowBoundNat
<1>6. LET owned == IF form.side = "BUY"
                   THEN wallets[u].availableUsd + wallets[u].reservedUsd
                   ELSE wallets[u].availableBtc + wallets[u].reservedBtc
      IN  Visible!Committed(u, form.side)
             + Escrow(form.side, form.amount, form.price) <= owned
  <2>1. PICK value : value = Escrow(form.side, form.amount, form.price)
    OBVIOUS
  <2>2. PICK wallet : wallet = wallets[u]
    OBVIOUS
  <2>3. /\ value \in Int
        /\ wallet.availableUsd \in Int /\ wallet.availableBtc \in Int
        /\ wallet.reservedUsd \in Int /\ wallet.reservedBtc \in Int
    BY <2>1, <2>2, <1>3, <1>5, DecimalsAssumption DEF Wallet, Money
  <2>4. ReserveFunds(wallet, form.side, value) \in Wallet /\ wallet \in Wallet
    BY <2>1, <2>2, <1>1, <1>3
  <2>5. CASE form.side = "BUY"
    <3>1. wallet.availableUsd - value \in Money
      BY <2>4, <2>5 DEF ReserveFunds, Wallet
    <3>2. wallet.availableUsd - value >= 0
      BY <3>1, DecimalsAssumption DEF Money
    <3> QED
      BY <2>1, <2>2, <2>3, <2>5, <3>2, <1>4
  <2>6. CASE form.side # "BUY"
    <3>1. wallet.availableBtc - value \in Money
      BY <2>4, <2>6 DEF ReserveFunds, Wallet
    <3>2. wallet.availableBtc - value >= 0
      BY <3>1, DecimalsAssumption DEF Money
    <3> QED
      BY <2>1, <2>2, <2>3, <2>6, <3>2, <1>4
  <2> QED
    BY <2>5, <2>6
<1>7. LET owned == IF form.side = "BUY" THEN Wealth(wallets)[u].usd
                                      ELSE Wealth(wallets)[u].btc
      IN  Visible!Committed(u, form.side)
             + Visible!Escrow(form.side, form.amount, form.price) <= owned
  BY <1>6, SameRows DEF Wealth
<1>8. orders' = Append(orders, Visible!QueuedOrder(u, form))
  BY <1>1, SameRows
<1> QED
  BY <1>1, <1>2, <1>7, <1>8, WealthKept DEF Visible!Place, Wealth

\* Cancelling and rejecting one withdraw an active order.
LEMMA CommitCancelCancels ==
    ASSUME Reserving, NEW o \in DOMAIN orders, CommitCancel(o)
    PROVE  Visible!Cancel(o)
<1>1. /\ trades' = trades /\ o \in DOMAIN cancels
      /\ orders' = [orders EXCEPT ![o].status = "CANCELLED"]
  BY DEF CommitCancel
<1>2. orders[o].status \in Visible!ActiveStatuses
  BY <1>1, SameRows DEF Reserving, Locked, LockDiscipline, CancelsHeld
<1>3. SameHoldings(wallets, wallets')
  BY OrdersKeepHoldings DEF Reserving
<1> QED
  BY <1>1, <1>2, <1>3, WealthKept DEF Visible!Cancel, Visible!Withdraw, Wealth

LEMMA RejectTakerRefuses ==
    ASSUME Reserving, RejectTaker
    PROVE  \E o \in DOMAIN orders : Visible!Refuse(o)
<1>1. /\ trades' = trades /\ orders[tx.taker].status = "QUEUED"
      /\ orders' = [orders EXCEPT ![tx.taker].status = "REJECTED"]
      /\ tx.phase # "idle"
  BY DEF RejectTaker, Taker
<1>2. SameHoldings(wallets, wallets')
  BY OrdersKeepHoldings DEF Reserving
<1>3. tx.taker \in DOMAIN orders
  BY <1>1, TakerRow DEF Reserving
<1>4. WITNESS tx.taker \in DOMAIN orders
<1> QED
  BY <1>1, <1>2, <1>3, WealthKept DEF Visible!Refuse, Visible!Withdraw, Wealth

\* What writes no table is not seen.
LEMMA QuietStepStutters ==
    ASSUME UNCHANGED <<orders, wallets, trades>>
    PROVE  UNCHANGED Visible!vars
BY DEF Visible!vars

\* What Exchange's execution of t computes: who trades how much, in which
\* order, and the trades it records.
FillOf(t) == Visible!Fill(t)
Served(t) == {m \in Visible!Makers(t) : FillOf(t)[m] > 0}
Rank(t, m) == Visible!Cardinality({b \in Served(t) :
                 Visible!Ahead(orders, orders[t].side, b, m)}) + 1
Recorded(t) ==
    [i \in 1..Visible!Cardinality(Served(t)) |->
        LET m == CHOOSE m \in Served(t) : Rank(t, m) = i
        IN  Visible!TradeRow(m, t, orders[t].side, orders[m].price, FillOf(t)[m])]
\* What the execution leaves of a row.
RowAfter(t, o) ==
    IF o = t
    THEN Visible!AfterTrades(orders[t],
            orders[t].remainingAmount
               - Visible!SumOver([m \in Served(t) |-> FillOf(t)[m]], Served(t)),
            Served(t) # {})
    ELSE IF o \in Served(t)
         THEN Visible!AfterTrades(orders[o],
                                  orders[o].remainingAmount - FillOf(t)[o], TRUE)
    ELSE orders[o]
\* The recorded trades in which a user buys, and sells.
Buys(t, u) ==
    {i \in DOMAIN Recorded(t) :
        orders[Visible!BuyOrderId(Recorded(t)[i])].userId = u}
Sells(t, u) ==
    {i \in DOMAIN Recorded(t) :
        orders[Visible!SellOrderId(Recorded(t)[i])].userId = u}

\* Those an execution serves are those the match has drafted.
LEMMA ServedDrafted ==
    ASSUME Locked, DraftedMakers, CoverAgrees, Turns, Ended, NEW t, t = tx.taker
    PROVE  /\ Served(t) = DOMAIN draft.orders
           /\ \A m \in Served(t) : FillOf(t)[m] = Drafted(m)
<1>1. FillOf(t) = [m \in Visible!Makers(t) |-> Drafted(m)]
  BY EndedFill DEF FillOf
<1>2. \A m \in DOMAIN draft.orders : m \in Visible!Makers(t) /\ Drafted(m) > 0
  BY DraftedRow DEF Turns, TradesInTurn
<1>3. \A m : m \notin DOMAIN draft.orders => ~(Drafted(m) > 0)
  BY DEF Drafted
<1> QED
  BY <1>1, <1>2, <1>3 DEF Served

\* The trades an execution records are the drafted ones.
LEMMA RecordedDrafted ==
    ASSUME Locked, DraftedMakers, CoverAgrees, Turns, Ended, NEW t, t = tx.taker
    PROVE  Recorded(t) = draft.trades
<1> DEFINE one(i) == CHOOSE m \in Served(t) : Rank(t, m) = i
           row(m) == Visible!TradeRow(m, t, orders[t].side,
                                      orders[m].price, FillOf(t)[m])
<1>1. Served(t) = DOMAIN draft.orders /\ \A m \in Served(t) : FillOf(t)[m] = Drafted(m)
  BY ServedDrafted
<1>2. \A S : Visible!Cardinality(S) = Cardinality(S)
  BY DEF Visible!Cardinality, Cardinality
<1>3. \A m : Rank(t, m) = Cardinality({b \in Served(t) : Ahead(orders, Taker.side, b, m)}) + 1
  BY <1>2, SameRows DEF Rank, Taker
<1>4. /\ Len(draft.trades) \in Nat
      /\ DOMAIN draft.trades = 1..Len(draft.trades)
      /\ Cardinality(Served(t)) = Len(draft.trades)
      /\ \A i \in DOMAIN draft.trades :
            Cardinality({b \in Served(t) :
                Ahead(orders, Taker.side, b, draft.trades[i].makerOrderId)}) + 1 = i
  BY <1>1, TradesRank
<1>5. \A i \in DOMAIN draft.trades : Rank(t, draft.trades[i].makerOrderId) = i
  BY <1>3, <1>4
<1>6. ASSUME NEW i \in DOMAIN draft.trades
      PROVE  draft.trades[i] = row(one(i))
  <2> DEFINE m == draft.trades[i].makerOrderId
  <2>1. /\ m \in Served(t)
        /\ draft.trades[i] = TradeRow(m, t, Taker.side, orders[m].price, Drafted(m))
    BY <1>1 DEF Turns, TradesInTurn
  <2>2. Rank(t, m) = i
    BY <1>5
  <2>3. ASSUME NEW o \in Served(t), Rank(t, o) = i
        PROVE  o = m
    <3>1. PICK j \in DOMAIN draft.trades : draft.trades[j].makerOrderId = o
      BY <1>1 DEF Turns, TradesInTurn
    <3>2. j = i
      BY <3>1, <2>3, <1>5
    <3> QED
      BY <3>1, <3>2
  <2> HIDE DEF m
  <2>4. one(i) = m
    BY <2>1, <2>2, <2>3
  <2>5. row(m) = draft.trades[i]
    BY <2>1, <1>1, SameTrades DEF Taker
  <2> QED
    BY <2>4, <2>5
<1>7. draft.trades = [i \in 1..Len(draft.trades) |-> draft.trades[i]]
  <2>1. PICK made : made = draft.trades
    OBVIOUS
  <2>2. made \in Seq(Trade)
    BY <2>1 DEF Locked, TypeOK
  <2>3. made = [i \in 1..Len(made) |-> made[i]]
    BY ONLY <2>2
  <2> QED
    BY ONLY <2>1, <2>3
<1> HIDE DEF row, one
<1>8. draft.trades = [i \in 1..Visible!Cardinality(Served(t)) |-> row(one(i))]
  BY <1>2, <1>4, <1>6, <1>7
<1> QED
  BY <1>8 DEF row, one, Recorded

\* The rows that a match commits are those an execution leaves.
LEMMA RowsLeft ==
    ASSUME Locked, DraftedMakers, CoverAgrees, Turns, Ended, NEW t, t = tx.taker, CommitMatch
    PROVE  orders' = [o \in DOMAIN orders |-> RowAfter(t, o)]
<1>d. Served(t) = DOMAIN draft.orders /\ \A m \in Served(t) : FillOf(t)[m] = Drafted(m)
  BY ServedDrafted
<1>1. /\ orders' \in Seq(Order)
      /\ DOMAIN orders' = DOMAIN orders
      /\ orders'[t]
            = AfterTrades(Taker, tx.remaining, draft.trades # <<>>)
      /\ \A o \in DOMAIN orders \ {t} : orders'[o] = SeenOrders[o]
  BY MatchedOrders
<1>2. orders[t].remainingAmount
         - Visible!SumOver([m \in Served(t) |-> FillOf(t)[m]], Served(t)) = tx.remaining
  <2> DEFINE f == [m \in Served(t) |-> FillOf(t)[m]]
             g == [o \in DOMAIN draft.orders |-> Drafted(o)]
  <2>1. \A m \in Served(t) : f[m] = g[m]
    BY <1>d
  <2> HIDE DEF f, g
  <2>2. SumOver(f, Served(t)) = SumOver(g, Served(t))
    BY ONLY <2>1, SumCongruent
  <2>3. tx.phase = "settle"
    BY DEF CommitMatch
  <2>4. tx.remaining = orders[t].remainingAmount - SumOver(g, Served(t))
    BY <1>d, <2>3 DEF Turns, RemainingIsLeft, Taker, g
  <2> QED
    BY <2>2, <2>4, SameRows DEF f
<1>3. Served(t) # {} <=> draft.trades # <<>>
  <2>1. DOMAIN draft.trades = 1..Len(draft.trades) /\ Len(draft.trades) \in Nat
    BY TradesRank
  <2>2. draft.trades # <<>> => 1 \in DOMAIN draft.trades
    BY <2>1 DEF Locked, TypeOK
  <2>3. draft.trades = <<>> => DOMAIN draft.trades = {}
    OBVIOUS
  <2> QED
    BY <1>d, <2>2, <2>3 DEF Turns, TradesInTurn
<1>4. ASSUME NEW o \in Served(t)
      PROVE  /\ o # t /\ o \in DOMAIN orders
             /\ orders'[o] = AfterTrades(orders[o],
                                orders[o].remainingAmount - FillOf(t)[o], TRUE)
  <2>1. o # t /\ o \in DOMAIN orders /\ o \in DOMAIN draft.orders
    BY <1>d, DraftedRow
  <2>2. orders'[o] = draft.orders[o]
    BY <2>1, <1>1 DEF SeenOrders, Overlay
  <2>3. draft.orders[o] = AfterTrades(orders[o], draft.orders[o].remainingAmount, TRUE)
    BY <2>1 DEF Locked, LockDiscipline, DraftHeld
  <2>4. draft.orders[o].remainingAmount = orders[o].remainingAmount - FillOf(t)[o]
    <3>1. FillOf(t)[o] = orders[o].remainingAmount - draft.orders[o].remainingAmount
      BY <1>d, <2>1 DEF Drafted
    <3>2. orders[o].remainingAmount \in Nat /\ draft.orders[o].remainingAmount \in Nat
      BY <2>1, OrderRows, MoneyNat DEF Locked, TypeOK, Order
    <3> QED
      BY <3>1, <3>2
  <2> QED
    BY <2>1, <2>2, <2>3, <2>4
<1>5. \A o \in DOMAIN orders : o \notin Served(t) /\ o # t => orders'[o] = orders[o]
  BY <1>1, <1>d DEF SeenOrders, Overlay
<1>6. orders'[t] = AfterTrades(orders[t], tx.remaining, Served(t) # {})
  <2>1. orders'[t] = AfterTrades(orders[t], tx.remaining, draft.trades # <<>>)
    BY <1>1 DEF Taker
  <2> QED
    BY <2>1, <1>3 DEF AfterTrades
<1>7. orders' = [o \in DOMAIN orders |-> orders'[o]]
  BY <1>1
<1>8. ASSUME NEW o \in DOMAIN orders
      PROVE  orders'[o] = RowAfter(t, o)
  BY <1>2, <1>4, <1>5, <1>6, SameTrades DEF RowAfter
<1> QED
  BY <1>7, <1>8

\* What users own moves along the recorded trades.
LEMMA WealthLeft ==
    ASSUME Locked, DraftedMakers, CoverAgrees, Parties, Explaining, Turns, Ended, NEW t, t = tx.taker,
           CommitMatch, NEW u \in Users
    PROVE  /\ wallets'[u].availableBtc + wallets'[u].reservedBtc
                 = wallets[u].availableBtc + wallets[u].reservedBtc
                     + Visible!SumOver([i \in Buys(t, u) |->
                          Recorded(t)[i].amount - Visible!BtcFee(Recorded(t)[i])], Buys(t, u))
                     - Visible!SumOver([i \in Sells(t, u) |-> Recorded(t)[i].amount], Sells(t, u))
           /\ wallets'[u].availableUsd + wallets'[u].reservedUsd
                 = wallets[u].availableUsd + wallets[u].reservedUsd
                     + Visible!SumOver([i \in Sells(t, u) |->
                          Visible!CostOf(Recorded(t)[i]) - Visible!UsdFee(Recorded(t)[i])], Sells(t, u))
                     - Visible!SumOver([i \in Buys(t, u) |-> Visible!CostOf(Recorded(t)[i])], Buys(t, u))
<1>1. /\ Buys(t, u) = Receiving(u, Recorded(t), "BTC") /\ Buys(t, u) = Paying(u, Recorded(t), "USD")
      /\ Sells(t, u) = Receiving(u, Recorded(t), "USD") /\ Sells(t, u) = Paying(u, Recorded(t), "BTC")
  <2>1. \A i \in DOMAIN Recorded(t) :
           /\ orders[Visible!BuyOrderId(Recorded(t)[i])].userId = Buyer(Recorded(t)[i])
           /\ orders[Visible!SellOrderId(Recorded(t)[i])].userId = Seller(Recorded(t)[i])
    BY SameTrades DEF Buyer, Seller
  <2> QED
    BY <2>1 DEF Receiving, Paying, Buys, Sells
<1>2. wallets' = SeenWallets
  BY DEF CommitMatch
<1>3. \A asset \in Asset :
         Holds(wallets'[u], asset) = Holds(wallets[u], asset)
            + TotalReceived(u, Recorded(t), asset) - TotalPaid(u, Recorded(t), asset)
  BY <1>2, WealthMoved, RecordedDrafted
<1>4. /\ TotalReceived(u, Recorded(t), "BTC")
            = Visible!SumOver([i \in Buys(t, u) |->
                 Recorded(t)[i].amount - Visible!BtcFee(Recorded(t)[i])], Buys(t, u))
      /\ TotalPaid(u, Recorded(t), "BTC")
            = Visible!SumOver([i \in Sells(t, u) |-> Recorded(t)[i].amount], Sells(t, u))
      /\ TotalReceived(u, Recorded(t), "USD")
            = Visible!SumOver([i \in Sells(t, u) |->
                 Visible!CostOf(Recorded(t)[i]) - Visible!UsdFee(Recorded(t)[i])], Sells(t, u))
      /\ TotalPaid(u, Recorded(t), "USD")
            = Visible!SumOver([i \in Buys(t, u) |-> Visible!CostOf(Recorded(t)[i])], Buys(t, u))
  BY <1>1, SameRows, SameTrades DEF TotalReceived, TotalPaid, Received, Paid, FeeIn
<1>5. /\ Holds(wallets'[u], "BTC") = Holds(wallets[u], "BTC")
            + TotalReceived(u, Recorded(t), "BTC") - TotalPaid(u, Recorded(t), "BTC")
      /\ Holds(wallets'[u], "USD") = Holds(wallets[u], "USD")
            + TotalReceived(u, Recorded(t), "USD") - TotalPaid(u, Recorded(t), "USD")
  BY <1>3 DEF Asset
<1> QED
  BY <1>4, <1>5 DEF Holds

\* A commit of a match is an execution of the taker in one step.
LEMMA CommitMatchExecutes ==
    ASSUME Accounted, CoverAgrees, Turns, Explaining, CommitMatch
    PROVE  \E t \in DOMAIN orders : Visible!Execute(t)
<1>1. /\ Locked /\ DraftedMakers /\ Parties /\ Ended
      /\ tx.phase = "settle"
  BY DEF Accounted, Filling, Ended, CommitMatch
<1>t. PICK t : t = tx.taker
  OBVIOUS
<1>2. t \in DOMAIN orders /\ orders[t].status = "QUEUED"
  BY <1>1, <1>t DEF Locked, LockDiscipline, TakerHeld, Taker
<1>3. trades' = trades \o Recorded(t)
  BY <1>1, <1>t, RecordedDrafted DEF CommitMatch
<1>4. orders' = [o \in DOMAIN orders |-> RowAfter(t, o)]
  BY <1>1, <1>t, RowsLeft
<1>5. Wealth(wallets')
         = [u \in Users |->
              [btc |-> Wealth(wallets)[u].btc
                  + Visible!SumOver([i \in Buys(t, u) |->
                       Recorded(t)[i].amount - Visible!BtcFee(Recorded(t)[i])], Buys(t, u))
                  - Visible!SumOver([i \in Sells(t, u) |-> Recorded(t)[i].amount], Sells(t, u)),
               usd |-> Wealth(wallets)[u].usd
                  + Visible!SumOver([i \in Sells(t, u) |->
                       Visible!CostOf(Recorded(t)[i]) - Visible!UsdFee(Recorded(t)[i])],
                       Sells(t, u))
                  - Visible!SumOver([i \in Buys(t, u) |-> Visible!CostOf(Recorded(t)[i])],
                       Buys(t, u))]]
  <2>1. \A u \in Users :
           /\ wallets'[u].availableBtc + wallets'[u].reservedBtc
                 = wallets[u].availableBtc + wallets[u].reservedBtc
                     + Visible!SumOver([i \in Buys(t, u) |->
                          Recorded(t)[i].amount - Visible!BtcFee(Recorded(t)[i])], Buys(t, u))
                     - Visible!SumOver([i \in Sells(t, u) |-> Recorded(t)[i].amount], Sells(t, u))
           /\ wallets'[u].availableUsd + wallets'[u].reservedUsd
                 = wallets[u].availableUsd + wallets[u].reservedUsd
                     + Visible!SumOver([i \in Sells(t, u) |->
                          Visible!CostOf(Recorded(t)[i]) - Visible!UsdFee(Recorded(t)[i])], Sells(t, u))
                     - Visible!SumOver([i \in Buys(t, u) |-> Visible!CostOf(Recorded(t)[i])], Buys(t, u))
    BY <1>1, <1>t, WealthLeft
  <2> QED
    BY ONLY <2>1 DEF Wealth
<1>6. Visible!Execute(t)
  BY ONLY <1>2, <1>3, <1>4, <1>5
     DEF Visible!Execute, Buys, Sells, Recorded, Rank, Served, FillOf, RowAfter,
         Wealth
<1> QED
  BY ONLY <1>2, <1>6

\* What the steps of a match rely on to be one step of the exchange.
Refining == Reserving /\ Accounted /\ CoverAgrees /\ Turns /\ Explaining

LEMMA InitRefining ==
    ASSUME Init
    PROVE  CoverAgrees /\ Turns
<1>1. /\ tx.phase = "idle" /\ tx.makers = <<>>
      /\ DOMAIN draft.orders = {} /\ draft.trades = <<>>
  BY NoDraftedOrders DEF Init, Idle, NoWrites
<1>2. CoverAgrees /\ RemainingIsLeft /\ TurnsTaken
  BY <1>1 DEF CoverAgrees, RemainingIsLeft, TurnsTaken
<1>3. InTurn /\ TradesInTurn
  <2>1. DOMAIN tx.makers = {} /\ DOMAIN draft.trades = {}
    BY <1>1
  <2> QED
    BY <1>1, <2>1 DEF InTurn, TradesInTurn
<1> QED
  BY <1>2, <1>3 DEF Turns

LEMMA AlwaysRefining == Spec => []Refining
<1>1. Init => CoverAgrees /\ Turns
  BY InitRefining
<1>2. Accounted /\ Accounted' /\ CoverAgrees /\ Turns /\ [Next]_vars
         => CoverAgrees' /\ Turns'
  BY NextCovers, NextTurns DEF Accounted
<1>3. Spec => [](CoverAgrees /\ Turns)
  BY <1>1, <1>2, AlwaysAccounted, PTL DEF Spec
<1> QED
  BY <1>3, AlwaysReserving, AlwaysExplaining, PTL DEF Refining

\* Every step of Matching is one step of Exchange, or one that is not seen.
LEMMA NextRefines ==
    ASSUME Refining, [Next]_vars
    PROVE  [Visible!Next]_Visible!vars
<1>1. ASSUME NEW u \in Users, NEW form \in OrderForms, CreateOrder(u, form)
      PROVE  Visible!Next
  <2>1. Visible!Place(u, form)
    BY <1>1, CreateOrderPlaces DEF Refining
  <2> QED
    BY <2>1 DEF Visible!Next
<1>2. ASSUME NEW o \in DOMAIN orders, CommitCancel(o)
      PROVE  Visible!Next
  <2>1. Visible!Cancel(o)
    BY <1>2, CommitCancelCancels DEF Refining
  <2> QED
    BY <2>1 DEF Visible!Next
<1>3. CASE RejectTaker
  <2>1. \E o \in DOMAIN orders : Visible!Refuse(o)
    BY <1>3, RejectTakerRefuses DEF Refining
  <2> QED
    BY <2>1 DEF Visible!Next
<1>4. CASE CommitMatch
  <2>1. \E o \in DOMAIN orders : Visible!Execute(o)
    BY <1>4, CommitMatchExecutes DEF Refining
  <2> QED
    BY <2>1 DEF Visible!Next
<1>5. CASE SettleMaker \/ QuietStep
  <2>1. UNCHANGED <<orders, wallets, trades>>
    BY <1>5 DEF SettleMaker, QuietStep
  <2> QED
    BY <2>1, QuietStepStutters
<1> QED
  BY <1>1, <1>2, <1>3, <1>4, <1>5, StepKinds DEF Refining, Reserving

\* Users see the exchange of Exchange: every match, though it finds, waits for
\* and locks its makers one by one beside cancellations and new orders, is one
\* execution against the book as it is at its commit, in price-time order and at
\* the makers' prices; every order is paid for when it is taken; and wealth moves
\* along the recorded trades only.
THEOREM MatchingImplementsExchange == Spec => ImplementsExchange
<1>1. Init => Visible!Init
  BY InitRefines
<1>2. Refining /\ [Next]_vars => [Visible!Next]_Visible!vars
  BY NextRefines
<1> QED
  BY <1>1, <1>2, AlwaysRefining, PTL DEF Spec, ImplementsExchange, Visible!Spec
=============================================================================
