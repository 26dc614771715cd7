------------------------------ MODULE Matching ------------------------------
(***************************************************************************)
(* The trading core: orders, wallets and trades as PostgreSQL holds them,  *)
(* and the transactions that change them.                                  *)
(*                                                                         *)
(*   - OrdersService.createOrder reserves funds and queues an order;       *)
(*   - OrdersService.cancelOrder locks an order row, then releases funds;  *)
(*   - MatchingService.processOrder matches a queued order against the     *)
(*     book, one maker at a time, and commits everything at once;          *)
(*   - MatchingService.rejectOrderAfterFailedProcessing gives up an order. *)
(*                                                                         *)
(* The last two hold the market's advisory lock, so at most one of them    *)
(* runs at a time: its state is tx, its uncommitted writes are draft.      *)
(* Cancellations run beside it and meet it at the row locks.  Reads are    *)
(* READ COMMITTED: a statement sees what is committed and its own writes.  *)
(* An order's identity is its autoincremented sequence number, its place   *)
(* in orders.                                                              *)
(***************************************************************************)
EXTENDS Rows, Sums, Sequences

VARIABLES
    orders,             \* the orders table, in sequence order
    wallets,            \* the wallets table, by user
    trades,             \* the trades table
    matchingIntents,    \* orders whose matching intent was committed
    realtimeOutbox,     \* the events committed to the realtime outbox
    cancels,            \* order rows locked by a cancellation, with the
                        \* remaining amount it loaded
    tx,                 \* the transaction that holds the market lock
    draft               \* its uncommitted writes

vars == <<orders, wallets, trades, matchingIntents, realtimeOutbox, cancels,
          tx, draft>>

-----------------------------------------------------------------------------
(* Events *)

MarketChanged(reason, orderId) ==
    [type |-> "market.changed", reason |-> reason, orderId |-> orderId]

AccountChanged(reason, orderId, userId) ==
    [type |-> "account.changed", reason |-> reason, orderId |-> orderId,
     userId |-> userId]

MarketChangeReason == {"order-opened", "order-cancelled", "trade-executed"}
AccountChangeReason == MarketChangeReason \cup {"order-created", "order-rejected"}

Event == [type : {"market.changed"}, reason : MarketChangeReason, orderId : Nat]
   \cup [type : {"account.changed"}, reason : AccountChangeReason,
         orderId : Nat, userId : Users]

-----------------------------------------------------------------------------
(* Wallets *)

ReserveFunds(wallet, side, value) ==
    IF side = "BUY"
    THEN [wallet EXCEPT !.availableUsd = @ - value, !.reservedUsd = @ + value]
    ELSE [wallet EXCEPT !.availableBtc = @ - value, !.reservedBtc = @ + value]

ReleaseFunds(wallet, side, value) ==
    IF side = "BUY"
    THEN [wallet EXCEPT !.availableUsd = @ + value, !.reservedUsd = @ - value]
    ELSE [wallet EXCEPT !.availableBtc = @ + value, !.reservedBtc = @ - value]

\* Mutant: the write's predicate names the row only.
WithinBoundsUnchecked(wallet) == TRUE

\* balanceConstraints: the predicate on the live row without which a balance
\* write affects no row.  Every write moves a balance in one direction, so
\* "enough to decrement" and "room to increment" say that the result fits.
WithinBounds(wallet) == wallet \in Wallet

-----------------------------------------------------------------------------
(* The transaction that holds the market lock *)

MatchingPhases == {"select", "lock", "settle"}
Phases == {"idle", "process", "reject"} \cup MatchingPhases

\* A maker as findAndLockEligibleMakers loaded it.
Maker == [id : Nat, remainingAmount : Money]

Transaction == [phase : Phases, taker : Nat, remaining : Money,
                toCover : Money, cursor : Nat, makers : Seq(Maker),
                locks : SUBSET Nat]

Idle == [phase |-> "idle", taker |-> 0, remaining |-> 0, toCover |-> 0,
         cursor |-> 0, makers |-> <<>>, locks |-> {}]

NoWrites == [orders |-> <<>>, wallets |-> <<>>, trades |-> <<>>]

Taker == orders[tx.taker]

\* A table with one row written; a table under a transaction's own writes.
Write(rows, key, row) ==
    [k \in DOMAIN rows \cup {key} |-> IF k = key THEN row ELSE rows[k]]

Overlay(writes, rows) ==
    [k \in DOMAIN rows |-> IF k \in DOMAIN writes THEN writes[k] ELSE rows[k]]

\* The rows as the matching transaction sees them.
SeenOrders == Overlay(draft.orders, orders)
SeenWallets == Overlay(draft.wallets, wallets)

-----------------------------------------------------------------------------
Init ==
    /\ orders = <<>>
    /\ wallets = [u \in Users |->
                    [availableBtc |-> InitialBtc, reservedBtc |-> 0,
                     availableUsd |-> InitialUsd, reservedUsd |-> 0]]
    /\ trades = <<>>
    /\ matchingIntents = {}
    /\ realtimeOutbox = {}
    /\ cancels = <<>>
    /\ tx = Idle
    /\ draft = NoWrites

-----------------------------------------------------------------------------
(* OrdersService *)

\* createOrder: reserve the order's cost (BUY) or amount (SELL), insert it as
\* QUEUED, and store its matching intent and its event, in one transaction.
\* The reservation waits for the wallet's row lock.
CreateOrder(u, form) ==
    LET id == Len(orders) + 1
        wallet == ReserveFunds(wallets[u], form.side,
                               Escrow(form.side, form.amount, form.price))
    IN  /\ Len(orders) < MaxOrders
        /\ IsPositiveOrderCost(form.amount, form.price)
        /\ u \notin DOMAIN draft.wallets
        /\ WithinBounds(wallet)
        /\ wallets' = [wallets EXCEPT ![u] = wallet]
        /\ orders' = Append(orders, QueuedOrder(u, form))
        /\ matchingIntents' = matchingIntents \cup {id}
        /\ realtimeOutbox' = realtimeOutbox
                                \cup {AccountChanged("order-created", id, u)}
        /\ UNCHANGED <<trades, cancels, tx, draft>>

\* Mutant: read the order without locking its row.
LockForCancelUnlocked(o) ==
    /\ Cardinality(DOMAIN cancels) < MaxCancels
    /\ o \notin DOMAIN cancels
    /\ orders[o].status \in ActiveStatuses
    /\ cancels' = Write(cancels, o, orders[o].remainingAmount)
    /\ UNCHANGED <<orders, wallets, trades, matchingIntents, realtimeOutbox,
                   tx, draft>>

\* cancelOrder, up to its wallet update: lock the order row, load it and see
\* that it is still active.
LockForCancel(o) ==
    /\ Cardinality(DOMAIN cancels) < MaxCancels
    /\ o \notin DOMAIN cancels
    /\ o \notin tx.locks
    /\ orders[o].status \in ActiveStatuses
    /\ cancels' = Write(cancels, o, orders[o].remainingAmount)
    /\ UNCHANGED <<orders, wallets, trades, matchingIntents, realtimeOutbox,
                   tx, draft>>

\* Mutant: release what the order was placed for, not what it has left.
WalletAfterCancelInFull(o) ==
    ReleaseFunds(wallets[orders[o].userId], orders[o].side,
                 Escrow(orders[o].side, orders[o].originalAmount,
                        orders[o].price))

\* The wallet row as releaseFunds leaves it for the cancelled order.
WalletAfterCancel(o) ==
    ReleaseFunds(wallets[orders[o].userId], orders[o].side,
                 Escrow(orders[o].side, cancels[o], orders[o].price))

UnlockCancelled(o) == cancels' = [c \in DOMAIN cancels \ {o} |-> cancels[c]]

\* The rest of cancelOrder, from its wallet update (which waits for the row
\* lock) to its commit.
CommitCancel(o) ==
    LET u == orders[o].userId
    IN  /\ o \in DOMAIN cancels
        /\ u \notin DOMAIN draft.wallets
        /\ WithinBounds(WalletAfterCancel(o))
        /\ orders' = [orders EXCEPT ![o].status = "CANCELLED"]
        /\ wallets' = [wallets EXCEPT ![u] = WalletAfterCancel(o)]
        /\ realtimeOutbox' = realtimeOutbox
              \cup {MarketChanged("order-cancelled", o),
                    AccountChanged("order-cancelled", o, u)}
        /\ UnlockCancelled(o)
        /\ UNCHANGED <<trades, matchingIntents, tx, draft>>

\* The released funds would not fit the wallet: the transaction is rolled back.
RefuseCancel(o) ==
    /\ o \in DOMAIN cancels
    /\ orders[o].userId \notin DOMAIN draft.wallets
    /\ ~WithinBounds(WalletAfterCancel(o))
    /\ UnlockCancelled(o)
    /\ UNCHANGED <<orders, wallets, trades, matchingIntents, realtimeOutbox,
                   tx, draft>>

\* A timeout, a lost connection or a crash rolls the cancellation back.
AbortCancel(o) ==
    /\ o \in DOMAIN cancels
    /\ UnlockCancelled(o)
    /\ UNCHANGED <<orders, wallets, trades, matchingIntents, realtimeOutbox,
                   tx, draft>>

-----------------------------------------------------------------------------
(* MatchingService and MatchingOrderBookService *)

\* A throw inside the transaction: its locks and its writes are gone.
Undo ==
    /\ tx' = Idle
    /\ draft' = NoWrites
    /\ UNCHANGED <<orders, wallets, trades, matchingIntents, realtimeOutbox,
                   cancels>>

\* lockMarket, for a job of order o: any order with an intent, any number of
\* times (a job may be delivered again), to process it or to reject it.
LockMarket(o, phase) ==
    /\ tx.phase = "idle"
    /\ o \in matchingIntents
    /\ tx' = [Idle EXCEPT !.phase = phase, !.taker = o]
    /\ UNCHANGED <<orders, wallets, trades, matchingIntents, realtimeOutbox,
                   cancels, draft>>

\* Nothing to do for an order that is no longer QUEUED.
SkipProcessed ==
    /\ tx.phase \in {"process", "reject"}
    /\ tx.taker \notin DOMAIN cancels
    /\ Taker.status # "QUEUED"
    /\ tx' = Idle
    /\ UNCHANGED <<orders, wallets, trades, matchingIntents, realtimeOutbox,
                   cancels, draft>>

\* lockAndLoadOrder of the taker, which waits for a cancellation of it.
LockTaker ==
    /\ tx.phase = "process"
    /\ tx.taker \notin DOMAIN cancels
    /\ Taker.status = "QUEUED"
    /\ tx' = [tx EXCEPT !.phase = "select",
                        !.remaining = Taker.remainingAmount,
                        !.toCover = Taker.remainingAmount,
                        !.locks = {tx.taker}]
    /\ UNCHANGED <<orders, wallets, trades, matchingIntents, realtimeOutbox,
                   cancels, draft>>

WalletAfterRejection ==
    ReleaseFunds(wallets[Taker.userId], Taker.side,
                 Escrow(Taker.side, Taker.remainingAmount, Taker.price))

\* rejectOrderAfterFailedProcessing of a QUEUED order, after its row lock.
RejectTaker ==
    LET u == Taker.userId
    IN  /\ tx.phase = "reject"
        /\ tx.taker \notin DOMAIN cancels
        /\ Taker.status = "QUEUED"
        /\ WithinBounds(WalletAfterRejection)
        /\ orders' = [orders EXCEPT ![tx.taker].status = "REJECTED"]
        /\ wallets' = [wallets EXCEPT ![u] = WalletAfterRejection]
        /\ realtimeOutbox' = realtimeOutbox
                          \cup {AccountChanged("order-rejected", tx.taker, u)}
        /\ tx' = Idle
        /\ UNCHANGED <<trades, matchingIntents, cancels, draft>>

\* The committed rows that findNextCandidate's query can return.
Candidates ==
    {m \in DOMAIN orders :
        /\ Opposes(Taker, orders[m])
        /\ orders[m].status \in BookStatuses
        /\ tx.cursor # 0 => Ahead(orders, Taker.side, tx.cursor, m)}

\* findNextCandidate: its first row in priority order becomes the cursor.
FindCandidate ==
    /\ tx.phase = "select"
    /\ tx.toCover > 0
    /\ \E c \in Candidates :
          /\ \A m \in Candidates \ {c} : Ahead(orders, Taker.side, c, m)
          /\ tx' = [tx EXCEPT !.phase = "lock", !.cursor = c]
    /\ UNCHANGED <<orders, wallets, trades, matchingIntents, realtimeOutbox,
                   cancels, draft>>

\* Mutant: count a dust maker as cover for the taker.
CoverOfAny(amount, price) == amount

\* How much of the taker a maker covers: settlement will skip dust.
Cover(amount, price) == IF MultiplyScaled(amount, price) > 0 THEN amount ELSE 0

\* Mutant: trust the candidate as it was before the wait for its lock.
LockCandidateUnchecked ==
    LET maker == orders[tx.cursor]
        amount == Lesser(tx.toCover, maker.remainingAmount)
    IN  /\ tx.phase = "lock"
        /\ tx.cursor \notin DOMAIN cancels
        /\ tx' = [tx EXCEPT
                    !.phase = "select",
                    !.locks = @ \cup {tx.cursor},
                    !.makers = Append(@, [id |-> tx.cursor,
                                 remainingAmount |-> maker.remainingAmount]),
                    !.toCover = @ - Cover(amount, maker.price)]
        /\ UNCHANGED <<orders, wallets, trades, matchingIntents,
                       realtimeOutbox, cancels, draft>>

\* Mutant: lock each maker's wallet with its order.
LockCandidateAndWallet ==
    LET maker == orders[tx.cursor]
        amount == Lesser(tx.toCover, maker.remainingAmount)
        u == maker.userId
    IN  /\ tx.phase = "lock"
        /\ tx.cursor \notin DOMAIN cancels
        /\ IsEligibleMaker(Taker, maker)
        /\ tx' = [tx EXCEPT
                    !.phase = "select",
                    !.locks = @ \cup {tx.cursor},
                    !.makers = Append(@, [id |-> tx.cursor,
                                 remainingAmount |-> maker.remainingAmount]),
                    !.toCover = @ - Cover(amount, maker.price)]
        /\ draft' = [draft EXCEPT !.wallets = Write(@, u, wallets[u])]
        /\ UNCHANGED <<orders, wallets, trades, matchingIntents,
                       realtimeOutbox, cancels>>

\* The candidate's FOR UPDATE lock, which waits for a cancellation of it, and
\* the second look at the row: the cursor moved on, whatever the row has become.
LockCandidate ==
    LET maker == orders[tx.cursor]
        amount == Lesser(tx.toCover, maker.remainingAmount)
    IN  /\ tx.phase = "lock"
        /\ tx.cursor \notin DOMAIN cancels
        /\ tx' = IF IsEligibleMaker(Taker, maker)
                 THEN [tx EXCEPT
                        !.phase = "select",
                        !.locks = @ \cup {tx.cursor},
                        !.makers = Append(@, [id |-> tx.cursor,
                                 remainingAmount |-> maker.remainingAmount]),
                        !.toCover = @ - Cover(amount, maker.price)]
                 ELSE [tx EXCEPT !.phase = "select",
                                 !.locks = @ \cup {tx.cursor}]
        /\ UNCHANGED <<orders, wallets, trades, matchingIntents,
                       realtimeOutbox, cancels, draft>>

\* The book has no more to offer, or the taker is covered.
EndSelection ==
    /\ tx.phase = "select"
    /\ tx.toCover = 0 \/ Candidates = {}
    /\ tx' = [tx EXCEPT !.phase = "settle"]
    /\ UNCHANGED <<orders, wallets, trades, matchingIntents, realtimeOutbox,
                   cancels, draft>>

-----------------------------------------------------------------------------
(* TradeSettlementService, for the maker at the head of tx.makers *)

Settling == tx.phase = "settle" /\ tx.makers # <<>> /\ tx.remaining > 0

NextMaker == Head(tx.makers)

TradePrice == orders[NextMaker.id].price

TradeAmount == Lesser(tx.remaining, NextMaker.remainingAmount)

ExecutedCost == MultiplyScaled(TradeAmount, TradePrice)

\* The trade.create of this turn, with its fees.
NextTrade ==
    TradeRow(NextMaker.id, tx.taker, Taker.side, TradePrice, TradeAmount)

\* What the BUY order of the trade gives up of its reservation.
ReservedCost ==
    IF Taker.side = "BUY"
    THEN BuyReservationDebit(tx.remaining, Taker.price, TradeAmount)
    ELSE BuyReservationDebit(NextMaker.remainingAmount, TradePrice, TradeAmount)

\* Price improvement and rounding surplus go back to the buyer.
Refund == ReservedCost - ExecutedCost

\* Mutant: the buyer's price improvement is forgotten.
WalletAfterBuyingUnrefunded(wallet, feeAmount) ==
    [wallet EXCEPT !.reservedUsd = @ - ReservedCost,
                   !.availableBtc = @ + (TradeAmount - feeAmount)]

WalletAfterBuying(wallet, feeAmount) ==
    [wallet EXCEPT !.reservedUsd = @ - ReservedCost,
                   !.availableUsd = IF Refund > 0 THEN @ + Refund ELSE @,
                   !.availableBtc = @ + (TradeAmount - feeAmount)]

WalletAfterSelling(wallet, feeAmount) ==
    [wallet EXCEPT !.reservedBtc = @ - TradeAmount,
                   !.availableUsd = @ + (ExecutedCost - feeAmount)]

\* Mutant: the taker's wallet as it was before the match, for every maker.
TakerWalletStale ==
    IF Taker.side = "BUY"
    THEN WalletAfterBuying(wallets[Taker.userId], NextTrade.takerFeeAmount)
    ELSE WalletAfterSelling(wallets[Taker.userId], NextTrade.takerFeeAmount)

TakerWallet ==
    IF Taker.side = "BUY"
    THEN WalletAfterBuying(SeenWallets[Taker.userId], NextTrade.takerFeeAmount)
    ELSE WalletAfterSelling(SeenWallets[Taker.userId], NextTrade.takerFeeAmount)

MakerWallet ==
    LET u == orders[NextMaker.id].userId
    IN  IF Taker.side = "BUY"
        THEN WalletAfterSelling(SeenWallets[u], NextTrade.makerFeeAmount)
        ELSE WalletAfterBuying(SeenWallets[u], NextTrade.makerFeeAmount)

\* updateBalances refuses a change that does not fit a wallet, and for a BUY
\* taker a negative price improvement (for a SELL taker it is dropped).
BalancesAccepted ==
    /\ Taker.side = "BUY" => Refund >= 0
    /\ WithinBounds(TakerWallet)
    /\ WithinBounds(MakerWallet)

\* The maker row with what this trade leaves of it.
MakerAfterTrade ==
    AfterTrades(orders[NextMaker.id],
                NextMaker.remainingAmount - TradeAmount, TRUE)

\* Mutant: the loop meets the same dust maker again.
SkipDustForever ==
    /\ Settling
    /\ ExecutedCost = 0
    /\ UNCHANGED vars

\* A fragment worth less than one USD unit stays on the book.
SkipDust ==
    /\ Settling
    /\ ExecutedCost = 0
    /\ tx' = [tx EXCEPT !.makers = Tail(@)]
    /\ UNCHANGED <<orders, wallets, trades, matchingIntents, realtimeOutbox,
                   cancels, draft>>

\* One turn of processOrder's loop: lock both wallets, move the balances,
\* record the trade, update the maker.
SettleMaker ==
    LET makerUser == orders[NextMaker.id].userId
    IN  /\ Settling
        /\ ExecutedCost > 0
        /\ BalancesAccepted
        /\ draft' = [orders |-> Write(draft.orders, NextMaker.id,
                                      MakerAfterTrade),
                     wallets |-> Write(Write(draft.wallets, Taker.userId,
                                             TakerWallet),
                                       makerUser, MakerWallet),
                     trades |-> Append(draft.trades, NextTrade)]
        /\ tx' = [tx EXCEPT !.remaining = @ - TradeAmount, !.makers = Tail(@)]
        /\ UNCHANGED <<orders, wallets, trades, matchingIntents,
                       realtimeOutbox, cancels>>

\* Mutant: only the taker is told.
AffectedTakerOnly == {Taker.userId}

\* affectedUserIds: the taker's user and every maker's whose wallet was locked.
AffectedUserIds == DOMAIN draft.wallets \cup {Taker.userId}

\* The end of processOrder: the taker's row, the events, the commit.
CommitMatch ==
    LET matched == draft.trades # <<>>
        reason == IF matched THEN "trade-executed" ELSE "order-opened"
    IN  /\ tx.phase = "settle"
        /\ tx.makers = <<>> \/ tx.remaining = 0
        /\ orders' = [SeenOrders EXCEPT
                        ![tx.taker] = AfterTrades(@, tx.remaining, matched)]
        /\ wallets' = SeenWallets
        /\ trades' = trades \o draft.trades
        /\ realtimeOutbox' = realtimeOutbox
              \cup {MarketChanged(reason, tx.taker)}
              \cup {AccountChanged(reason, tx.taker, u) : u \in AffectedUserIds}
        /\ tx' = Idle
        /\ draft' = NoWrites
        /\ UNCHANGED <<matchingIntents, cancels>>

\* A balance write is refused, so processOrder or the rejection throws.
RefuseSettlement ==
    /\ Settling
    /\ ExecutedCost > 0
    /\ ~BalancesAccepted
    /\ Undo

RefuseRejection ==
    /\ tx.phase = "reject"
    /\ tx.taker \notin DOMAIN cancels
    /\ Taker.status = "QUEUED"
    /\ ~WithinBounds(WalletAfterRejection)
    /\ Undo

\* A transaction timeout, a lost connection or a crash rolls everything back.
Rollback ==
    /\ tx.phase # "idle"
    /\ Undo

-----------------------------------------------------------------------------
\* The steps of the transaction that wait for a row lock, and the others.
LockingStep == \/ SkipProcessed \/ LockTaker \/ LockCandidate
               \/ RejectTaker \/ RefuseRejection
LocalStep == \/ FindCandidate \/ EndSelection \/ SkipDust \/ SettleMaker
             \/ CommitMatch \/ RefuseSettlement

FinishCancel(o) == CommitCancel(o) \/ RefuseCancel(o)

Next ==
    \/ \E u \in Users, form \in OrderForms : CreateOrder(u, form)
    \/ \E o \in DOMAIN orders : LockForCancel(o)
    \/ \E o \in DOMAIN orders : CommitCancel(o)
    \/ \E o \in DOMAIN orders : RefuseCancel(o)
    \/ \E o \in DOMAIN orders : AbortCancel(o)
    \/ \E o \in DOMAIN orders : LockMarket(o, "process")
    \/ \E o \in DOMAIN orders : LockMarket(o, "reject")
    \/ SkipProcessed
    \/ LockTaker
    \/ RejectTaker
    \/ FindCandidate
    \/ LockCandidate
    \/ EndSelection
    \/ SkipDust
    \/ SettleMaker
    \/ CommitMatch
    \/ RefuseSettlement
    \/ RefuseRejection
    \/ Rollback

Spec == Init /\ [][Next]_vars

\* PostgreSQL grants a contended row lock in the order of the requests, so a
\* step that waits for one is not overtaken for ever (SF); the others run as
\* soon as their await resolves (WF).  No fairness makes a transaction fail.
Fairness ==
    /\ SF_vars(LockingStep)
    /\ WF_vars(LocalStep)
    /\ \A o \in 1..MaxOrders : WF_vars(o \in DOMAIN orders /\ FinishCancel(o))

FairSpec == Spec /\ Fairness

-----------------------------------------------------------------------------
(* Properties *)

\* The tables hold rows their columns allow, and the transactions in progress
\* hold what the code's variables can.
TypeOK ==
    /\ orders \in Seq(Order)
    /\ wallets \in [Users -> Wallet]
    /\ trades \in Seq(Trade)
    /\ matchingIntents \subseteq DOMAIN orders
    /\ realtimeOutbox \subseteq Event
    /\ DOMAIN cancels \subseteq DOMAIN orders
    /\ \A o \in DOMAIN cancels : cancels[o] \in Money
    /\ tx \in Transaction
    /\ DOMAIN draft.orders \subseteq DOMAIN orders
    /\ \A o \in DOMAIN draft.orders : draft.orders[o] \in Order
    /\ DOMAIN draft.wallets \subseteq Users
    /\ \A u \in DOMAIN draft.wallets : draft.wallets[u] \in Wallet
    /\ draft.trades \in Seq(Trade)

\* What the order keeps reserved in u's wallet on the given side.
EscrowFor(order, u, side) ==
    IF /\ order.userId = u
       /\ order.side = side
       /\ order.status \in ActiveStatuses
    THEN Escrow(side, order.remainingAmount, order.price)
    ELSE 0

\* All that a table's orders keep reserved there.
Reserved(table, u, side) ==
    SumOver([o \in DOMAIN table |-> EscrowFor(table[o], u, side)], DOMAIN table)

\* The reserved balances are, to the unit, what the active orders of a table
\* need: no reservation leaks when an order is filled at a better price, in
\* fragments with rounding, cancelled or rejected, and none is spent twice.
Backed(table, funds) ==
    \A u \in Users : /\ funds[u].reservedUsd = Reserved(table, u, "BUY")
                     /\ funds[u].reservedBtc = Reserved(table, u, "SELL")

\* docs/monetary-invariants.md's reservation rule, of the committed tables.
ReservationsExact == Backed(orders, wallets)

\* The orders as they would be if the matching transaction committed now.
PendingOrders ==
    [o \in DOMAIN orders |->
        IF o = tx.taker THEN [orders[o] EXCEPT !.remainingAmount = tx.remaining]
                        ELSE SeenOrders[o]]

\* Between any two makers a matching transaction has settled exactly the
\* reservations of the trades it has drafted, whatever other users committed
\* meanwhile: it could stop there and commit.
DraftBacked == tx.phase = "settle" => Backed(PendingOrders, SeenWallets)

\* The row a cancellation has loaded is still as it was, and is not locked by
\* the matching transaction too.
CancelsHeld ==
    /\ DOMAIN cancels \cap tx.locks = {}
    /\ \A o \in DOMAIN cancels : /\ orders[o].status \in ActiveStatuses
                                 /\ cancels[o] = orders[o].remainingAmount

\* So is the taker's, once it is locked.
TakerHeld ==
    /\ tx.phase # "idle" => tx.taker \in DOMAIN orders
    /\ tx.phase \in MatchingPhases =>
          /\ tx.taker \in tx.locks
          /\ Taker.status = "QUEUED"
          /\ tx.remaining <= Taker.remainingAmount
          /\ tx.phase # "settle" => tx.remaining = Taker.remainingAmount

\* The cursor is the candidate found last.
CursorHeld ==
    /\ tx.locks \subseteq DOMAIN orders
    /\ tx.phase \notin MatchingPhases =>
          tx.locks = {} /\ tx.makers = <<>> /\ tx.cursor = 0
    /\ IF tx.cursor = 0 THEN tx.makers = <<>> ELSE tx.cursor \in DOMAIN orders
    /\ tx.phase = "lock" =>
          tx.cursor # 0 /\ Opposes(Taker, orders[tx.cursor])

\* The makers still to be settled are locked, unsettled, still eligible and as
\* the transaction loaded them; each was found once, none is past the cursor.
MakersHeld ==
    /\ \A i \in DOMAIN tx.makers :
          LET id == tx.makers[i].id
          IN  /\ id \in tx.locks
              /\ id \notin DOMAIN draft.orders
              /\ IsEligibleMaker(Taker, orders[id])
              /\ tx.makers[i].remainingAmount = orders[id].remainingAmount
              /\ tx.phase = "lock" => Ahead(orders, Taker.side, id, tx.cursor)
              /\ tx.phase = "select" =>
                    \/ id = tx.cursor
                    \/ Ahead(orders, Taker.side, id, tx.cursor)
    /\ \A i, j \in DOMAIN tx.makers :
          tx.makers[i].id = tx.makers[j].id => i = j

\* Before settlement nothing is written; then only locked makers are, and only
\* in what a trade changes.
DraftHeld ==
    /\ tx.phase # "settle" => draft = NoWrites
    /\ \A o \in DOMAIN draft.orders :
          /\ o \in tx.locks \ {tx.taker}
          /\ draft.orders[o] = AfterTrades(orders[o],
                                  draft.orders[o].remainingAmount, TRUE)

\* What the row locks are for: while a transaction holds one, the row stays as
\* the transaction loaded it.  Cancellations and the matching transaction never
\* hold the same row, and every row and decision that the matching transaction
\* remembers still agrees with the committed tables.
LockDiscipline ==
    CancelsHeld /\ TakerHeld /\ CursorHeld /\ MakersHeld /\ DraftHeld

\* Who waits for whom: the matching transaction for an order row that the
\* cancellation of o holds; that cancellation for a wallet row that the matching
\* transaction has written.
MatchWaitsFor(o) ==
    /\ o \in DOMAIN cancels
    /\ \/ tx.phase \in {"process", "reject"} /\ o = tx.taker
       \/ tx.phase = "lock" /\ o = tx.cursor

WaitsForMatch(o) ==
    /\ o \in DOMAIN cancels
    /\ orders[o].userId \in DOMAIN draft.wallets

\* Nobody waits in a circle, though a user cancels one order while another of
\* his is being traded: "Select the required order locks before settlement
\* acquires wallet locks" (matching-order-book.service.ts).  Whoever has a wallet
\* that others wait for waits for nobody.
NoWaitCycle ==
    \A o \in DOMAIN cancels :
        MatchWaitsFor(o) => \A c \in DOMAIN cancels : ~WaitsForMatch(c)

\* No money appears or disappears: balances and the fees kept add up to what
\* the wallets started with, whatever was matched, cancelled or rolled back.
Conservation ==
    LET start == Cardinality(Users)
    IN  /\ SumOver([u \in Users |->
                       wallets[u].availableBtc + wallets[u].reservedBtc], Users)
            + SumOver([i \in DOMAIN trades |-> BtcFee(trades[i])],
                      DOMAIN trades) = start * InitialBtc
        /\ SumOver([u \in Users |->
                       wallets[u].availableUsd + wallets[u].reservedUsd], Users)
            + SumOver([i \in DOMAIN trades |-> UsdFee(trades[i])],
                      DOMAIN trades) = start * InitialUsd

\* Every order's missing amount is recorded as trades, and its status agrees
\* with the orders_status_remaining_amount_consistency constraint.
QuantitiesMatchTrades ==
    \A o \in DOMAIN orders :
        LET mine == {i \in DOMAIN trades :
                        o \in {trades[i].makerOrderId, trades[i].takerOrderId}}
            traded == SumOver([i \in mine |-> trades[i].amount], mine)
        IN  /\ orders[o].remainingAmount + traded = orders[o].originalAmount
            /\ orders[o].status \in {"QUEUED", "OPEN", "REJECTED"}
                  => traded = 0
            /\ orders[o].status = "PARTIALLY_FILLED"
                  => traded > 0 /\ orders[o].remainingAmount > 0
            /\ (orders[o].status = "FILLED") = (orders[o].remainingAmount = 0)

\* The book never rests crossed: two users' orders that could trade at the
\* seller's price for at least one unit of USD are never both on it, although
\* orders are matched in any order, with makers cancelled meanwhile and dust
\* skipped over.
NoExecutableCross ==
    \A b, s \in DOMAIN orders :
        /\ orders[b].side = "BUY" /\ orders[b].status \in BookStatuses
        /\ orders[s].side = "SELL" /\ orders[s].status \in BookStatuses
        /\ orders[b].userId # orders[s].userId
        /\ orders[b].price >= orders[s].price
        => MultiplyScaled(Lesser(orders[b].remainingAmount,
                                 orders[s].remainingAmount),
                          orders[s].price) = 0

\* A balance update of a settlement, a cancellation or a rejection is refused
\* only for want of room in an available balance: reserved funds never fall
\* short, and a price improvement is never negative.
RefusedOnlyAtCapacity ==
    LET Covers(wallet) == wallet.reservedBtc >= 0 /\ wallet.reservedUsd >= 0
    IN  /\ Settling /\ ExecutedCost > 0
              => Refund >= 0 /\ Covers(TakerWallet) /\ Covers(MakerWallet)
        /\ \A o \in DOMAIN cancels : Covers(WalletAfterCancel(o))
        /\ tx.phase = "reject" /\ Taker.status = "QUEUED"
              => Covers(WalletAfterRejection)

\* What a client shows of an account and of the market.
AccountOf(u) ==
    <<wallets[u],
      {<<o, orders[o]>> : o \in {x \in DOMAIN orders : orders[x].userId = u}}>>

MarketView ==
    <<trades, {<<o, orders[o].remainingAmount>> :
                  o \in {x \in DOMAIN orders : orders[x].status \in BookStatuses}}>>

\* A client that refetches on events never shows a stale account or book: a
\* step that changes a user's balances or orders commits an account.changed
\* for that user with it, and one that changes the market a market.changed.
EveryChangeAnnounced ==
    [][LET news == realtimeOutbox' \ realtimeOutbox
       IN  /\ \A u \in Users : AccountOf(u)' # AccountOf(u) =>
                 \E e \in news : e.type = "account.changed" /\ e.userId = u
           /\ MarketView' # MarketView =>
                 \E e \in news : e.type = "market.changed"]_vars

\* The exchange its users see: every execution is atomic and in price-time
\* priority of the book at its commit, though its makers were found, waited
\* for and locked one by one while others cancelled.
Visible == INSTANCE Exchange WITH
    wealth <- [u \in Users |->
                 [btc |-> wallets[u].availableBtc + wallets[u].reservedBtc,
                  usd |-> wallets[u].availableUsd + wallets[u].reservedUsd]]

ImplementsExchange == Visible!Spec

\* The transaction that took the market lock ends, one way or the other: the
\* cursor visits each candidate at most once, a skipped maker is passed over,
\* and no cycle of row locks blocks it against the cancellations.
MarketLockReleased == tx.phase # "idle" ~> tx.phase = "idle"
=============================================================================
