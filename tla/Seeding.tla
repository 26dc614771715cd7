------------------------------- MODULE Seeding -------------------------------
(***************************************************************************)
(* The seed script, on a system that may be in use: it deletes all users,  *)
(* whose cascade takes everything else, inserts its own rows one by one,   *)
(* and enqueues its queued orders itself, past the matching outbox.        *)
(*                                                                         *)
(* Meanwhile somebody may log in under a name of its users, and workers    *)
(* run jobs of an earlier seeding, whose ids are the same.                 *)
(***************************************************************************)
EXTENDS Integers, Sequences, FiniteSetsExt

\* Amounts are in units of 0.00001 BTC, USD in units of 0.001, prices in USD.
Btc(n) == n * 100000
Usd(n) == n * 1000
Cost(amount, price) == (amount * price) \div 100

W(user, availableBtc, reservedBtc, availableUsd, reservedUsd) ==
    [user |-> user, availableBtc |-> availableBtc, reservedBtc |-> reservedBtc,
     availableUsd |-> availableUsd, reservedUsd |-> reservedUsd]

SeedUsers ==
    << W("seller 1", 9960000, 40000, Usd(100000), 0),
       W("seller 2", 9970000, 30000, Usd(100000), 0),
       W("buyer 1", Btc(100), 0, Usd(95600), Usd(4400)),
       W("queue buyer", Btc(100), 0, Usd(90000), Usd(10000)),
       W("queue seller", 9940000, 60000, Usd(100000), 0),
       W("history seller", Btc(99), 25000, 107537125, 0),
       W("history buyer", 10074775, 0, Usd(92425), 0) >>

\* Mutant: all that was ordered remains.
OUnfilled(user, side, status, price, original, remaining) ==
    [user |-> user, side |-> side, status |-> status, price |-> price,
     originalAmount |-> original, remainingAmount |-> original]

O(user, side, status, price, original, remaining) ==
    [user |-> user, side |-> side, status |-> status, price |-> price,
     originalAmount |-> original, remainingAmount |-> remaining]

\* An order is known by its user: each has one.
SeedOrders ==
    << O("seller 1", "SELL", "OPEN", 9000, 40000, 40000),
       O("seller 2", "SELL", "OPEN", 9500, 30000, 30000),
       O("buyer 1", "BUY", "OPEN", 8800, 50000, 50000),
       O("queue buyer", "BUY", "QUEUED", 10000, Btc(1), Btc(1)),
       O("queue seller", "SELL", "QUEUED", 8700, 60000, 60000),
       O("history seller", "SELL", "PARTIALLY_FILLED", 10100, Btc(1), 25000),
       O("history buyer", "BUY", "FILLED", 10200, 75000, 0) >>

SeedTrade == [maker |-> "history seller", taker |-> "history buyer",
              price |-> 10100, amount |-> 75000,
              makerFeeAmount |-> 37875, takerFeeAmount |-> 225]

QueuedSeeds == <<"queue buyer", "queue seller">>

Users == {SeedUsers[i].user : i \in DOMAIN SeedUsers}

VARIABLES
    step,           \* the function of the script that runs, ...
    n,              \* ... and the number of its next row or job
    outcome,        \* of the last run: it ended, without the queue or at all
    users, orders, trades,      \* the seed's rows; of the orders, the status
    taken,          \* names of seed users that somebody else opened
    found,          \* the queued orders for which getJob found a job
    jobs,           \* the jobs of the queued orders
    spent           \* history: the orders whose job used up its attempts since
                    \* the script last added one

vars == <<step, n, outcome, users, orders, trades, taken, found, jobs, spent>>

script == <<step, n, outcome, found>>
rows == <<users, orders, trades>>
queue == <<jobs, spent>>

Init ==
    /\ step = "none" /\ n = 1 /\ outcome = "none"
    /\ users = {} /\ trades = {} /\ taken = {} /\ found = {}
    /\ orders = [u \in Users |-> "none"]
    /\ jobs = [o \in Range(QueuedSeeds) |-> "none"]
    /\ spent = {}

-----------------------------------------------------------------------------
(* The script *)

\* The loop over the rows or jobs of a step, and the step after it.
Advance(size, next) ==
    /\ step' = IF n < size THEN step ELSE next
    /\ n' = IF n < size THEN n + 1 ELSE 1

End(result) == step' = "none" /\ n' = 1 /\ outcome' = result

Begin ==
    /\ step = "none"
    /\ step' = "reset" /\ outcome' = "running" /\ found' = {}
    /\ UNCHANGED <<n, rows, taken, queue>>

ResetDatabase ==
    /\ step = "reset"
    /\ users' = {} /\ trades' = {} /\ taken' = {}
    /\ orders' = [u \in Users |-> "none"]
    /\ step' = "users"
    /\ UNCHANGED <<n, outcome, found, queue>>

CreateSeedUser ==
    /\ step = "users"
    /\ LET u == SeedUsers[n].user
       IN  u \notin taken /\ users' = users \cup {u}
    /\ Advance(Len(SeedUsers), "orders")
    /\ UNCHANGED <<outcome, found, orders, trades, taken, queue>>

CreateSeedOrder ==
    /\ step = "orders"
    /\ orders' = [orders EXCEPT ![SeedOrders[n].user] = SeedOrders[n].status]
    /\ Advance(Len(SeedOrders), "trade")
    /\ UNCHANGED <<outcome, found, users, trades, taken, queue>>

CreateSeedTrade ==
    /\ step = "trade"
    /\ trades' = {SeedTrade}
    /\ step' = "probe"
    /\ UNCHANGED <<n, outcome, found, users, orders, taken, queue>>

\* A statement fails, such as the insertion of a name that is taken.
DatabaseFails ==
    /\ step \in {"reset", "users", "orders", "trade"}
    /\ End("failed")
    /\ UNCHANGED <<found, rows, taken, queue>>

Probe ==
    /\ step = "probe"
    /\ step' = "find"
    /\ UNCHANGED <<n, outcome, found, rows, taken, queue>>

FindJob ==
    /\ step = "find"
    /\ found' = IF jobs[QueuedSeeds[n]] = "none" THEN found
                ELSE found \cup {QueuedSeeds[n]}
    /\ Advance(Len(QueuedSeeds), "remove")
    /\ UNCHANGED <<outcome, rows, taken, queue>>

\* Mutant: the jobs of earlier seedings stay.
LeaveJob ==
    /\ step = "remove"
    /\ jobs' = jobs
    /\ Advance(Len(QueuedSeeds), "add")
    /\ UNCHANGED <<outcome, found, rows, taken, spent>>

\* A job that a worker runs cannot be removed: QueueFails.
RemoveJob ==
    /\ step = "remove"
    /\ LET o == QueuedSeeds[n]
       IN  IF o \in found
           THEN jobs[o] # "active" /\ jobs' = [jobs EXCEPT ![o] = "none"]
           ELSE jobs' = jobs
    /\ Advance(Len(QueuedSeeds), "add")
    /\ UNCHANGED <<outcome, found, rows, taken, spent>>

AddJob ==
    /\ step = "add"
    /\ LET o == QueuedSeeds[n]
       IN  /\ jobs' = IF jobs[o] = "none" THEN [jobs EXCEPT ![o] = "waiting"]
                                          ELSE jobs
           /\ spent' = spent \ {o}
    /\ IF n < Len(QueuedSeeds) THEN n' = n + 1 /\ UNCHANGED <<step, outcome>>
                               ELSE End("seeded")
    /\ UNCHANGED <<found, rows, taken>>

\* Redis does not answer, to the probe or to a command, or a removal is
\* refused: a warning, and the script ends well.
QueueFails ==
    /\ step \in {"probe", "find", "remove", "add"}
    /\ End("skipped")
    /\ UNCHANGED <<found, rows, taken, queue>>

-----------------------------------------------------------------------------
(* Everybody else *)

\* A login opens an account under a name of the seed.
LoginAs(u) ==
    /\ u \notin users \cup taken
    /\ taken' = taken \cup {u}
    /\ UNCHANGED <<script, rows, queue>>

\* The queue's global concurrency is 1, whatever the number of workers.
TakeJob(o) ==
    /\ jobs[o] = "waiting"
    /\ \A p \in DOMAIN jobs : jobs[p] # "active"
    /\ jobs' = [jobs EXCEPT ![o] = "active"]
    /\ UNCHANGED <<script, rows, taken, spent>>

\* processOrder, or the rejection after the last attempt, deals with the order.
SettleOrder(o) ==
    /\ jobs[o] = "active" /\ orders[o] = "QUEUED"
    /\ orders' = [orders EXCEPT ![o] = "settled"]
    /\ jobs' = [jobs EXCEPT ![o] = "completed"]
    /\ UNCHANGED <<script, users, trades, taken, spent>>

\* The order is not queued any more, or not there: then its last attempt throws,
\* and the rejection finds nothing to reject.
SkipOrder(o) ==
    /\ jobs[o] = "active" /\ orders[o] # "QUEUED"
    /\ jobs' = [jobs EXCEPT ![o] = "completed"]
    /\ UNCHANGED <<script, rows, taken, spent>>

\* An attempt throws, and another follows.
RetryJob(o) ==
    /\ jobs[o] = "active"
    /\ jobs' = [jobs EXCEPT ![o] = "waiting"]
    /\ UNCHANGED <<script, rows, taken, spent>>

\* The last attempt throws, and so does the rejection of the order; or the job
\* stalled once too often.
JobFails(o) ==
    /\ jobs[o] = "active"
    /\ jobs' = [jobs EXCEPT ![o] = "failed"]
    /\ spent' = spent \cup {o}
    /\ UNCHANGED <<script, rows, taken>>

\* removeOnComplete and removeOnFail: other jobs of the queue end, and this one
\* is no more among the last hundred.
ForgetJob(o) ==
    /\ jobs[o] \in {"completed", "failed"}
    /\ jobs' = [jobs EXCEPT ![o] = "none"]
    /\ UNCHANGED <<script, rows, taken, spent>>

-----------------------------------------------------------------------------
Next ==
    \/ Begin
    \/ ResetDatabase
    \/ CreateSeedUser
    \/ CreateSeedOrder
    \/ CreateSeedTrade
    \/ DatabaseFails
    \/ Probe
    \/ FindJob
    \/ RemoveJob
    \/ AddJob
    \/ QueueFails
    \/ \E u \in Users : LoginAs(u)
    \/ \E o \in DOMAIN jobs : TakeJob(o)
    \/ \E o \in DOMAIN jobs : SettleOrder(o)
    \/ \E o \in DOMAIN jobs : SkipOrder(o)
    \/ \E o \in DOMAIN jobs : RetryJob(o)
    \/ \E o \in DOMAIN jobs : JobFails(o)
    \/ \E o \in DOMAIN jobs : ForgetJob(o)

Spec == Init /\ [][Next]_vars

-----------------------------------------------------------------------------
(* Properties *)

Active(order) == order.status \in {"QUEUED", "OPEN", "PARTIALLY_FILLED"}

Escrow(order) ==
    IF ~Active(order) THEN 0
    ELSE IF order.side = "SELL" THEN order.remainingAmount
    ELSE Cost(order.remainingAmount, order.price)

Escrows(u, side) ==
    MapThenSumSet(Escrow, {o \in Range(SeedOrders) :
                             o.user = u /\ o.side = side /\ orders[u] # "none"})

TotalBtc == MapThenSumSet(LAMBDA w : w.availableBtc + w.reservedBtc,
                          Range(SeedUsers))
TotalUsd == MapThenSumSet(LAMBDA w : w.availableUsd + w.reservedUsd,
                          Range(SeedUsers))

\* docs/monetary-invariants.md's invariants of the state that the script leaves:
\* what a wallet reserves is the escrow of its active orders, the balances add
\* up to the initial ones less the trade's fees, which are those of its cost
\* and its amount, and no seller of the book asks less than a buyer offers.
SeededStateBalances ==
    outcome \in {"seeded", "skipped"} =>
        /\ \A w \in Range(SeedUsers) :
              /\ w.reservedBtc = Escrows(w.user, "SELL")
              /\ w.reservedUsd = Escrows(w.user, "BUY")
        /\ \A t \in trades :
              /\ TotalBtc = Len(SeedUsers) * Btc(100) - t.takerFeeAmount
              /\ TotalUsd = Len(SeedUsers) * Usd(100000) - t.makerFeeAmount
              /\ t.makerFeeAmount = (Cost(t.amount, t.price) * 5) \div 1000
              /\ t.takerFeeAmount = (t.amount * 3) \div 1000
              /\ \A o \in Range(SeedOrders) :
                    o.user \in {t.maker, t.taker} =>
                        o.originalAmount - o.remainingAmount = t.amount
        /\ \A sell, buy \in Range(SeedOrders) :
              /\ sell.side = "SELL" /\ buy.side = "BUY"
              /\ Active(sell) /\ sell.status # "QUEUED"
              /\ Active(buy) /\ buy.status # "QUEUED"
              => sell.price > buy.price

\* After a seeding without a warning every queued order of it has a job that is to
\* process it, or had one that used up its attempts on it, although the jobs of
\* earlier seedings have the same ids, may be running and are forgotten at some
\* time: none of them swallows the new job, for it would never be processed.
SeededOrdersHaveJobs ==
    outcome = "seeded" =>
        \A o \in DOMAIN jobs :
            orders[o] = "QUEUED" => jobs[o] \in {"waiting", "active"} \/ o \in spent
=============================================================================
