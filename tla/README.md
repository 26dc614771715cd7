# A verified model of the exchange

TLA+ modules, TLC configurations and TLAPS proofs for the BTC/USD exchange in
this repository (a NestJS API, a matching worker, PostgreSQL through Prisma,
Redis through BullMQ, a socket gateway and a React client).

All money in this project is a number of smallest units (`Scale` units are one
BTC or one USD), as `decimal.utils.ts` computes with scaled big integers.

## 1. The system

```
 browser ── HTTP ──> OrdersService ──┐                      ┌─> market / trades reads
    ^                                │ one PostgreSQL       │
    │                                │ transaction each     │
    │                 orders, wallets, trades, order_matching_outbox, realtime_outbox
    │                                ^                │                  │
    │                                │                v                  v
    │            MatchingService <── worker <── BullMQ queue     realtime dispatcher
    │                                                                    │
    └─────────── socket gateway <── subscriber <── Redis channel <───────┘
```

| Component | State it keeps | Operations | Interactions |
|---|---|---|---|
| Fixed-point arithmetic (`common/decimal.utils.ts`) | none | parse, multiply with rounding down, positive-cost check, bounds | every service |
| Orders (`orders/`) | `orders` rows: status, remaining amount | `createOrder`, `cancelOrder`, paged lists | wallets; both outboxes, in the same transaction |
| Matching engine (`matching/`) | a transaction's local variables: taker, cursor, makers, remaining amounts | `processOrder`, `rejectOrderAfterFailedProcessing` | holds the market's advisory lock; row locks on orders and wallets |
| Wallets (`wallets/`) | available and reserved BTC and USD | `reserveFunds`, `releaseFunds`, `updateBalances` | called inside the transactions of orders and matching |
| Matching outbox, queue, worker (`queue/`) | outbox rows with claim token and lease, jobs with attempts | append, claim, enqueue, remove, release; process a job; restore script | PostgreSQL, BullMQ |
| Realtime outbox and delivery (`realtime/`) | outbox rows with attempts, claims, published and dead-letter times; sockets in rooms | append, claim, publish, mark, release, prune; fan-out | PostgreSQL, Redis, sockets |
| Login and users (`auth/`, `users/`) | users, their wallet | first login creates the user with a wallet | wallets |
| Reads (`market/`, `trades/`) | none | statistics, book levels, histories | several statements beside the writers |
| Browser client (`frontend/src`) | session in storage and per tab, query cache, pages, form texts | login, logout, poll, refetch on events, place and cancel, turn pages | HTTP, socket |
| Seed data (`prisma/seed.ts`) | none; leaves rows and jobs | reset, insert, enqueue | PostgreSQL and BullMQ, past the services |
| Test runner (`scripts/run-database-e2e.mjs`) | its child, exit code, files, containers | commands in order, signals, timeouts, cleanup | Docker Compose, Prisma, Jest |

What is hard in it:

- **Concurrency.** Any number of API instances and workers share one database
  at READ COMMITTED. Correctness rests on the advisory lock of the market, on
  `FOR UPDATE` locks of order and wallet rows taken in a certain order, on
  reloading a row after its lock was granted, and on predicates inside the
  balance writes.
- **Rounding.** Costs and fees are rounded down; a BUY order reserves the
  rounded cost of its remaining amount, but trades round separately. Fragments
  that cost less than one unit ("dust") cannot trade and stay on the book.
- **Failure.** Timeouts, crashes and refused balance writes roll a match back
  after some of its makers are settled. Jobs are retried, delivered again, and
  given up; outbox claims expire.
- **Ordering.** Orders are placed in one order and matched in another; makers
  are cancelled while a match that found them waits for their locks.

What makes each component correct:

- *Arithmetic*: what a fill releases from a BUY reservation covers its cost, and
  never exceeds the reservation.
- *Orders, wallets*: reserved balances are exactly what active orders need; no
  balance is negative or beyond its column; no reservation is released twice.
- *Matching*: strict price-time priority although makers are locked one by one;
  quantities, statuses and trades agree; money is conserved; the book does not
  rest crossed; all or nothing; whoever takes the market lock gives it back; a
  refusal has only one cause.
- *Queue*: every QUEUED order is eventually matched, cancelled or rejected
  while its carrier survives; a completed job's order is not QUEUED; a lost
  claim has no effect.
- *Realtime*: events commit with the changes they announce, name every account
  changed, and are published at least once or dead-lettered.
- *Login*: one user and one wallet per name. *Reads*: what a page may show.
  *Client*: no account data of one session appears in another; the page catches
  up with the server; what the form lets through, the server can read.
- *Seed data*: the state it leaves satisfies the invariants of the running system.
  *Test runner*: nothing of a run is left, and its exit code says what happened.

## 2. Modules

| Module | What it is | Code |
|---|---|---|
| `Decimals` | rounding product, positive cost, reservation debit | `common/decimal.utils.ts`, `matching/trade-settlement.service.ts` |
| `Sums` | a finite sum of natural numbers, as a cardinality | (mathematics) |
| `Rows` | the rows of the tables and what is computed from a row alone | `prisma/schema.prisma`, `matching/` |
| `Exchange` | **abstract**: orders are placed, executed, refused, cancelled, each in one step | what `matching/` and `orders/` promise |
| `Delivery` | **abstract**: an order is attended to until it is settled, once | what `queue/` promises |
| `AtLeastOnce` | **abstract**: an event is pending until it is published or dead, then forgotten | what the realtime outbox promises |
| `Matching` | **detailed**: transactions, locks, drafts, rollbacks | `orders/`, `matching/`, `wallets/`, `queue/order-matching-outbox.service.ts`, `realtime/realtime-outbox.service.ts` |
| `MarketReads` | what users read of `Matching`'s tables: book levels, trade history | `market/`, `trades/` |
| `MatchingPipeline` | intents, dispatchers, the queue, workers, recovery | `queue/`, `scripts/restore-matching-intents.sql` |
| `RealtimeOutbox` | events, claims, publication, dead letters, pruning, shutdown | `realtime/`, `prisma/prisma.service.ts` |
| `ClientSession` | browser tabs: session, query cache, socket | `frontend/src` (`AuthProvider`, `services/`, `hooks/`, `features/exchange/`), `realtime.gateway.ts`, `realtime.subscriber.ts` |
| `Paging` | a paged table: two statements of the server, a page in the browser | repositories with `skip`/`take`, `common/pagination.ts`, `usePaginatedTableState.ts`, `ListControls.tsx` |
| `OrderInput` | the order form's texts and the checks of both sides | `OrderFormCard.tsx`, `orderFormSchema.ts`, `utils/decimal.ts`, `common/decimal-input.ts` |
| `Login` | concurrent first logins | `auth/`, `users/` |
| `Seeding` | the seed script on a system in use | `prisma/seed.ts` |
| `E2eRunner` | the isolated runner of the database tests | `scripts/run-database-e2e.mjs` |
| `MCMatching` (with `MarketReads`), `MCMatchingPipeline`, `MCRealtimeOutbox`, `MCClientSession`, `MCLogin`, `MCE2eRunner` | small instances | |
| `Matching_proofs`, `Ledger_proofs`, `ClientSession_proofs`, `MatchingPipeline_proofs`, `RealtimeOutbox_proofs`, `Login_proofs`, `OrderInput_proofs`, `E2eRunner_proofs` | theorems | |

### How `Matching` corresponds to the code

State. `orders`, `wallets`, `trades` are the committed tables. An order's
sequence number is its index in `orders`. (In PostgreSQL sequence numbers can
have gaps, and may become visible out of order; only their order matters to
matching, and a queued order may be processed at any time here, so a late
commit is a late processing.) `matchingIntents` are the orders whose intent was
committed. `realtimeOutbox` is the set of events committed. `cancels` are the
cancellations in progress, each by the order row it has locked, with the
remaining amount it loaded. `tx` holds the local variables of the transaction
that has the market lock (the phase, the taker, `remaining`, `toCover`, the
cursor, the makers, the row locks); `draft` holds that transaction's
uncommitted writes, so that `SeenOrders` and `SeenWallets` are what its own
statements read: its writes over what is committed *now*.

| Action | Code | Notes |
|---|---|---|
| `CreateOrder` | `createOrder` | one step: it holds no lock that another waits for before its wallet's row lock, and waits for nothing after; a wallet row locked by the match (`draft.wallets`) makes it wait |
| `LockForCancel` | `cancelOrder` to the reload under the row lock | waits for the match's row locks (`tx.locks`) and other cancellations |
| `CommitCancel`, `RefuseCancel`, `AbortCancel` | the rest of `cancelOrder` | release fits, does not fit, or the transaction fails |
| `LockMarket` | `lockMarket` of both `MatchingService` methods | for any order with an intent, at any time, any number of times: a superset of what the queue can deliver |
| `SkipProcessed` | the early return for an order no longer QUEUED | |
| `LockTaker` | `lockAndLoadOrder` of the taker | waits for a cancellation of it |
| `FindCandidate`, `LockCandidate`, `EndSelection` | `findAndLockEligibleMakers` | the query and the lock are two steps: the row may change in between, and the code looks again |
| `SkipDust`, `SettleMaker` | one turn of the loop of `processOrder` with `TradeSettlementService` | balances, trade and maker row of one maker, drafted |
| `CommitMatch` | the taker's final update, the events, the commit | also the early return for a taker without makers: the same writes, with nothing drafted |
| `RefuseSettlement`, `RefuseRejection` | a balance write that affects no row throws | |
| `RejectTaker` | `rejectOrderAfterFailedProcessing` | |
| `Rollback` | any other throw: transaction timeout, lost connection, crash | at every point of the transaction |

Left out of `Matching`, because no property depends on it: ids other than
sequence numbers, dates, client-facing formatting, the error classes (a refusal
is a step that changes nothing but locks), and `createOrder`'s refusals, which
change nothing at all. A product beyond the column's bound makes the code throw;
in matching it cannot happen, since an execution costs no more than the buyer's
accepted reservation (lemma `NextTradeType` of `Matching_proofs`), and for
`createOrder` it is a guard.

### The abstract specifications

`Exchange` has no locks, no transactions and no reservations. Its state is the
orders, the trades and each user's *wealth* (available plus reserved). `Execute`
gives every maker, in price-time order of the book at that moment, as much as is
left, skips what is not worth one unit, and moves wealth only along the trades
it records. `Place` accepts an order only if its owner can still pay for it
besides all the other active orders. `ImplementsExchange` says that every
behaviour of `Matching` is one of `Exchange` under the mapping
`wealth <- available + reserved`. So a match that locks its makers one by one,
while others cancel orders and place new ones, is an execution against the book
**as it is when it commits**, and the balance predicate of one row update
decides affordability as the sum over all active orders would.

`Delivery` has orders and nothing that carries them. An order is *attended to*
from its placement until it is matched, cancelled or rejected, which happens once;
it is rejected only after `MaxAttempts` failed runs, and neglected only after Redis
forgot its job (`Forget`, `Abandon`), until a late call or the operator brings it
back. `ImplementsDelivery` says that `MatchingPipeline` behaves like that under
`attended <- Attended`, the QUEUED orders with an intent or an uncompleted job,
`failures <- throws`, `forgotten <- dropped`.

`AtLeastOnce` has events, each in one of the stages none, pending, published, dead,
forgotten. `ImplementsAtLeastOnce` maps `RealtimeOutbox` to it by what an event's
row tells (`Stage`): a mark that fails after it committed, a release by a process
that lost its claim and a pruning beside them are each one of its steps, or none.

### How `MatchingPipeline` corresponds to the code

State. `outbox` holds the rows of `order_matching_outbox` by order (`order_id` is
unique), each with its claim token, whether `claimed_at` is null, recent or older
than the claim timeout, and whether `next_attempt_at` has come. `dispatchers`
holds, for every API or worker process, the local variables of `dispatchLoop`:
where it stands, the token of its batch, the rows not dispatched yet, the row in
hand, `hasFailedDispatch`, `stopping`. `jobs` is the BullMQ queue, by job id,
which is the order's. `workers` holds the run of `OrderMatchingProcessor.process`
in each worker with `attemptsMade` as the job was handed over. `status` is what
`processOrder` and the cancellation see of the order. `throws` and `dropped` are
history: the failed runs of an order, and the orders whose unfinished job Redis
forgot.

| Action | Code | Notes |
|---|---|---|
| `CreateOrder`, `CancelOrder` | `appendOrder` in `createOrder`; `cancelOrder` | |
| `StartDispatch` | `dispatchInBackground`, `dispatchPending`, the test of `stopping` | the phase `claim` is entered after the test |
| `ClaimBatch`, `EndDispatch` | `claimNextBatch` | any claimable rows up to the batch size: the oldest may be locked, and are then skipped; a failed query may have taken effect |
| `Enqueue`, `EnqueueFails` | `enqueueProcessOrder` | the rows of a batch in any order: `RETURNING` promises none; on a timeout Redis may have the job |
| `RemoveClaimedRow`, `RemoveFails` | `removeClaimedRow` | deletes under the predicate on the token |
| `ReleaseClaim` | `releaseClaim` | may fail, with or without effect |
| `Shutdown`, `RestartDispatcher` | `onApplicationShutdown`, `onModuleInit` | the latter also after a crash at any point |
| `ExpireLease`, `RetryDue` | the two time predicates of `claimNextBatch` | at any time: a dispatcher may be arbitrarily slow |
| `TakeJob` | the worker, global concurrency 1 | |
| `ProcessOrder`, `ProcessThrows` | `process`, its `try` | a throw may follow a commit whose answer was lost |
| `RejectOrder`, `RejectThrows` | `process`, its `catch` | likewise |
| `CompleteJob`, `FailJob`, `RestartWorker` | the end of a run, or a crash | a report without the job's lock is refused |
| `BackoffElapses`, `StallJob`, `ForgetJob` | job options; BullMQ | a lock may expire under a live worker; Redis may lose or trim any job |
| `RetryFailedJob`, `RestoreIntents` | `docs/matching-recovery.md`, the SQL script | the script's limit and `SKIP LOCKED` make it restore any of the pending orders |

BullMQ is modelled from how the code uses it: an added job is ignored while the
queue retains one of its id in any state; a stall does not count as an attempt;
a job that stalls more than `maxStalledCount` times fails. Claim tokens come from
a finite set and are used again when nobody holds them, which is what their
randomness stands for.

What `processOrder` does to the tables is left to `Matching`: here it takes a
QUEUED order to another status, or does nothing. The two fit together at
`LockMarket` of `Matching`, which may run for any order with an intent at any
time, and so allows every delivery that `MatchingPipeline` makes.

### How `RealtimeOutbox` corresponds to the code

State. `rows` are the rows of `realtime_event_outbox`: published or dead-lettered,
beyond retention (`aged`), attempts, claim token, lease and retry deadline.
`processes` holds, for every API or worker process, the local variables of its
`dispatchLoop`, whether maintenance is in progress, whether the publisher is
connected, and how far a shutdown has come. `sent` and `failures` are history:
what Redis accepted, and the failed deliveries of an event.

| Action | Code | Notes |
|---|---|---|
| `AppendEvents` | `appendEvents` in the transaction of a change | any set of new events |
| `StartDispatch`, `ClaimNextBatch`, `EndDispatch` | `dispatchInBackground` to the end of `dispatchLoop` | as in the pipeline: any claimable rows; a failed claim may have taken effect |
| `PublishEvent`, `PublishFails` | `publishEvent` | the answer may be lost after Redis accepted; the next publication reconnects |
| `Mark`, `MarkFails` | `markAsPublished` | under the predicate on the token; a failure is released as a failed delivery although the event was sent |
| `Release`, `ReleaseFails` | `releaseClaim` | attempts, retry deadline, dead letter after the last attempt |
| `StartPruning`, `EndPruning`, `PruningFails` | `runMaintenanceIfDue`, `pruneExpiredEvents` | |
| `Shutdown`, `ClosePrisma`, `ClosePublisher`, `Restart` | the shutdown hooks, in the order Nest calls them; a crash is `Restart` at any point | |
| `ExpireLease`, `RetryDue`, `Age` | the time predicates of the statements | at any time |

Which events a commit appends is `Matching`'s (`EveryChangeAnnounced`); what
becomes of a published one is `ClientSession`'s, where it may be lost.

### How `ClientSession` corresponds to the code

State. `storage` is the session in `localStorage`, shared by the tabs. A tab has
the session of its `AuthProvider`, a cache of what its queries returned, one fetch
per query with the session its request was sent with, its socket, and the answers
to login and order requests on their way. The queries are two: the account's
(`me`, wallet, orders, history) and the market's. The server is a counter of
changes per account and of the market; `notices` are the changes that a gateway
may still announce.

`Send` is the request interceptor, which reads the *stored* session. `Answer`
is the guard and the read. `Login`, `EndSession` are the provider's functions with
`queryClient.clear()`; `ReceiveUnauthorized` is the page's effect on a 401.
`Poll` is `refetchInterval`; `Deliver` with `Invalidated` is a socket event and
`invalidateExchangeQueries`, which cancels a fetch of a query that has data and
sends another one. `HandleConnection` and `Reaches` are the gateway's rooms.
React Query and socket.io are modelled from how the code configures them:
a cancelled or cleared fetch's answer is dropped, there is no retry, and a socket
that breaks is tried again unless the server refused it.

### How `Paging` corresponds to the code

`present` are the rows that a table lists, numbered in the order of their
sequence. A request runs `count` and `findMany` as two statements at a time
(`Promise.all`), each with its own snapshot. `cache` and `fetches` are React
Query's, by page and page size; `view` is `usePaginatedTableState`. `SetPage` and
`SetPageSize` are the controls with the condition under which they are disabled,
computed from the *answer* shown. The module stands for the active orders, the
trade history and the matches alike; rows are added at the front, and may end.

### How `OrderInput` corresponds to the code

A text is a shape and a value in grains, several of which make one unit of the
column, so that a text can have too many decimal places. `Sanitize`,
`ClientAccepts` are the client's functions; `ServerField`, `ServerAccepts` the
server's, which are other code over another decimal library. `SelectLevel` is a
click on a level of the book, whose amount is a sum and need not fit a column.

### How `Login`, `Seeding` and `E2eRunner` correspond to the code

`Login`: a login request runs its statements one at a time: find the user, then
its wallet, or create both; after the unique index refused the name, find again.
A statement may fail on either side of its effect, and the seed script may delete
all accounts at any moment.

`Seeding`: each insertion, in the order of the script, with the rows it inserts
(amounts exact, in units of 0.00001 BTC and 0.001 USD, in which all of them are
whole), and for each queued order the look-up, removal and addition of its job.
Beside it workers take jobs of this or an earlier seeding, one at a time (the
queue's global concurrency), the queue forgets jobs that ended (`removeOnComplete`,
`removeOnFail`), and somebody logs in under a name of its users. Rows other than the
seed's own play no part. `spent` is history: the orders whose job used up its attempts.

`E2eRunner`: `phase` is the command that is due or runs, or what comes next;
`child` is `activeChild`. A command succeeds, fails, is refused because of an
interruption, or times out; a signal stops a child that is cancellable; the
`finally` block runs `down`, then removes files and sets the exit code; an `rm` that
fails ends the script there with 1 (`Abort`), interrupted or not. Before its signal
handlers are there, a run can end without any of this (`EarlyEnd`).

## 3. Runs

The runs named `matching_` use `MCMatching`, with `Scale = 4`: with four units to one BTC or USD
products round (3 at price 3 costs 2, not 2.25), a fragment of one unit at
price 2 or 3 costs nothing (dust), and both fees are at times positive and at
times round to nothing. `MakerFeeRate = 3` and `TakerFeeRate = 2` keep the
makers' rate above the takers', as in the code (0.005 and 0.003), so that
swapping them shows.

| Run | Instance | Properties | What it shows |
|---|---|---|---|
| `matching_core` | 3 users, 3 orders, 1 cancellation at a time | `TypeOK`, `ReservationsExact`, `DraftBacked`, `LockDiscipline`, `NoWaitCycle`, `Conservation`, `QuantitiesMatchTrades`, `NoExecutableCross`, `HistoryExplainsWallet`, `BookIsBacked`, `EveryChangeAnnounced`, `ImplementsExchange` | partial fills, price improvement, rounding, dust in front of a maker, sweeps of two makers, rejection, redelivery and rollback, in every interleaving |
| `matching_termination` | 2 users, 3 orders, 2 cancellations, `DecimalMax = 6`, fair | `RefusedOnlyAtCapacity`, `MarketLockReleased` | refusals happen, and only for want of room; whoever takes the market lock gives it back |
| `pipeline_carrier` | 2 orders, 2 dispatchers, 2 workers, batches of 2, 2 attempts, 1 stall | `TypeOK`, `HasCarrier`, `CompletedMeansDone`, `ClaimRespected`, `ImplementsDelivery` | overtaking dispatchers, takeovers of jobs, failures in the middle of a batch: no order is lost between intent and job, or settled twice |
| `pipeline_delivery` | 1 order, 1 dispatcher, 1 worker, 2 attempts, fair | `IntentsDrain`, `Delivered`, `Recovered` | every queued order is settled, or its job failed for good or was lost; with the operator it is settled |
| `realtime_claims` | 2 events, 2 processes, batches of 2, 3 attempts | `TypeOK`, `NoEventLost`, `DrainedBeforeClose`, `ClaimRespected`, `ImplementsAtLeastOnce` | late dispatchers, lost answers, crashes and shutdowns |
| `realtime_delivery` | 1 event, 1 process, 3 attempts, fair | `EventsSettle` | every event is published or dead-lettered, then pruned |
| `session_one_tab` | 1 tab, 2 users with a session each, both queries, fair | `OwnSessionOnly`, `CatchesUp` | requests, answers, notices and sockets of one session outliving it; catching up by polls alone |
| `paging_settles` | 2 rows, page sizes 1 and 2, fair | `PageSettles`, `EmptyPageIsLeft` | torn and cached answers, and a page that has gone |
| `form_checks` | scale 2, half units, all texts up to 12 halves | `NeverMalformed` | costs that round to nothing or overflow, levels beyond the column |
| `login_races` | 3 requests, 2 names, 3 ids | `OneAccountPerName`, `RaceIsNoFailure` | first logins of one name at the same time |
| `seed_twice` | the seed itself | `SeededStateBalances`, `SeededOrdersHaveJobs` | repeated and failing seedings beside logins and workers |
| `runner_lifecycle` | one run, exit codes 1, 7 and 130 | `NothingLeft`, `ExitCodeTells`, `InterruptEnds` | every point of failure, timeout and interruption, and files that cannot be removed |

**Properties.** `TypeOK`: rows fit their columns (no negative balance).
Those of `Login` and `OrderInput` are proved and need no run; that of
`ClientSession` is a conjunct of `OwnSessionOnly`.
`ReservationsExact`: reserved balances equal, to the unit, what the active
orders need. `DraftBacked`: the same of the matching transaction's view between
any two makers. `LockDiscipline`: what a transaction loaded under a row lock
stays as loaded. `NoWaitCycle`: when the match waits for the order row of a
cancellation, no cancellation waits for a wallet row of the match; cancellations and
placements hold nothing that another of them waits for while they wait, so there is
no other cycle. `Conservation`: balances and fees kept add up to the initial
balances. `QuantitiesMatchTrades`: original = remaining + traded, and the status
agrees. `NoExecutableCross`: no two resting orders of different users could
trade at least one unit of USD. `RefusedOnlyAtCapacity`: no balance update
fails because reserved funds fall short. `EveryChangeAnnounced`: a step that
changes an account or the book commits the event that says so.
`MarketLockReleased`: the holder of the market lock ends.
`HasCarrier`: a QUEUED order has an intent or an uncompleted job, unless Redis
lost its job. `ClaimRespected`: until its lease expires, a claimed row is removed
or released by its claimant only. `CompletedMeansDone`: a completed job's order
has left QUEUED, so that the queue may ignore its id. `RejectedOnlyAfterRetries`:
a rejected order has been tried as often as promised, although the last attempt
is recognized by a worker that may have lost the job (proved, and a part of
`ImplementsDelivery`, so it has no run of its own). `ImplementsDelivery`: an order,
its intent and its job together keep the promise of `Delivery`. `IntentsDrain`:
an intent is acknowledged in the end. `Delivered`, `Recovered`: see the table.
`HistoryExplainsWallet`: a user can reconcile the wallet with the trade history
(sides, roles, fees and fee assets as `getUserHistory` derives them) to the unit.
`BookIsBacked`: the levels of the book offer no more than is reserved, but for
less than one unit of rounding per order.

`NoEventLost`: an event that is retried no more was accepted by Redis, or failed
as often as promised; `SettledForGood`: it never becomes pending again, nor a dead
letter after it was published (proved, and a part of `ImplementsAtLeastOnce`, so it
has no run of its own); `ImplementsAtLeastOnce`: every event keeps the promise of
`AtLeastOnce`; `ClaimRespected`: as in the pipeline;
`DrainedBeforeClose`: Prisma and the publisher close after dispatch and
maintenance, and nothing connects afterwards. `EventsSettle`: see the table. `OwnSessionOnly`: a page shows, and will be given, data of its own
session's user only, and is signed out only for its own session's expiry.
`CatchesUp`: again and again the page shows what the server has, or nobody is
signed in. `PageSettles`: again and again it shows the page of the list as it
then is. `EmptyPageIsLeft`: a user on a page that has gone gets to rows by the
controls that are not disabled. `NeverMalformed`: a submitted order passes the
server's checks of form, range and cost. `OneAccountPerName`: one user and one
wallet per name. `RaceIsNoFailure`: a login fails only if a statement of its own
failed or the accounts were deleted while it ran. `SeededStateBalances`: the
seeded wallets, orders and trade satisfy the invariants of
`docs/monetary-invariants.md`. `SeededOrdersHaveJobs`: after a seeding without a
warning each queued order has a job of its own, or had one that used up its attempts. `NothingLeft` (with `CleanupNotCancelled`, the
removal of the containers is not stopped by a signal), `ExitCodeTells`,
`InterruptEnds`: what the repository's README and the comments of the script say of
a run's end. One case the README does not mention is excepted: when a file cannot be
removed, the script ends with 1, also after an interruption, and keeps its directory.

**Why these bounds.** Three orders are the smallest number with a taker and two
makers (sweep, priority between makers, dust in front of a maker) or with two
takers in turn against one maker (repeated partial fills, each with its own
rounding). Every matching transaction relates one taker to makers pairwise and
its invariants are stated per order or per wallet, and the reservation
invariants, the types and the locks are proved for any number of orders and
users (section 4). `MaxOrders` bounds the orders ever created and `MaxCancels`
the cancellations in progress; `OrderForms` fixes the orders users place, chosen
per run so that its interesting case happens. Redeliveries, rejections and
rollbacks are unbounded. `Users` is a symmetry set in the run without liveness.
`ImplementsExchange` and `EveryChangeAnnounced` are checked as safety of steps,
for which the symmetry is sound: neither names a user and neither states
fairness.

Orders do not interact in the pipeline, except in the batch of a dispatcher and
in the queue's concurrency limit. The constraint `RacesOrBatches` of
`pipeline_carrier` keeps the states in which one order has two busy dispatchers or
workers, one of each included, and those in which two orders, whose jobs nobody has
taken, have one dispatcher: overtaking, takeovers and batches all happen, only not all at
once. `ThreeAtOnce` of `realtime_claims` does the same for events and processes.
Leases, crashes, retries, losses and restores are unbounded, and the pipeline's
safety properties are proved for any number of each (section 4). Liveness with two
dispatchers and a worker is beyond TLC's reach here: `pipeline_delivery` and
`realtime_delivery` have one process, which crashes and restarts.

`session_one_tab` has one change of each account and of the market (`MaxChanges`),
enough for an answer to be old when it arrives, and one session for each user.
`OwnSessionOnly` is a property of one tab: with two it is false (section 5).
`paging_settles` has two rows on one or two pages: a page goes when the list
shrinks. Its user does not turn a page while it is loading (`PatientUser`).
`Ids` and `Requests` bound the logins; `seed_twice` and `runner_lifecycle`
have no bounds but the codes that commands fail with.

**Fairness** (`FairSpec` of `Matching`). Strong fairness for the transaction's steps that
wait for an order row: PostgreSQL queues the waiters of a row lock and grants
it in that order, so a stream of new cancellations cannot overtake the match for
ever. Weak fairness for its local steps, which only wait for their own
statement, and for the completion of a cancellation: once the wallet row is
free it ends. Nothing is assumed of `CreateOrder`, `LockForCancel`, `LockMarket`
or of failures: users need not act and `Rollback` need not rescue a stuck
transaction.

**Fairness** (`FairSpec` of `MatchingPipeline`). `DispatchFairness`: every
process polls (`setInterval`) and goes on with its loop; leases and deadlines
pass; stopped processes are started again; and of the calls made for an order
not all fail: claiming, enqueueing and removing its row are strongly fair, each
also for whichever dispatcher holds the row. That is the documentation's premise
that Redis and PostgreSQL come back. `QueueFairness`: a waiting job gets its
turn, a run ends (its transactions have timeouts), a job without a worker is
found stalled. Nothing is assumed of `ProcessOrder`: it may throw every time. A
job is not stalled for ever under a live worker only as far as the stall limit
goes. `OperatorFairness` adds what `docs/matching-recovery.md` asks of the
operator: failed jobs are retried, lost intents restored, and in the end
processing succeeds.

`Recovered` takes `OperatorFairness` as its premise; the other two do without it.

**Fairness** (`FairSpec` of `RealtimeOutbox`). A process that is up polls
(`setInterval`), goes on with its loop and its maintenance; one that was shut down
closes and is started again; leases, retry delays and retentions pass. Of the
calls made for one event not all fail: its claim, its publication or the failure
of it, its mark, and the release after a failed delivery are strongly fair. That is
the premise that PostgreSQL answers now and then; `PublishFails` counts as much as
`PublishEvent`, so Redis may be down for ever, and the event ends as a dead letter.

**Fairness** (`FairSpec` of `ClientSession`). The page polls while it is open
(`refetchInterval`), the server answers, and not every fetch of a query fails;
notices pass. Nothing is assumed of sockets, users or gateways.

**Fairness** (`FairSpec` of `Paging`). The page shown is fetched at intervals, and
when it is shown again; statements run and not every answer of a page is lost. For
`EmptyPageIsLeft`, a user who sees an empty page of a list with results tries what
the controls offer (`FindWay`), and it is the controls that must allow it.

**Fairness** (`FairSpec` of `E2eRunner`). Timeouts pass, a stopped child ends (it is
killed after five seconds), a refused command is refused. Nothing is assumed of
the tests: only a signal ends one that hangs.

`Login`, `Seeding` and `OrderInput` state no fairness. `Login` and `E2eRunner` really
stop, so their runs do not check for deadlock.

## 4. Proofs

The proofs about matching hold for any finite set of users, any number of orders and
cancellations, any scale, fee rates up to one, initial balances and column
bound (`DecimalsAssumption`, `RowsAssumption`; TLC evaluates both in every run).

| Theorem | Module | States |
|---|---|---|
| `DebitCoversExecution` | `Matching_proofs` | a fill's debit is at least its rounded cost at any better price and at most the whole reservation |
| `TypeInvariant` | `Matching_proofs` | `Spec => []TypeOK` |
| `LocksAreHeld` | `Matching_proofs` | `Spec => []LockDiscipline` |
| `NobodyWaitsInCircles` | `Matching_proofs` | `Spec => []NoWaitCycle` |
| `ChangesAreAnnounced` | `Matching_proofs` | `Spec => EveryChangeAnnounced` |
| `BookNeverCrossed` | `Matching_proofs` | `Spec => []NoExecutableCross` |
| `ReservationsInvariant` | `Matching_proofs` | `Spec => []ReservationsExact` |
| `DraftInvariant` | `Matching_proofs` | `Spec => []DraftBacked` |
| `NeverShortOfFunds` | `Matching_proofs` | `Spec => []RefusedOnlyAtCapacity` |
| `BookAlwaysBacked` | `Ledger_proofs` | `Spec => []BookIsBacked` |
| `MoneyIsConserved` | `Ledger_proofs` | `Spec => []Conservation` |
| `QuantitiesAreTraded` | `Ledger_proofs` | `Spec => []QuantitiesMatchTrades` |
| `HistoriesReconcile` | `Ledger_proofs` | `Spec => []HistoryExplainsWallet` |
| `MatchingImplementsExchange` | `Ledger_proofs` | `Spec => ImplementsExchange` |
| `TypeInvariant` | `MatchingPipeline_proofs` | `Spec => []TypeOK` |
| `DeliveryGuarantee` | `MatchingPipeline_proofs` | `Spec => []HasCarrier` |
| `CompletionIsFinal` | `MatchingPipeline_proofs` | `Spec => []CompletedMeansDone` |
| `RejectionIsLastResort` | `MatchingPipeline_proofs` | `Spec => []RejectedOnlyAfterRetries` |
| `ClaimsAreRespected` | `MatchingPipeline_proofs` | `Spec => ClaimRespected` |
| `PipelineImplementsDelivery` | `MatchingPipeline_proofs` | `Spec => ImplementsDelivery` |
| `OutboxTypeCorrect` | `RealtimeOutbox_proofs` | `Spec => []TypeOK` |
| `NothingIsLost` | `RealtimeOutbox_proofs` | `Spec => []NoEventLost` |
| `ClosedAfterDraining` | `RealtimeOutbox_proofs` | `Spec => []DrainedBeforeClose` |
| `SettlementIsFinal` | `RealtimeOutbox_proofs` | `Spec => SettledForGood` |
| `OutboxClaimsRespected` | `RealtimeOutbox_proofs` | `Spec => ClaimRespected` |
| `OutboxImplementsAtLeastOnce` | `RealtimeOutbox_proofs` | `Spec => ImplementsAtLeastOnce` |
| `SessionTypeCorrect` | `ClientSession_proofs` | `Spec => []TypeOK`, for any number of tabs |
| `OwnDataOnly` | `ClientSession_proofs` | with one tab, `Spec => []OwnSessionOnly` |
| `LoginTypeCorrect`, `LoginOneAccountPerName`, `LoginRaceIsNoFailure` | `Login_proofs` | `Spec => []TypeOK`, `[]OneAccountPerName`, `[]RaceIsNoFailure` |
| `ClientChecksSuffice` | `OrderInput_proofs` | what the form accepts the server accepts, for any two texts |
| `FieldsTypeCorrect`, `FormNeverMalformed` | `OrderInput_proofs` | `Spec => []TypeOK`, `[]NeverMalformed` |
| `RunnerControlled`, `NothingIsLeft`, `ExitCodeIsRight` | `E2eRunner_proofs` | `Spec => []Controlled` (the inductive invariant), `[]NothingLeft`, `[]ExitCodeTells` |

The argument:

1. *Arithmetic.* Rounding down is monotone and superadditive. Hence
   `floor(r*p) - floor((r-a)*p) >= floor(a*p)`: the difference of two rounded
   costs covers the rounded cost of the fill, and the price improvement is never
   negative.
2. *Locks.* `Locked == TypeOK /\ LockDiscipline` is inductive. The type alone is
   not: that a fill leaves a remaining amount of at least zero depends on the
   makers the transaction remembers being the rows in the table, each once. The
   proof has one lemma per action. `NoWaitCycle` follows: a draft is empty until
   settlement, and settlement waits for no order row any more.
3. *Sums.* A sum over a finite set is defined as the cardinality of a set of
   tokens (`Sums`), with no recursion, so that "one summand changes by d"
   follows from the library's facts about cardinalities (the first part of `Matching_proofs`).
   What holds of a sum only by induction (that it is monotone, that it splits
   over the parts of a partition, that the cost of a sum is at least the sum of
   the costs) rests on `SetInduction`: induction over the subsets of a finite
   set, stated of the collection of the subsets that have the property, and proved
   from a minimal counterexample (strict inclusion is well-founded there).
4. *Reservations.* `Reserving == Locked /\ ReservationsExact /\ DraftBacked` is
   inductive. `ReservationsExact` alone is not: a commit installs the draft, so
   the draft has to be backed as well, at every point between two makers and
   under other users' commits in between. Those touch only wallets the draft has
   not written and rows the transaction has not locked, which is what `Locked`
   says.
5. `RefusedOnlyAtCapacity` then follows: an order's own escrow is at most the
   sum that backs its owner's reserved balance.
6. *Levels.* `BookIsBacked` follows from `Reserving` without an invariant of its
   own: a side of the book is the sum of its levels, each a sum over the orders at
   one price, whose rounded cost is at most what those orders keep reserved.
7. *Conservation.* `Balanced` says that money is conserved twice: in the committed
   tables, and in what the transaction sees (`SeenWallets`, and `Made`, the trades
   committed and drafted). The second makes it inductive: a commit turns what the
   transaction sees into what is committed, and another user's commit changes
   neither total.
8. *Quantities.* `Accounted` adds to the locks that every trade names two orders
   that were there (`Parties`), and that the rows as they would be committed
   agree with the committed and drafted trades (`PendingAgreed`).
9. *Histories.* `Explaining` says of every wallet, committed and as seen, that it
   is what its owner's trades explain. A fill moves two wallets and appends one
   trade, which only its buyer and its seller read; they differ because a maker
   is never the taker's owner.
10. *Announcements.* A commit announces a change only if its event is *new*, for
   the outbox is a set. So `Announcing` says why it is: an event about an order
   names what that order has become, and no order comes back to a status.
11. *The book.* `Uncrossing` needs what the search leaves behind at every point:
   `NoneOverlooked` (every resting order that opposes the taker is listed, cannot
   be paid, or has yet to be reached, unless the taker is covered) and
   `CoverAgrees` (settlement trades with each listed maker exactly what the
   search counted on, so that `toCover = 0` at its end means that nothing will
   be left). Cancellations meanwhile only take orders off the book.
12. *The refinement.* `MatchingImplementsExchange` proves that the many steps of
   a match amount to one step of `Exchange` at its commit, and that every other
   step places, cancels or refuses one order or is invisible. A user's wealth in
   `Exchange` is what the wallet has available and reserved together. The
   invariant is `Refining == Reserving /\ Accounted /\ CoverAgrees /\ Turns /\
   Explaining`, where `Turns` says of a match in progress that its makers are
   listed in priority order (`InTurn`), that the taker has left what the drafted
   fills leave (`RemainingIsLeft`), that every maker of the book has had its turn,
   waits for it, or comes after the end (`TurnsTaken`), and that the drafted
   trades are the drafted makers in that order (`TradesInTurn`).
   `Exchange` says what a maker trades by a recursive equation over the makers
   ahead of it (`Fill`). The proof needs only that the equation has one solution
   (`FillUnique`: of two solutions that differ, take the first maker where they
   do; `FirstAhead` gives it by `SetInduction`) and that the drafted amounts are
   one when settlement ends (`EndedFill`). That the trades it records, by rank,
   are the drafted ones is a count of the makers ahead (`TradesRank`); that
   wealth moves as `Exchange` says follows from item 9, before and after
   (`WealthMoved`); and that an order that is placed can be paid, from
   `ReservationsExact`.

The proofs about the pipeline hold for any finite sets of orders and dispatchers,
any set of workers, any batch size and any limits on attempts and stalls
(`PipelineAssumption`). Their invariant, `Pipelined`, says of every order:

1. `Untouched`: nothing refers to it before it exists.
2. `Done`: its job is completed, or about to be reported so, only when it has
   left QUEUED.
3. `Acked`: a dispatcher that is about to remove its row, and still holds it, has
   its job in the queue. This is what makes `HasCarrier` (`Carried`) inductive.
   It survives another dispatcher's claim because a new token is nobody else's
   (`FreshTokenExists`, a pigeonhole argument), and the restore script because
   its rows have no token.
4. `Counted`: neither the job's count of attempts nor that of any worker, which
   may have lost the job since, runs ahead of the failed runs.
5. `Leased`: a claimed row's deadline has come, so that its claim is changed by
   nothing but the lease.

`PipelineImplementsDelivery` needs no other invariant. Each action is a step of one
order in `Delivery` (`OneOrderStep`), or leaves every QUEUED order an intent or a job
if it had one, and none if not (`NotSeen`). Which of the two follows from `Pipelined`:
the removal of an intent is invisible because of `Acked`, or else `Abandon`s an order
that Redis forgot; an answered or unanswered `queue.add` is invisible, or `Return`s
one; a job is reported completed, or forgotten when completed, only when its order
has left QUEUED (`Done`); and a rejection finds `MaxAttempts` failures (`Counted`).

The proofs about the realtime outbox hold for any finite sets of events and
processes, any batch size and any limit on attempts (`OutboxAssumption`). Their
invariant (`Inv`, theorem `OutboxInvariant`) says of every

1. row (`RowOK`): it has a token exactly while it is leased, is claimed only while
   pending and due, and is a dead letter exactly when its attempts are used up;
2. process (`Backed`): the event it is about to mark was accepted, and the one it
   is about to release, if it still holds it, has failed once more than its row
   has counted. Neither survives by itself the claim of another process: it does
   because a new token is nobody else's (`FreshTokenExists`), so that no step of
   another process turns a lost claim into a held one (`Tame`);
3. event (`Accounted`): its row never counts more attempts than there were
   failures, and a row that is gone was accounted for when it was pruned.

`NoEventLost` alone is not inductive: it says nothing of a row that is pending,
which the next release may make a dead letter. `SettledForGood` and
`ClaimRespected` follow from 1 and one lemma on all that a step can do to a row
(`RowsChange`). `OutboxImplementsAtLeastOnce` goes action by action: what a process
marks or releases it still holds, so that the row is pending (1), and 2 says that
the event was accepted, or that the release which makes it a dead letter comes after
`MaxAttempts` failures. Everything else leaves every event's stage alone (`Quiet`).

The proofs about logins hold for any names, ids and requests. Their invariant
says besides what a request in each phase knows: the user it found or created
is one that exists, or else the accounts were deleted meanwhile and the request is
among the disturbed; a request that was refused its name either still finds the
account that took it or is disturbed. Without that, `RaceIsNoFailure` is not
inductive: the look-up after a refused insertion could come back empty.

The proofs about the form hold for any scale, column bound and grain. A text
that passes `orderFormSchema` is digits at the column's scale within its bound,
which is all that the server asks of a field; and both sides round the cost
down from the same product of units. `FormNeverMalformed` follows, since only
`Submit` sends and what it sends it has checked.

The proof about the browser's session is for one tab (`OwnSessionOnly` is false
of two, section 5), any users, sessions and queries. Its invariant, `Own`, says that
the tab's session is the stored one, that its socket is open exactly while there
is one, and that every request in flight was sent in it: each change of session
drops the fetches before the new session sends any. That tokens only expire is
what a rejected request needs (`RequestOf`).

The proofs about the test runner hold for any exit codes that commands fail with (all
naturals but 0, those of an interruption among them).
Their invariant, `Controlled`, carries through the run what the end is judged by:
nothing has failed before the cleanup (`NothingFailedYet`); from then on the exit
code is the first failure's unless a signal decides it (`CodeKept`); the files are
there until they are removed, and the containers are gone when a cleanup that did
not fail is over (`FilesKept`). `ExitCodeTells` is a chain of IF and ELSE: as a CASE
whose guards overlap it would promise any one of the codes that apply, which the
attempt to prove it brought to light (TLC takes the first).

Checked by TLC only:

- The two invariants of `Seeding`. The module has no constants: it is one script with
  fixed rows, so that TLC, which visits all of its states, decides them. They rest on
  sums by `MapThenSumSet`, whose values would have to be computed by the prover.
- `MarketLockReleased`, `IntentsDrain`, `Delivered`, `Recovered`, `EventsSettle`,
  `CatchesUp`, `PageSettles`, `EmptyPageIsLeft`, `InterruptEnds`: liveness, which
  needs ENABLED and fairness, is out of the prover's reach.

## 5. What is not modelled

- The 24-hour statistics of the market: four independent aggregates, one of which
  needs a clock; that they belong to one moment is promised nowhere.
- Searches of the paged tables (by id prefix, or price): each is another table of
  the same kind. Cards, layout, formatting, routes and the landing page render
  what the modelled state gives them.
- Several tabs: `ClientSession` is written for any number, but `OwnSessionOnly`
  is checked for one. With two it is false: a tab sends its requests with the
  session that another tab stored, and shows the other user's data under its own
  session until it is reloaded. Neither code nor docs say what should happen.
- Rates: notices that come faster than answers cancel every fetch of a query and
  could keep a page old for ever; `MaxChanges` makes notices finite.
- Creating an order again after its answer was lost creates a second one: the
  interface has no idempotency key, and no property is stated about it. Likewise a
  level that is chosen while a request is pending is lost when it succeeds.
- HTTP validation, configuration, dependency wiring, throttling and row-to-JSON
  mapping are stateless or framework code. `wallets/wallet-funds.service.ts` is
  provided by no module. Of the test runner, the tests themselves.
- In the pipeline: `attempt_count` and `last_error`, which nothing reads; the
  order of jobs in the queue; closing the queue's connection. The exact limits of
  retained jobs are abstracted to a queue that may forget any job at any time.
- PostgreSQL, Prisma, Redis and BullMQ are taken as they are used: atomic
  commit, rollback without trace, FIFO row locks, READ COMMITTED statements.
- Two transactions never hold one wallet row at a time, and in the model a
  wallet that a match has written is exactly one it has locked. In `createOrder`
  and `cancelOrder`, the wallet's lock, its write and the commit are one step:
  after the wallet lock they wait for no one. The order in which a settlement
  locks its two wallets is therefore not represented (only one match runs at a
  time, and no other transaction holds more than one wallet).

No disagreement between code and documentation was found while modelling
(`docs/monetary-invariants.md`, `docs/decimal-policy.md` and
`docs/matching-recovery.md` were compared with the code).

## 6. Plan

The plan is carried out: its modules are written, every safety property of a module
with parameters is proved, and the three components whose promise is a behaviour
(matching, pipeline, realtime outbox) are proved to implement it. What could follow:

1. Several tabs, once the repository says what should happen between them.
2. The 24-hour statistics with a clock, once it says which moment they are of.

## 7. Running

```
tlc -workers 2 -config MatchingCore.cfg MCMatching.tla
tlapm Ledger_proofs.tla
```

`PROJECT.json` lists the runs, the mutants (for each property, a plausible bug in
a definition, written beside it, that the property must catch), the lines each
definition models, the hazards and the theorems.
