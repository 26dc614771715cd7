-------------------------- MODULE MatchingPipeline --------------------------
(***************************************************************************)
(* How a queued order reaches the matching engine.                         *)
(*                                                                         *)
(*   - createOrder stores an intent in order_matching_outbox;              *)
(*   - dispatchers (one in every API and worker process) claim intents     *)
(*     under a lease, add a job to the BullMQ queue, remove the intent;    *)
(*   - workers run the job, which processes the order or, on its last      *)
(*     attempt, rejects it;                                                *)
(*   - an operator retries failed jobs and restores lost intents.          *)
(*                                                                         *)
(* Every process may crash and restart, every call may fail before or      *)
(* after it took effect, and Redis may lose jobs.  What processOrder does  *)
(* to the tables is Matching's business: here it takes an order out of     *)
(* QUEUED, or is rolled back.                                              *)
(***************************************************************************)
EXTENDS Integers, FiniteSets

CONSTANTS
    Orders,
    Dispatchers,    \* the processes that run a dispatcher
    Workers,        \* the processes that run a worker
    BatchSize,      \* ORDER_MATCHING_OUTBOX_BATCH_SIZE
    MaxAttempts,    \* the job option attempts
    MaxStalled      \* BullMQ's maxStalledCount

\* Claim tokens: enough for one that no row and no dispatcher holds.  A token
\* that nobody remembers any more is used again.
Tokens == 1..(Cardinality(Orders) + Cardinality(Dispatchers))
NoToken == 0
NoOrder == "no order"
NoWorker == "no worker"

ASSUME PipelineAssumption ==
    /\ IsFiniteSet(Orders) /\ IsFiniteSet(Dispatchers)
    /\ NoOrder \notin Orders /\ NoWorker \notin Workers
    /\ BatchSize \in Nat \ {0}
    /\ MaxAttempts \in Nat \ {0}
    /\ MaxStalled \in Nat

VARIABLES
    status,         \* the order's status; MATCHED stands for all that
                    \* processOrder leaves an order in
    outbox,         \* the rows of order_matching_outbox, by order
    dispatchers,
    jobs,           \* the queue's jobs, by their id, the order
    workers,
    throws,         \* history: failed runs of processOrder, up to MaxAttempts
    dropped         \* history: orders whose unfinished job Redis forgot

vars == <<status, outbox, dispatchers, jobs, workers, throws, dropped>>

Status == {"none", "QUEUED", "MATCHED", "CANCELLED", "REJECTED"}

\* A row: its claim token; whether claimed_at is null, within the claim timeout
\* or beyond it; and whether next_attempt_at has come.
Row == [token : Tokens \cup {NoToken}, lease : {"none", "live", "expired"},
        due : BOOLEAN]

\* A row as appendOrder inserts it.
Intent == [token |-> NoToken, lease |-> "none", due |-> TRUE]

DispatchPhases == {"idle", "claim", "enqueue", "remove", "release"}

\* The local variables of dispatchLoop: claimedRows not dispatched yet, the row
\* being dispatched, hasFailedDispatch.
Dispatcher == [phase : DispatchPhases, token : Tokens \cup {NoToken},
               batch : SUBSET Orders, order : Orders \cup {NoOrder},
               failed : BOOLEAN, stopping : BOOLEAN]

Started == [phase |-> "idle", token |-> NoToken, batch |-> {},
            order |-> NoOrder, failed |-> FALSE, stopping |-> FALSE]

LiveStates == {"waiting", "active", "delayed"}
JobStates == {"none", "completed", "failed"} \cup LiveStates

Job == [state : JobStates, attemptsMade : 0..MaxAttempts,
        stalls : 0..MaxStalled, owner : Workers \cup {NoWorker}]

NoJob == [state |-> "none", attemptsMade |-> 0, stalls |-> 0,
          owner |-> NoWorker]

\* The job a worker runs, with attemptsMade as it was handed over.
Worker == [phase : {"idle", "process", "reject", "complete", "fail"},
           order : Orders \cup {NoOrder}, attemptsMade : 0..MaxAttempts]

IdleWorker == [phase |-> "idle", order |-> NoOrder, attemptsMade |-> 0]

Init ==
    /\ status = [o \in Orders |-> "none"]
    /\ outbox = [o \in {} |-> Intent]
    /\ dispatchers = [d \in Dispatchers |-> Started]
    /\ jobs = [o \in Orders |-> NoJob]
    /\ workers = [w \in Workers |-> IdleWorker]
    /\ throws = [o \in Orders |-> 0]
    /\ dropped = {}

-----------------------------------------------------------------------------
(* The outbox table *)

WriteRows(rows, row) ==
    [o \in DOMAIN outbox \cup rows |-> IF o \in rows THEN row ELSE outbox[o]]

DeleteRow(order) == [o \in DOMAIN outbox \ {order} |-> outbox[o]]

\* appendOrder, in the transaction of createOrder.
CreateOrder(o) ==
    /\ status[o] = "none"
    /\ status' = [status EXCEPT ![o] = "QUEUED"]
    /\ outbox' = WriteRows({o}, Intent)
    /\ UNCHANGED <<dispatchers, jobs, workers, throws, dropped>>

\* The owner cancels the order before it is processed.
CancelOrder(o) ==
    /\ status[o] = "QUEUED"
    /\ status' = [status EXCEPT ![o] = "CANCELLED"]
    /\ UNCHANGED <<outbox, dispatchers, jobs, workers, throws, dropped>>

\* The claim timeout of a row passes; its next_attempt_at comes.
ExpireLease(o) ==
    /\ o \in DOMAIN outbox
    /\ outbox[o].lease = "live"
    /\ outbox' = [outbox EXCEPT ![o].lease = "expired"]
    /\ UNCHANGED <<status, dispatchers, jobs, workers, throws, dropped>>

RetryDue(o) ==
    /\ o \in DOMAIN outbox
    /\ ~outbox[o].due
    /\ outbox' = [outbox EXCEPT ![o].due = TRUE]
    /\ UNCHANGED <<status, dispatchers, jobs, workers, throws, dropped>>

\* scripts/restore-matching-intents.sql: queued orders without an intent get
\* one, as many at a time as the limit and other statements' locks allow.
RestoreIntents(pending) ==
    /\ pending # {}
    /\ \A o \in pending : status[o] = "QUEUED" /\ o \notin DOMAIN outbox
    /\ outbox' = WriteRows(pending, Intent)
    /\ dropped' = dropped \ pending
    /\ UNCHANGED <<status, dispatchers, jobs, workers, throws>>

-----------------------------------------------------------------------------
(* OrderMatchingOutboxDispatcherService of the process d *)

\* dispatchPending, for a request or the poll; while a loop runs or the
\* process stops, it starts none.
StartDispatch(d) ==
    /\ dispatchers[d].phase = "idle"
    /\ ~dispatchers[d].stopping
    /\ dispatchers' = [dispatchers EXCEPT ![d].phase = "claim",
                                          ![d].failed = FALSE]
    /\ UNCHANGED <<status, outbox, jobs, workers, throws, dropped>>

\* Mutant: a claim is for ever.
ClaimableUnclaimed ==
    {o \in DOMAIN outbox : outbox[o].lease = "none" /\ outbox[o].due}

Claimable ==
    {o \in DOMAIN outbox : outbox[o].lease # "live" /\ outbox[o].due}

\* createClaimToken: one that no row and no dispatcher holds.
FreshToken ==
    CHOOSE t \in Tokens : /\ \A o \in DOMAIN outbox : outbox[o].token # t
                          /\ \A d \in Dispatchers : dispatchers[d].token # t

\* The UPDATE of claimNextBatch.  It takes the oldest rows, but passes over
\* those that another statement has locked: any of them may be the batch.
ClaimRows(rows) ==
    /\ rows # {}
    /\ Cardinality(rows) <= BatchSize
    /\ outbox' = [o \in DOMAIN outbox |->
                    IF o \in rows
                    THEN [outbox[o] EXCEPT !.token = FreshToken,
                                           !.lease = "live"]
                    ELSE outbox[o]]

ClaimBatch(d) ==
    /\ dispatchers[d].phase = "claim"
    /\ \E rows \in SUBSET Claimable :
          /\ ClaimRows(rows)
          /\ dispatchers' = [dispatchers EXCEPT ![d].phase = "enqueue",
                                                ![d].token = FreshToken,
                                                ![d].batch = rows]
    /\ UNCHANGED <<status, jobs, workers, throws, dropped>>

\* The loop ends: there is nothing to claim, or the query failed, if it did not
\* take effect before.
EndDispatch(d) ==
    /\ dispatchers[d].phase = "claim"
    /\ dispatchers' = [dispatchers EXCEPT ![d].phase = "idle"]
    /\ \/ UNCHANGED outbox
       \/ \E rows \in SUBSET Claimable : ClaimRows(rows)
    /\ UNCHANGED <<status, jobs, workers, throws, dropped>>

\* queue.add with the order's id as the job's: ignored if the queue still
\* has a job of that id, whatever became of it.
AddJob(o) ==
    jobs' = IF jobs[o].state = "none"
            THEN [jobs EXCEPT ![o].state = "waiting"] ELSE jobs

Enqueue(d, o) ==
    /\ dispatchers[d].phase = "enqueue"
    /\ o \in dispatchers[d].batch
    /\ AddJob(o)
    /\ dispatchers' = [dispatchers EXCEPT ![d].phase = "remove",
                                          ![d].order = o,
                                          ![d].batch = @ \ {o}]
    /\ UNCHANGED <<status, outbox, workers, throws, dropped>>

\* Mutant: the error is logged, and the intent removed.
EnqueueFailsUnnoticed(d, o) ==
    /\ dispatchers[d].phase = "enqueue"
    /\ o \in dispatchers[d].batch
    /\ AddJob(o) \/ UNCHANGED jobs
    /\ dispatchers' = [dispatchers EXCEPT ![d].phase = "remove",
                                          ![d].order = o,
                                          ![d].batch = @ \ {o}]
    /\ UNCHANGED <<status, outbox, workers, throws, dropped>>

\* Redis does not answer in time, but may have the job.
EnqueueFails(d, o) ==
    /\ dispatchers[d].phase = "enqueue"
    /\ o \in dispatchers[d].batch
    /\ AddJob(o) \/ UNCHANGED jobs
    /\ dispatchers' = [dispatchers EXCEPT ![d].phase = "release",
                                          ![d].order = o,
                                          ![d].batch = @ \ {o},
                                          ![d].failed = TRUE]
    /\ UNCHANGED <<status, outbox, workers, throws, dropped>>

\* The last claim of o's row is d's.
Holds(d, o) ==
    o \in DOMAIN outbox /\ outbox[o].token = dispatchers[d].token

RemoveRow(d) ==
    outbox' = IF Holds(d, dispatchers[d].order)
              THEN DeleteRow(dispatchers[d].order) ELSE outbox

\* Mutant: the UPDATE names the row only.
ReleaseRowOfAny(d) ==
    outbox' = IF dispatchers[d].order \in DOMAIN outbox
              THEN [outbox EXCEPT ![dispatchers[d].order] =
                                    [Intent EXCEPT !.due = FALSE]]
              ELSE outbox

ReleaseRow(d) ==
    outbox' = IF Holds(d, dispatchers[d].order)
              THEN [outbox EXCEPT ![dispatchers[d].order] =
                                    [Intent EXCEPT !.due = FALSE]]
              ELSE outbox

\* Mutant: return from the loop with the first failure.
NextRowUnlessFailed(d) ==
    LET this == dispatchers[d]
    IN  dispatchers' =
          [dispatchers EXCEPT
             ![d].phase = IF this.failed \/ this.stopping THEN "idle"
                          ELSE IF this.batch # {} THEN "enqueue"
                          ELSE "claim",
             ![d].token = IF this.batch # {} THEN @ ELSE NoToken,
             ![d].order = NoOrder]

\* On to the batch's next row; then to the next batch, unless a row failed or
\* the process is stopping.
NextRow(d) ==
    LET this == dispatchers[d]
    IN  dispatchers' =
          [dispatchers EXCEPT
             ![d].phase = IF this.batch # {} THEN "enqueue"
                          ELSE IF this.failed \/ this.stopping THEN "idle"
                          ELSE "claim",
             ![d].token = IF this.batch # {} THEN @ ELSE NoToken,
             ![d].order = NoOrder]

RemoveClaimedRow(d) ==
    /\ dispatchers[d].phase = "remove"
    /\ RemoveRow(d)
    /\ NextRow(d)
    /\ UNCHANGED <<status, jobs, workers, throws, dropped>>

RemoveFails(d) ==
    /\ dispatchers[d].phase = "remove"
    /\ RemoveRow(d) \/ UNCHANGED outbox
    /\ dispatchers' = [dispatchers EXCEPT ![d].phase = "release",
                                          ![d].failed = TRUE]
    /\ UNCHANGED <<status, jobs, workers, throws, dropped>>

\* releaseClaim; if it fails, the row waits for its lease to expire.
ReleaseClaim(d) ==
    /\ dispatchers[d].phase = "release"
    /\ ReleaseRow(d) \/ UNCHANGED outbox
    /\ NextRow(d)
    /\ UNCHANGED <<status, jobs, workers, throws, dropped>>

\* onApplicationShutdown: a loop in progress ends with its batch.
Shutdown(d) ==
    /\ ~dispatchers[d].stopping
    /\ dispatchers' = [dispatchers EXCEPT ![d].stopping = TRUE]
    /\ UNCHANGED <<status, outbox, jobs, workers, throws, dropped>>

\* The process starts again, after its shutdown or after a crash at any point.
RestartDispatcher(d) ==
    /\ dispatchers[d] # Started
    /\ dispatchers' = [dispatchers EXCEPT ![d] = Started]
    /\ UNCHANGED <<status, outbox, jobs, workers, throws, dropped>>

-----------------------------------------------------------------------------
(* The queue and the workers *)

\* Global concurrency is 1: no job starts while another is active.
TakeJob(w, o) ==
    /\ workers[w].phase = "idle"
    /\ jobs[o].state = "waiting"
    /\ \A p \in Orders : jobs[p].state # "active"
    /\ jobs' = [jobs EXCEPT ![o].state = "active", ![o].owner = w]
    /\ workers' = [workers EXCEPT
                     ![w] = [phase |-> "process", order |-> o,
                             attemptsMade |-> jobs[o].attemptsMade]]
    /\ UNCHANGED <<status, outbox, dispatchers, throws, dropped>>

\* Mutant: whatever the order's status is.
SettleAnew(o, outcome) == status' = [status EXCEPT ![o] = outcome]

\* An order leaves QUEUED once; later it is found processed, and skipped.
Settle(o, outcome) ==
    status' = IF status[o] = "QUEUED" THEN [status EXCEPT ![o] = outcome]
                                      ELSE status

Continue(w, phase) == workers' = [workers EXCEPT ![w].phase = phase]

ProcessOrder(w) ==
    /\ workers[w].phase = "process"
    /\ Settle(workers[w].order, "MATCHED")
    /\ Continue(w, "complete")
    /\ UNCHANGED <<outbox, dispatchers, jobs, throws, dropped>>

IsFinalAttempt(attemptsMade) == attemptsMade + 1 >= MaxAttempts

\* processOrder throws: rolled back, or committed with the answer lost.
ProcessThrows(w) ==
    LET o == workers[w].order
    IN  /\ workers[w].phase = "process"
        /\ Settle(o, "MATCHED") \/ UNCHANGED status
        /\ throws' = [throws EXCEPT ![o] = IF @ < MaxAttempts THEN @ + 1 ELSE @]
        /\ Continue(w, IF IsFinalAttempt(workers[w].attemptsMade)
                       THEN "reject" ELSE "fail")
        /\ UNCHANGED <<outbox, dispatchers, jobs, dropped>>

RejectOrder(w) ==
    /\ workers[w].phase = "reject"
    /\ Settle(workers[w].order, "REJECTED")
    /\ Continue(w, "complete")
    /\ UNCHANGED <<outbox, dispatchers, jobs, throws, dropped>>

\* Mutant: the rejection's error is swallowed.
RejectThrowsUnnoticed(w) ==
    /\ workers[w].phase = "reject"
    /\ Settle(workers[w].order, "REJECTED") \/ UNCHANGED status
    /\ Continue(w, "complete")
    /\ UNCHANGED <<outbox, dispatchers, jobs, throws, dropped>>

RejectThrows(w) ==
    /\ workers[w].phase = "reject"
    /\ Settle(workers[w].order, "REJECTED") \/ UNCHANGED status
    /\ Continue(w, "fail")
    /\ UNCHANGED <<outbox, dispatchers, jobs, throws, dropped>>

\* The worker still has the lock of the job that it ran.
HasJob(w) ==
    LET o == workers[w].order
    IN  jobs[o].state = "active" /\ jobs[o].owner = w

\* The queue refuses the report of a worker that lost the job's lock.
Finish(w, job) ==
    /\ jobs' = IF HasJob(w) THEN [jobs EXCEPT ![workers[w].order] = job]
                            ELSE jobs
    /\ workers' = [workers EXCEPT ![w] = IdleWorker]
    /\ UNCHANGED <<status, outbox, dispatchers, throws, dropped>>

CompleteJob(w) ==
    /\ workers[w].phase = "complete"
    /\ Finish(w, [jobs[workers[w].order] EXCEPT !.state = "completed",
                                                !.owner = NoWorker])

\* With attempts left, the job waits for its backoff.
FailJob(w) ==
    LET job == jobs[workers[w].order]
        made == job.attemptsMade + 1
    IN  /\ workers[w].phase = "fail"
        /\ Finish(w, [job EXCEPT
                        !.state = IF made < MaxAttempts THEN "delayed"
                                                        ELSE "failed",
                        !.attemptsMade = IF made < MaxAttempts THEN made
                                                               ELSE MaxAttempts,
                        !.owner = NoWorker])

\* A crash at any point, or a report that never reaches Redis.
RestartWorker(w) ==
    /\ workers[w] # IdleWorker
    /\ workers' = [workers EXCEPT ![w] = IdleWorker]
    /\ UNCHANGED <<status, outbox, dispatchers, jobs, throws, dropped>>

BackoffElapses(o) ==
    /\ jobs[o].state = "delayed"
    /\ jobs' = [jobs EXCEPT ![o].state = "waiting"]
    /\ UNCHANGED <<status, outbox, dispatchers, workers, throws, dropped>>

\* The lock of an active job expires, although its worker may only be slow; a
\* job that stalls too often fails.
StallJob(o) ==
    /\ jobs[o].state = "active"
    /\ jobs' = [jobs EXCEPT
                  ![o].state = IF jobs[o].stalls < MaxStalled THEN "waiting"
                                                              ELSE "failed",
                  ![o].stalls = IF @ < MaxStalled THEN @ + 1 ELSE @,
                  ![o].owner = NoWorker]
    /\ UNCHANGED <<status, outbox, dispatchers, workers, throws, dropped>>

\* Redis loses a job, or trims a finished one (removeOnComplete, removeOnFail).
ForgetJob(o) ==
    /\ jobs[o].state # "none"
    /\ jobs' = [jobs EXCEPT ![o] = NoJob]
    /\ dropped' = IF jobs[o].state = "completed" THEN dropped
                                                 ELSE dropped \cup {o}
    /\ UNCHANGED <<status, outbox, dispatchers, workers, throws>>

\* The operator's job.retry('failed').
RetryFailedJob(o) ==
    /\ jobs[o].state = "failed"
    /\ jobs' = [jobs EXCEPT ![o].state = "waiting"]
    /\ UNCHANGED <<status, outbox, dispatchers, workers, throws, dropped>>

-----------------------------------------------------------------------------
Next ==
    \/ \E o \in Orders : CreateOrder(o)
    \/ \E o \in Orders : CancelOrder(o)
    \/ \E o \in Orders : ExpireLease(o)
    \/ \E o \in Orders : RetryDue(o)
    \/ \E pending \in SUBSET Orders : RestoreIntents(pending)
    \/ \E d \in Dispatchers : StartDispatch(d)
    \/ \E d \in Dispatchers : ClaimBatch(d)
    \/ \E d \in Dispatchers : EndDispatch(d)
    \/ \E d \in Dispatchers, o \in Orders : Enqueue(d, o)
    \/ \E d \in Dispatchers, o \in Orders : EnqueueFails(d, o)
    \/ \E d \in Dispatchers : RemoveClaimedRow(d)
    \/ \E d \in Dispatchers : RemoveFails(d)
    \/ \E d \in Dispatchers : ReleaseClaim(d)
    \/ \E d \in Dispatchers : Shutdown(d)
    \/ \E d \in Dispatchers : RestartDispatcher(d)
    \/ \E w \in Workers, o \in Orders : TakeJob(w, o)
    \/ \E w \in Workers : ProcessOrder(w)
    \/ \E w \in Workers : ProcessThrows(w)
    \/ \E w \in Workers : RejectOrder(w)
    \/ \E w \in Workers : RejectThrows(w)
    \/ \E w \in Workers : CompleteJob(w)
    \/ \E w \in Workers : FailJob(w)
    \/ \E w \in Workers : RestartWorker(w)
    \/ \E o \in Orders : BackoffElapses(o)
    \/ \E o \in Orders : StallJob(o)
    \/ \E o \in Orders : ForgetJob(o)
    \/ \E o \in Orders : RetryFailedJob(o)

Spec == Init /\ [][Next]_vars

DispatchStep(d) ==
    \/ EndDispatch(d) \/ RemoveClaimedRow(d) \/ RemoveFails(d) \/ ReleaseClaim(d)
    \/ \E o \in Orders : Enqueue(d, o) \/ EnqueueFails(d, o)

WorkerStep(w) ==
    \/ ProcessOrder(w) \/ ProcessThrows(w) \/ RejectOrder(w) \/ RejectThrows(w)
    \/ CompleteJob(w) \/ FailJob(w)

\* Dispatch: a process that is up polls, goes on with what it began and is
\* restarted; and not every claim of an order's row fails, nor every attempt to
\* enqueue it or to remove it (SF: in between, any number may).
DispatchFairness ==
    /\ \A d \in Dispatchers :
          /\ SF_vars(StartDispatch(d))
          /\ WF_vars(DispatchStep(d))
          /\ WF_vars(dispatchers[d].stopping /\ dispatchers[d].phase = "idle"
                        /\ RestartDispatcher(d))
    /\ \A o \in Orders :
          /\ WF_vars(ExpireLease(o))
          /\ WF_vars(RetryDue(o))
          /\ SF_vars(\E d \in Dispatchers :
                        ClaimBatch(d) /\ o \in dispatchers'[d].batch)
          /\ SF_vars(\E d \in Dispatchers : Holds(d, o) /\ Enqueue(d, o))
          /\ SF_vars(\E d \in Dispatchers :
                        /\ dispatchers[d].order = o /\ Holds(d, o)
                        /\ RemoveClaimedRow(d))

\* The queue hands every waiting job to a worker in its turn, a run of a job
\* ends (its transactions have timeouts), and a job that no worker holds any
\* more is found stalled.
QueueFairness ==
    /\ \A w \in Workers : WF_vars(WorkerStep(w))
    /\ \A o \in Orders :
          /\ WF_vars(BackoffElapses(o))
          /\ SF_vars(\E w \in Workers : TakeJob(w, o))
          /\ WF_vars(/\ ~\E w \in Workers : workers[w].order = o /\ HasJob(w)
                     /\ StallJob(o))

\* The operator follows docs/matching-recovery.md: retries a failed job,
\* restores a lost intent, and the cause of the failures is corrected in the end.
OperatorFairness ==
    \A o \in Orders :
       /\ SF_vars(RetryFailedJob(o))
       /\ SF_vars(\E pending \in SUBSET Orders :
                     o \in pending /\ RestoreIntents(pending))
       /\ SF_vars(\E w \in Workers : workers[w].order = o /\ ProcessOrder(w))

FairSpec == Spec /\ DispatchFairness /\ QueueFairness

-----------------------------------------------------------------------------
(* Properties *)

\* Where the loop of a dispatcher stands agrees with what it holds: every row
\* of a batch is dispatched before the loop goes on or ends.
LoopState(this) ==
    /\ this.phase \in {"idle", "claim"} =>
          this.token = NoToken /\ this.batch = {} /\ this.order = NoOrder
    /\ this.phase = "enqueue" =>
          this.token # NoToken /\ this.batch # {} /\ this.order = NoOrder
    /\ this.phase \in {"remove", "release"} =>
          this.token # NoToken /\ this.order \in Orders \ this.batch

RowsOK ==
    /\ DOMAIN outbox \subseteq Orders
    /\ \A o \in DOMAIN outbox : outbox[o] \in Row

DispatchersOK ==
    /\ dispatchers \in [Dispatchers -> Dispatcher]
    /\ \A d \in Dispatchers : LoopState(dispatchers[d])

WorkersOK ==
    /\ workers \in [Workers -> Worker]
    /\ \A w \in Workers :
          workers[w].phase # "idle" => workers[w].order \in Orders

\* The rows, jobs and local variables hold what they can, and a dispatch loop
\* accounts for every row it claimed.
TypeOK ==
    /\ status \in [Orders -> Status]
    /\ RowsOK
    /\ DispatchersOK
    /\ jobs \in [Orders -> Job]
    /\ WorkersOK
    /\ throws \in [Orders -> 0..MaxAttempts]
    /\ dropped \subseteq Orders

\* docs/matching-recovery.md's delivery guarantee: a queued order has an intent
\* or a job, whichever calls failed and processes crashed on the way from one to
\* the other; it has neither only if Redis lost an acknowledged job.
HasCarrier ==
    \A o \in Orders :
        status[o] = "QUEUED" =>
            \/ o \in DOMAIN outbox
            \/ jobs[o].state \in LiveStates \cup {"failed"}
            \/ o \in dropped

\* A completed job means that the order was dealt with: it is what makes the
\* queue's deduplication safe, for a completed job swallows every further
\* intent of its order.
CompletedMeansDone ==
    \A o \in Orders : jobs[o].state = "completed" => status[o] # "QUEUED"

\* An order is given up only after the promised number of runs failed, though
\* jobs stall, are taken over by other workers, retried by hand, lost and
\* added again.  (A part of what ImplementsDelivery says.)
RejectedOnlyAfterRetries ==
    \A o \in Orders : status[o] = "REJECTED" => throws[o] = MaxAttempts

\* A queued order is attended to by its intent, or by a job that runs or that the
\* operator can retry.
Attended ==
    {o \in Orders : /\ status[o] = "QUEUED"
                    /\ \/ o \in DOMAIN outbox
                       \/ jobs[o].state \in LiveStates \cup {"failed"}}

Promise == INSTANCE Delivery WITH
    attended <- Attended,
    failures <- throws,
    forgotten <- dropped

\* docs/matching-recovery.md, for every step: whatever the dispatchers, the
\* queue and the workers do, an order is settled once, given up only after its
\* attempts, and no step leaves it to nobody unless Redis forgot its job.
ImplementsDelivery == Promise!Spec

\* Until its lease expires, a claimed row is changed by its claimant only: a
\* dispatcher that was overtaken while it waited for Redis does not touch it.
ClaimRespected ==
    [][\A o \in DOMAIN outbox :
          \/ outbox[o].lease # "live"
          \/ o \in DOMAIN outbox' /\ outbox'[o] = outbox[o]
          \/ o \in DOMAIN outbox'
                /\ outbox'[o] = [outbox[o] EXCEPT !.lease = "expired"]
          \/ \E d \in Dispatchers : dispatchers[d].order = o /\ Holds(d, o)]_vars

\* A queued order is settled without help, unless its job failed for good or
\* was lost in Redis.
Delivered ==
    \A o \in Orders :
        status[o] = "QUEUED" ~> \/ status[o] # "QUEUED"
                                \/ jobs[o].state = "failed"
                                \/ o \in dropped

\* An intent is acknowledged in the end, however often its claim is lost.
IntentsDrain ==
    \A o \in Orders : o \in DOMAIN outbox ~> o \notin DOMAIN outbox

\* With the documented recovery every queued order is settled, even if jobs
\* fail for good and Redis loses them again and again.
Recovered ==
    OperatorFairness =>
    \A o \in Orders : status[o] = "QUEUED" ~> status[o] # "QUEUED"
=============================================================================
