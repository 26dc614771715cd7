--------------------------- MODULE RealtimeOutbox ---------------------------
(***************************************************************************)
(* How a realtime event reaches the Redis channel.                         *)
(*                                                                         *)
(*   - a transaction appends its events to realtime_event_outbox;          *)
(*   - the dispatcher of every process claims events under a lease,        *)
(*     publishes them and marks them published, or releases the claim for  *)
(*     a later attempt, the last of which makes the event a dead letter;   *)
(*   - its maintenance prunes published events and dead letters;           *)
(*   - a process that stops drains both before it closes what they use.    *)
(*                                                                         *)
(* Processes crash and restart; every statement and publication may fail   *)
(* before or after it took effect.                                         *)
(***************************************************************************)
EXTENDS Integers, FiniteSets

CONSTANTS
    Events,
    Processes,      \* the API and worker processes
    BatchSize,      \* REALTIME_OUTBOX_BATCH_SIZE
    MaxAttempts     \* REALTIME_OUTBOX_MAX_ATTEMPTS

Tokens == 1..(Cardinality(Events) + Cardinality(Processes))
NoToken == 0
NoEvent == "no event"

ASSUME OutboxAssumption ==
    /\ IsFiniteSet(Events) /\ IsFiniteSet(Processes)
    /\ NoEvent \notin Events
    /\ BatchSize \in Nat \ {0}
    /\ MaxAttempts \in Nat \ {0}

VARIABLES
    rows,           \* the rows of realtime_event_outbox, by event
    processes,
    appended,       \* history: events ever appended
    sent,           \* history: events that Redis accepted at least once
    failures        \* history: failed deliveries, up to MaxAttempts

vars == <<rows, processes, appended, sent, failures>>

\* published_at and dead_lettered_at are set or not; aged: the later of them is
\* beyond its retention.  lease: claimed_at is null, within the claim timeout
\* or beyond it.  due: next_attempt_at is null or has come.
Row == [published : BOOLEAN, dead : BOOLEAN, aged : BOOLEAN, due : BOOLEAN,
        attempts : 0..MaxAttempts, token : Tokens \cup {NoToken},
        lease : {"none", "live", "expired"}]

NewRow == [published |-> FALSE, dead |-> FALSE, aged |-> FALSE, due |-> TRUE,
           attempts |-> 0, token |-> NoToken, lease |-> "none"]

\* The dispatch loop and its local variables; the maintenance in progress; the
\* publisher's connection; and how far the shutdown has come.
Process == [phase : {"idle", "claim", "publish", "mark", "release"},
            token : Tokens \cup {NoToken}, batch : SUBSET Events,
            event : Events \cup {NoEvent}, failed : BOOLEAN,
            pruning : BOOLEAN, publisher : BOOLEAN, stopping : BOOLEAN,
            resources : {"open", "prisma closed", "closed"}]

Started == [phase |-> "idle", token |-> NoToken, batch |-> {},
            event |-> NoEvent, failed |-> FALSE, pruning |-> FALSE,
            publisher |-> FALSE, stopping |-> FALSE, resources |-> "open"]

Init ==
    /\ rows = [e \in {} |-> NewRow]
    /\ processes = [p \in Processes |-> Started]
    /\ appended = {}
    /\ sent = {}
    /\ failures = [e \in Events |-> 0]

-----------------------------------------------------------------------------
(* The table *)

\* appendEvents, in the transaction of the change that the events announce.
AppendEvents(events) ==
    /\ events # {}
    /\ events \cap appended = {}
    /\ rows' = [e \in DOMAIN rows \cup events |->
                  IF e \in events THEN NewRow ELSE rows[e]]
    /\ appended' = appended \cup events
    /\ UNCHANGED <<processes, sent, failures>>

Settled(row) == row.published \/ row.dead

\* Time passes for a row: its lease, its retry delay, its retention.
ExpireLease(e) ==
    /\ e \in DOMAIN rows
    /\ rows[e].lease = "live"
    /\ rows' = [rows EXCEPT ![e].lease = "expired"]
    /\ UNCHANGED <<processes, appended, sent, failures>>

RetryDue(e) ==
    /\ e \in DOMAIN rows
    /\ ~rows[e].due
    /\ rows' = [rows EXCEPT ![e].due = TRUE]
    /\ UNCHANGED <<processes, appended, sent, failures>>

Age(e) ==
    /\ e \in DOMAIN rows
    /\ Settled(rows[e]) /\ ~rows[e].aged
    /\ rows' = [rows EXCEPT ![e].aged = TRUE]
    /\ UNCHANGED <<processes, appended, sent, failures>>

-----------------------------------------------------------------------------
(* The dispatch loop *)

StartDispatch(p) ==
    /\ processes[p].phase = "idle"
    /\ ~processes[p].stopping
    /\ processes' = [processes EXCEPT ![p].phase = "claim",
                                      ![p].failed = FALSE]
    /\ UNCHANGED <<rows, appended, sent, failures>>

Claimable ==
    {e \in DOMAIN rows : /\ ~Settled(rows[e])
                         /\ rows[e].due
                         /\ rows[e].lease # "live"}

FreshToken ==
    CHOOSE t \in Tokens : /\ \A e \in DOMAIN rows : rows[e].token # t
                          /\ \A p \in Processes : processes[p].token # t

\* Rows that another statement has locked are skipped: any may be the batch.
Claim(batch) ==
    /\ batch # {}
    /\ Cardinality(batch) <= BatchSize
    /\ rows' = [e \in DOMAIN rows |->
                  IF e \in batch
                  THEN [rows[e] EXCEPT !.token = FreshToken, !.lease = "live"]
                  ELSE rows[e]]

ClaimNextBatch(p) ==
    /\ processes[p].phase = "claim"
    /\ \E batch \in SUBSET Claimable :
          /\ Claim(batch)
          /\ processes' = [processes EXCEPT ![p].phase = "publish",
                                            ![p].token = FreshToken,
                                            ![p].batch = batch]
    /\ UNCHANGED <<appended, sent, failures>>

\* There is nothing to claim, or the query failed, before or after it took
\* effect; or the process is stopping.
EndDispatch(p) ==
    /\ processes[p].phase = "claim"
    /\ rows' = rows \/ \E batch \in SUBSET Claimable : Claim(batch)
    /\ processes' = [processes EXCEPT ![p].phase = "idle"]
    /\ UNCHANGED <<appended, sent, failures>>

Take(p, e, phase, connected) ==
    processes' = [processes EXCEPT ![p].phase = phase,
                                   ![p].event = e,
                                   ![p].batch = @ \ {e},
                                   ![p].failed = @ \/ phase = "release",
                                   ![p].publisher = connected]

PublishEvent(p, e) ==
    /\ processes[p].phase = "publish"
    /\ e \in processes[p].batch
    /\ Take(p, e, "mark", TRUE)
    /\ sent' = sent \cup {e}
    /\ UNCHANGED <<rows, appended, failures>>

CountFailure(e) ==
    failures' = [failures EXCEPT ![e] = IF @ < MaxAttempts THEN @ + 1 ELSE @]

\* Mutant: the error is logged only, and the row marked.
PublishFailsUnnoticed(p, e) ==
    /\ processes[p].phase = "publish"
    /\ e \in processes[p].batch
    /\ Take(p, e, "mark", FALSE)
    /\ sent' \in {sent, sent \cup {e}}
    /\ CountFailure(e)
    /\ UNCHANGED <<rows, appended>>

\* Redis did not answer, or the answer was lost; the next publication opens a
\* new connection.
PublishFails(p, e) ==
    /\ processes[p].phase = "publish"
    /\ e \in processes[p].batch
    /\ Take(p, e, "release", FALSE)
    /\ sent' \in {sent, sent \cup {e}}
    /\ CountFailure(e)
    /\ UNCHANGED <<rows, appended>>

\* An UPDATE by e's id and p's token finds the row.
Holds(p, e) == e \in DOMAIN rows /\ rows[e].token = processes[p].token

Published(row) ==
    [row EXCEPT !.published = TRUE, !.due = TRUE,
                !.lease = "none", !.token = NoToken]

\* Mutant: the row is marked by its id only.
MarkAnyway(p) ==
    rows' = [e \in DOMAIN rows |->
               IF e = processes[p].event THEN Published(rows[e]) ELSE rows[e]]

MarkAsPublished(p) ==
    rows' = [e \in DOMAIN rows |->
               IF e = processes[p].event /\ Holds(p, e) THEN Published(rows[e])
                                                     ELSE rows[e]]

\* Mutant: the failed attempt is counted twice against the limit.
ReleasedEarly(row) ==
    LET last == row.attempts + 2 >= MaxAttempts
    IN  [row EXCEPT !.attempts = @ + 1, !.due = last, !.dead = last,
                    !.lease = "none", !.token = NoToken]

Released(row) ==
    LET last == row.attempts + 1 >= MaxAttempts
    IN  [row EXCEPT !.attempts = @ + 1, !.due = last, !.dead = last,
                    !.lease = "none", !.token = NoToken]

ReleaseClaim(p) ==
    rows' = [e \in DOMAIN rows |->
               IF e = processes[p].event /\ Holds(p, e) THEN Released(rows[e])
                                                     ELSE rows[e]]

\* Mutant: the token of a batch is kept when it is done.
NextRowKeepingToken(p) ==
    LET this == processes[p]
        next == CASE this.batch # {} -> "publish"
                  [] this.batch = {} /\ (this.failed \/ this.stopping) -> "idle"
                  [] OTHER -> "claim"
    IN  processes' = [processes EXCEPT ![p].phase = next, ![p].event = NoEvent]

\* The rest of the batch; then the next one, unless a row failed.
NextRow(p) ==
    LET this == processes[p]
        next == CASE this.batch # {} -> "publish"
                  [] this.batch = {} /\ (this.failed \/ this.stopping) -> "idle"
                  [] OTHER -> "claim"
    IN  processes' = [processes EXCEPT
                        ![p].phase = next,
                        ![p].event = NoEvent,
                        ![p].token = IF next = "publish" THEN @ ELSE NoToken]

Mark(p) ==
    /\ processes[p].phase = "mark"
    /\ MarkAsPublished(p)
    /\ NextRow(p)
    /\ UNCHANGED <<appended, sent, failures>>

MarkFails(p) ==
    /\ processes[p].phase = "mark"
    /\ MarkAsPublished(p) \/ UNCHANGED rows
    /\ processes' = [processes EXCEPT ![p].phase = "release",
                                      ![p].failed = TRUE]
    /\ CountFailure(processes[p].event)
    /\ UNCHANGED <<appended, sent>>

Release(p) ==
    /\ processes[p].phase = "release"
    /\ ReleaseClaim(p)
    /\ NextRow(p)
    /\ UNCHANGED <<appended, sent, failures>>

\* Its error is logged: the lease must expire before the row is claimed again.
ReleaseFails(p) ==
    /\ processes[p].phase = "release"
    /\ ReleaseClaim(p) \/ UNCHANGED rows
    /\ NextRow(p)
    /\ UNCHANGED <<appended, sent, failures>>

-----------------------------------------------------------------------------
(* Maintenance *)

\* runMaintenanceIfDue: one at a time.
StartPruning(p) ==
    /\ ~processes[p].stopping
    /\ ~processes[p].pruning
    /\ processes' = [processes EXCEPT ![p].pruning = TRUE]
    /\ UNCHANGED <<rows, appended, sent, failures>>

\* Mutant: dead letters are kept.
PrunePublished ==
    rows' = [e \in {f \in DOMAIN rows : ~(rows[f].aged /\ rows[f].published)}
               |-> rows[e]]

PruneExpiredEvents ==
    rows' = [e \in {f \in DOMAIN rows : ~rows[f].aged} |-> rows[e]]

EndPruning(p) ==
    /\ processes[p].pruning
    /\ PruneExpiredEvents
    /\ processes' = [processes EXCEPT ![p].pruning = FALSE]
    /\ UNCHANGED <<appended, sent, failures>>

PruningFails(p) ==
    /\ processes[p].pruning
    /\ PruneExpiredEvents \/ UNCHANGED rows
    /\ processes' = [processes EXCEPT ![p].pruning = FALSE]
    /\ UNCHANGED <<appended, sent, failures>>

-----------------------------------------------------------------------------
(* The end of a process *)

Shutdown(p) ==
    /\ ~processes[p].stopping
    /\ processes' = [processes EXCEPT ![p].stopping = TRUE]
    /\ UNCHANGED <<rows, appended, sent, failures>>

\* Mutant: the maintenance in progress is not waited for.
DispatchDrained(this) == this.phase = "idle"

\* What onModuleDestroy waits for: the dispatch and the maintenance.
Drained(this) == this.phase = "idle" /\ ~this.pruning

\* Prisma's onModuleDestroy comes after that of the modules that import it.
ClosePrisma(p) ==
    /\ processes[p].stopping /\ processes[p].resources = "open"
    /\ Drained(processes[p])
    /\ processes' = [processes EXCEPT ![p].resources = "prisma closed"]
    /\ UNCHANGED <<rows, appended, sent, failures>>

\* The publisher's onApplicationShutdown.
ClosePublisher(p) ==
    /\ processes[p].resources = "prisma closed"
    /\ processes' = [processes EXCEPT ![p].resources = "closed",
                                      ![p].publisher = FALSE]
    /\ UNCHANGED <<rows, appended, sent, failures>>

\* After a shutdown, or after a crash at any point.
Restart(p) ==
    /\ processes[p] # Started
    /\ processes' = [processes EXCEPT ![p] = Started]
    /\ UNCHANGED <<rows, appended, sent, failures>>

-----------------------------------------------------------------------------
Next ==
    \/ \E events \in SUBSET Events : AppendEvents(events)
    \/ \E e \in Events : ExpireLease(e)
    \/ \E e \in Events : RetryDue(e)
    \/ \E e \in Events : Age(e)
    \/ \E p \in Processes : StartDispatch(p)
    \/ \E p \in Processes : ClaimNextBatch(p)
    \/ \E p \in Processes : EndDispatch(p)
    \/ \E p \in Processes, e \in Events : PublishEvent(p, e)
    \/ \E p \in Processes, e \in Events : PublishFails(p, e)
    \/ \E p \in Processes : Mark(p)
    \/ \E p \in Processes : MarkFails(p)
    \/ \E p \in Processes : Release(p)
    \/ \E p \in Processes : ReleaseFails(p)
    \/ \E p \in Processes : StartPruning(p)
    \/ \E p \in Processes : EndPruning(p)
    \/ \E p \in Processes : PruningFails(p)
    \/ \E p \in Processes : Shutdown(p)
    \/ \E p \in Processes : ClosePrisma(p)
    \/ \E p \in Processes : ClosePublisher(p)
    \/ \E p \in Processes : Restart(p)

Spec == Init /\ [][Next]_vars

LoopStep(p) ==
    \/ EndDispatch(p) \/ Mark(p) \/ MarkFails(p) \/ Release(p) \/ ReleaseFails(p)
    \/ \E e \in Events : PublishEvent(p, e) \/ PublishFails(p, e)

\* A process that is up polls and goes on with what it began; one that stopped
\* is closed and restarted.  Time passes.  Crashes and failures do not fall on
\* every claim of an event, on every one of its deliveries, on every release
\* after a failed one, or on every pruning.
FairSpec ==
    /\ Spec
    /\ \A p \in Processes :
          /\ SF_vars(StartDispatch(p))
          /\ WF_vars(LoopStep(p))
          /\ SF_vars(StartPruning(p))
          /\ WF_vars(EndPruning(p) \/ PruningFails(p))
          /\ SF_vars(EndPruning(p))
          /\ WF_vars(ClosePrisma(p))
          /\ WF_vars(ClosePublisher(p))
          /\ WF_vars(processes[p].resources = "closed" /\ Restart(p))
    /\ \A e \in Events :
          /\ WF_vars(ExpireLease(e))
          /\ WF_vars(RetryDue(e))
          /\ WF_vars(Age(e))
          /\ SF_vars(\E p \in Processes :
                        ClaimNextBatch(p) /\ e \in processes'[p].batch)
          /\ SF_vars(\E p \in Processes :
                        /\ Holds(p, e)
                        /\ PublishEvent(p, e) \/ PublishFails(p, e))
          /\ SF_vars(\E p \in Processes :
                        processes[p].event = e /\ Holds(p, e) /\ Mark(p))
          /\ SF_vars(\E p \in Processes :
                        processes[p].event = e /\ Holds(p, e) /\ Release(p))

-----------------------------------------------------------------------------
(* Properties *)

\* A loop holds a claim, and an event in hand, exactly where it needs them.
LoopOK(this) ==
    /\ this.phase \in {"idle", "claim"} =>
          this.token = NoToken /\ this.batch = {} /\ this.event = NoEvent
    /\ this.phase = "publish" =>
          this.token # NoToken /\ this.batch # {} /\ this.event = NoEvent
    /\ this.phase \in {"mark", "release"} =>
          this.token # NoToken /\ this.event \in Events \ this.batch

\* Rows and local variables hold what they can.
TypeOK ==
    /\ DOMAIN rows \subseteq appended
    /\ \A e \in DOMAIN rows : rows[e] \in Row
    /\ processes \in [Processes -> Process]
    /\ \A p \in Processes : LoopOK(processes[p])
    /\ appended \subseteq Events
    /\ sent \subseteq appended
    /\ failures \in [Events -> 0..MaxAttempts]

\* No event is silently lost on its way to Redis: one that is no longer retried
\* was accepted, and one that was pruned too, unless it was a dead letter, which
\* takes MaxAttempts failed deliveries (README: "The tenth failed realtime
\* delivery moves the event to dead letter").
NoEventLost ==
    \A e \in appended :
        \/ e \in DOMAIN rows /\ ~Settled(rows[e])
        \/ e \in DOMAIN rows /\ rows[e].published /\ e \in sent
        \/ e \in DOMAIN rows /\ rows[e].dead /\ failures[e] = MaxAttempts
        \/ e \notin DOMAIN rows /\ (e \in sent \/ failures[e] = MaxAttempts)

\* A marked event stays published: neither the failure of the statement that
\* marked it, reported after it committed, nor a dispatcher that lost its claim
\* makes it pending again or a dead letter.  (ImplementsAtLeastOnce says this of
\* the event's stage.)
SettledForGood ==
    [][\A e \in DOMAIN rows :
          Settled(rows[e]) => \/ e \notin DOMAIN rows'
                              \/ rows'[e] = rows[e]
                              \/ rows'[e] = [rows[e] EXCEPT !.aged = TRUE]]_vars

\* Until its lease expires, an event under a claim is marked and released by
\* the process that claimed it only, however late the others are.
ClaimRespected ==
    [][\A e \in DOMAIN rows :
          \/ rows[e].lease # "live"
          \/ e \in DOMAIN rows' /\ rows'[e] = rows[e]
          \/ e \in DOMAIN rows'
                /\ rows'[e] = [rows[e] EXCEPT !.lease = "expired"]
          \/ \E p \in Processes : processes[p].event = e /\ Holds(p, e)]_vars

\* What has become of an event, as far as its row tells.
Stage(e) ==
    CASE e \notin appended -> "none"
      [] e \in appended \ DOMAIN rows -> "forgotten"
      [] e \in DOMAIN rows /\ rows[e].dead -> "dead"
      [] e \in DOMAIN rows /\ ~rows[e].dead /\ rows[e].published -> "published"
      [] OTHER -> "pending"

Stages == [e \in Events |-> Stage(e)]

Promise == INSTANCE AtLeastOnce WITH stage <- Stages, accepted <- sent

\* However processes, claims, leases, retries and maintenance interleave and
\* fail, every event is published at least once or becomes a dead letter, which
\* is decided once and by what happened to that event, and its row goes only
\* after that (README: "Failed claim releases remain recoverable when their
\* leases expire; other rows in the claimed batch continue processing").
ImplementsAtLeastOnce == Promise!Spec

\* Prisma disconnects and the publisher closes when nothing needs them any
\* more (README: "drains claimed batches and active realtime maintenance before
\* Prisma disconnects or Redis producers close"), and no connection is opened
\* after that.
DrainedBeforeClose ==
    \A p \in Processes :
        /\ processes[p].resources # "open" =>
              processes[p].phase = "idle" /\ ~processes[p].pruning
        /\ processes[p].resources = "closed" => ~processes[p].publisher

\* Every event ends published or as a dead letter, and is pruned in the end,
\* whichever processes crash and whichever calls fail on the way: only settled
\* events are pruned (NoEventLost), and the table does not grow for ever.
EventsSettle ==
    \A e \in Events : e \in DOMAIN rows ~> e \notin DOMAIN rows
=============================================================================
