----------------------- MODULE MatchingPipeline_proofs -----------------------
(***************************************************************************)
(* Proofs about MatchingPipeline, for any number of orders, dispatchers and *)
(* workers, any batch size and any limits on attempts and stalls.          *)
(***************************************************************************)
EXTENDS MatchingPipeline, FiniteSetTheorems, TLAPS

-----------------------------------------------------------------------------
(* Claim tokens *)

\* A dispatcher that is about to claim holds no token, so the rows and the
\* other dispatchers cannot hold all tokens between them.
LEMMA FreshTokenExists ==
    ASSUME TypeOK, NEW d \in Dispatchers, dispatchers[d].phase = "claim"
    PROVE  /\ FreshToken \in Tokens
           /\ FreshToken # NoToken
           /\ \A o \in DOMAIN outbox : outbox[o].token # FreshToken
           /\ \A e \in Dispatchers : dispatchers[e].token # FreshToken
<1> DEFINE others == Dispatchers \ {d}
           ofRows == {outbox[o].token : o \in DOMAIN outbox}
           ofOthers == {dispatchers[e].token : e \in others}
           tokenOfRow == [o \in DOMAIN outbox |-> outbox[o].token]
           tokenOfOther == [e \in others |-> dispatchers[e].token]
<1>1. /\ IsFiniteSet(Orders) /\ Cardinality(Orders) \in Nat
      /\ IsFiniteSet(Dispatchers) /\ Cardinality(Dispatchers) \in Nat
  BY PipelineAssumption, FS_CardinalityType
<1>2. /\ IsFiniteSet(DOMAIN outbox)
      /\ Cardinality(DOMAIN outbox) \in Nat
      /\ Cardinality(DOMAIN outbox) <= Cardinality(Orders)
  <2>1. DOMAIN outbox \in SUBSET Orders
    BY DEF TypeOK, RowsOK
  <2>2. QED
    BY <1>1, <2>1, FS_Subset, FS_CardinalityType
<1>3. /\ IsFiniteSet(others)
      /\ Cardinality(others) = Cardinality(Dispatchers) - 1
  BY <1>1, FS_RemoveElement
<1>4. IsFiniteSet(ofRows) /\ Cardinality(ofRows) <= Cardinality(DOMAIN outbox)
  <2>1. tokenOfRow \in Surjection(DOMAIN outbox, ofRows)
    BY DEF Surjection
  <2>2. QED
    BY ONLY <1>2, <2>1, FS_Surjection
<1>5. IsFiniteSet(ofOthers) /\ Cardinality(ofOthers) <= Cardinality(others)
  <2>1. tokenOfOther \in Surjection(others, ofOthers)
    BY DEF Surjection
  <2>2. QED
    BY ONLY <1>3, <2>1, FS_Surjection
<1>6. /\ IsFiniteSet(ofRows \cup ofOthers)
      /\ Cardinality(ofRows \cup ofOthers)
           < Cardinality(Orders) + Cardinality(Dispatchers)
  <2> HIDE DEF ofRows, ofOthers, others
  <2>1. /\ Cardinality(ofRows) \in Nat /\ Cardinality(ofOthers) \in Nat
        /\ Cardinality(ofRows \cap ofOthers) \in Nat
    <3>1. ofRows \cap ofOthers \in SUBSET ofRows
      OBVIOUS
    <3>2. QED
      BY <1>4, <1>5, <3>1, FS_CardinalityType, FS_Subset
  <2>2. /\ IsFiniteSet(ofRows \cup ofOthers)
        /\ Cardinality(ofRows \cup ofOthers)
             = Cardinality(ofRows) + Cardinality(ofOthers)
                 - Cardinality(ofRows \cap ofOthers)
    BY <1>4, <1>5, FS_Union
  <2>3. QED
    BY <1>1, <1>2, <1>3, <1>4, <1>5, <2>1, <2>2
<1>7. Cardinality(Tokens) = Cardinality(Orders) + Cardinality(Dispatchers)
  BY <1>1, FS_Interval DEF Tokens
<1>8. PICK t \in Tokens : t \notin ofRows \cup ofOthers
  <2>1. SUFFICES ASSUME Tokens \in SUBSET (ofRows \cup ofOthers)
                 PROVE  FALSE
    OBVIOUS
  <2> HIDE DEF ofRows, ofOthers
  <2>2. Cardinality(Tokens) <= Cardinality(ofRows \cup ofOthers)
    BY <1>6, <2>1, FS_Subset
  <2>3. Cardinality(ofRows \cup ofOthers) \in Nat
    BY <1>6, FS_CardinalityType
  <2>4. QED
    BY <1>1, <1>6, <1>7, <2>2, <2>3
<1>9. dispatchers[d].token = NoToken
  BY DEF TypeOK, DispatchersOK, LoopState
<1>10. NoToken \notin Tokens
  BY <1>1 DEF NoToken, Tokens
<1>11. /\ \A o \in DOMAIN outbox : outbox[o].token # t
       /\ \A e \in Dispatchers : dispatchers[e].token # t
  BY <1>8, <1>9, <1>10
<1>12. QED
  BY <1>8, <1>10, <1>11 DEF FreshToken

-----------------------------------------------------------------------------
(* Types: one lemma for each conjunct of TypeOK, one step for each action *)
(* that writes the variable, and one for all those that leave it alone.    *)

\* The rows of a batch are claimed, if the statement takes effect.
LEMMA ClaimRowsType ==
    ASSUME TypeOK, NEW d \in Dispatchers, dispatchers[d].phase = "claim",
           NEW rows \in SUBSET Claimable, ClaimRows(rows)
    PROVE  RowsOK'
<1>1. FreshToken \in Tokens
  BY FreshTokenExists
<1>2. DOMAIN outbox' = DOMAIN outbox
  BY DEF ClaimRows
<1>3. ASSUME NEW o \in DOMAIN outbox'
      PROVE  outbox'[o] \in Row
  <2>1. outbox[o] \in Row
    BY <1>2 DEF TypeOK, RowsOK
  <2>2. outbox'[o] = IF o \in rows
                     THEN [outbox[o] EXCEPT !.token = FreshToken,
                                            !.lease = "live"]
                     ELSE outbox[o]
    BY <1>2 DEF ClaimRows
  <2>3. QED
    BY <1>1, <2>1, <2>2 DEF Row
<1>4. QED
  BY <1>2, <1>3 DEF TypeOK, RowsOK

\* The rows stay well-typed.
LEMMA RowsType ==
    ASSUME TypeOK, Next
    PROVE  RowsOK'
<1> USE DEF TypeOK
<1>1. ASSUME NEW o \in Orders, CreateOrder(o)
      PROVE  RowsOK'
  BY <1>1, PipelineAssumption DEF CreateOrder, WriteRows, Intent, RowsOK, Row
<1>2. ASSUME NEW o \in Orders, ExpireLease(o)
      PROVE  RowsOK'
  BY <1>2 DEF ExpireLease, RowsOK, Row
<1>3. ASSUME NEW o \in Orders, RetryDue(o)
      PROVE  RowsOK'
  BY <1>3 DEF RetryDue, RowsOK, Row
<1>4. ASSUME NEW pending \in SUBSET Orders, RestoreIntents(pending)
      PROVE  RowsOK'
  BY <1>4 DEF RestoreIntents, WriteRows, Intent, RowsOK, Row
<1>5. ASSUME NEW d \in Dispatchers, ClaimBatch(d)
      PROVE  RowsOK'
  BY <1>5, ClaimRowsType DEF ClaimBatch
<1>6. ASSUME NEW d \in Dispatchers, EndDispatch(d)
      PROVE  RowsOK'
  BY <1>6, ClaimRowsType DEF EndDispatch, RowsOK
<1>7. ASSUME NEW d \in Dispatchers, RemoveClaimedRow(d) \/ RemoveFails(d)
      PROVE  RowsOK'
  BY <1>7 DEF RemoveClaimedRow, RemoveFails, RemoveRow, DeleteRow, RowsOK, Row
<1>8. ASSUME NEW d \in Dispatchers, ReleaseClaim(d)
      PROVE  RowsOK'
  <2>1. ASSUME ReleaseRow(d), Holds(d, dispatchers[d].order)
        PROVE  RowsOK'
    <3>1. [Intent EXCEPT !.due = FALSE] \in Row
      BY DEF Intent, Row
    <3>2. QED
      BY <2>1, <3>1 DEF ReleaseRow, RowsOK
  <2>2. ASSUME UNCHANGED outbox
        PROVE  RowsOK'
    BY <2>2 DEF RowsOK
  <2>3. QED
    BY <1>8, <2>1, <2>2 DEF ReleaseClaim, ReleaseRow
<1>9. ASSUME \/ \E o \in Orders : CancelOrder(o)
             \/ \E d \in Dispatchers :
                   \/ StartDispatch(d) \/ Shutdown(d) \/ RestartDispatcher(d)
             \/ \E d \in Dispatchers, o \in Orders :
                   \/ Enqueue(d, o) \/ EnqueueFails(d, o)
      PROVE  RowsOK'
  <2>1. ASSUME \E o \in Orders : CancelOrder(o) PROVE UNCHANGED outbox
    BY ONLY <2>1 DEF CancelOrder
  <2>2. ASSUME \E d \in Dispatchers :
                  \/ StartDispatch(d) \/ Shutdown(d) \/ RestartDispatcher(d)
        PROVE  UNCHANGED outbox
    BY ONLY <2>2 DEF StartDispatch, Shutdown, RestartDispatcher
  <2>3. ASSUME \E d \in Dispatchers, o \in Orders :
                  \/ Enqueue(d, o) \/ EnqueueFails(d, o)
        PROVE  UNCHANGED outbox
    BY ONLY <2>3 DEF Enqueue, EnqueueFails
  <2>4. UNCHANGED outbox
    BY ONLY <1>9, <2>1, <2>2, <2>3
  <2> QED
    BY ONLY RowsOK, <2>4 DEF RowsOK
<1>10. ASSUME \/ \E w \in Workers, o \in Orders : TakeJob(w, o)
             \/ \E w \in Workers :
                   \/ ProcessOrder(w) \/ ProcessThrows(w) \/ RejectOrder(w)
                   \/ RejectThrows(w) \/ RestartWorker(w)
      PROVE  RowsOK'
  BY <1>10 DEF TakeJob, ProcessOrder, ProcessThrows, RejectOrder,
     RejectThrows, RestartWorker, RowsOK
<1>11. ASSUME \/ \E o \in Orders :
                   \/ BackoffElapses(o) \/ StallJob(o) \/ ForgetJob(o)
                   \/ RetryFailedJob(o)
             \/ \E w \in Workers : CompleteJob(w) \/ FailJob(w)
      PROVE  RowsOK'
  BY <1>11 DEF BackoffElapses, StallJob, ForgetJob, RetryFailedJob,
     CompleteJob, FailJob, Finish, RowsOK
<1> HIDE DEF TypeOK
<1>12. QED
  BY <1>1, <1>2, <1>3, <1>4, <1>5, <1>6, <1>7, <1>8, <1>9, <1>10, <1>11
     DEF Next

\* A dispatcher's new local variables.
LEMMA DispatcherUpdate ==
    ASSUME DispatchersOK, NEW d \in Dispatchers, NEW this \in Dispatcher,
           LoopState(this), dispatchers' = [dispatchers EXCEPT ![d] = this]
    PROVE  DispatchersOK'
BY DEF DispatchersOK

\* On from a row of a batch.
LEMMA NextRowType ==
    ASSUME DispatchersOK, NEW d \in Dispatchers,
           dispatchers[d].phase \in {"remove", "release"}, NextRow(d)
    PROVE  DispatchersOK'
<1> DEFINE this == dispatchers[d]
           next == [this EXCEPT
                      !.phase = IF this.batch # {} THEN "enqueue"
                                ELSE IF this.failed \/ this.stopping
                                     THEN "idle" ELSE "claim",
                      !.token = IF this.batch # {} THEN @ ELSE NoToken,
                      !.order = NoOrder]
<1>1. this \in Dispatcher /\ LoopState(this)
  BY DEF DispatchersOK
<1>2. next \in Dispatcher
  BY <1>1 DEF Dispatcher, DispatchPhases
<1>3. LoopState(next)
  BY <1>1 DEF LoopState, Dispatcher
<1>4. dispatchers' = [dispatchers EXCEPT ![d] = next]
  BY DEF NextRow
<1>5. QED
  BY <1>1, <1>2, <1>3, <1>4, DispatcherUpdate

\* The dispatchers account for their batches.
LEMMA DispatchersType ==
    ASSUME TypeOK, Next
    PROVE  DispatchersOK'
<1> USE DEF TypeOK
<1>1. ASSUME NEW d \in Dispatchers, StartDispatch(d)
      PROVE  DispatchersOK'
  <2> DEFINE this == [dispatchers[d] EXCEPT !.phase = "claim",
                                            !.failed = FALSE]
  <2>1. dispatchers[d] \in Dispatcher /\ LoopState(dispatchers[d])
    BY DEF DispatchersOK
  <2>2. this \in Dispatcher /\ LoopState(this)
    BY <1>1, <2>1 DEF StartDispatch, Dispatcher, DispatchPhases, LoopState
  <2>3. dispatchers' = [dispatchers EXCEPT ![d] = this]
    BY <1>1 DEF StartDispatch
  <2>4. QED
    BY <2>2, <2>3, DispatcherUpdate
<1>2. ASSUME NEW d \in Dispatchers, ClaimBatch(d)
      PROVE  DispatchersOK'
  <2>1. dispatchers[d] \in Dispatcher /\ LoopState(dispatchers[d])
    BY DEF DispatchersOK
  <2>2. PICK rows \in SUBSET Claimable :
          /\ rows # {}
          /\ dispatchers' = [dispatchers EXCEPT ![d].phase = "enqueue",
                                                ![d].token = FreshToken,
                                                ![d].batch = rows]
    BY <1>2 DEF ClaimBatch, ClaimRows
  <2> DEFINE this == [dispatchers[d] EXCEPT !.phase = "enqueue",
                                            !.token = FreshToken,
                                            !.batch = rows]
  <2>3. FreshToken \in Tokens /\ FreshToken # NoToken
    BY <1>2, FreshTokenExists DEF ClaimBatch
  <2>4. rows \subseteq Orders
    BY DEF RowsOK, Claimable
  <2>5. this \in Dispatcher /\ LoopState(this)
    BY <1>2, <2>1, <2>2, <2>3, <2>4
       DEF ClaimBatch, Dispatcher, DispatchPhases, LoopState
  <2>6. dispatchers' = [dispatchers EXCEPT ![d] = this]
    BY <2>2
  <2>7. QED
    BY <2>5, <2>6, DispatcherUpdate
<1>3. ASSUME NEW d \in Dispatchers, EndDispatch(d)
      PROVE  DispatchersOK'
  <2> DEFINE this == [dispatchers[d] EXCEPT !.phase = "idle"]
  <2>1. dispatchers[d] \in Dispatcher /\ LoopState(dispatchers[d])
    BY DEF DispatchersOK
  <2>2. this \in Dispatcher /\ LoopState(this)
    BY <1>3, <2>1 DEF EndDispatch, Dispatcher, DispatchPhases, LoopState
  <2>3. dispatchers' = [dispatchers EXCEPT ![d] = this]
    BY <1>3 DEF EndDispatch
  <2>4. QED
    BY <2>2, <2>3, DispatcherUpdate
<1>4. ASSUME NEW d \in Dispatchers, NEW o \in Orders, Enqueue(d, o)
      PROVE  DispatchersOK'
  BY <1>4, PipelineAssumption DEF Enqueue, DispatchersOK, LoopState,
     Dispatcher, DispatchPhases
<1>5. ASSUME NEW d \in Dispatchers, NEW o \in Orders, EnqueueFails(d, o)
      PROVE  DispatchersOK'
  BY <1>5, PipelineAssumption DEF EnqueueFails, DispatchersOK, LoopState,
     Dispatcher, DispatchPhases
<1>6. ASSUME NEW d \in Dispatchers, RemoveClaimedRow(d) \/ ReleaseClaim(d)
      PROVE  DispatchersOK'
  BY <1>6, NextRowType DEF RemoveClaimedRow, ReleaseClaim
<1>7. ASSUME NEW d \in Dispatchers, RemoveFails(d)
      PROVE  DispatchersOK'
  <2> DEFINE this == [dispatchers[d] EXCEPT !.phase = "release",
                                            !.failed = TRUE]
  <2>1. dispatchers[d] \in Dispatcher /\ LoopState(dispatchers[d])
    BY DEF DispatchersOK
  <2>2. this \in Dispatcher /\ LoopState(this)
    BY <1>7, <2>1 DEF RemoveFails, Dispatcher, DispatchPhases, LoopState
  <2>3. dispatchers' = [dispatchers EXCEPT ![d] = this]
    BY <1>7 DEF RemoveFails
  <2>4. QED
    BY <2>2, <2>3, DispatcherUpdate
<1>8. ASSUME NEW d \in Dispatchers, Shutdown(d)
      PROVE  DispatchersOK'
  <2> DEFINE this == [dispatchers[d] EXCEPT !.stopping = TRUE]
  <2>1. dispatchers[d] \in Dispatcher /\ LoopState(dispatchers[d])
    BY DEF DispatchersOK
  <2>2. this \in Dispatcher /\ LoopState(this)
    BY <1>8, <2>1 DEF Shutdown, Dispatcher, DispatchPhases, LoopState
  <2>3. dispatchers' = [dispatchers EXCEPT ![d] = this]
    BY <1>8 DEF Shutdown
  <2>4. QED
    BY <2>2, <2>3, DispatcherUpdate
<1>9. ASSUME NEW d \in Dispatchers, RestartDispatcher(d)
      PROVE  DispatchersOK'
  BY <1>9 DEF RestartDispatcher, Started, DispatchersOK, LoopState,
     Dispatcher, DispatchPhases
<1>10. ASSUME \/ \E o \in Orders :
                   \/ CreateOrder(o) \/ CancelOrder(o) \/ ExpireLease(o)
                   \/ RetryDue(o)
             \/ \E pending \in SUBSET Orders : RestoreIntents(pending)
      PROVE  DispatchersOK'
  BY <1>10 DEF CreateOrder, CancelOrder, ExpireLease, RetryDue,
     RestoreIntents, DispatchersOK
<1>11. ASSUME \/ \E w \in Workers, o \in Orders : TakeJob(w, o)
             \/ \E w \in Workers :
                   \/ ProcessOrder(w) \/ ProcessThrows(w) \/ RejectOrder(w)
                   \/ RejectThrows(w) \/ RestartWorker(w)
      PROVE  DispatchersOK'
  BY <1>11 DEF TakeJob, ProcessOrder, ProcessThrows, RejectOrder,
     RejectThrows, RestartWorker, DispatchersOK
<1>12. ASSUME \/ \E o \in Orders :
                   \/ BackoffElapses(o) \/ StallJob(o) \/ ForgetJob(o)
                   \/ RetryFailedJob(o)
             \/ \E w \in Workers : CompleteJob(w) \/ FailJob(w)
      PROVE  DispatchersOK'
  BY <1>12 DEF BackoffElapses, StallJob, ForgetJob, RetryFailedJob,
     CompleteJob, FailJob, Finish, DispatchersOK
<1> HIDE DEF TypeOK
<1>13. QED
  BY <1>1, <1>2, <1>3, <1>4, <1>5, <1>6, <1>7, <1>8, <1>9, <1>10, <1>11, <1>12
     DEF Next

\* The jobs and their counters stay within their limits.
LEMMA JobsType ==
    ASSUME TypeOK, Next
    PROVE  (jobs \in [Orders -> Job])'
<1> USE DEF TypeOK
<1>1. ASSUME NEW d \in Dispatchers, NEW o \in Orders,
             \/ Enqueue(d, o) \/ EnqueueFails(d, o)
      PROVE  (jobs \in [Orders -> Job])'
  BY <1>1 DEF Enqueue, EnqueueFails, AddJob, Job, JobStates, LiveStates
<1>2. ASSUME NEW w \in Workers, NEW o \in Orders, TakeJob(w, o)
      PROVE  (jobs \in [Orders -> Job])'
  <2> DEFINE after == [jobs[o] EXCEPT !.state = "active", !.owner = w]
  <2>1. after \in Job
    BY DEF Job, JobStates, LiveStates
  <2>2. jobs' = [jobs EXCEPT ![o] = after]
    BY <1>2 DEF TakeJob
  <2>3. QED
    BY <2>1, <2>2
<1>3. ASSUME NEW o \in Orders, BackoffElapses(o) \/ RetryFailedJob(o)
      PROVE  (jobs \in [Orders -> Job])'
  BY <1>3 DEF BackoffElapses, RetryFailedJob, Job, JobStates, LiveStates
<1>4. ASSUME NEW w \in Workers, CompleteJob(w)
      PROVE  (jobs \in [Orders -> Job])'
  <2>1. workers[w].order \in Orders
    BY <1>4 DEF WorkersOK, CompleteJob
  <2> DEFINE o == workers[w].order
             after == [jobs[o] EXCEPT !.state = "completed",
                                      !.owner = NoWorker]
  <2>2. after \in Job
    BY <2>1 DEF Job, JobStates
  <2>3. \/ jobs' = [jobs EXCEPT ![o] = after]
        \/ jobs' = jobs
    BY <1>4 DEF CompleteJob, Finish
  <2>4. QED
    BY <2>1, <2>2, <2>3
<1>5. ASSUME NEW w \in Workers, FailJob(w)
      PROVE  (jobs \in [Orders -> Job])'
  <2>1. workers[w].order \in Orders
    BY <1>5 DEF WorkersOK, FailJob
  <2> DEFINE o == workers[w].order
             made == jobs[o].attemptsMade + 1
             state == IF made < MaxAttempts THEN "delayed" ELSE "failed"
             counted == IF made < MaxAttempts THEN made ELSE MaxAttempts
             after == [jobs[o] EXCEPT !.state = state,
                                      !.attemptsMade = counted,
                                      !.owner = NoWorker]
  <2>2. after \in Job
    <3>1. jobs[o] \in Job
      BY <2>1
    <3>2. state \in JobStates
      BY DEF JobStates, LiveStates
    <3>3. counted \in 0..MaxAttempts
      BY <3>1, PipelineAssumption DEF Job
    <3> HIDE DEF state, counted
    <3>4. QED
      BY <3>1, <3>2, <3>3 DEF Job
  <2>3. \/ jobs' = [jobs EXCEPT ![o] = after]
        \/ jobs' = jobs
    BY <1>5 DEF FailJob, Finish
  <2>4. QED
    BY <2>1, <2>2, <2>3
<1>6. ASSUME NEW o \in Orders, StallJob(o)
      PROVE  (jobs \in [Orders -> Job])'
  <2> DEFINE state == IF jobs[o].stalls < MaxStalled THEN "waiting"
                                                      ELSE "failed"
             stalls == IF jobs[o].stalls < MaxStalled THEN jobs[o].stalls + 1
                                                      ELSE jobs[o].stalls
             after == [jobs[o] EXCEPT !.state = state,
                                      !.stalls = stalls,
                                      !.owner = NoWorker]
  <2>1. after \in Job
    <3>1. jobs[o] \in Job
      OBVIOUS
    <3>2. state \in JobStates
      BY DEF JobStates, LiveStates
    <3>3. stalls \in 0..MaxStalled
      BY <3>1, PipelineAssumption DEF Job
    <3> HIDE DEF state, stalls
    <3>4. QED
      BY <3>1, <3>2, <3>3 DEF Job
  <2>2. jobs' = [jobs EXCEPT ![o] = after]
    BY <1>6 DEF StallJob
  <2>3. QED
    BY <2>1, <2>2
<1>7. ASSUME NEW o \in Orders, ForgetJob(o)
      PROVE  (jobs \in [Orders -> Job])'
  BY <1>7, PipelineAssumption DEF ForgetJob, NoJob, Job, JobStates, LiveStates
<1>8. ASSUME \/ \E o \in Orders :
                   \/ CreateOrder(o) \/ CancelOrder(o) \/ ExpireLease(o)
                   \/ RetryDue(o)
             \/ \E pending \in SUBSET Orders : RestoreIntents(pending)
             \/ \E d \in Dispatchers :
                   \/ StartDispatch(d) \/ Shutdown(d) \/ RestartDispatcher(d)
      PROVE  (jobs \in [Orders -> Job])'
  BY <1>8 DEF CreateOrder, CancelOrder, ExpireLease, RetryDue, RestoreIntents,
     StartDispatch, Shutdown, RestartDispatcher
<1>9. ASSUME NEW d \in Dispatchers,
             \/ ClaimBatch(d) \/ EndDispatch(d) \/ RemoveClaimedRow(d)
             \/ RemoveFails(d) \/ ReleaseClaim(d)
      PROVE  (jobs \in [Orders -> Job])'
  BY <1>9 DEF ClaimBatch, EndDispatch, RemoveClaimedRow, RemoveFails,
     ReleaseClaim
<1>10. ASSUME NEW w \in Workers,
             \/ ProcessOrder(w) \/ ProcessThrows(w) \/ RejectOrder(w)
             \/ RejectThrows(w) \/ RestartWorker(w)
      PROVE  (jobs \in [Orders -> Job])'
  BY <1>10 DEF ProcessOrder, ProcessThrows, RejectOrder, RejectThrows,
     RestartWorker
<1> HIDE DEF TypeOK
<1>11. QED
  BY <1>1, <1>2, <1>3, <1>4, <1>5, <1>6, <1>7, <1>8, <1>9, <1>10 DEF Next

\* A busy worker has an order.
LEMMA WorkersType ==
    ASSUME TypeOK, Next
    PROVE  WorkersOK'
<1> USE DEF TypeOK
<1>1. ASSUME NEW w \in Workers, NEW o \in Orders, TakeJob(w, o)
      PROVE  WorkersOK'
  BY <1>1 DEF TakeJob, Job, WorkersOK, Worker
<1>2. ASSUME NEW w \in Workers, ProcessOrder(w) \/ ProcessThrows(w)
      PROVE  WorkersOK'
  BY <1>2 DEF ProcessOrder, ProcessThrows, Continue, WorkersOK, Worker
<1>3. ASSUME NEW w \in Workers, RejectOrder(w) \/ RejectThrows(w)
      PROVE  WorkersOK'
  BY <1>3 DEF RejectOrder, RejectThrows, Continue, WorkersOK, Worker
<1>4. ASSUME NEW w \in Workers, CompleteJob(w) \/ FailJob(w)
      PROVE  WorkersOK'
  BY <1>4, PipelineAssumption DEF CompleteJob, FailJob, Finish, IdleWorker,
     WorkersOK, Worker
<1>5. ASSUME NEW w \in Workers, RestartWorker(w)
      PROVE  WorkersOK'
  BY <1>5, PipelineAssumption DEF RestartWorker, IdleWorker, WorkersOK, Worker
<1>6. ASSUME \/ \E o \in Orders :
                   \/ CreateOrder(o) \/ CancelOrder(o) \/ ExpireLease(o)
                   \/ RetryDue(o)
             \/ \E pending \in SUBSET Orders : RestoreIntents(pending)
             \/ \E d \in Dispatchers :
                   \/ StartDispatch(d) \/ Shutdown(d) \/ RestartDispatcher(d)
      PROVE  WorkersOK'
  BY <1>6 DEF CreateOrder, CancelOrder, ExpireLease, RetryDue, RestoreIntents,
     StartDispatch, Shutdown, RestartDispatcher, WorkersOK
<1>7. ASSUME \/ \E d \in Dispatchers :
                   \/ ClaimBatch(d) \/ EndDispatch(d) \/ RemoveClaimedRow(d)
                   \/ RemoveFails(d) \/ ReleaseClaim(d)
             \/ \E d \in Dispatchers, o \in Orders :
                   \/ Enqueue(d, o) \/ EnqueueFails(d, o)
      PROVE  WorkersOK'
  <2>1. ASSUME \E d \in Dispatchers :
                  \/ ClaimBatch(d) \/ EndDispatch(d) \/ RemoveClaimedRow(d)
                  \/ RemoveFails(d) \/ ReleaseClaim(d)
        PROVE  UNCHANGED workers
    BY ONLY <2>1 DEF ClaimBatch, EndDispatch, RemoveClaimedRow, RemoveFails,
       ReleaseClaim
  <2>2. ASSUME \E d \in Dispatchers, o \in Orders :
                  \/ Enqueue(d, o) \/ EnqueueFails(d, o)
        PROVE  UNCHANGED workers
    BY ONLY <2>2 DEF Enqueue, EnqueueFails
  <2>3. UNCHANGED workers
    BY ONLY <1>7, <2>1, <2>2
  <2> QED
    BY ONLY WorkersOK, <2>3 DEF WorkersOK
<1>8. ASSUME NEW o \in Orders,
             \/ BackoffElapses(o) \/ StallJob(o) \/ ForgetJob(o)
             \/ RetryFailedJob(o)
      PROVE  WorkersOK'
  BY <1>8 DEF BackoffElapses, StallJob, ForgetJob, RetryFailedJob, WorkersOK
<1> HIDE DEF TypeOK
<1>9. QED
  BY <1>1, <1>2, <1>3, <1>4, <1>5, <1>6, <1>7, <1>8 DEF Next

\* The rest of TypeOK.
HistoryOK ==
    /\ status \in [Orders -> Status]
    /\ throws \in [Orders -> 0..MaxAttempts]
    /\ dropped \subseteq Orders

LEMMA HistoryType ==
    ASSUME TypeOK, Next
    PROVE  HistoryOK'
<1> USE DEF TypeOK
<1>1. ASSUME \/ \E o \in Orders :
                   \/ CreateOrder(o) \/ CancelOrder(o) \/ ExpireLease(o)
                   \/ RetryDue(o)
             \/ \E pending \in SUBSET Orders : RestoreIntents(pending)
             \/ \E d \in Dispatchers :
                   \/ StartDispatch(d) \/ Shutdown(d) \/ RestartDispatcher(d)
      PROVE  HistoryOK'
  BY <1>1 DEF CreateOrder, CancelOrder, ExpireLease, RetryDue, RestoreIntents,
     StartDispatch, Shutdown, RestartDispatcher, Status, HistoryOK
<1>2. ASSUME \/ \E d \in Dispatchers :
                   \/ ClaimBatch(d) \/ EndDispatch(d) \/ RemoveClaimedRow(d)
                   \/ RemoveFails(d) \/ ReleaseClaim(d)
             \/ \E d \in Dispatchers, o \in Orders :
                   \/ Enqueue(d, o) \/ EnqueueFails(d, o)
      PROVE  HistoryOK'
  BY <1>2 DEF ClaimBatch, EndDispatch, Enqueue, EnqueueFails,
     RemoveClaimedRow, RemoveFails, ReleaseClaim, HistoryOK
<1>3. ASSUME \/ \E w \in Workers, o \in Orders : TakeJob(w, o)
             \/ \E w \in Workers :
                   \/ ProcessOrder(w) \/ RejectOrder(w) \/ RejectThrows(w)
                   \/ RestartWorker(w)
      PROVE  HistoryOK'
  BY <1>3 DEF TakeJob, ProcessOrder, RejectOrder, RejectThrows, RestartWorker,
     Settle, Status, HistoryOK
<1>4. ASSUME NEW w \in Workers, ProcessThrows(w)
      PROVE  HistoryOK'
  <2>1. workers[w].order \in Orders
    BY <1>4 DEF WorkersOK, ProcessThrows
  <2>2. (status \in [Orders -> Status])'
    BY <1>4, <2>1 DEF ProcessThrows, Settle, Status
  <2>3. (throws \in [Orders -> 0..MaxAttempts])'
    BY <1>4, <2>1, PipelineAssumption DEF ProcessThrows
  <2>4. QED
    BY <1>4, <2>2, <2>3 DEF ProcessThrows, HistoryOK
<1>5. ASSUME \/ \E o \in Orders :
                   \/ BackoffElapses(o) \/ StallJob(o) \/ ForgetJob(o)
                   \/ RetryFailedJob(o)
             \/ \E w \in Workers : CompleteJob(w) \/ FailJob(w)
      PROVE  HistoryOK'
  BY <1>5 DEF BackoffElapses, StallJob, ForgetJob, RetryFailedJob,
     CompleteJob, FailJob, Finish, HistoryOK
<1> HIDE DEF TypeOK
<1>6. QED
  BY <1>1, <1>2, <1>3, <1>4, <1>5 DEF Next

LEMMA TypeStep ==
    ASSUME TypeOK, Next
    PROVE  TypeOK'
BY RowsType, DispatchersType, JobsType, WorkersType, HistoryType
   DEF TypeOK, HistoryOK

LEMMA TypeInit ==
    ASSUME Init
    PROVE  TypeOK
BY PipelineAssumption
   DEF Init, TypeOK, RowsOK, DispatchersOK, WorkersOK, LoopState, Row, Intent,
       Dispatcher, DispatchPhases, Started, Job, NoJob, JobStates, Worker,
       IdleWorker, Status

-----------------------------------------------------------------------------
(* The dispatch loop *)

\* Going on to the next row leaves the batch and the other dispatchers alone.
LEMMA NextRowKeeps ==
    ASSUME TypeOK, NEW d \in Dispatchers, NextRow(d), NEW e \in Dispatchers
    PROVE  /\ dispatchers'[e].batch = dispatchers[e].batch
           /\ dispatchers'[e].order \in {dispatchers[e].order, NoOrder}
           /\ dispatchers'[e].phase = "remove" =>
                 dispatchers'[e] = dispatchers[e]
<1>1. dispatchers[e] \in Dispatcher /\ DOMAIN dispatchers = Dispatchers
  BY DEF TypeOK, DispatchersOK
<1>2. CASE e = d
  BY <1>1, <1>2 DEF NextRow, Dispatcher
<1>3. CASE e # d
  BY <1>1, <1>3 DEF NextRow
<1>4. QED
  BY <1>2, <1>3

-----------------------------------------------------------------------------
(* Orders that do not exist yet *)

\* Nothing refers to an order before it is created.
Untouched(p) ==
    status[p] = "none" =>
        /\ p \notin DOMAIN outbox
        /\ jobs[p].state = "none"
        /\ \A d \in Dispatchers :
              p \notin dispatchers[d].batch /\ dispatchers[d].order # p
        /\ \A w \in Workers : workers[w].order # p

LEMMA UntouchedStep ==
    ASSUME TypeOK, Next, NEW p \in Orders, Untouched(p)
    PROVE  Untouched(p)'
<1> USE DEF TypeOK, DispatchersOK, WorkersOK, Untouched
<1>1. ASSUME NEW o \in Orders, CreateOrder(o)
      PROVE  Untouched(p)'
  BY <1>1 DEF CreateOrder, WriteRows
<1>2. ASSUME NEW o \in Orders, CancelOrder(o)
      PROVE  Untouched(p)'
  BY <1>2 DEF CancelOrder
<1>3. ASSUME NEW o \in Orders, ExpireLease(o) \/ RetryDue(o)
      PROVE  Untouched(p)'
  BY <1>3 DEF ExpireLease, RetryDue
<1>4. ASSUME NEW pending \in SUBSET Orders, RestoreIntents(pending)
      PROVE  Untouched(p)'
  BY <1>4 DEF RestoreIntents, WriteRows
<1>5. ASSUME NEW d \in Dispatchers,
             \/ StartDispatch(d) \/ Shutdown(d) \/ RestartDispatcher(d)
      PROVE  Untouched(p)'
  BY <1>5, PipelineAssumption DEF StartDispatch, Shutdown, RestartDispatcher,
     Started, Dispatcher
<1>6. ASSUME NEW d \in Dispatchers, ClaimBatch(d)
      PROVE  Untouched(p)'
  <2>1. PICK rows \in SUBSET Claimable :
          /\ ClaimRows(rows)
          /\ dispatchers' = [dispatchers EXCEPT ![d].phase = "enqueue",
                                                ![d].token = FreshToken,
                                                ![d].batch = rows]
    BY <1>6 DEF ClaimBatch
  <2>2. DOMAIN outbox' = DOMAIN outbox
    BY <2>1 DEF ClaimRows
  <2>3. p \in rows => p \in DOMAIN outbox
    BY <2>1 DEF Claimable
  <2>4. ASSUME NEW e \in Dispatchers
        PROVE  /\ dispatchers'[e].batch \in {dispatchers[e].batch, rows}
               /\ dispatchers'[e].order = dispatchers[e].order
    <3>1. dispatchers[e] \in Dispatcher
      OBVIOUS
    <3>2. QED
      BY <2>1, <3>1 DEF Dispatcher
  <2>5. QED
    BY <1>6, <2>2, <2>3, <2>4 DEF ClaimBatch
<1>7. ASSUME NEW d \in Dispatchers, EndDispatch(d)
      PROVE  Untouched(p)'
  <2>1. DOMAIN outbox' = DOMAIN outbox
    BY <1>7 DEF EndDispatch, ClaimRows
  <2>2. ASSUME NEW e \in Dispatchers
        PROVE  /\ dispatchers'[e].batch = dispatchers[e].batch
               /\ dispatchers'[e].order = dispatchers[e].order
    BY <1>7 DEF EndDispatch, Dispatcher
  <2>3. QED
    BY <1>7, <2>1, <2>2 DEF EndDispatch
<1>8. ASSUME NEW d \in Dispatchers, NEW o \in Orders, Enqueue(d, o)
      PROVE  Untouched(p)'
  BY <1>8 DEF Enqueue, AddJob, Dispatcher
<1>9. ASSUME NEW d \in Dispatchers, NEW o \in Orders, EnqueueFails(d, o)
      PROVE  Untouched(p)'
  BY <1>9 DEF EnqueueFails, AddJob, Dispatcher
<1>10. ASSUME NEW d \in Dispatchers, RemoveClaimedRow(d)
      PROVE  Untouched(p)'
  BY <1>10, PipelineAssumption, NextRowKeeps DEF RemoveClaimedRow, RemoveRow,
     DeleteRow
<1>11. ASSUME NEW d \in Dispatchers, RemoveFails(d)
      PROVE  Untouched(p)'
  BY <1>11 DEF RemoveFails, RemoveRow, DeleteRow, Dispatcher
<1>12. ASSUME NEW d \in Dispatchers, ReleaseClaim(d)
      PROVE  Untouched(p)'
  BY <1>12, PipelineAssumption, NextRowKeeps DEF ReleaseClaim, ReleaseRow
<1>13. ASSUME NEW w \in Workers, NEW o \in Orders, TakeJob(w, o)
      PROVE  Untouched(p)'
  BY <1>13 DEF TakeJob, Worker
<1>14. ASSUME NEW w \in Workers, ProcessOrder(w) \/ ProcessThrows(w)
      PROVE  Untouched(p)'
  BY <1>14 DEF ProcessOrder, ProcessThrows, Settle, Continue, Worker, Status
<1>15. ASSUME NEW w \in Workers, RejectOrder(w) \/ RejectThrows(w)
      PROVE  Untouched(p)'
  BY <1>15 DEF RejectOrder, RejectThrows, Settle, Continue, Worker, Status
<1>16. ASSUME NEW w \in Workers, RestartWorker(w)
      PROVE  Untouched(p)'
  BY <1>16, PipelineAssumption DEF RestartWorker, IdleWorker, Worker
<1>17. ASSUME NEW w \in Workers, CompleteJob(w)
      PROVE  Untouched(p)'
  BY <1>17, PipelineAssumption DEF CompleteJob, Finish, HasJob, IdleWorker,
     Worker, Job
<1>18. ASSUME NEW w \in Workers, FailJob(w)
      PROVE  Untouched(p)'
  BY <1>18, PipelineAssumption DEF FailJob, Finish, HasJob, IdleWorker,
     Worker, Job
<1>19. ASSUME NEW o \in Orders, BackoffElapses(o) \/ RetryFailedJob(o)
      PROVE  Untouched(p)'
  BY <1>19 DEF BackoffElapses, RetryFailedJob, Job
<1>20. ASSUME NEW o \in Orders, StallJob(o)
      PROVE  Untouched(p)'
  BY <1>20 DEF StallJob, Job
<1>21. ASSUME NEW o \in Orders, ForgetJob(o)
      PROVE  Untouched(p)'
  BY <1>21 DEF ForgetJob, NoJob, Job
<1> HIDE DEF TypeOK
<1>22. QED
  BY <1>1, <1>2, <1>3, <1>4, <1>5, <1>6, <1>7, <1>8, <1>9, <1>10, <1>11,
     <1>12, <1>13, <1>14, <1>15, <1>16, <1>17, <1>18, <1>19, <1>20, <1>21
     DEF Next

-----------------------------------------------------------------------------
(* Completed jobs *)

\* A job completes, and a worker reports it as done, only after the order left
\* QUEUED.
Done(p) ==
    /\ jobs[p].state = "completed" => status[p] # "QUEUED"
    /\ \A w \in Workers :
          workers[w].phase = "complete" /\ workers[w].order = p
              => status[p] # "QUEUED"

LEMMA DoneStep ==
    ASSUME TypeOK, Next, NEW p \in Orders, Untouched(p), Done(p)
    PROVE  Done(p)'
<1> USE DEF TypeOK, WorkersOK, Done
<1>1. ASSUME NEW o \in Orders, CreateOrder(o)
      PROVE  Done(p)'
  BY <1>1 DEF CreateOrder, Untouched
<1>2. ASSUME NEW o \in Orders, CancelOrder(o)
      PROVE  Done(p)'
  BY <1>2 DEF CancelOrder
<1>3. ASSUME NEW o \in Orders, ExpireLease(o) \/ RetryDue(o)
      PROVE  Done(p)'
  BY <1>3 DEF ExpireLease, RetryDue
<1>4. ASSUME NEW pending \in SUBSET Orders, RestoreIntents(pending)
      PROVE  Done(p)'
  BY <1>4 DEF RestoreIntents
<1>5. ASSUME NEW d \in Dispatchers,
             \/ StartDispatch(d) \/ Shutdown(d) \/ RestartDispatcher(d)
             \/ ClaimBatch(d) \/ EndDispatch(d) \/ RemoveClaimedRow(d)
             \/ RemoveFails(d) \/ ReleaseClaim(d)
      PROVE  Done(p)'
  BY <1>5 DEF StartDispatch, Shutdown, RestartDispatcher, ClaimBatch,
     EndDispatch, RemoveClaimedRow, RemoveFails, ReleaseClaim
<1>6. ASSUME NEW d \in Dispatchers, NEW o \in Orders, Enqueue(d, o)
      PROVE  Done(p)'
  BY <1>6 DEF Enqueue, AddJob, Job
<1>7. ASSUME NEW d \in Dispatchers, NEW o \in Orders, EnqueueFails(d, o)
      PROVE  Done(p)'
  BY <1>7 DEF EnqueueFails, AddJob, Job
<1>8. ASSUME NEW w \in Workers, NEW o \in Orders, TakeJob(w, o)
      PROVE  Done(p)'
  BY <1>8 DEF TakeJob, Worker, Job
<1>9. ASSUME NEW w \in Workers, ProcessOrder(w)
      PROVE  Done(p)'
  BY <1>9 DEF ProcessOrder, Settle, Continue, Worker
<1>10. ASSUME NEW w \in Workers, ProcessThrows(w)
      PROVE  Done(p)'
  BY <1>10 DEF ProcessThrows, Settle, Continue, Worker
<1>11. ASSUME NEW w \in Workers, RejectOrder(w)
      PROVE  Done(p)'
  BY <1>11 DEF RejectOrder, Settle, Continue, Worker
<1>12. ASSUME NEW w \in Workers, RejectThrows(w)
      PROVE  Done(p)'
  BY <1>12 DEF RejectThrows, Settle, Continue, Worker
<1>13. ASSUME NEW w \in Workers, RestartWorker(w)
      PROVE  Done(p)'
  BY <1>13 DEF RestartWorker, IdleWorker, Worker
<1>14. ASSUME NEW w \in Workers, CompleteJob(w)
      PROVE  Done(p)'
  BY <1>14 DEF CompleteJob, Finish, HasJob, IdleWorker, Worker, Job
<1>15. ASSUME NEW w \in Workers, FailJob(w)
      PROVE  Done(p)'
  BY <1>15 DEF FailJob, Finish, HasJob, IdleWorker, Worker, Job
<1>16. ASSUME NEW o \in Orders, BackoffElapses(o) \/ RetryFailedJob(o)
      PROVE  Done(p)'
  BY <1>16 DEF BackoffElapses, RetryFailedJob, Job
<1>17. ASSUME NEW o \in Orders, StallJob(o)
      PROVE  Done(p)'
  BY <1>17 DEF StallJob, Job
<1>18. ASSUME NEW o \in Orders, ForgetJob(o)
      PROVE  Done(p)'
  BY <1>18 DEF ForgetJob, NoJob, Job
<1> HIDE DEF TypeOK
<1>19. QED
  BY <1>1, <1>2, <1>3, <1>4, <1>5, <1>6, <1>7, <1>8, <1>9, <1>10, <1>11,
     <1>12, <1>13, <1>14, <1>15, <1>16, <1>17, <1>18 DEF Next

-----------------------------------------------------------------------------
(* Intents and jobs *)

\* The job of the order exists, or does not any more because Redis lost it.
HasJobOrLost(p) ==
    jobs[p].state \in LiveStates \cup {"failed"} \/ p \in dropped

\* A dispatcher that is about to remove the row of a queued order, and still
\* can, has its job in the queue.
Removing(d, p) ==
    /\ dispatchers[d].phase = "remove" /\ dispatchers[d].order = p
    /\ Holds(d, p)
    /\ status[p] = "QUEUED"

Acked(p) == \A d \in Dispatchers : Removing(d, p) => HasJobOrLost(p)

Carried(p) == status[p] = "QUEUED" => p \in DOMAIN outbox \/ HasJobOrLost(p)

Kept(p) ==
    HasJobOrLost(p)' \/ \E pending \in SUBSET Orders :
                            p \in pending /\ RestoreIntents(pending)

\* The job of a queued order stays, unless Redis loses it: it does not complete
\* before the order leaves QUEUED.  The restore script, which settles a loss,
\* stores an intent.
LEMMA JobStays ==
    ASSUME TypeOK, Next, NEW p \in Orders, Done(p), HasJobOrLost(p),
           status[p] = "QUEUED"
    PROVE  Kept(p)
<1> USE DEF TypeOK, WorkersOK, HasJobOrLost, LiveStates, Kept
<1>1. ASSUME NEW o \in Orders, CreateOrder(o) \/ CancelOrder(o)
      PROVE  Kept(p)
  BY <1>1 DEF CreateOrder, CancelOrder, Done
<1>2. ASSUME NEW o \in Orders, ExpireLease(o) \/ RetryDue(o)
      PROVE  Kept(p)
  BY <1>2 DEF ExpireLease, RetryDue
<1>3. ASSUME NEW pending \in SUBSET Orders, RestoreIntents(pending)
      PROVE  Kept(p)
  BY <1>3 DEF RestoreIntents
<1>4. ASSUME NEW d \in Dispatchers,
             \/ StartDispatch(d) \/ Shutdown(d) \/ RestartDispatcher(d)
             \/ ClaimBatch(d) \/ EndDispatch(d) \/ RemoveClaimedRow(d)
             \/ RemoveFails(d) \/ ReleaseClaim(d)
      PROVE  Kept(p)
  BY <1>4 DEF StartDispatch, Shutdown, RestartDispatcher, ClaimBatch,
     EndDispatch, RemoveClaimedRow, RemoveFails, ReleaseClaim
<1>5. ASSUME NEW d \in Dispatchers, NEW o \in Orders, Enqueue(d, o)
      PROVE  Kept(p)
  BY <1>5 DEF Enqueue, AddJob, Job
<1>6. ASSUME NEW d \in Dispatchers, NEW o \in Orders, EnqueueFails(d, o)
      PROVE  Kept(p)
  BY <1>6 DEF EnqueueFails, AddJob, Job
<1>7. ASSUME NEW w \in Workers, NEW o \in Orders, TakeJob(w, o)
      PROVE  Kept(p)
  BY <1>7 DEF TakeJob, Job
<1>8. ASSUME NEW w \in Workers,
             \/ ProcessOrder(w) \/ ProcessThrows(w) \/ RejectOrder(w)
             \/ RejectThrows(w) \/ RestartWorker(w)
      PROVE  Kept(p)
  BY <1>8 DEF ProcessOrder, ProcessThrows, RejectOrder, RejectThrows,
     RestartWorker
<1>9. ASSUME NEW w \in Workers, CompleteJob(w)
      PROVE  Kept(p)
  BY <1>9 DEF CompleteJob, Finish, HasJob, Job, Done
<1>10. ASSUME NEW w \in Workers, FailJob(w)
      PROVE  Kept(p)
  <2> DEFINE o == workers[w].order
  <2>1. CASE HasJob(w)
    <3>1. o \in Orders
      BY <1>10 DEF FailJob
    <3>2. jobs'[o].state \in {"delayed", "failed"}
          /\ \A q \in Orders : q # o => jobs'[q] = jobs[q]
      BY <1>10, <2>1, <3>1 DEF FailJob, Finish, Job
    <3>3. dropped' = dropped
      BY <1>10 DEF FailJob, Finish
    <3>4. QED
      BY <3>2, <3>3
  <2>2. CASE ~HasJob(w)
    BY <1>10, <2>2 DEF FailJob, Finish
  <2>3. QED
    BY <2>1, <2>2
<1>11. ASSUME NEW o \in Orders, BackoffElapses(o) \/ RetryFailedJob(o)
      PROVE  Kept(p)
  <2>1. jobs'[p].state \in {jobs[p].state, "waiting"}
    BY <1>11 DEF BackoffElapses, RetryFailedJob, Job
  <2>2. dropped' = dropped
    BY <1>11 DEF BackoffElapses, RetryFailedJob
  <2>3. QED
    BY <2>1, <2>2
<1>12. ASSUME NEW o \in Orders, StallJob(o)
      PROVE  Kept(p)
  BY <1>12 DEF StallJob, Job
<1>13. ASSUME NEW o \in Orders, ForgetJob(o)
      PROVE  Kept(p)
  BY <1>13 DEF ForgetJob, NoJob, Job
<1> HIDE DEF TypeOK
<1>14. QED
  BY <1>1, <1>2, <1>3, <1>4, <1>5, <1>6, <1>7, <1>8, <1>9, <1>10, <1>11,
     <1>12, <1>13 DEF Next

\* A dispatcher gets there only with the queue's acknowledgement.
LEMMA AcknowledgedFirst ==
    ASSUME TypeOK, DispatchersOK', Next, NEW p \in Orders, Done(p),
           NEW e \in Dispatchers, Removing(e, p)'
    PROVE  Removing(e, p) \/ HasJobOrLost(p)'
<1> USE DEF TypeOK, RowsOK, DispatchersOK, Holds, Removing
<1>1. ASSUME NEW o \in Orders, CreateOrder(o)
      PROVE  Removing(e, p) \/ HasJobOrLost(p)'
  BY <1>1, PipelineAssumption DEF CreateOrder, WriteRows, Intent, LoopState
<1>2. ASSUME NEW o \in Orders, CancelOrder(o)
      PROVE  Removing(e, p) \/ HasJobOrLost(p)'
  BY <1>2 DEF CancelOrder
<1>3. ASSUME NEW o \in Orders, ExpireLease(o)
      PROVE  Removing(e, p) \/ HasJobOrLost(p)'
  BY <1>3 DEF ExpireLease, Row
<1>4. ASSUME NEW o \in Orders, RetryDue(o)
      PROVE  Removing(e, p) \/ HasJobOrLost(p)'
  BY <1>4 DEF RetryDue, Row
<1>5. ASSUME NEW pending \in SUBSET Orders, RestoreIntents(pending)
      PROVE  Removing(e, p) \/ HasJobOrLost(p)'
  BY <1>5 DEF RestoreIntents, WriteRows, Intent, LoopState
<1>6. ASSUME NEW d \in Dispatchers, StartDispatch(d)
      PROVE  Removing(e, p) \/ HasJobOrLost(p)'
  BY <1>6 DEF StartDispatch, Dispatcher
<1>7. ASSUME NEW d \in Dispatchers, Shutdown(d)
      PROVE  Removing(e, p) \/ HasJobOrLost(p)'
  BY <1>7 DEF Shutdown, Dispatcher
<1>8. ASSUME NEW d \in Dispatchers, RestartDispatcher(d)
      PROVE  Removing(e, p) \/ HasJobOrLost(p)'
  BY <1>8 DEF RestartDispatcher, Dispatcher, Started
<1>9. ASSUME NEW d \in Dispatchers, ClaimBatch(d)
      PROVE  Removing(e, p) \/ HasJobOrLost(p)'
  <2>1. PICK rows \in SUBSET Claimable :
          /\ ClaimRows(rows)
          /\ dispatchers' = [dispatchers EXCEPT ![d].phase = "enqueue",
                                                ![d].token = FreshToken,
                                                ![d].batch = rows]
    BY <1>9 DEF ClaimBatch
  <2>2. dispatchers'[e] = dispatchers[e]
    BY <2>1 DEF Dispatcher
  <2>3. outbox'[p].token # FreshToken
    BY <1>9, <2>2, FreshTokenExists DEF ClaimBatch
  <2>4. outbox'[p].token = outbox[p].token /\ p \in DOMAIN outbox
    <3>1. p \in DOMAIN outbox' /\ DOMAIN outbox' = DOMAIN outbox
      BY <2>1 DEF ClaimRows
    <3>2. outbox[p] \in Row
      BY <3>1
    <3>3. p \notin rows
      BY <2>1, <2>3, <3>1, <3>2 DEF ClaimRows, Row
    <3>4. outbox'[p] = outbox[p]
      BY <2>1, <3>1, <3>3 DEF ClaimRows
    <3>5. QED
      BY <3>1, <3>4
  <2>5. status' = status
    BY <1>9 DEF ClaimBatch
  <2>6. dispatchers'[e].phase = "remove" /\ dispatchers'[e].order = p
        /\ outbox'[p].token = dispatchers'[e].token /\ status'[p] = "QUEUED"
    OBVIOUS
  <2>7. QED
    BY ONLY <2>2, <2>4, <2>5, <2>6 DEF Removing, Holds
<1>10. ASSUME NEW d \in Dispatchers, EndDispatch(d)
      PROVE  Removing(e, p) \/ HasJobOrLost(p)'
  <2>1. dispatchers'[e] = dispatchers[e]
    BY <1>10 DEF EndDispatch, Dispatcher
  <2>2. FreshToken # dispatchers[e].token
    BY <1>10, FreshTokenExists DEF EndDispatch
  <2>3. CASE UNCHANGED outbox
    BY <1>10, <2>1, <2>3 DEF EndDispatch
  <2>4. CASE \E rows \in SUBSET Claimable : ClaimRows(rows)
    <3>1. PICK rows \in SUBSET Claimable : ClaimRows(rows)
      BY <2>4
    <3>2. outbox'[p].token = outbox[p].token /\ p \in DOMAIN outbox
      BY <2>1, <2>2, <3>1 DEF ClaimRows, Row
    <3>3. QED
      BY <1>10, <2>1, <3>2 DEF EndDispatch
  <2>5. QED
    BY <1>10, <2>3, <2>4 DEF EndDispatch
<1>11. ASSUME NEW d \in Dispatchers, NEW o \in Orders, Enqueue(d, o)
      PROVE  Removing(e, p) \/ HasJobOrLost(p)'
  BY <1>11 DEF Enqueue, AddJob, Job, Dispatcher, Done, HasJobOrLost,
     LiveStates
<1>12. ASSUME NEW d \in Dispatchers, NEW o \in Orders, EnqueueFails(d, o)
      PROVE  Removing(e, p) \/ HasJobOrLost(p)'
  BY <1>12 DEF EnqueueFails, AddJob, Job, Dispatcher
<1>13. ASSUME NEW d \in Dispatchers, RemoveClaimedRow(d)
      PROVE  Removing(e, p) \/ HasJobOrLost(p)'
  BY <1>13, NextRowKeeps DEF RemoveClaimedRow, RemoveRow, DeleteRow
<1>14. ASSUME NEW d \in Dispatchers, RemoveFails(d)
      PROVE  Removing(e, p) \/ HasJobOrLost(p)'
  BY <1>14 DEF RemoveFails, RemoveRow, DeleteRow, Dispatcher
<1>15. ASSUME NEW d \in Dispatchers, ReleaseClaim(d)
      PROVE  Removing(e, p) \/ HasJobOrLost(p)'
  BY <1>15, NextRowKeeps DEF ReleaseClaim, ReleaseRow, Intent, LoopState
<1>16. ASSUME \/ \E w \in Workers, o \in Orders : TakeJob(w, o)
             \/ \E w \in Workers : RestartWorker(w)
      PROVE  Removing(e, p) \/ HasJobOrLost(p)'
  BY <1>16 DEF TakeJob, RestartWorker
<1>17. ASSUME NEW w \in Workers,
             \/ ProcessOrder(w) \/ ProcessThrows(w) \/ RejectOrder(w)
             \/ RejectThrows(w)
      PROVE  Removing(e, p) \/ HasJobOrLost(p)'
  BY <1>17 DEF ProcessOrder, ProcessThrows, RejectOrder, RejectThrows, Settle
<1>18. ASSUME NEW o \in Orders,
             \/ BackoffElapses(o) \/ StallJob(o) \/ ForgetJob(o)
             \/ RetryFailedJob(o)
      PROVE  Removing(e, p) \/ HasJobOrLost(p)'
  BY <1>18 DEF BackoffElapses, StallJob, ForgetJob, RetryFailedJob
<1>19. ASSUME NEW w \in Workers, CompleteJob(w) \/ FailJob(w)
      PROVE  Removing(e, p) \/ HasJobOrLost(p)'
  BY <1>19 DEF CompleteJob, FailJob, Finish
<1> HIDE DEF TypeOK
<1>20. QED
  BY <1>1, <1>2, <1>3, <1>4, <1>5, <1>6, <1>7, <1>8, <1>9, <1>10, <1>11,
     <1>12, <1>13, <1>14, <1>15, <1>16, <1>17, <1>18, <1>19 DEF Next

LEMMA AckedStep ==
    ASSUME TypeOK, DispatchersOK', Next, NEW p \in Orders, Done(p), Acked(p)
    PROVE  Acked(p)'
<1>1. SUFFICES ASSUME NEW e \in Dispatchers, Removing(e, p)'
               PROVE  HasJobOrLost(p)'
  BY DEF Acked
<1>2. CASE Removing(e, p)
  <2>1. Kept(p)
    BY <1>2, JobStays DEF Acked, Removing
  <2>2. ASSUME NEW pending \in SUBSET Orders, p \in pending,
               RestoreIntents(pending)
        PROVE  FALSE
    BY <1>1, <1>2, <2>2 DEF RestoreIntents, Removing, Holds
  <2>3. QED
    BY <2>1, <2>2 DEF Kept
<1>3. QED
  BY <1>1, <1>2, AcknowledgedFirst

\* The row of a queued order is removed only when its job is in the queue.
LEMMA RowStays ==
    ASSUME Next, NEW p \in Orders, Acked(p), status[p] = "QUEUED",
           p \in DOMAIN outbox
    PROVE  p \in DOMAIN outbox' \/ HasJobOrLost(p)
<1>1. ASSUME NEW o \in Orders, CreateOrder(o)
      PROVE  p \in DOMAIN outbox' \/ HasJobOrLost(p)
  BY <1>1 DEF CreateOrder, WriteRows
<1>2. ASSUME NEW pending \in SUBSET Orders, RestoreIntents(pending)
      PROVE  p \in DOMAIN outbox' \/ HasJobOrLost(p)
  BY <1>2 DEF RestoreIntents, WriteRows
<1>3. ASSUME NEW o \in Orders, CancelOrder(o) \/ ExpireLease(o) \/ RetryDue(o)
      PROVE  p \in DOMAIN outbox' \/ HasJobOrLost(p)
  BY <1>3 DEF CancelOrder, ExpireLease, RetryDue
<1>4. ASSUME NEW d \in Dispatchers,
             \/ StartDispatch(d) \/ Shutdown(d) \/ RestartDispatcher(d)
      PROVE  p \in DOMAIN outbox' \/ HasJobOrLost(p)
  BY <1>4 DEF StartDispatch, Shutdown, RestartDispatcher
<1>5. ASSUME NEW d \in Dispatchers, ClaimBatch(d) \/ EndDispatch(d)
      PROVE  p \in DOMAIN outbox' \/ HasJobOrLost(p)
  BY <1>5 DEF ClaimBatch, EndDispatch, ClaimRows
<1>6. ASSUME NEW d \in Dispatchers, NEW o \in Orders,
             \/ Enqueue(d, o) \/ EnqueueFails(d, o)
      PROVE  p \in DOMAIN outbox' \/ HasJobOrLost(p)
  BY <1>6 DEF Enqueue, EnqueueFails
<1>7. ASSUME NEW d \in Dispatchers, RemoveClaimedRow(d) \/ RemoveFails(d)
      PROVE  p \in DOMAIN outbox' \/ HasJobOrLost(p)
  BY <1>7 DEF RemoveClaimedRow, RemoveFails, RemoveRow, DeleteRow, Acked,
     Removing
<1>8. ASSUME NEW d \in Dispatchers, ReleaseClaim(d)
      PROVE  p \in DOMAIN outbox' \/ HasJobOrLost(p)
  BY <1>8 DEF ReleaseClaim, ReleaseRow
<1>9. ASSUME \/ \E w \in Workers, o \in Orders : TakeJob(w, o)
             \/ \E w \in Workers :
                   \/ ProcessOrder(w) \/ ProcessThrows(w) \/ RejectOrder(w)
                   \/ RejectThrows(w) \/ RestartWorker(w)
      PROVE  p \in DOMAIN outbox' \/ HasJobOrLost(p)
  BY <1>9 DEF TakeJob, ProcessOrder, ProcessThrows, RejectOrder, RejectThrows,
     RestartWorker
<1>10. ASSUME NEW o \in Orders,
             \/ BackoffElapses(o) \/ StallJob(o) \/ ForgetJob(o)
             \/ RetryFailedJob(o)
      PROVE  p \in DOMAIN outbox' \/ HasJobOrLost(p)
  BY <1>10 DEF BackoffElapses, StallJob, ForgetJob, RetryFailedJob
<1>11. ASSUME NEW w \in Workers, CompleteJob(w) \/ FailJob(w)
      PROVE  p \in DOMAIN outbox' \/ HasJobOrLost(p)
  BY <1>11 DEF CompleteJob, FailJob, Finish
<1>12. QED
  BY <1>1, <1>2, <1>3, <1>4, <1>5, <1>6, <1>7, <1>8, <1>9, <1>10, <1>11
     DEF Next

\* An order becomes QUEUED only by being created, with its intent.
LEMMA QueuedWithIntent ==
    ASSUME TypeOK, Next, NEW p \in Orders, status'[p] = "QUEUED"
    PROVE  status[p] = "QUEUED" \/ p \in DOMAIN outbox'
<1> USE DEF TypeOK
<1>1. ASSUME NEW o \in Orders, CreateOrder(o)
      PROVE  status[p] = "QUEUED" \/ p \in DOMAIN outbox'
  BY <1>1 DEF CreateOrder, WriteRows
<1>2. ASSUME NEW o \in Orders, CancelOrder(o) \/ ExpireLease(o) \/ RetryDue(o)
      PROVE  status[p] = "QUEUED" \/ p \in DOMAIN outbox'
  BY <1>2 DEF CancelOrder, ExpireLease, RetryDue
<1>3. ASSUME NEW pending \in SUBSET Orders, RestoreIntents(pending)
      PROVE  status[p] = "QUEUED" \/ p \in DOMAIN outbox'
  BY <1>3 DEF RestoreIntents
<1>4. ASSUME NEW d \in Dispatchers,
             \/ StartDispatch(d) \/ Shutdown(d) \/ RestartDispatcher(d)
             \/ ClaimBatch(d) \/ EndDispatch(d) \/ RemoveClaimedRow(d)
             \/ RemoveFails(d) \/ ReleaseClaim(d)
      PROVE  status[p] = "QUEUED" \/ p \in DOMAIN outbox'
  BY <1>4 DEF StartDispatch, Shutdown, RestartDispatcher, ClaimBatch,
     EndDispatch, RemoveClaimedRow, RemoveFails, ReleaseClaim
<1>5. ASSUME NEW d \in Dispatchers, NEW o \in Orders,
             \/ Enqueue(d, o) \/ EnqueueFails(d, o)
      PROVE  status[p] = "QUEUED" \/ p \in DOMAIN outbox'
  BY <1>5 DEF Enqueue, EnqueueFails
<1>6. ASSUME NEW w \in Workers,
             \/ ProcessOrder(w) \/ ProcessThrows(w) \/ RejectOrder(w)
             \/ RejectThrows(w)
      PROVE  status[p] = "QUEUED" \/ p \in DOMAIN outbox'
  BY <1>6 DEF ProcessOrder, ProcessThrows, RejectOrder, RejectThrows, Settle
<1>7. ASSUME \/ \E w \in Workers, o \in Orders : TakeJob(w, o)
             \/ \E w \in Workers : RestartWorker(w)
      PROVE  status[p] = "QUEUED" \/ p \in DOMAIN outbox'
  BY <1>7 DEF TakeJob, RestartWorker
<1>8. ASSUME NEW o \in Orders,
             \/ BackoffElapses(o) \/ StallJob(o) \/ ForgetJob(o)
             \/ RetryFailedJob(o)
      PROVE  status[p] = "QUEUED" \/ p \in DOMAIN outbox'
  BY <1>8 DEF BackoffElapses, StallJob, ForgetJob, RetryFailedJob
<1>9. ASSUME NEW w \in Workers, CompleteJob(w) \/ FailJob(w)
      PROVE  status[p] = "QUEUED" \/ p \in DOMAIN outbox'
  BY <1>9 DEF CompleteJob, FailJob, Finish
<1> HIDE DEF TypeOK
<1>10. QED
  BY <1>1, <1>2, <1>3, <1>4, <1>5, <1>6, <1>7, <1>8, <1>9 DEF Next

LEMMA CarriedStep ==
    ASSUME TypeOK, Next, NEW p \in Orders, Done(p), Acked(p), Carried(p)
    PROVE  Carried(p)'
<1>1. SUFFICES ASSUME status'[p] = "QUEUED", p \notin DOMAIN outbox'
               PROVE  HasJobOrLost(p)'
  BY DEF Carried
<1>2. status[p] = "QUEUED"
  BY <1>1, QueuedWithIntent
<1>3. HasJobOrLost(p)
  BY <1>1, <1>2, RowStays DEF Carried
<1>4. Kept(p)
  BY <1>2, <1>3, JobStays
<1>5. ASSUME NEW pending \in SUBSET Orders, p \in pending,
             RestoreIntents(pending)
      PROVE  FALSE
  BY <1>1, <1>5 DEF RestoreIntents, WriteRows
<1>6. QED
  BY <1>4, <1>5 DEF Kept

-----------------------------------------------------------------------------
(* Attempts *)

\* No counter runs ahead of the failed runs: not the job's, not that of a
\* worker that may have lost the job long ago.
Counted(p) ==
    /\ jobs[p].attemptsMade <= throws[p]
    /\ status[p] = "REJECTED" => throws[p] = MaxAttempts
    /\ \A w \in Workers :
          workers[w].order = p =>
            /\ workers[w].phase = "process" =>
                  workers[w].attemptsMade <= throws[p]
            /\ workers[w].phase = "reject" => throws[p] = MaxAttempts
            /\ workers[w].phase = "fail" =>
                  \/ workers[w].attemptsMade < throws[p]
                  \/ throws[p] = MaxAttempts
            /\ workers[w].phase # "idle" /\ HasJob(w) =>
                  jobs[p].attemptsMade = workers[w].attemptsMade

LEMMA CountedStep ==
    ASSUME TypeOK, Next, NEW p \in Orders, Counted(p)
    PROVE  Counted(p)'
<1> USE DEF TypeOK, WorkersOK, Counted, HasJob
<1>1. ASSUME NEW o \in Orders, CreateOrder(o) \/ CancelOrder(o)
      PROVE  Counted(p)'
  BY <1>1 DEF CreateOrder, CancelOrder
<1>2. ASSUME \/ \E o \in Orders : ExpireLease(o) \/ RetryDue(o)
             \/ \E pending \in SUBSET Orders : RestoreIntents(pending)
      PROVE  Counted(p)'
  BY <1>2 DEF ExpireLease, RetryDue, RestoreIntents
<1>3. ASSUME NEW d \in Dispatchers,
             \/ StartDispatch(d) \/ Shutdown(d) \/ RestartDispatcher(d)
             \/ ClaimBatch(d) \/ EndDispatch(d) \/ RemoveClaimedRow(d)
             \/ RemoveFails(d) \/ ReleaseClaim(d)
      PROVE  Counted(p)'
  BY <1>3 DEF StartDispatch, Shutdown, RestartDispatcher, ClaimBatch,
     EndDispatch, RemoveClaimedRow, RemoveFails, ReleaseClaim
<1>4. ASSUME NEW d \in Dispatchers, NEW o \in Orders, Enqueue(d, o)
      PROVE  Counted(p)'
  BY <1>4 DEF Enqueue, AddJob, Job
<1>5. ASSUME NEW d \in Dispatchers, NEW o \in Orders, EnqueueFails(d, o)
      PROVE  Counted(p)'
  BY <1>5 DEF EnqueueFails, AddJob, Job
<1>6. ASSUME NEW w \in Workers, NEW o \in Orders, TakeJob(w, o)
      PROVE  Counted(p)'
  BY <1>6, PipelineAssumption DEF TakeJob, Worker, Job
<1>7. ASSUME NEW w \in Workers, ProcessOrder(w)
      PROVE  Counted(p)'
  BY <1>7 DEF ProcessOrder, Settle, Continue, Worker
<1>8. ASSUME NEW w \in Workers, ProcessThrows(w)
      PROVE  Counted(p)'
  <2> DEFINE o == workers[w].order
             counted == IF throws[o] < MaxAttempts THEN throws[o] + 1
                                                   ELSE throws[o]
             phase == IF IsFinalAttempt(workers[w].attemptsMade)
                      THEN "reject" ELSE "fail"
  <2>1. /\ o \in Orders
        /\ throws[o] \in 0..MaxAttempts
        /\ workers[w].attemptsMade \in 0..MaxAttempts
        /\ workers[w] \in Worker
    BY <1>8 DEF ProcessThrows, Worker
  <2>2. /\ throws' = [throws EXCEPT ![o] = counted]
        /\ workers' = [workers EXCEPT ![w].phase = phase]
        /\ status' = status \/ Settle(o, "MATCHED")
        /\ jobs' = jobs
    BY <1>8 DEF ProcessThrows, Continue
  <2>3. /\ throws[p] \in 0..MaxAttempts /\ throws'[p] \in 0..MaxAttempts
        /\ throws[p] <= throws'[p]
    BY <2>1, <2>2, PipelineAssumption
  <2>4. throws[p] = MaxAttempts => throws'[p] = MaxAttempts
    BY <2>2
  <2>5. (jobs[p].attemptsMade <= throws[p])'
    BY <2>2, <2>3 DEF Job
  <2>6. (status[p] = "REJECTED" => throws[p] = MaxAttempts)'
    BY <2>2, <2>4 DEF Settle
  <2>7. ASSUME NEW v \in Workers, v # w, workers'[v].order = p
        PROVE  /\ workers'[v].phase = "process" =>
                     workers'[v].attemptsMade <= throws'[p]
               /\ workers'[v].phase = "reject" => throws'[p] = MaxAttempts
               /\ workers'[v].phase = "fail" =>
                     \/ workers'[v].attemptsMade < throws'[p]
                     \/ throws'[p] = MaxAttempts
               /\ workers'[v].phase # "idle" /\ HasJob(v)' =>
                     jobs'[p].attemptsMade = workers'[v].attemptsMade
    <3>1. /\ workers'[v] = workers[v]
          /\ workers[v].attemptsMade \in 0..MaxAttempts
      BY <2>2, <2>7 DEF Worker
    <3>2. QED
      BY <2>2, <2>3, <2>4, <2>7, <3>1
  <2>8. ASSUME o = p
        PROVE  /\ phase = "reject" => throws'[p] = MaxAttempts
               /\ phase = "fail" => \/ workers[w].attemptsMade < throws'[p]
                                    \/ throws'[p] = MaxAttempts
    <3>1. throws'[p] = counted /\ throws[p] \in 0..MaxAttempts
      BY <2>1, <2>2, <2>8
    <3>2. workers[w].attemptsMade <= throws[p]
      BY <1>8, <2>8 DEF ProcessThrows
    <3>3. \/ counted = throws[p] + 1 /\ throws[p] < MaxAttempts
          \/ counted = MaxAttempts /\ throws[p] = MaxAttempts
      BY <2>8, <3>1, PipelineAssumption
    <3>4. phase = "reject" => workers[w].attemptsMade + 1 >= MaxAttempts
      BY DEF IsFinalAttempt
    <3> HIDE DEF phase, counted
    <3>5. QED
      BY <2>1, <3>1, <3>2, <3>3, <3>4, PipelineAssumption
  <2>9. /\ workers'[w].phase = phase /\ workers'[w].order = o
        /\ workers'[w].attemptsMade = workers[w].attemptsMade
    BY <2>1, <2>2 DEF Worker
  <2>10. o = p /\ HasJob(w)' =>
            jobs'[p].attemptsMade = workers'[w].attemptsMade
    BY <1>8, <2>2, <2>9 DEF ProcessThrows
  <2>11. phase \in {"reject", "fail"}
    OBVIOUS
  <2> HIDE DEF phase, counted
  <2>12. QED
    BY <2>5, <2>6, <2>7, <2>8, <2>9, <2>10, <2>11
<1>9. ASSUME NEW w \in Workers, RejectOrder(w)
      PROVE  Counted(p)'
  BY <1>9 DEF RejectOrder, Settle, Continue, Worker
<1>10. ASSUME NEW w \in Workers, RejectThrows(w)
      PROVE  Counted(p)'
  BY <1>10 DEF RejectThrows, Settle, Continue, Worker
<1>11. ASSUME NEW w \in Workers, RestartWorker(w)
      PROVE  Counted(p)'
  BY <1>11, PipelineAssumption DEF RestartWorker, IdleWorker, Worker
<1>12. ASSUME NEW w \in Workers, CompleteJob(w)
      PROVE  Counted(p)'
  BY <1>12, PipelineAssumption DEF CompleteJob, Finish, IdleWorker, Worker,
     Job
<1>13. ASSUME NEW w \in Workers, FailJob(w)
      PROVE  Counted(p)'
  BY <1>13, PipelineAssumption DEF FailJob, Finish, IdleWorker, Worker, Job
<1>14. ASSUME NEW o \in Orders, BackoffElapses(o) \/ RetryFailedJob(o)
      PROVE  Counted(p)'
  BY <1>14 DEF BackoffElapses, RetryFailedJob, Job
<1>15. ASSUME NEW o \in Orders, StallJob(o)
      PROVE  Counted(p)'
  <2>1. jobs'[p].attemptsMade = jobs[p].attemptsMade
    BY <1>15 DEF StallJob, Job
  <2>2. jobs'[p] = jobs[p] \/ jobs'[p].owner = NoWorker
    BY <1>15 DEF StallJob, Job
  <2>3. throws' = throws /\ workers' = workers /\ status' = status
    BY <1>15 DEF StallJob
  <2>4. QED
    BY <2>1, <2>2, <2>3, PipelineAssumption
<1>16. ASSUME NEW o \in Orders, ForgetJob(o)
      PROVE  Counted(p)'
  BY <1>16, PipelineAssumption DEF ForgetJob, NoJob, Job
<1> HIDE DEF TypeOK
<1>17. QED
  BY <1>1, <1>2, <1>3, <1>4, <1>5, <1>6, <1>7, <1>8, <1>9, <1>10, <1>11,
     <1>12, <1>13, <1>14, <1>15, <1>16 DEF Next

-----------------------------------------------------------------------------
(* Claims *)

\* A row is claimed only when its next_attempt_at has come.
Leased(p) ==
    p \in DOMAIN outbox /\ outbox[p].lease = "live" => outbox[p].due

LEMMA LeasedStep ==
    ASSUME TypeOK, Next, NEW p \in Orders, Leased(p)
    PROVE  Leased(p)'
<1> USE DEF TypeOK, RowsOK, Leased
<1>1. ASSUME NEW o \in Orders, CreateOrder(o)
      PROVE  Leased(p)'
  BY <1>1 DEF CreateOrder, WriteRows, Intent
<1>2. ASSUME NEW o \in Orders, CancelOrder(o)
      PROVE  Leased(p)'
  BY <1>2 DEF CancelOrder
<1>3. ASSUME NEW o \in Orders, ExpireLease(o)
      PROVE  Leased(p)'
  BY <1>3 DEF ExpireLease, Row
<1>4. ASSUME NEW o \in Orders, RetryDue(o)
      PROVE  Leased(p)'
  BY <1>4 DEF RetryDue, Row
<1>5. ASSUME NEW pending \in SUBSET Orders, RestoreIntents(pending)
      PROVE  Leased(p)'
  BY <1>5 DEF RestoreIntents, WriteRows, Intent
<1>6. ASSUME NEW d \in Dispatchers,
             \/ StartDispatch(d) \/ Shutdown(d) \/ RestartDispatcher(d)
      PROVE  Leased(p)'
  BY <1>6 DEF StartDispatch, Shutdown, RestartDispatcher
<1>7. ASSUME NEW d \in Dispatchers, ClaimBatch(d) \/ EndDispatch(d)
      PROVE  Leased(p)'
  <2>1. ASSUME NEW rows \in SUBSET Claimable, ClaimRows(rows),
               p \in DOMAIN outbox'
        PROVE  outbox'[p].lease = "live" => outbox'[p].due
    <3>1. p \in DOMAIN outbox /\ outbox[p] \in Row
      BY <2>1 DEF ClaimRows
    <3>2. CASE p \in rows
      <4>1. outbox[p].due
        BY <3>2 DEF Claimable
      <4>2. outbox'[p] = [outbox[p] EXCEPT !.token = FreshToken,
                                           !.lease = "live"]
        BY <2>1, <3>1, <3>2 DEF ClaimRows
      <4>3. outbox'[p].due = outbox[p].due
        BY <3>1, <4>2 DEF Row
      <4>4. QED
        BY <4>1, <4>3
    <3>3. CASE p \notin rows
      BY <2>1, <3>1, <3>3 DEF ClaimRows
    <3>4. QED
      BY <3>2, <3>3
  <2>2. CASE UNCHANGED outbox
    BY <2>2
  <2>3. QED
    BY <1>7, <2>1, <2>2 DEF ClaimBatch, EndDispatch
<1>8. ASSUME NEW d \in Dispatchers, NEW o \in Orders,
             \/ Enqueue(d, o) \/ EnqueueFails(d, o)
      PROVE  Leased(p)'
  BY <1>8 DEF Enqueue, EnqueueFails
<1>9. ASSUME NEW d \in Dispatchers, RemoveClaimedRow(d)
      PROVE  Leased(p)'
  BY <1>9 DEF RemoveClaimedRow, RemoveRow, DeleteRow
<1>10. ASSUME NEW d \in Dispatchers, RemoveFails(d)
      PROVE  Leased(p)'
  BY <1>10 DEF RemoveFails, RemoveRow, DeleteRow
<1>11. ASSUME NEW d \in Dispatchers, ReleaseClaim(d)
      PROVE  Leased(p)'
  BY <1>11 DEF ReleaseClaim, ReleaseRow, Intent
<1>12. ASSUME \/ \E w \in Workers, o \in Orders : TakeJob(w, o)
             \/ \E w \in Workers :
                   \/ ProcessOrder(w) \/ ProcessThrows(w) \/ RejectOrder(w)
                   \/ RejectThrows(w) \/ RestartWorker(w)
      PROVE  Leased(p)'
  BY <1>12 DEF TakeJob, ProcessOrder, ProcessThrows, RejectOrder,
     RejectThrows, RestartWorker
<1>13. ASSUME NEW o \in Orders,
             \/ BackoffElapses(o) \/ StallJob(o) \/ ForgetJob(o)
             \/ RetryFailedJob(o)
      PROVE  Leased(p)'
  BY <1>13 DEF BackoffElapses, StallJob, ForgetJob, RetryFailedJob
<1>14. ASSUME NEW w \in Workers, CompleteJob(w) \/ FailJob(w)
      PROVE  Leased(p)'
  BY <1>14 DEF CompleteJob, FailJob, Finish
<1> HIDE DEF TypeOK
<1>15. QED
  BY <1>1, <1>2, <1>3, <1>4, <1>5, <1>6, <1>7, <1>8, <1>9, <1>10, <1>11,
     <1>12, <1>13, <1>14 DEF Next

\* What ClaimRespected says of one row.
RespectsClaim(p) ==
    \/ outbox[p].lease # "live"
    \/ p \in DOMAIN outbox' /\ outbox'[p] = outbox[p]
    \/ p \in DOMAIN outbox'
          /\ outbox'[p] = [outbox[p] EXCEPT !.lease = "expired"]
    \/ \E d \in Dispatchers : dispatchers[d].order = p /\ Holds(d, p)

LEMMA ClaimStep ==
    ASSUME TypeOK, Next, NEW p \in DOMAIN outbox, Untouched(p),
           Leased(p)
    PROVE  RespectsClaim(p)
<1> USE DEF TypeOK, RowsOK, RespectsClaim
<1>1. ASSUME NEW o \in Orders, CreateOrder(o)
      PROVE  RespectsClaim(p)
  BY <1>1 DEF CreateOrder, WriteRows, Untouched
<1>2. ASSUME NEW o \in Orders, CancelOrder(o)
      PROVE  RespectsClaim(p)
  BY <1>2 DEF CancelOrder
<1>3. ASSUME NEW o \in Orders, ExpireLease(o)
      PROVE  RespectsClaim(p)
  BY <1>3 DEF ExpireLease, Row
<1>4. ASSUME NEW o \in Orders, RetryDue(o)
      PROVE  RespectsClaim(p)
  BY <1>4 DEF RetryDue, Leased, Row
<1>5. ASSUME NEW pending \in SUBSET Orders, RestoreIntents(pending)
      PROVE  RespectsClaim(p)
  BY <1>5 DEF RestoreIntents, WriteRows
<1>6. ASSUME NEW d \in Dispatchers,
             \/ StartDispatch(d) \/ Shutdown(d) \/ RestartDispatcher(d)
      PROVE  RespectsClaim(p)
  BY <1>6 DEF StartDispatch, Shutdown, RestartDispatcher
<1>7. ASSUME NEW d \in Dispatchers, ClaimBatch(d) \/ EndDispatch(d)
      PROVE  RespectsClaim(p)
  BY <1>7 DEF ClaimBatch, EndDispatch, ClaimRows, Claimable
<1>8. ASSUME NEW d \in Dispatchers, NEW o \in Orders,
             \/ Enqueue(d, o) \/ EnqueueFails(d, o)
      PROVE  RespectsClaim(p)
  BY <1>8 DEF Enqueue, EnqueueFails
<1>9. ASSUME NEW d \in Dispatchers, RemoveClaimedRow(d)
      PROVE  RespectsClaim(p)
  BY <1>9 DEF RemoveClaimedRow, RemoveRow, DeleteRow
<1>10. ASSUME NEW d \in Dispatchers, RemoveFails(d)
      PROVE  RespectsClaim(p)
  BY <1>10 DEF RemoveFails, RemoveRow, DeleteRow
<1>11. ASSUME NEW d \in Dispatchers, ReleaseClaim(d)
      PROVE  RespectsClaim(p)
  BY <1>11 DEF ReleaseClaim, ReleaseRow
<1>12. ASSUME \/ \E w \in Workers, o \in Orders : TakeJob(w, o)
             \/ \E w \in Workers :
                   \/ ProcessOrder(w) \/ ProcessThrows(w) \/ RejectOrder(w)
                   \/ RejectThrows(w) \/ RestartWorker(w)
      PROVE  RespectsClaim(p)
  BY <1>12 DEF TakeJob, ProcessOrder, ProcessThrows, RejectOrder,
     RejectThrows, RestartWorker
<1>13. ASSUME NEW o \in Orders,
             \/ BackoffElapses(o) \/ StallJob(o) \/ ForgetJob(o)
             \/ RetryFailedJob(o)
      PROVE  RespectsClaim(p)
  BY <1>13 DEF BackoffElapses, StallJob, ForgetJob, RetryFailedJob
<1>14. ASSUME NEW w \in Workers, CompleteJob(w) \/ FailJob(w)
      PROVE  RespectsClaim(p)
  BY <1>14 DEF CompleteJob, FailJob, Finish
<1> HIDE DEF TypeOK
<1>15. QED
  BY <1>1, <1>2, <1>3, <1>4, <1>5, <1>6, <1>7, <1>8, <1>9, <1>10, <1>11,
     <1>12, <1>13, <1>14 DEF Next

-----------------------------------------------------------------------------
(* The invariant *)

Pipelined ==
    /\ TypeOK
    /\ \A p \in Orders :
          /\ Untouched(p) /\ Done(p)
          /\ Acked(p) /\ Carried(p)
          /\ Counted(p) /\ Leased(p)

LEMMA PipelinedInit ==
    ASSUME Init
    PROVE  Pipelined
<1>1. TypeOK
  BY TypeInit
<1>2. ASSUME NEW p \in Orders
      PROVE  /\ Untouched(p) /\ Done(p)
             /\ Acked(p) /\ Carried(p)
             /\ Counted(p) /\ Leased(p)
  BY PipelineAssumption
     DEF Init, Untouched, Done, Acked, Removing, Carried, Counted, Leased,
         Started, NoJob, IdleWorker
<1>3. QED
  BY <1>1, <1>2 DEF Pipelined

LEMMA PipelinedStep ==
    ASSUME Pipelined, [Next]_vars
    PROVE  Pipelined'
<1>1. CASE Next
  <2>1. TypeOK'
    BY <1>1, TypeStep DEF Pipelined
  <2>2. ASSUME NEW p \in Orders
        PROVE  /\ Untouched(p)' /\ Done(p)'
               /\ Acked(p)' /\ Carried(p)'
               /\ Counted(p)' /\ Leased(p)'
    <3>1. /\ TypeOK /\ Untouched(p) /\ Done(p)
          /\ Acked(p) /\ Carried(p) /\ Counted(p) /\ Leased(p)
      BY DEF Pipelined
    <3>2. DispatchersOK'
      BY <2>1 DEF TypeOK
    <3>3. Untouched(p)' /\ Done(p)'
      BY <1>1, <3>1, UntouchedStep, DoneStep
    <3>4. Acked(p)' /\ Carried(p)'
      BY <1>1, <3>1, <3>2, AckedStep, CarriedStep
    <3>5. Counted(p)' /\ Leased(p)'
      BY <1>1, <3>1, CountedStep, LeasedStep
    <3>6. QED
      BY <3>3, <3>4, <3>5
  <2>3. QED
    BY <2>1, <2>2 DEF Pipelined
<1>2. CASE UNCHANGED vars
  BY <1>2
     DEF vars, Pipelined, TypeOK, RowsOK, DispatchersOK, WorkersOK, Untouched,
         Done, Acked, Removing, Holds, HasJobOrLost, Carried, Counted, HasJob,
         Leased
<1>3. QED
  BY <1>1, <1>2

LEMMA PipelinedInvariant == Spec => []Pipelined
BY PipelinedInit, PipelinedStep, PTL DEF Spec

-----------------------------------------------------------------------------
(* MatchingPipeline implements Delivery: one step for each action, which is a *)
(* step of Delivery or not seen there.                                     *)

\* What makes a queued order attended to.
Cared(p) ==
    p \in DOMAIN outbox \/ jobs[p].state \in LiveStates \cup {"failed"}

Seen == [Promise!Next]_(Promise!vars)

LEMMA CaredIsAttended ==
    ASSUME NEW p \in Orders
    PROVE  p \in Attended <=> status[p] = "QUEUED" /\ Cared(p)
BY DEF Attended, Cared

\* The step of one order.
LEMMA OneOrderStep ==
    ASSUME NEW o \in Orders, Promise!OrderStep(o)
    PROVE  Seen
BY DEF Seen, Promise!Next

\* Steps that are not seen: the queued orders have what they had.
LEMMA NotSeen ==
    ASSUME UNCHANGED <<status, throws, dropped>>,
           \A p \in Orders : status[p] = "QUEUED" => (Cared(p)' <=> Cared(p))
    PROVE  Attended' = Attended /\ Seen
<1>1. Attended' = Attended
  BY DEF Attended, Cared
<1>2. QED
  BY <1>1 DEF Seen, Promise!vars

\* An order that is settled leaves the attended ones; one that was settled
\* before stays as it is.
LEMMA SettledOnce ==
    ASSUME TypeOK, NEW o \in Orders, NEW outcome \in Status \ {"QUEUED"},
           Settle(o, outcome), UNCHANGED <<outbox, jobs>>
    PROVE  \/ Promise!Settle(o, outcome)
           \/ UNCHANGED <<status, Attended>>
<1>1. CASE status[o] = "QUEUED"
  <2>1. status' = [status EXCEPT ![o] = outcome]
    BY <1>1 DEF Settle
  <2>2. Attended' = Attended \ {o}
    BY <2>1 DEF Attended, TypeOK
  <2>3. QED
    BY <1>1, <2>1, <2>2 DEF Promise!Settle
<1>2. CASE status[o] # "QUEUED"
  BY <1>2 DEF Settle, Attended
<1>3. QED
  BY <1>1, <1>2

\* What happens in the tables.
LEMMA TablesImplement ==
    ASSUME Pipelined,
           \/ \E o \in Orders :
                 CreateOrder(o) \/ CancelOrder(o) \/ ExpireLease(o) \/ RetryDue(o)
           \/ \E pending \in SUBSET Orders : RestoreIntents(pending)
    PROVE  Seen
<1> USE DEF Pipelined, TypeOK
<1>1. ASSUME NEW o \in Orders, CreateOrder(o)
      PROVE  Seen
  <2>1. Attended' = Attended \cup {o}
    BY <1>1 DEF CreateOrder, WriteRows, Attended
  <2>2. Promise!Place(o)
    BY <1>1, <2>1 DEF CreateOrder, Promise!Place
  <2>3. QED
    BY <2>2, OneOrderStep DEF Promise!OrderStep
<1>2. ASSUME NEW o \in Orders, CancelOrder(o)
      PROVE  Seen
  <2>1. Attended' = Attended \ {o}
    BY <1>2 DEF CancelOrder, Attended
  <2>2. Promise!Cancel(o)
    BY <1>2, <2>1 DEF CancelOrder, Promise!Cancel, Promise!Settle
  <2>3. QED
    BY <2>2, OneOrderStep DEF Promise!OrderStep
<1>3. ASSUME NEW o \in Orders, ExpireLease(o) \/ RetryDue(o)
      PROVE  Seen
  BY <1>3, NotSeen DEF ExpireLease, RetryDue, Cared
<1>4. ASSUME NEW pending \in SUBSET Orders, RestoreIntents(pending)
      PROVE  Seen
  <2>1. Attended' = Attended \cup pending
    BY <1>4 DEF RestoreIntents, WriteRows, Attended
  <2>2. Promise!Restore(pending)
    BY <1>4, <2>1 DEF RestoreIntents, Promise!Restore
  <2>3. QED
    BY <2>2 DEF Seen, Promise!Next
<1>5. QED
  BY <1>1, <1>2, <1>3, <1>4

\* A call of queue.add, answered or not: a job that Redis had forgotten may be
\* back.
LEMMA AddJobImplements ==
    ASSUME Pipelined, NEW o \in Orders, AddJob(o) \/ UNCHANGED jobs,
           UNCHANGED <<status, outbox, throws, dropped>>
    PROVE  Seen
<1> USE DEF Pipelined, TypeOK
<1>1. CASE status[o] = "QUEUED" /\ ~Cared(o) /\ jobs' # jobs
  <2>1. o \in dropped
    BY <1>1 DEF Carried, HasJobOrLost, Cared
  <2>2. jobs' = [jobs EXCEPT ![o].state = "waiting"]
    BY <1>1 DEF AddJob
  <2>3. Attended' = Attended \cup {o} /\ o \notin Attended
    BY <1>1, <2>2 DEF Attended, Cared, LiveStates, Job
  <2>4. Promise!Return(o)
    BY <1>1, <2>1, <2>3 DEF Promise!Return
  <2>5. QED
    BY <2>4, OneOrderStep DEF Promise!OrderStep
<1>2. CASE ~(status[o] = "QUEUED" /\ ~Cared(o) /\ jobs' # jobs)
  <2>1. ASSUME NEW p \in Orders, status[p] = "QUEUED"
        PROVE  Cared(p)' <=> Cared(p)
    BY <1>2, <2>1 DEF AddJob, Cared, LiveStates, Job
  <2>2. QED
    BY <2>1, NotSeen
<1>3. QED
  BY <1>1, <1>2

\* The removal of a row that this dispatcher enqueued: its job was forgotten
\* meanwhile, if nothing is left.
LEMMA RemoveRowImplements ==
    ASSUME Pipelined, NEW d \in Dispatchers, dispatchers[d].phase = "remove",
           RemoveRow(d) \/ UNCHANGED outbox,
           UNCHANGED <<status, jobs, throws, dropped>>
    PROVE  Seen
<1> USE DEF Pipelined, TypeOK
<1>1. PICK o \in Orders : o = dispatchers[d].order
  BY DEF DispatchersOK, LoopState
<1>2. CASE o \in Attended /\ ~Cared(o)'
  <2>1. outbox' = DeleteRow(o) /\ Holds(d, o)
    <3>1. jobs[o].state \notin LiveStates \cup {"failed"}
      BY <1>2 DEF Cared
    <3>2. o \in DOMAIN outbox /\ o \notin DOMAIN outbox'
      BY <1>2, <3>1, CaredIsAttended DEF Cared
    <3>3. QED
      BY <1>1, <3>2 DEF RemoveRow
  <2>2. o \in dropped
    BY <1>1, <1>2, <2>1, CaredIsAttended
       DEF Acked, Removing, HasJobOrLost, Cared
  <2>3. Attended' = Attended \ {o}
    <3>1. DOMAIN outbox' = DOMAIN outbox \ {o}
      BY <2>1 DEF DeleteRow
    <3>2. jobs[o].state \notin LiveStates \cup {"failed"}
      BY <1>2 DEF Cared
    <3>3. QED
      BY <3>1, <3>2 DEF Attended
  <2>4. Promise!Abandon(o)
    BY <1>2, <2>2, <2>3 DEF Promise!Abandon
  <2>5. QED
    BY <1>1, <2>4, OneOrderStep DEF Promise!OrderStep
<1>3. CASE ~(o \in Attended /\ ~Cared(o)')
  <2>1. ASSUME NEW p \in Orders, status[p] = "QUEUED"
        PROVE  Cared(p)' <=> Cared(p)
    <3>1. p # o => (p \in DOMAIN outbox' <=> p \in DOMAIN outbox)
      BY <1>1 DEF RemoveRow, DeleteRow
    <3>2. p \in DOMAIN outbox' => p \in DOMAIN outbox
      BY DEF RemoveRow, DeleteRow
    <3>3. QED
      BY <1>3, <2>1, <3>1, <3>2, CaredIsAttended DEF Cared
  <2>2. QED
    BY <2>1, NotSeen
<1>4. QED
  BY <1>2, <1>3

\* What the dispatchers do.
LEMMA DispatchImplements ==
    ASSUME Pipelined, NEW d \in Dispatchers,
           \/ StartDispatch(d) \/ ClaimBatch(d) \/ EndDispatch(d)
           \/ \E o \in Orders : Enqueue(d, o) \/ EnqueueFails(d, o)
           \/ RemoveClaimedRow(d) \/ RemoveFails(d) \/ ReleaseClaim(d)
           \/ Shutdown(d) \/ RestartDispatcher(d)
    PROVE  Seen
<1>1. CASE StartDispatch(d) \/ Shutdown(d) \/ RestartDispatcher(d)
  BY <1>1, NotSeen DEF StartDispatch, Shutdown, RestartDispatcher, Cared
<1>2. CASE ClaimBatch(d) \/ EndDispatch(d) \/ ReleaseClaim(d)
  <2>1. DOMAIN outbox' = DOMAIN outbox
    BY <1>2 DEF ClaimBatch, EndDispatch, ClaimRows, ReleaseClaim, ReleaseRow
  <2>2. UNCHANGED <<status, jobs, throws, dropped>>
    BY <1>2 DEF ClaimBatch, EndDispatch, ReleaseClaim
  <2>3. QED
    BY <2>1, <2>2, NotSeen DEF Cared
<1>3. CASE \E o \in Orders : Enqueue(d, o) \/ EnqueueFails(d, o)
  BY <1>3, AddJobImplements DEF Enqueue, EnqueueFails
<1>4. CASE RemoveClaimedRow(d) \/ RemoveFails(d)
  BY <1>4, RemoveRowImplements DEF RemoveClaimedRow, RemoveFails
<1>5. QED
  BY <1>1, <1>2, <1>3, <1>4

\* What becomes of an order in a worker's hands.
LEMMA RunImplements ==
    ASSUME Pipelined, NEW w \in Workers,
           \/ ProcessOrder(w) \/ ProcessThrows(w)
           \/ RejectOrder(w) \/ RejectThrows(w)
    PROVE  Seen
<1> DEFINE o == workers[w].order
<1> USE DEF Pipelined, TypeOK
<1>1. o \in Orders /\ status[o] # "none"
  <2>1. o \in Orders
    BY DEF WorkersOK, ProcessOrder, ProcessThrows, RejectOrder, RejectThrows
  <2>2. QED
    BY <2>1 DEF Untouched
<1>2. "MATCHED" \in Status \ {"QUEUED"} /\ "REJECTED" \in Status \ {"QUEUED"}
  BY DEF Status
<1>3. CASE ProcessOrder(w)
  <2>1. Promise!Settle(o, "MATCHED") \/ UNCHANGED <<status, Attended>>
    BY <1>1, <1>2, <1>3, SettledOnce DEF ProcessOrder
  <2>2. Promise!Match(o) \/ UNCHANGED Promise!vars
    BY <1>3, <2>1 DEF ProcessOrder, Promise!Match, Promise!vars
  <2>3. QED
    BY <1>1, <2>2, OneOrderStep DEF Promise!OrderStep, Seen
<1>4. CASE ProcessThrows(w)
  <2>1. UNCHANGED <<outbox, jobs, dropped>>
    BY <1>4 DEF ProcessThrows
  <2>2. Promise!Settle(o, "MATCHED") \/ UNCHANGED <<status, Attended>>
    <3>1. CASE Settle(o, "MATCHED")
      BY <1>1, <1>2, <2>1, <3>1, SettledOnce
    <3>2. CASE UNCHANGED status
      BY <2>1, <3>2 DEF Attended
    <3>3. QED
      BY <1>4, <3>1, <3>2 DEF ProcessThrows
  <2>3. Promise!Fail(o)
    BY <1>1, <1>4, <2>1, <2>2 DEF ProcessThrows, Promise!Fail
  <2>4. QED
    BY <1>1, <2>3, OneOrderStep DEF Promise!OrderStep
<1>5. CASE RejectOrder(w) \/ RejectThrows(w)
  <2>1. UNCHANGED <<outbox, jobs, throws, dropped>>
    BY <1>5 DEF RejectOrder, RejectThrows
  <2>2. Promise!Settle(o, "REJECTED") \/ UNCHANGED <<status, Attended>>
    <3>1. CASE Settle(o, "REJECTED")
      BY <1>1, <1>2, <2>1, <3>1, SettledOnce
    <3>2. CASE UNCHANGED status
      BY <2>1, <3>2 DEF Attended
    <3>3. QED
      BY <1>5, <3>1, <3>2 DEF RejectOrder, RejectThrows
  <2>3. throws[o] = MaxAttempts
    BY <1>1, <1>5 DEF RejectOrder, RejectThrows, Counted
  <2>4. Promise!Reject(o) \/ UNCHANGED Promise!vars
    BY <2>1, <2>2, <2>3 DEF Promise!Reject, Promise!vars
  <2>5. QED
    BY <1>1, <2>4, OneOrderStep DEF Promise!OrderStep, Seen
<1>6. QED
  BY <1>3, <1>4, <1>5

\* A job that Redis forgets.
LEMMA ForgetImplements ==
    ASSUME Pipelined, NEW o \in Orders, ForgetJob(o)
    PROVE  Seen
<1> USE DEF Pipelined, TypeOK
<1>1. status[o] # "none"
  BY DEF ForgetJob, Untouched
<1>2. UNCHANGED <<status, outbox, throws>> /\ jobs' = [jobs EXCEPT ![o] = NoJob]
  BY DEF ForgetJob
<1>3. CASE jobs[o].state = "completed"
  <2>1. status[o] # "QUEUED" /\ dropped' = dropped
    BY <1>3 DEF ForgetJob, Done
  <2>2. QED
    BY <1>2, <2>1, NotSeen DEF Cared
<1>4. CASE jobs[o].state # "completed"
  <2>1. dropped' = dropped \cup {o}
    BY <1>4 DEF ForgetJob
  <2>2. Attended' \in {Attended, Attended \ {o}}
    <3>1. ASSUME NEW p \in Orders, p # o
          PROVE  p \in Attended' <=> p \in Attended
      BY <1>2, <3>1 DEF Attended
    <3>2. o \in Attended' => o \in Attended
      BY <1>2 DEF Attended, NoJob, LiveStates
    <3>3. Attended \subseteq Orders /\ Attended' \subseteq Orders
      BY DEF Attended
    <3>4. QED
      BY <3>1, <3>2, <3>3
  <2>3. Promise!Forget(o)
    BY <1>1, <1>2, <2>1, <2>2 DEF Promise!Forget
  <2>4. QED
    BY <2>3, OneOrderStep DEF Promise!OrderStep
<1>5. QED
  BY <1>3, <1>4

\* What happens in the queue.
LEMMA QueueImplements ==
    ASSUME Pipelined,
           \/ \E w \in Workers, o \in Orders : TakeJob(w, o)
           \/ \E w \in Workers : CompleteJob(w) \/ FailJob(w) \/ RestartWorker(w)
           \/ \E o \in Orders :
                 BackoffElapses(o) \/ StallJob(o) \/ RetryFailedJob(o)
    PROVE  Seen
<1>0. /\ jobs \in [Orders -> Job] /\ WorkersOK
      /\ \A p \in Orders : Done(p)
  BY DEF Pipelined, TypeOK
<1>1. UNCHANGED <<status, outbox, throws, dropped>>
  BY DEF TakeJob, CompleteJob, FailJob, Finish, RestartWorker, BackoffElapses,
     StallJob, RetryFailedJob
<1>2. SUFFICES ASSUME NEW p \in Orders, status[p] = "QUEUED"
               PROVE  /\ jobs[p].state \in LiveStates \cup {"failed"} =>
                            jobs'[p].state \in LiveStates \cup {"failed"}
                      /\ jobs'[p].state \in LiveStates \cup {"failed"} =>
                            jobs[p].state \in LiveStates \cup {"failed"}
  BY <1>1, NotSeen DEF Cared
<1>3. ASSUME NEW w \in Workers, NEW o \in Orders, TakeJob(w, o)
      PROVE  \/ jobs'[p] = jobs[p]
             \/ jobs[p].state = "waiting" /\ jobs'[p].state = "active"
  <2>1. jobs' = [jobs EXCEPT ![o].state = "active", ![o].owner = w]
    BY <1>3 DEF TakeJob
  <2>2. p # o => jobs'[p] = jobs[p]
    BY ONLY <1>0, <2>1
  <2>3. jobs'[o].state = "active"
    BY ONLY <1>0, <2>1 DEF Job
  <2>4. QED
    BY <1>3, <2>2, <2>3 DEF TakeJob
<1>4. ASSUME NEW w \in Workers, CompleteJob(w)
      PROVE  jobs'[p] = jobs[p]
  <2>1. p # workers[w].order
    BY <1>0, <1>2, <1>4 DEF CompleteJob, Done
  <2>2. QED
    BY <1>0, <1>4, <2>1 DEF CompleteJob, Finish
<1>5. ASSUME NEW w \in Workers, FailJob(w)
      PROVE  \/ jobs'[p] = jobs[p]
             \/ jobs[p].state = "active" /\ jobs'[p].state \in {"delayed", "failed"}
  <2> DEFINE q == workers[w].order
  <2>1. CASE HasJob(w)
    <3>1. q \in Orders
      BY <1>0, <1>5 DEF FailJob, WorkersOK
    <3>2. /\ jobs'[q].state \in {"delayed", "failed"}
          /\ p # q => jobs'[p] = jobs[p]
      BY <1>0, <1>5, <2>1, <3>1 DEF FailJob, Finish, Job
    <3>3. QED
      BY <2>1, <3>2 DEF HasJob
  <2>2. CASE ~HasJob(w)
    BY <1>5, <2>2 DEF FailJob, Finish
  <2>3. QED
    BY <2>1, <2>2
<1>6. ASSUME NEW w \in Workers, RestartWorker(w)
      PROVE  jobs'[p] = jobs[p]
  BY <1>6 DEF RestartWorker
<1>7. ASSUME NEW o \in Orders,
             BackoffElapses(o) \/ StallJob(o) \/ RetryFailedJob(o)
      PROVE  \/ jobs'[p] = jobs[p]
             \/ /\ jobs[p].state \in {"delayed", "active", "failed"}
                /\ jobs'[p].state \in {"waiting", "failed"}
  <2>1. CASE BackoffElapses(o)
    BY ONLY <1>0, <2>1 DEF BackoffElapses, Job
  <2>2. CASE StallJob(o)
    BY ONLY <1>0, <2>2 DEF StallJob, Job
  <2>3. CASE RetryFailedJob(o)
    BY ONLY <1>0, <2>3 DEF RetryFailedJob, Job
  <2>4. QED
    BY <1>7, <2>1, <2>2, <2>3
<1>8. QED
  BY <1>3, <1>4, <1>5, <1>6, <1>7 DEF LiveStates

LEMMA NextImplements ==
    ASSUME Pipelined, Next
    PROVE  Seen
BY TablesImplement, DispatchImplements, RunImplements, QueueImplements,
   ForgetImplements DEF Next

-----------------------------------------------------------------------------
(* Theorems *)

\* Every row, job and local variable of a dispatcher or worker stays
\* well-typed, and no dispatch loop ends with a row of its batch left over.
THEOREM TypeInvariant == Spec => []TypeOK
<1>1. Pipelined => TypeOK
  BY DEF Pipelined
<1>2. QED
  BY <1>1, PipelinedInvariant, PTL

\* The delivery guarantee: a queued order has its intent, or a job that has not
\* completed, unless Redis lost the job; for any number of dispatchers and
\* workers that crash, overtake each other and miss answers.
THEOREM DeliveryGuarantee == Spec => []HasCarrier
<1>1. Pipelined => HasCarrier
  BY DEF Pipelined, Carried, HasJobOrLost, HasCarrier
<1>2. QED
  BY <1>1, PipelinedInvariant, PTL

\* A completed job's order was matched, cancelled or rejected, so that ignoring
\* further intents of it is harmless.
THEOREM CompletionIsFinal == Spec => []CompletedMeansDone
<1>1. Pipelined => CompletedMeansDone
  BY DEF Pipelined, Done, CompletedMeansDone
<1>2. QED
  BY <1>1, PipelinedInvariant, PTL

\* No order is rejected before MaxAttempts runs of it failed, for any limits on
\* attempts and stalls.
THEOREM RejectionIsLastResort == Spec => []RejectedOnlyAfterRetries
<1>1. Pipelined => RejectedOnlyAfterRetries
  BY DEF Pipelined, Counted, RejectedOnlyAfterRetries
<1>2. QED
  BY <1>1, PipelinedInvariant, PTL

\* A row under a live claim is removed or released by its claimant only.
THEOREM ClaimsAreRespected == Spec => ClaimRespected
<1> DEFINE Respects == \A o \in DOMAIN outbox : RespectsClaim(o)
<1>1. ASSUME Pipelined, [Next]_vars
      PROVE  [Respects]_vars
  <2>1. CASE Next
    <3>1. ASSUME NEW o \in DOMAIN outbox
          PROVE  RespectsClaim(o)
      <4>1. o \in Orders /\ TypeOK
        BY <1>1 DEF Pipelined, TypeOK, RowsOK
      <4>2. QED
        BY <1>1, <2>1, <4>1, ClaimStep DEF Pipelined
    <3>2. QED
      BY <3>1
  <2>2. CASE UNCHANGED vars
    BY <2>2
  <2>3. QED
    BY <1>1, <2>1, <2>2
<1>2. [Respects]_vars =>
        [\A o \in DOMAIN outbox :
            \/ outbox[o].lease # "live"
            \/ o \in DOMAIN outbox' /\ outbox'[o] = outbox[o]
            \/ o \in DOMAIN outbox'
                  /\ outbox'[o] = [outbox[o] EXCEPT !.lease = "expired"]
            \/ \E d \in Dispatchers :
                  dispatchers[d].order = o /\ Holds(d, o)]_vars
  BY DEF RespectsClaim
<1>3. QED
  BY <1>1, <1>2, PipelinedInvariant, PTL DEF Spec, ClaimRespected

\* Every step of the pipeline, whatever its processes and Redis do, is a step
\* that Delivery allows or is not seen there: an order is settled once, rejected
\* only after its attempts, and left unattended only if its job was forgotten.
THEOREM PipelineImplementsDelivery == Spec => ImplementsDelivery
<1>1. Init => Promise!Init
  BY DEF Init, Promise!Init, Attended
<1>2. Pipelined /\ [Next]_vars => [Promise!Next]_(Promise!vars)
  <2>1. Pipelined /\ Next => [Promise!Next]_(Promise!vars)
    BY NextImplements DEF Seen
  <2>2. UNCHANGED vars => UNCHANGED Promise!vars
    BY DEF vars, Promise!vars, Attended
  <2>3. QED
    BY <2>1, <2>2
<1>3. QED
  BY <1>1, <1>2, PipelinedInvariant, PTL
     DEF Spec, ImplementsDelivery, Promise!Spec
=============================================================================
