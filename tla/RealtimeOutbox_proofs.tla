------------------------ MODULE RealtimeOutbox_proofs ------------------------
(***************************************************************************)
(* Proofs about RealtimeOutbox, for any number of events and processes,    *)
(* any batch size and any limit on attempts.                               *)
(*                                                                         *)
(* The inductive invariant, Inv, says of every row that it is claimed only *)
(* while it is pending and due (RowOK), of every process that it is closed *)
(* only when idle (ClosedOK) and that what it is about to write is backed  *)
(* by what happened (Backed), and of every event that its attempts and its *)
(* end are (Accounted).                                                    *)
(***************************************************************************)
EXTENDS RealtimeOutbox, FiniteSetTheorems, TLAPS

RowOK(row) ==
    /\ row \in Row
    /\ row.dead <=> row.attempts = MaxAttempts
    /\ row.lease = "none" <=> row.token = NoToken
    /\ Settled(row) => row.token = NoToken
    /\ Settled(row) \/ row.token # NoToken => row.due
    /\ row.aged => Settled(row)

TableOK ==
    /\ DOMAIN rows \subseteq appended
    /\ rows = [e \in DOMAIN rows |-> rows[e]]
    /\ \A e \in DOMAIN rows : RowOK(rows[e])

HistoryOK ==
    /\ appended \subseteq Events
    /\ sent \subseteq appended
    /\ failures \in [Events -> 0..MaxAttempts]

ClosedOK(this) ==
    /\ this.resources # "open" =>
          this.stopping /\ this.phase = "idle" /\ ~this.pruning
    /\ this.resources = "closed" => ~this.publisher

ProcessesOK ==
    /\ processes \in [Processes -> Process]
    /\ \A p \in Processes : LoopOK(processes[p]) /\ ClosedOK(processes[p])
    /\ \A p \in Processes : /\ processes[p].batch \subseteq appended
                            /\ processes[p].event \in appended \cup {NoEvent}

Backed(p) ==
    LET e == processes[p].event
    IN  /\ processes[p].phase = "mark" => e \in sent
        /\ processes[p].phase = "release" /\ Holds(p, e) =>
              failures[e] > rows[e].attempts

Accounted ==
    \A e \in appended :
        /\ e \in DOMAIN rows => /\ failures[e] >= rows[e].attempts
                                /\ rows[e].published => e \in sent
        /\ e \notin DOMAIN rows => e \in sent \/ failures[e] = MaxAttempts

Inv ==
    /\ TableOK
    /\ HistoryOK
    /\ ProcessesOK
    /\ \A p \in Processes : Backed(p)
    /\ Accounted

-----------------------------------------------------------------------------
(* Claim tokens *)

\* A process that is about to claim holds no token, so the rows and the other
\* processes cannot hold all tokens between them.
LEMMA FreshTokenExists ==
    ASSUME Inv, NEW p \in Processes, processes[p].phase = "claim"
    PROVE  /\ FreshToken \in Tokens
           /\ FreshToken # NoToken
           /\ \A e \in DOMAIN rows : rows[e].token # FreshToken
           /\ \A q \in Processes : processes[q].token # FreshToken
<1> DEFINE others == Processes \ {p}
           ofRows == {rows[e].token : e \in DOMAIN rows}
           ofOthers == {processes[q].token : q \in others}
           tokenOfRow == [e \in DOMAIN rows |-> rows[e].token]
           tokenOfOther == [q \in others |-> processes[q].token]
<1>1. /\ IsFiniteSet(Events) /\ Cardinality(Events) \in Nat
      /\ IsFiniteSet(Processes) /\ Cardinality(Processes) \in Nat
  BY OutboxAssumption, FS_CardinalityType
<1>2. /\ IsFiniteSet(DOMAIN rows)
      /\ Cardinality(DOMAIN rows) \in Nat
      /\ Cardinality(DOMAIN rows) <= Cardinality(Events)
  <2>1. DOMAIN rows \in SUBSET Events
    BY DEF Inv, TableOK, HistoryOK
  <2>2. QED
    BY <1>1, <2>1, FS_Subset, FS_CardinalityType
<1>3. /\ IsFiniteSet(others)
      /\ Cardinality(others) = Cardinality(Processes) - 1
  BY <1>1, FS_RemoveElement
<1>4. IsFiniteSet(ofRows) /\ Cardinality(ofRows) <= Cardinality(DOMAIN rows)
  <2>1. tokenOfRow \in Surjection(DOMAIN rows, ofRows)
    BY DEF Surjection
  <2>2. QED
    BY ONLY <1>2, <2>1, FS_Surjection
<1>5. IsFiniteSet(ofOthers) /\ Cardinality(ofOthers) <= Cardinality(others)
  <2>1. tokenOfOther \in Surjection(others, ofOthers)
    BY DEF Surjection
  <2>2. QED
    BY ONLY <1>3, <2>1, FS_Surjection
<1>6. /\ IsFiniteSet(ofRows \cup ofOthers)
      /\ Cardinality(ofRows \cup ofOthers)
           < Cardinality(Events) + Cardinality(Processes)
  <2> HIDE DEF ofRows, ofOthers, others
  <2>1. /\ Cardinality(ofRows) \in Nat /\ Cardinality(ofOthers) \in Nat
        /\ Cardinality(ofRows \cap ofOthers) \in Nat
    <3>1. ofRows \cap ofOthers \in SUBSET ofRows
      OBVIOUS
    <3>2. QED
      BY <1>4, <1>5, <3>1, FS_CardinalityType, FS_Subset
  <2>2. /\ IsFiniteSet(ofRows \cup ofOthers)
        /\ Cardinality(ofRows \cup ofOthers)
             = Cardinality(ofRows) + Cardinality(ofOthers)
                 - Cardinality(ofRows \cap ofOthers)
    BY <1>4, <1>5, FS_Union
  <2>3. QED
    BY <1>1, <1>2, <1>3, <1>4, <1>5, <2>1, <2>2
<1>7. Cardinality(Tokens) = Cardinality(Events) + Cardinality(Processes)
  BY <1>1, FS_Interval DEF Tokens
<1>8. PICK t \in Tokens : t \notin ofRows \cup ofOthers
  <2>1. SUFFICES ASSUME Tokens \in SUBSET (ofRows \cup ofOthers)
                 PROVE  FALSE
    OBVIOUS
  <2> HIDE DEF ofRows, ofOthers
  <2>2. Cardinality(Tokens) <= Cardinality(ofRows \cup ofOthers)
    BY <1>6, <2>1, FS_Subset
  <2>3. Cardinality(ofRows \cup ofOthers) \in Nat
    BY <1>6, FS_CardinalityType
  <2>4. QED
    BY <1>1, <1>6, <1>7, <2>2, <2>3
<1>9. processes[p].token = NoToken
  BY DEF Inv, ProcessesOK, LoopOK
<1>10. NoToken \notin Tokens
  BY <1>1 DEF NoToken, Tokens
<1>11. /\ \A e \in DOMAIN rows : rows[e].token # t
       /\ \A q \in Processes : processes[q].token # t
  BY <1>8, <1>9, <1>10
<1>12. QED
  BY <1>8, <1>10, <1>11 DEF FreshToken

-----------------------------------------------------------------------------
(* Rows *)

\* An event that is appended is pending.
LEMMA NewRowOK == RowOK(NewRow)
BY OutboxAssumption DEF RowOK, Row, NewRow, Settled, NoToken

\* What a process does to the row it holds.
LEMMA SettledRowOK ==
    ASSUME NEW row, RowOK(row), row.token # NoToken
    PROVE  /\ RowOK(Published(row)) /\ Published(row).published
           /\ Published(row).attempts = row.attempts
           /\ RowOK(Released(row)) /\ Released(row).attempts = row.attempts + 1
           /\ ~Released(row).published
           /\ Published(row).token = NoToken /\ Released(row).token = NoToken
<1>1. row \in Row /\ ~row.published /\ ~row.dead /\ ~row.aged
  BY DEF RowOK, Settled
<1>2. row.attempts \in 0..MaxAttempts /\ row.attempts # MaxAttempts
         /\ MaxAttempts \in Nat \ {0}
  BY <1>1, OutboxAssumption DEF RowOK, Row
<1>3. Published(row) \in Row
  BY <1>1 DEF Published, Row
<1>4. RowOK(Published(row))
  BY <1>1, <1>2, <1>3 DEF Published, RowOK, Row, Settled
<1>5. row.attempts + 1 \in 0..MaxAttempts
  BY <1>2
<1>6. RowOK(Released(row)) /\ Released(row).attempts = row.attempts + 1
      /\ ~Released(row).published /\ Released(row).token = NoToken
  <2>1. CASE row.attempts + 1 >= MaxAttempts
    <3>1. Released(row) = [row EXCEPT !.attempts = @ + 1, !.due = TRUE,
                             !.dead = TRUE, !.lease = "none", !.token = NoToken]
      BY <2>1 DEF Released
    <3>2. row.attempts + 1 = MaxAttempts
      BY <1>2, <2>1
    <3>3. QED
      BY <1>1, <1>5, <3>1, <3>2 DEF RowOK, Row, Settled
  <2>2. CASE ~(row.attempts + 1 >= MaxAttempts)
    <3>0. (row.attempts + 1 >= MaxAttempts) = FALSE
      BY <2>2
    <3>1. Released(row) = [row EXCEPT !.attempts = @ + 1, !.due = FALSE,
                             !.dead = FALSE, !.lease = "none", !.token = NoToken]
      BY <3>0, Zenon DEF Released
    <3>2. row.attempts + 1 # MaxAttempts
      BY <1>2, <2>2
    <3>3. QED
      BY <1>1, <1>5, <3>1, <3>2 DEF RowOK, Row, Settled
  <2>3. QED
    BY <2>1, <2>2
<1>7. QED
  BY <1>1, <1>4, <1>6 DEF Published, Row

\* A row that is claimed is pending and due.
LEMMA ClaimedRowOK ==
    ASSUME NEW row, RowOK(row), ~Settled(row), row.due,
           NEW t \in Tokens, t # NoToken
    PROVE  RowOK([row EXCEPT !.token = t, !.lease = "live"])
BY DEF RowOK, Row, Settled

\* Time passes for a row.
LEMMA TimePassesRowOK ==
    ASSUME NEW row, RowOK(row)
    PROVE  /\ row.lease = "live" => RowOK([row EXCEPT !.lease = "expired"])
           /\ RowOK([row EXCEPT !.due = TRUE])
           /\ Settled(row) => RowOK([row EXCEPT !.aged = TRUE])
<1>1. row \in Row
  BY DEF RowOK
<1>2. row.lease = "live" => RowOK([row EXCEPT !.lease = "expired"])
  BY <1>1 DEF RowOK, Row, Settled
<1>3. RowOK([row EXCEPT !.due = TRUE])
  BY <1>1 DEF RowOK, Row, Settled
<1>4. Settled(row) => RowOK([row EXCEPT !.aged = TRUE])
  BY <1>1 DEF RowOK, Row, Settled
<1>5. QED
  BY <1>2, <1>3, <1>4

-----------------------------------------------------------------------------
(* Processes *)

\* One process changes.
LEMMA ProcessChanges ==
    ASSUME ProcessesOK, appended \subseteq appended',
           NEW p \in Processes, NEW this \in Process,
           LoopOK(this), ClosedOK(this),
           this.batch \subseteq appended', this.event \in appended' \cup {NoEvent},
           processes' = [processes EXCEPT ![p] = this]
    PROVE  /\ ProcessesOK'
           /\ processes'[p] = this
           /\ \A q \in Processes \ {p} : processes'[q] = processes[q]
<1>1. processes' \in [Processes -> Process]
  BY DEF ProcessesOK
<1>2. \A q \in Processes : processes'[q] = IF q = p THEN this ELSE processes[q]
  BY DEF ProcessesOK
<1>3. \A q \in Processes : /\ LoopOK(processes'[q]) /\ ClosedOK(processes'[q])
                           /\ processes'[q].batch \subseteq appended'
                           /\ processes'[q].event \in appended' \cup {NoEvent}
  BY <1>2 DEF ProcessesOK
<1>4. QED
  BY <1>1, <1>2, <1>3 DEF ProcessesOK

\* For the process that has e in hand, its row is as it was, or not its own.
Tame(e) ==
    e \in DOMAIN rows' =>
       \/ /\ e \in DOMAIN rows
          /\ rows'[e].token = rows[e].token
          /\ rows'[e].attempts = rows[e].attempts
       \/ rows'[e].token = NoToken
       \/ \A q \in Processes : processes[q].token # rows'[e].token

\* What a process is about to write stays backed, whatever the others do.
LEMMA BackedKept ==
    ASSUME Inv, NEW q \in Processes,
           processes'[q].phase = processes[q].phase,
           processes'[q].event = processes[q].event,
           processes'[q].token = processes[q].token,
           sent \subseteq sent',
           \A e \in appended : failures'[e] >= failures[e] /\ failures'[e] \in Nat,
           \A e \in appended : Tame(e)
    PROVE  Backed(q)'
<1> DEFINE e == processes[q].event
<1>1. LoopOK(processes[q]) /\ processes[q].event \in appended \cup {NoEvent}
      /\ Backed(q)
  BY DEF Inv, ProcessesOK
<1>2. processes[q].phase = "mark" => processes[q].event \in sent'
  BY <1>1 DEF Backed
<1>3. ASSUME processes[q].phase = "release",
             e \in DOMAIN rows', rows'[e].token = processes[q].token
      PROVE  failures'[e] > rows'[e].attempts
  <2>1. e \in appended /\ processes[q].token # NoToken
    BY <1>1, <1>3, OutboxAssumption DEF LoopOK
  <2>2. /\ e \in DOMAIN rows /\ rows[e].token = processes[q].token
        /\ rows'[e].attempts = rows[e].attempts
    BY <1>3, <2>1 DEF Tame
  <2>3. failures[e] > rows[e].attempts
    BY <1>1, <1>3, <2>2 DEF Backed, Holds
  <2>4. failures[e] \in Nat /\ rows[e].attempts \in Nat /\ failures'[e] \in Nat
        /\ failures'[e] >= failures[e]
    BY <2>1, <2>2, OutboxAssumption DEF Inv, TableOK, RowOK, Row, HistoryOK
  <2>5. QED
    BY <2>2, <2>3, <2>4
<1>4. QED
  BY <1>2, <1>3 DEF Backed, Holds

-----------------------------------------------------------------------------
(* Steps of the same kind *)

\* A step of a process that changes nothing it is about to write, and rows only
\* as others may.
LEMMA RowsAndProcessStep ==
    ASSUME Inv, NEW p \in Processes, NEW this \in Process,
           LoopOK(this), ClosedOK(this),
           this.batch \subseteq appended, this.event \in appended \cup {NoEvent},
           \/ this.phase \notin {"mark", "release"}
           \/ /\ this.phase = processes[p].phase
              /\ this.event = processes[p].event
              /\ this.token = processes[p].token,
           processes' = [processes EXCEPT ![p] = this],
           UNCHANGED <<appended, sent, failures>>,
           TableOK', Accounted', \A e \in appended : Tame(e)
    PROVE  Inv'
<1>1. /\ ProcessesOK' /\ processes'[p] = this
      /\ \A q \in Processes \ {p} : processes'[q] = processes[q]
  BY ProcessChanges DEF Inv
<1>2. HistoryOK'
  BY DEF Inv, HistoryOK
<1>3. \A e \in appended : failures'[e] >= failures[e] /\ failures'[e] \in Nat
  BY OutboxAssumption DEF Inv, HistoryOK
<1>4. ASSUME NEW q \in Processes PROVE Backed(q)'
  <2>1. CASE this.phase \notin {"mark", "release"} /\ q = p
    BY <1>1, <2>1 DEF Backed
  <2>2. CASE ~(this.phase \notin {"mark", "release"} /\ q = p)
    <3>1. /\ processes'[q].phase = processes[q].phase
          /\ processes'[q].event = processes[q].event
          /\ processes'[q].token = processes[q].token
      BY <1>1, <2>2
    <3>2. QED
      BY <1>3, <3>1, BackedKept
  <2>3. QED
    BY <2>1, <2>2
<1>5. QED
  BY <1>1, <1>2, <1>4 DEF Inv

\* The same with rows left alone.
LEMMA ProcessOnlyStep ==
    ASSUME Inv, NEW p \in Processes, NEW this \in Process,
           LoopOK(this), ClosedOK(this),
           this.batch \subseteq appended, this.event \in appended \cup {NoEvent},
           \/ this.phase \notin {"mark", "release"}
           \/ /\ this.phase = processes[p].phase
              /\ this.event = processes[p].event
              /\ this.token = processes[p].token,
           processes' = [processes EXCEPT ![p] = this],
           UNCHANGED <<rows, appended, sent, failures>>
    PROVE  Inv'
<1>1. TableOK' /\ Accounted'
  BY DEF Inv, TableOK, Accounted
<1>2. \A e \in appended : Tame(e)
  BY DEF Tame
<1>3. QED
  BY <1>1, <1>2, RowsAndProcessStep

\* Time passes for a row.
LEMMA RowOnlyStep ==
    ASSUME Inv, NEW e \in DOMAIN rows, NEW row, RowOK(row),
           row.attempts = rows[e].attempts, row.published = rows[e].published,
           row.token = rows[e].token,
           rows' = [rows EXCEPT ![e] = row],
           UNCHANGED <<processes, appended, sent, failures>>
    PROVE  Inv'
<1>1. DOMAIN rows' = DOMAIN rows
      /\ \A f \in DOMAIN rows : rows'[f] = IF f = e THEN row ELSE rows[f]
  OBVIOUS
<1>2. TableOK'
  BY <1>1 DEF Inv, TableOK
<1>3. HistoryOK' /\ ProcessesOK'
  BY DEF Inv, HistoryOK, ProcessesOK
<1>4. Accounted'
  BY <1>1 DEF Inv, Accounted
<1>5. \A q \in Processes : Backed(q)'
  <2>1. /\ \A f \in appended : Tame(f)
        /\ \A f \in appended : failures'[f] >= failures[f] /\ failures'[f] \in Nat
    BY <1>1, OutboxAssumption DEF Tame, Inv, HistoryOK
  <2>2. QED
    BY <2>1, BackedKept
<1>6. QED
  BY <1>2, <1>3, <1>4, <1>5 DEF Inv

\* A claim, whether its process hears of it or not.
LEMMA ClaimKeepsRows ==
    ASSUME Inv, NEW p \in Processes, processes[p].phase = "claim",
           NEW batch \in SUBSET Claimable, Claim(batch), UNCHANGED <<appended, sent, failures>>
    PROVE  /\ TableOK' /\ HistoryOK' /\ Accounted'
           /\ \A e \in appended : Tame(e)
<1>1. FreshToken \in Tokens /\ FreshToken # NoToken
      /\ \A q \in Processes : processes[q].token # FreshToken
  BY FreshTokenExists
<1>2. /\ DOMAIN rows' = DOMAIN rows
      /\ \A e \in DOMAIN rows :
           rows'[e] = IF e \in batch
                      THEN [rows[e] EXCEPT !.token = FreshToken, !.lease = "live"]
                      ELSE rows[e]
      /\ rows' = [e \in DOMAIN rows' |-> rows'[e]]
  BY DEF Claim
<1>3. \A e \in batch : e \in DOMAIN rows /\ ~Settled(rows[e]) /\ rows[e].due
  BY DEF Claimable
<1>4. \A e \in DOMAIN rows : RowOK(rows[e])
  BY DEF Inv, TableOK
<1>5. ASSUME NEW e \in DOMAIN rows PROVE RowOK(rows'[e])
  <2>1. CASE e \in batch
    <3>1. rows'[e] = [rows[e] EXCEPT !.token = FreshToken, !.lease = "live"]
      BY <1>2, <2>1
    <3>2. RowOK(rows[e]) /\ ~Settled(rows[e]) /\ rows[e].due
      BY <1>3, <1>4, <2>1
    <3>3. RowOK([rows[e] EXCEPT !.token = FreshToken, !.lease = "live"])
      BY <1>1, <3>2, ClaimedRowOK
    <3>4. QED
      BY <3>1, <3>3
  <2>2. CASE e \notin batch
    BY <1>2, <1>4, <2>2
  <2>3. QED
    BY <2>1, <2>2
<1>6. \A e \in DOMAIN rows : /\ rows'[e].attempts = rows[e].attempts
                            /\ rows'[e].published = rows[e].published
                            /\ rows'[e].token \in {rows[e].token, FreshToken}
  BY <1>2, <1>4 DEF RowOK, Row
<1>7. TableOK'
  BY <1>2, <1>5 DEF Inv, TableOK
<1>8. HistoryOK'
  BY DEF Inv, HistoryOK
<1>9. Accounted'
  BY <1>2, <1>6 DEF Inv, Accounted
<1>10. \A e \in appended : Tame(e)
  BY <1>1, <1>2, <1>6 DEF Tame
<1>11. QED
  BY <1>7, <1>8, <1>9, <1>10

\* Pruning takes settled events only.
LEMMA PruningKeepsRows ==
    ASSUME Inv, PruneExpiredEvents, UNCHANGED <<appended, sent, failures>>
    PROVE  /\ TableOK' /\ HistoryOK' /\ Accounted'
           /\ \A e \in appended : Tame(e)
<1>1. /\ DOMAIN rows' = {e \in DOMAIN rows : ~rows[e].aged}
      /\ \A e \in DOMAIN rows' : rows'[e] = rows[e]
      /\ rows' = [e \in DOMAIN rows' |-> rows'[e]]
  BY DEF PruneExpiredEvents
<1>2. TableOK' /\ HistoryOK'
  BY <1>1 DEF Inv, TableOK, HistoryOK
<1>3. ASSUME NEW e \in DOMAIN rows, rows[e].aged
      PROVE  e \in sent \/ failures[e] = MaxAttempts
  <2>1. /\ Settled(rows[e]) /\ RowOK(rows[e]) /\ e \in appended
    BY <1>3 DEF Inv, TableOK, RowOK
  <2>2. /\ failures[e] >= rows[e].attempts /\ failures[e] \in 0..MaxAttempts
        /\ rows[e].published => e \in sent
    BY <2>1 DEF Inv, Accounted, HistoryOK
  <2>3. rows[e].dead => rows[e].attempts = MaxAttempts
    BY <2>1 DEF RowOK
  <2>4. QED
    BY <2>1, <2>2, <2>3, OutboxAssumption DEF Settled
<1>4. Accounted'
  BY <1>1, <1>3 DEF Inv, Accounted
<1>5. \A e \in appended : Tame(e)
  BY <1>1 DEF Tame
<1>6. QED
  BY <1>2, <1>4, <1>5

-----------------------------------------------------------------------------
(* The actions *)

\* Init establishes the invariant.
LEMMA InitInv == Init => Inv
<1> SUFFICES ASSUME Init PROVE Inv
  OBVIOUS
<1>1. TableOK /\ HistoryOK /\ Accounted
  BY OutboxAssumption DEF Init, TableOK, HistoryOK, Accounted
<1>2. Started \in Process /\ LoopOK(Started) /\ ClosedOK(Started)
  BY DEF Started, Process, LoopOK, ClosedOK
<1>3. ProcessesOK
  BY <1>2 DEF Init, ProcessesOK, Started
<1>4. \A p \in Processes : Backed(p)
  BY DEF Init, Backed, Started
<1>5. QED
  BY <1>1, <1>3, <1>4 DEF Inv

\* A process and what is known of it.
LEMMA ProcessFacts ==
    ASSUME Inv, NEW p \in Processes
    PROVE  /\ processes[p] \in Process
           /\ LoopOK(processes[p]) /\ ClosedOK(processes[p]) /\ Backed(p)
           /\ processes[p].batch \subseteq appended
           /\ processes[p].event \in appended \cup {NoEvent}
           /\ processes \in [Processes -> Process]
BY DEF Inv, ProcessesOK

\* Events are appended.
LEMMA AppendStep ==
    ASSUME Inv, NEW events \in SUBSET Events, AppendEvents(events) PROVE Inv'
<1>1. /\ DOMAIN rows' = DOMAIN rows \cup events
      /\ \A e \in DOMAIN rows' :
            rows'[e] = IF e \in events THEN NewRow ELSE rows[e]
      /\ rows' = [e \in DOMAIN rows' |-> rows'[e]]
      /\ appended' = appended \cup events /\ events \cap appended = {}
      /\ UNCHANGED <<processes, sent, failures>>
  BY DEF AppendEvents
<1>2. TableOK'
  BY <1>1, NewRowOK DEF Inv, TableOK
<1>3. HistoryOK' /\ ProcessesOK'
  BY <1>1 DEF Inv, HistoryOK, ProcessesOK
<1>4. Accounted'
  <2>1. ASSUME NEW e \in events
        PROVE  failures[e] >= NewRow.attempts /\ ~NewRow.published
    BY OutboxAssumption DEF NewRow, Inv, HistoryOK
  <2>2. QED
    BY <1>1, <2>1 DEF Inv, Accounted
<1>5. \A e \in appended : Tame(e)
  BY <1>1 DEF Tame
<1>6. \A e \in appended : failures'[e] >= failures[e] /\ failures'[e] \in Nat
  BY <1>1, OutboxAssumption DEF Inv, HistoryOK
<1>7. \A q \in Processes : Backed(q)'
  BY <1>1, <1>5, <1>6, BackedKept
<1>8. QED
  BY <1>2, <1>3, <1>4, <1>7 DEF Inv

\* Leases, retry delays and retentions pass.
LEMMA TimeStep ==
    ASSUME Inv, NEW e \in Events, ExpireLease(e) \/ RetryDue(e) \/ Age(e)
    PROVE  Inv'
<1>1. e \in DOMAIN rows
  BY DEF ExpireLease, RetryDue, Age
<1>2. RowOK(rows[e]) /\ rows[e] \in Row
  BY <1>1 DEF Inv, TableOK, RowOK
<1>3. CASE ExpireLease(e)
  <2> DEFINE row == [rows[e] EXCEPT !.lease = "expired"]
  <2>1. RowOK(row)
    BY <1>2, <1>3, TimePassesRowOK DEF ExpireLease
  <2>2. /\ row.attempts = rows[e].attempts /\ row.published = rows[e].published
        /\ row.token = rows[e].token
    BY <1>2 DEF Row
  <2>3. rows' = [rows EXCEPT ![e] = row]
        /\ UNCHANGED <<processes, appended, sent, failures>>
    BY <1>3 DEF ExpireLease
  <2> HIDE DEF row
  <2>4. QED
    BY <1>1, <2>1, <2>2, <2>3, RowOnlyStep
<1>4. CASE RetryDue(e)
  <2> DEFINE row == [rows[e] EXCEPT !.due = TRUE]
  <2>1. RowOK(row)
    BY <1>2, TimePassesRowOK
  <2>2. /\ row.attempts = rows[e].attempts /\ row.published = rows[e].published
        /\ row.token = rows[e].token
    BY <1>2 DEF Row
  <2>3. rows' = [rows EXCEPT ![e] = row]
        /\ UNCHANGED <<processes, appended, sent, failures>>
    BY <1>4 DEF RetryDue
  <2> HIDE DEF row
  <2>4. QED
    BY <1>1, <2>1, <2>2, <2>3, RowOnlyStep
<1>5. CASE Age(e)
  <2> DEFINE row == [rows[e] EXCEPT !.aged = TRUE]
  <2>1. RowOK(row)
    BY <1>2, <1>5, TimePassesRowOK DEF Age
  <2>2. /\ row.attempts = rows[e].attempts /\ row.published = rows[e].published
        /\ row.token = rows[e].token
    BY <1>2 DEF Row
  <2>3. rows' = [rows EXCEPT ![e] = row]
        /\ UNCHANGED <<processes, appended, sent, failures>>
    BY <1>5 DEF Age
  <2> HIDE DEF row
  <2>4. QED
    BY <1>1, <2>1, <2>2, <2>3, RowOnlyStep
<1>6. QED
  BY <1>3, <1>4, <1>5

\* A dispatch starts, maintenance starts, a process begins to stop.
LEMMA StartStep ==
    ASSUME Inv, NEW p \in Processes,
           StartDispatch(p) \/ StartPruning(p) \/ Shutdown(p)
    PROVE  Inv'
<1> DEFINE this == processes[p]
<1>1. /\ this \in Process /\ LoopOK(this) /\ ClosedOK(this)
      /\ this.batch \subseteq appended /\ this.event \in appended \cup {NoEvent}
  BY ProcessFacts
<1>2. CASE StartDispatch(p)
  <2> DEFINE that == [this EXCEPT !.phase = "claim", !.failed = FALSE]
  <2>1. /\ that \in Process /\ LoopOK(that) /\ ClosedOK(that)
        /\ that.batch = this.batch /\ that.event = this.event
        /\ that.phase = "claim"
    BY <1>1, <1>2 DEF StartDispatch, Process, LoopOK, ClosedOK
  <2>2. /\ processes' = [processes EXCEPT ![p] = that]
        /\ UNCHANGED <<rows, appended, sent, failures>>
    BY <1>2 DEF StartDispatch
  <2> HIDE DEF that
  <2>3. QED
    BY <1>1, <2>1, <2>2, ProcessOnlyStep
<1>3. CASE StartPruning(p)
  <2> DEFINE that == [this EXCEPT !.pruning = TRUE]
  <2>1. /\ that \in Process /\ LoopOK(that) /\ ClosedOK(that)
        /\ that.batch = this.batch /\ that.event = this.event
        /\ that.phase = this.phase /\ that.token = this.token
    BY <1>1, <1>3 DEF StartPruning, Process, LoopOK, ClosedOK
  <2>2. /\ processes' = [processes EXCEPT ![p] = that]
        /\ UNCHANGED <<rows, appended, sent, failures>>
    BY <1>3 DEF StartPruning
  <2> HIDE DEF that
  <2>3. QED
    BY <1>1, <2>1, <2>2, ProcessOnlyStep
<1>4. CASE Shutdown(p)
  <2> DEFINE that == [this EXCEPT !.stopping = TRUE]
  <2>1. /\ that \in Process /\ LoopOK(that) /\ ClosedOK(that)
        /\ that.batch = this.batch /\ that.event = this.event
        /\ that.phase = this.phase /\ that.token = this.token
    BY <1>1, <1>4 DEF Shutdown, Process, LoopOK, ClosedOK
  <2>2. /\ processes' = [processes EXCEPT ![p] = that]
        /\ UNCHANGED <<rows, appended, sent, failures>>
    BY <1>4 DEF Shutdown
  <2> HIDE DEF that
  <2>3. QED
    BY <1>1, <2>1, <2>2, ProcessOnlyStep
<1>5. QED
  BY <1>2, <1>3, <1>4

\* A process closes what it uses, or starts anew.
LEMMA CloseStep ==
    ASSUME Inv, NEW p \in Processes,
           ClosePrisma(p) \/ ClosePublisher(p) \/ Restart(p)
    PROVE  Inv'
<1> DEFINE this == processes[p]
<1>1. /\ this \in Process /\ LoopOK(this) /\ ClosedOK(this)
      /\ this.batch \subseteq appended /\ this.event \in appended \cup {NoEvent}
  BY ProcessFacts
<1>2. CASE ClosePrisma(p)
  <2> DEFINE that == [this EXCEPT !.resources = "prisma closed"]
  <2>1. /\ that \in Process /\ LoopOK(that) /\ ClosedOK(that)
        /\ that.batch = this.batch /\ that.event = this.event
        /\ that.phase = this.phase /\ that.token = this.token
    BY <1>1, <1>2 DEF ClosePrisma, Drained, Process, LoopOK, ClosedOK
  <2>2. /\ processes' = [processes EXCEPT ![p] = that]
        /\ UNCHANGED <<rows, appended, sent, failures>>
    BY <1>2 DEF ClosePrisma
  <2> HIDE DEF that
  <2>3. QED
    BY <1>1, <2>1, <2>2, ProcessOnlyStep
<1>3. CASE ClosePublisher(p)
  <2> DEFINE that == [this EXCEPT !.resources = "closed", !.publisher = FALSE]
  <2>1. /\ that \in Process /\ LoopOK(that) /\ ClosedOK(that)
        /\ that.batch = this.batch /\ that.event = this.event
        /\ that.phase = this.phase /\ that.token = this.token
    BY <1>1, <1>3 DEF ClosePublisher, Process, LoopOK, ClosedOK
  <2>2. /\ processes' = [processes EXCEPT ![p] = that]
        /\ UNCHANGED <<rows, appended, sent, failures>>
    BY <1>3 DEF ClosePublisher
  <2> HIDE DEF that
  <2>3. QED
    BY <1>1, <2>1, <2>2, ProcessOnlyStep
<1>4. CASE Restart(p)
  <2>1. /\ Started \in Process /\ LoopOK(Started) /\ ClosedOK(Started)
        /\ Started.batch = {} /\ Started.event = NoEvent
        /\ Started.phase = "idle"
    BY DEF Started, Process, LoopOK, ClosedOK
  <2>2. /\ processes' = [processes EXCEPT ![p] = Started]
        /\ UNCHANGED <<rows, appended, sent, failures>>
    BY <1>4 DEF Restart
  <2>3. QED
    BY <2>1, <2>2, ProcessOnlyStep
<1>5. QED
  BY <1>2, <1>3, <1>4

\* A batch is claimed.
LEMMA ClaimStep ==
    ASSUME Inv, NEW p \in Processes, ClaimNextBatch(p) PROVE Inv'
<1> DEFINE this == processes[p]
<1>1. /\ this \in Process /\ LoopOK(this) /\ ClosedOK(this)
      /\ this.batch \subseteq appended /\ this.event \in appended \cup {NoEvent}
      /\ this.phase = "claim"
  BY ProcessFacts DEF ClaimNextBatch
<1>2. PICK batch \in SUBSET Claimable :
         /\ Claim(batch)
         /\ processes' = [processes EXCEPT ![p] = [this EXCEPT !.phase = "publish",
                             !.token = FreshToken, !.batch = batch]]
  BY DEF ClaimNextBatch
<1>3. UNCHANGED <<appended, sent, failures>>
  BY DEF ClaimNextBatch
<1>4. TableOK' /\ Accounted' /\ \A e \in appended : Tame(e)
  BY <1>1, <1>2, <1>3, ClaimKeepsRows
<1>5. FreshToken \in Tokens /\ FreshToken # NoToken
  BY <1>1, FreshTokenExists
<1>6. batch # {} /\ batch \subseteq appended /\ batch \subseteq Events
  BY <1>2 DEF Claim, Claimable, Inv, TableOK, HistoryOK
<1> DEFINE that == [this EXCEPT !.phase = "publish",
                                !.token = FreshToken, !.batch = batch]
<1>7. /\ that \in Process /\ LoopOK(that) /\ ClosedOK(that)
      /\ that.batch = batch /\ that.event = this.event /\ that.phase = "publish"
  BY <1>1, <1>5, <1>6 DEF Process, LoopOK, ClosedOK
<1> HIDE DEF that
<1>8. processes' = [processes EXCEPT ![p] = that]
  BY <1>2 DEF that
<1>9. QED
  BY <1>1, <1>3, <1>4, <1>6, <1>7, <1>8, RowsAndProcessStep

\* The loop ends, perhaps with a claim it does not know of.
LEMMA EndDispatchStep ==
    ASSUME Inv, NEW p \in Processes, EndDispatch(p) PROVE Inv'
<1> DEFINE this == processes[p]
           that == [this EXCEPT !.phase = "idle"]
<1>1. /\ this \in Process /\ LoopOK(this) /\ ClosedOK(this)
      /\ this.batch \subseteq appended /\ this.event \in appended \cup {NoEvent}
      /\ this.phase = "claim"
  BY ProcessFacts DEF EndDispatch
<1>2. /\ that \in Process /\ LoopOK(that) /\ ClosedOK(that)
      /\ that.batch = this.batch /\ that.event = this.event /\ that.phase = "idle"
  BY <1>1 DEF Process, LoopOK, ClosedOK
<1>3. /\ processes' = [processes EXCEPT ![p] = that]
      /\ UNCHANGED <<appended, sent, failures>>
  BY DEF EndDispatch
<1> HIDE DEF that
<1>4. CASE rows' = rows
  BY <1>1, <1>2, <1>3, <1>4, ProcessOnlyStep
<1>5. CASE \E batch \in SUBSET Claimable : Claim(batch)
  <2>1. TableOK' /\ Accounted' /\ \A e \in appended : Tame(e)
    BY <1>1, <1>3, <1>5, ClaimKeepsRows
  <2>2. QED
    BY <1>1, <1>2, <1>3, <2>1, RowsAndProcessStep
<1>6. QED
  BY <1>4, <1>5 DEF EndDispatch

\* Maintenance ends.
LEMMA PruningStep ==
    ASSUME Inv, NEW p \in Processes, EndPruning(p) \/ PruningFails(p)
    PROVE  Inv'
<1> DEFINE this == processes[p]
           that == [this EXCEPT !.pruning = FALSE]
<1>1. /\ this \in Process /\ LoopOK(this) /\ ClosedOK(this)
      /\ this.batch \subseteq appended /\ this.event \in appended \cup {NoEvent}
  BY ProcessFacts
<1>2. /\ that \in Process /\ LoopOK(that) /\ ClosedOK(that)
      /\ that.batch = this.batch /\ that.event = this.event
      /\ that.phase = this.phase /\ that.token = this.token
  BY <1>1 DEF Process, LoopOK, ClosedOK
<1>3. /\ processes' = [processes EXCEPT ![p] = that]
      /\ UNCHANGED <<appended, sent, failures>>
  BY DEF EndPruning, PruningFails
<1> HIDE DEF that
<1>4. CASE UNCHANGED rows
  BY <1>1, <1>2, <1>3, <1>4, ProcessOnlyStep
<1>5. CASE PruneExpiredEvents
  <2>1. TableOK' /\ Accounted' /\ \A e \in appended : Tame(e)
    BY <1>3, <1>5, PruningKeepsRows
  <2>2. QED
    BY <1>1, <1>2, <1>3, <2>1, RowsAndProcessStep
<1>6. QED
  BY <1>4, <1>5 DEF EndPruning, PruningFails

-----------------------------------------------------------------------------
(* Deliveries *)

\* Failures are counted up to the limit, and rise.
FailuresRise ==
    /\ failures' \in [Events -> 0..MaxAttempts]
    /\ \A e \in Events : failures'[e] >= failures[e]

\* A failed delivery is one more than a row's attempts account for.
LEMMA CountFailureRises ==
    ASSUME Inv, NEW e \in Events, CountFailure(e)
    PROVE  /\ FailuresRise
           /\ e \in DOMAIN rows /\ rows[e].token # NoToken =>
                 failures'[e] > rows[e].attempts
<1>1. failures \in [Events -> 0..MaxAttempts] /\ MaxAttempts \in Nat \ {0}
  BY OutboxAssumption DEF Inv, HistoryOK
<1>2. FailuresRise
  BY <1>1 DEF CountFailure, FailuresRise
<1>3. ASSUME e \in DOMAIN rows, rows[e].token # NoToken
      PROVE  failures'[e] > rows[e].attempts
  <2>1. RowOK(rows[e]) /\ e \in appended
    BY <1>3 DEF Inv, TableOK
  <2>2. rows[e].attempts \in 0..MaxAttempts /\ rows[e].attempts # MaxAttempts
    BY <1>3, <2>1 DEF RowOK, Row, Settled
  <2>3. failures[e] >= rows[e].attempts
    BY <1>3, <2>1 DEF Inv, Accounted
  <2>4. failures'[e] = IF failures[e] < MaxAttempts THEN failures[e] + 1
                                                    ELSE failures[e]
    BY <1>1 DEF CountFailure
  <2>5. QED
    BY <1>1, <2>2, <2>3, <2>4
<1>4. QED
  BY <1>2, <1>3

LEMMA FailuresKept == ASSUME Inv, UNCHANGED failures PROVE FailuresRise
BY OutboxAssumption DEF Inv, HistoryOK, FailuresRise

\* A step of a process on the event that it has in hand.
LEMMA DeliveryStep ==
    ASSUME Inv, NEW p \in Processes, NEW this \in Process,
           LoopOK(this), ClosedOK(this),
           this.batch \subseteq appended, this.event \in appended \cup {NoEvent},
           processes' = [processes EXCEPT ![p] = this],
           appended' = appended, sent \subseteq sent', sent' \subseteq appended,
           FailuresRise,
           TableOK', Accounted', \A e \in appended : Tame(e),
           Backed(p)'
    PROVE  Inv'
<1>1. /\ ProcessesOK' /\ processes'[p] = this
      /\ \A q \in Processes \ {p} : processes'[q] = processes[q]
  BY ProcessChanges DEF Inv
<1>2. HistoryOK'
  BY DEF Inv, HistoryOK, FailuresRise
<1>3. \A e \in appended : failures'[e] >= failures[e] /\ failures'[e] \in Nat
  BY OutboxAssumption DEF Inv, HistoryOK, FailuresRise
<1>4. \A q \in Processes \ {p} : Backed(q)'
  BY <1>1, <1>3, BackedKept
<1>5. QED
  BY <1>1, <1>2, <1>4 DEF Inv

\* Rows that are left alone.
LEMMA RowsKept ==
    ASSUME Inv, UNCHANGED <<rows, appended>>, sent \subseteq sent', FailuresRise
    PROVE  TableOK' /\ Accounted' /\ \A e \in appended : Tame(e)
<1>1. TableOK' /\ \A e \in appended : Tame(e)
  BY DEF Inv, TableOK, Tame
<1>2. ASSUME NEW e \in appended
      PROVE  /\ failures'[e] \in 0..MaxAttempts /\ failures[e] \in 0..MaxAttempts
             /\ failures'[e] >= failures[e]
             /\ e \in DOMAIN rows => rows[e].attempts \in 0..MaxAttempts
  BY DEF Inv, HistoryOK, FailuresRise, TableOK, RowOK, Row
<1>3. Accounted'
  BY <1>2, OutboxAssumption DEF Inv, Accounted
<1>4. QED
  BY <1>1, <1>3

\* The event in hand is published, or is not.
LEMMA PublishStep ==
    ASSUME Inv, NEW p \in Processes, NEW e \in Events,
           PublishEvent(p, e) \/ PublishFails(p, e)
    PROVE  Inv'
<1> DEFINE this == processes[p]
<1>1. /\ this \in Process /\ LoopOK(this) /\ ClosedOK(this)
      /\ this.batch \subseteq appended /\ e \in this.batch
      /\ this.phase = "publish"
  BY ProcessFacts DEF PublishEvent, PublishFails
<1>2. e \in appended /\ e \in Events /\ sent \subseteq appended
  BY <1>1 DEF Inv, HistoryOK
<1>3. CASE PublishEvent(p, e)
  <2> DEFINE that == [this EXCEPT !.phase = "mark", !.event = e,
                        !.batch = @ \ {e}, !.failed = @ \/ "mark" = "release",
                        !.publisher = TRUE]
  <2>1. /\ that \in Process /\ LoopOK(that) /\ ClosedOK(that)
        /\ that.batch \subseteq appended /\ that.event = e
        /\ that.phase = "mark"
    BY <1>1, <1>2 DEF Process, LoopOK, ClosedOK
  <2>2. /\ processes' = [processes EXCEPT ![p] = that]
        /\ sent' = sent \cup {e} /\ UNCHANGED <<rows, appended, failures>>
    BY <1>3 DEF PublishEvent, Take
  <2> HIDE DEF that
  <2>3. processes'[p] = that
    BY <2>2, ProcessFacts
  <2>4. Backed(p)'
    BY <2>1, <2>2, <2>3 DEF Backed
  <2>5. FailuresRise
    BY <2>2, FailuresKept
  <2>6. TableOK' /\ Accounted' /\ \A f \in appended : Tame(f)
    BY <2>2, <2>5, RowsKept
  <2>7. QED
    BY <1>2, <2>1, <2>2, <2>4, <2>5, <2>6, DeliveryStep
<1>4. CASE PublishFails(p, e)
  <2> DEFINE that == [this EXCEPT !.phase = "release", !.event = e,
                        !.batch = @ \ {e},
                        !.failed = @ \/ "release" = "release",
                        !.publisher = FALSE]
  <2>1. /\ that \in Process /\ LoopOK(that) /\ ClosedOK(that)
        /\ that.batch \subseteq appended /\ that.event = e
        /\ that.phase = "release" /\ that.token # NoToken
    BY <1>1, <1>2 DEF Process, LoopOK, ClosedOK
  <2>2. /\ processes' = [processes EXCEPT ![p] = that]
        /\ sent \subseteq sent' /\ sent' \subseteq appended
        /\ UNCHANGED <<rows, appended>> /\ CountFailure(e)
    BY <1>2, <1>4 DEF PublishFails, Take
  <2> HIDE DEF that
  <2>3. processes'[p] = that
    BY <2>2, ProcessFacts
  <2>4. /\ FailuresRise
        /\ e \in DOMAIN rows /\ rows[e].token # NoToken =>
              failures'[e] > rows[e].attempts
    BY <2>2, CountFailureRises
  <2>5. Backed(p)'
    BY <2>1, <2>2, <2>3, <2>4 DEF Backed, Holds
  <2>6. TableOK' /\ Accounted' /\ \A f \in appended : Tame(f)
    BY <2>2, <2>4, RowsKept
  <2>7. QED
    BY <1>2, <2>1, <2>2, <2>4, <2>5, <2>6, DeliveryStep
<1>5. QED
  BY <1>3, <1>4

\* The row in hand is marked, if it is still claimed by the process.
LEMMA MarkKeepsRows ==
    ASSUME Inv, NEW p \in Processes, processes[p].phase = "mark",
           MarkAsPublished(p), UNCHANGED <<appended, sent>>, FailuresRise
    PROVE  /\ TableOK' /\ Accounted' /\ \A f \in appended : Tame(f)
           /\ processes[p].event \in DOMAIN rows' =>
                 rows'[processes[p].event].token # processes[p].token
<1> DEFINE e == processes[p].event
           held == e \in DOMAIN rows /\ rows[e].token = processes[p].token
<1>1. LoopOK(processes[p]) /\ Backed(p)
  BY ProcessFacts
<1>2. processes[p].token # NoToken /\ e \in sent /\ e \in Events
  BY <1>1 DEF LoopOK, Backed
<1>3. /\ DOMAIN rows' = DOMAIN rows
      /\ \A f \in DOMAIN rows : rows'[f] = IF f = e /\ held THEN Published(rows[f])
                                                         ELSE rows[f]
      /\ rows' = [f \in DOMAIN rows' |-> rows'[f]]
  BY DEF MarkAsPublished, Holds
<1>4. ASSUME held
      PROVE  /\ RowOK(Published(rows[e]))
             /\ Published(rows[e]).attempts = rows[e].attempts
             /\ Published(rows[e]).token = NoToken
  BY <1>2, <1>4, SettledRowOK DEF Inv, TableOK
<1> HIDE DEF held
<1>5. \A f \in DOMAIN rows :
         /\ RowOK(rows'[f]) /\ rows'[f].attempts = rows[f].attempts
         /\ rows'[f].published => rows[f].published \/ f \in sent
         /\ rows'[f].token \in {rows[f].token, NoToken}
  BY <1>2, <1>3, <1>4 DEF Inv, TableOK
<1>6. TableOK' /\ \A f \in appended : Tame(f)
  BY <1>3, <1>5 DEF Inv, TableOK, Tame
<1>7. ASSUME NEW f \in appended
      PROVE  /\ failures'[f] \in 0..MaxAttempts /\ failures[f] \in 0..MaxAttempts
             /\ failures'[f] >= failures[f]
             /\ f \in DOMAIN rows => rows[f].attempts \in 0..MaxAttempts
  BY DEF Inv, HistoryOK, FailuresRise, TableOK, RowOK, Row
<1>8. Accounted'
  BY <1>3, <1>5, <1>7, OutboxAssumption DEF Inv, Accounted
<1>9. QED
  BY <1>2, <1>3, <1>4, <1>6, <1>8 DEF held

\* The claim in hand is released: its failure was counted.
LEMMA ReleaseKeepsRows ==
    ASSUME Inv, NEW p \in Processes, processes[p].phase = "release",
           ReleaseClaim(p), UNCHANGED <<appended, sent, failures>>
    PROVE  TableOK' /\ Accounted' /\ \A f \in appended : Tame(f)
<1> DEFINE e == processes[p].event
           held == e \in DOMAIN rows /\ rows[e].token = processes[p].token
<1>1. LoopOK(processes[p]) /\ Backed(p)
  BY ProcessFacts
<1>2. processes[p].token # NoToken /\ e \in Events
  BY <1>1 DEF LoopOK
<1>3. /\ DOMAIN rows' = DOMAIN rows
      /\ \A f \in DOMAIN rows : rows'[f] = IF f = e /\ held THEN Released(rows[f])
                                                         ELSE rows[f]
      /\ rows' = [f \in DOMAIN rows' |-> rows'[f]]
  BY DEF ReleaseClaim, Holds
<1>4. ASSUME held
      PROVE  /\ RowOK(Released(rows[e])) /\ ~Released(rows[e]).published
             /\ failures[e] >= Released(rows[e]).attempts
             /\ Released(rows[e]).token = NoToken
  <2>1. RowOK(rows[e]) /\ rows[e].token # NoToken
    BY <1>2, <1>4 DEF Inv, TableOK
  <2>2. failures[e] > rows[e].attempts
    BY <1>1, <1>4 DEF Backed, Holds
  <2>3. failures[e] \in Nat /\ rows[e].attempts \in Nat
    BY <1>2, <2>1, OutboxAssumption DEF Inv, HistoryOK, RowOK, Row
  <2>4. QED
    BY <2>1, <2>2, <2>3, SettledRowOK
<1> HIDE DEF held
<1>5. \A f \in DOMAIN rows :
         /\ RowOK(rows'[f]) /\ failures[f] >= rows'[f].attempts
         /\ rows'[f].published => rows[f].published
         /\ \/ rows'[f].token = NoToken
            \/ rows'[f].token = rows[f].token /\ rows'[f].attempts = rows[f].attempts
  BY <1>3, <1>4 DEF Inv, TableOK, Accounted
<1>6. TableOK' /\ \A f \in appended : Tame(f)
  BY <1>3, <1>5 DEF Inv, TableOK, Tame
<1>7. Accounted'
  BY <1>3, <1>5 DEF Inv, Accounted
<1>8. QED
  BY <1>6, <1>7

\* A process turns to the rest of its batch, or ends it.
LEMMA NextRowStep ==
    ASSUME Inv, NEW p \in Processes, processes[p].phase \in {"mark", "release"},
           NextRow(p), UNCHANGED <<appended, sent, failures>>,
           TableOK', Accounted', \A e \in appended : Tame(e)
    PROVE  Inv'
<1> DEFINE this == processes[p]
           next == CASE this.batch # {} -> "publish"
                     [] this.batch = {} /\ (this.failed \/ this.stopping) -> "idle"
                     [] OTHER -> "claim"
           token == IF next = "publish" THEN this.token ELSE NoToken
           that == [this EXCEPT !.phase = next, !.event = NoEvent,
                                !.token = token]
<1>1. /\ this \in Process /\ LoopOK(this) /\ ClosedOK(this)
      /\ this.batch \subseteq appended
  BY ProcessFacts
<1>2. /\ next \in {"publish", "idle", "claim"}
      /\ next = "publish" <=> this.batch # {}
  OBVIOUS
<1>3. processes' = [processes EXCEPT ![p] = that]
  BY DEF NextRow
<1> HIDE DEF next
<1>4. /\ that \in Process /\ that.phase = next /\ that.event = NoEvent
      /\ that.token = token /\ that.batch = this.batch
      /\ that.resources = this.resources /\ that.publisher = this.publisher
  BY <1>1, <1>2 DEF Process
<1>5. LoopOK(that) /\ ClosedOK(that)
  BY <1>1, <1>2, <1>4 DEF LoopOK, ClosedOK
<1> HIDE DEF that
<1>6. QED
  BY <1>1, <1>2, <1>3, <1>4, <1>5, RowsAndProcessStep

\* The row is marked, or the statement fails, before or after it took effect.
LEMMA MarkStep ==
    ASSUME Inv, NEW p \in Processes, Mark(p) \/ MarkFails(p) PROVE Inv'
<1> DEFINE this == processes[p]
<1>1. /\ this \in Process /\ LoopOK(this) /\ ClosedOK(this) /\ Backed(p)
      /\ this.batch \subseteq appended /\ this.event \in appended \cup {NoEvent}
      /\ this.phase = "mark" /\ this.event \in Events /\ this.token # NoToken
  BY ProcessFacts DEF Mark, MarkFails, LoopOK
<1>2. CASE Mark(p)
  <2>1. /\ MarkAsPublished(p) /\ NextRow(p)
        /\ UNCHANGED <<appended, sent, failures>>
    BY <1>2 DEF Mark
  <2>2. FailuresRise
    BY <2>1, FailuresKept
  <2>3. TableOK' /\ Accounted' /\ \A f \in appended : Tame(f)
    BY <1>1, <2>1, <2>2, MarkKeepsRows
  <2>4. QED
    BY <1>1, <2>1, <2>3, NextRowStep
<1>3. CASE MarkFails(p)
  <2> DEFINE that == [this EXCEPT !.phase = "release", !.failed = TRUE]
  <2>1. /\ that \in Process /\ LoopOK(that) /\ ClosedOK(that)
        /\ that.batch = this.batch /\ that.event = this.event
        /\ that.phase = "release" /\ that.token = this.token
    BY <1>1 DEF Process, LoopOK, ClosedOK
  <2>2. /\ processes' = [processes EXCEPT ![p] = that]
        /\ UNCHANGED <<appended, sent>> /\ CountFailure(this.event)
    BY <1>3 DEF MarkFails
  <2> HIDE DEF that
  <2>3. processes'[p] = that
    BY <2>2, ProcessFacts
  <2>4. /\ FailuresRise
        /\ this.event \in DOMAIN rows /\ rows[this.event].token # NoToken =>
              failures'[this.event] > rows[this.event].attempts
    BY <1>1, <2>2, CountFailureRises
  <2>5. /\ TableOK' /\ Accounted' /\ \A f \in appended : Tame(f)
        /\ Backed(p)'
    <3>1. CASE MarkAsPublished(p)
      <4>1. /\ TableOK' /\ Accounted' /\ \A f \in appended : Tame(f)
            /\ this.event \in DOMAIN rows' => rows'[this.event].token # this.token
        BY <1>1, <2>2, <2>4, <3>1, MarkKeepsRows
      <4>2. Backed(p)'
        BY <2>1, <2>3, <4>1 DEF Backed, Holds
      <4>3. QED
        BY <4>1, <4>2
    <3>2. CASE UNCHANGED rows
      <4>1. TableOK' /\ Accounted' /\ \A f \in appended : Tame(f)
        BY <2>2, <2>4, <3>2, RowsKept
      <4>2. Backed(p)'
        BY <1>1, <2>1, <2>3, <2>4, <3>2 DEF Backed, Holds
      <4>3. QED
        BY <4>1, <4>2
    <3>3. QED
      BY <1>3, <3>1, <3>2 DEF MarkFails
  <2>6. sent \subseteq sent' /\ sent' \subseteq appended /\ appended' = appended
    BY <2>2 DEF Inv, HistoryOK
  <2>7. QED
    BY <1>1, <2>1, <2>2, <2>4, <2>5, <2>6, DeliveryStep
<1>4. QED
  BY <1>2, <1>3

\* The claim is released, or the statement fails.
LEMMA ReleaseStep ==
    ASSUME Inv, NEW p \in Processes, Release(p) \/ ReleaseFails(p) PROVE Inv'
<1>1. /\ processes[p].phase = "release" /\ NextRow(p)
      /\ ReleaseClaim(p) \/ UNCHANGED rows
      /\ UNCHANGED <<appended, sent, failures>>
  BY DEF Release, ReleaseFails
<1>2. TableOK' /\ Accounted' /\ \A f \in appended : Tame(f)
  <2>1. CASE ReleaseClaim(p)
    BY <1>1, <2>1, ReleaseKeepsRows
  <2>2. CASE UNCHANGED rows
    BY <1>1, <2>2, FailuresKept, RowsKept
  <2>3. QED
    BY <1>1, <2>1, <2>2
<1>3. QED
  BY <1>1, <1>2, NextRowStep

-----------------------------------------------------------------------------
(* Theorems *)

\* Every step preserves the invariant.
LEMMA NextInv == Inv /\ [Next]_vars => Inv'
<1> SUFFICES ASSUME Inv, [Next]_vars PROVE Inv'
  OBVIOUS
<1>1. CASE UNCHANGED vars
  <2>1. TableOK' /\ HistoryOK' /\ ProcessesOK' /\ Accounted'
    BY <1>1 DEF vars, Inv, TableOK, HistoryOK, ProcessesOK, Accounted
  <2>2. \A p \in Processes : Backed(p)'
    BY <1>1 DEF vars, Inv, Backed, Holds
  <2>3. QED
    BY <2>1, <2>2 DEF Inv
<1>2. CASE \E events \in SUBSET Events : AppendEvents(events)
  BY <1>2, AppendStep
<1>3. CASE \E e \in Events : ExpireLease(e) \/ RetryDue(e) \/ Age(e)
  BY <1>3, TimeStep
<1>4. CASE \E p \in Processes : StartDispatch(p) \/ StartPruning(p) \/ Shutdown(p)
  BY <1>4, StartStep
<1>5. CASE \E p \in Processes : ClosePrisma(p) \/ ClosePublisher(p) \/ Restart(p)
  BY <1>5, CloseStep
<1>6. CASE \E p \in Processes : ClaimNextBatch(p)
  BY <1>6, ClaimStep
<1>7. CASE \E p \in Processes : EndDispatch(p)
  BY <1>7, EndDispatchStep
<1>8. CASE \E p \in Processes, e \in Events : PublishEvent(p, e) \/ PublishFails(p, e)
  BY <1>8, PublishStep
<1>9. CASE \E p \in Processes : Mark(p) \/ MarkFails(p)
  BY <1>9, MarkStep
<1>10. CASE \E p \in Processes : Release(p) \/ ReleaseFails(p)
  BY <1>10, ReleaseStep
<1>11. CASE \E p \in Processes : EndPruning(p) \/ PruningFails(p)
  BY <1>11, PruningStep
<1>12. QED
  BY <1>1, <1>2, <1>3, <1>4, <1>5, <1>6, <1>7, <1>8, <1>9, <1>10, <1>11 DEF Next

\* The invariant holds in every state the processes reach, whatever fails or
\* crashes on the way.
THEOREM OutboxInvariant == Spec => []Inv
BY InitInv, NextInv, PTL DEF Spec

\* Rows, the dispatchers' local variables and the history hold what they can,
\* and a dispatch loop holds a claim exactly where it needs one.
THEOREM OutboxTypeCorrect == Spec => []TypeOK
<1>1. Inv => TypeOK
  BY DEF Inv, TableOK, RowOK, HistoryOK, ProcessesOK, TypeOK
<1>2. QED
  BY <1>1, OutboxInvariant, PTL

\* releaseClaim and pruneExpiredEvents lose no event: what is not pending
\* was accepted by Redis or failed as often as the limit allows.
THEOREM NothingIsLost == Spec => []NoEventLost
<1>1. Inv => NoEventLost
  <2> SUFFICES ASSUME Inv, NEW e \in appended
               PROVE  \/ e \in DOMAIN rows /\ ~Settled(rows[e])
                      \/ e \in DOMAIN rows /\ rows[e].published /\ e \in sent
                      \/ e \in DOMAIN rows /\ rows[e].dead
                            /\ failures[e] = MaxAttempts
                      \/ e \notin DOMAIN rows
                            /\ (e \in sent \/ failures[e] = MaxAttempts)
    BY DEF NoEventLost
  <2>1. /\ e \in DOMAIN rows => /\ failures[e] >= rows[e].attempts
                                /\ rows[e].published => e \in sent
        /\ e \notin DOMAIN rows => e \in sent \/ failures[e] = MaxAttempts
    BY DEF Inv, Accounted
  <2>2. failures[e] \in 0..MaxAttempts /\ MaxAttempts \in Nat
    BY OutboxAssumption DEF Inv, HistoryOK
  <2>3. e \in DOMAIN rows => (rows[e].dead <=> rows[e].attempts = MaxAttempts)
    BY DEF Inv, TableOK, RowOK
  <2>4. QED
    BY <2>1, <2>2, <2>3 DEF Settled
<1>2. QED
  BY <1>1, OutboxInvariant, PTL

\* onModuleDestroy drains the dispatch and the maintenance before Prisma
\* disconnects, and the publisher opens no connection once it closed.
THEOREM ClosedAfterDraining == Spec => []DrainedBeforeClose
<1>1. Inv => DrainedBeforeClose
  BY DEF Inv, ProcessesOK, ClosedOK, DrainedBeforeClose
<1>2. QED
  BY <1>1, OutboxInvariant, PTL

\* All that a step can do to a row.
RowChange(e) ==
    \/ e \in DOMAIN rows' /\ rows'[e] = rows[e]
    \/ e \in DOMAIN rows' /\ rows[e].lease = "live"
         /\ rows'[e] = [rows[e] EXCEPT !.lease = "expired"]
    \/ ~rows[e].due
    \/ e \in DOMAIN rows' /\ Settled(rows[e])
         /\ rows'[e] = [rows[e] EXCEPT !.aged = TRUE]
    \/ ~Settled(rows[e]) /\ rows[e].lease # "live"
    \/ rows[e].token # NoToken
         /\ \E p \in Processes : processes[p].event = e /\ Holds(p, e)
    \/ rows[e].aged /\ e \notin DOMAIN rows'

LEMMA RowsChange ==
    ASSUME Inv, [Next]_vars, NEW e \in DOMAIN rows PROVE RowChange(e)
<1>1. CASE UNCHANGED rows
  BY <1>1 DEF RowChange
<1>2. CASE \E events \in SUBSET Events : AppendEvents(events)
  BY <1>2 DEF AppendEvents, RowChange, Inv, TableOK
<1>3. CASE \E f \in Events : ExpireLease(f) \/ RetryDue(f) \/ Age(f)
  BY <1>3 DEF ExpireLease, RetryDue, Age, RowChange
<1>4. CASE \E p \in Processes : ClaimNextBatch(p) \/ EndDispatch(p)
  BY <1>1, <1>4 DEF ClaimNextBatch, EndDispatch, Claim, Claimable, RowChange
<1>5. CASE \E p \in Processes : Mark(p) \/ MarkFails(p)
  <2>1. PICK p \in Processes : /\ MarkAsPublished(p) \/ UNCHANGED rows
                               /\ processes[p].phase = "mark"
    BY <1>5 DEF Mark, MarkFails
  <2>2. processes[p].token # NoToken
    BY <2>1, ProcessFacts DEF LoopOK
  <2>3. QED
    BY <1>1, <2>1, <2>2 DEF MarkAsPublished, Holds, RowChange
<1>6. CASE \E p \in Processes : Release(p) \/ ReleaseFails(p)
  <2>1. PICK p \in Processes : /\ ReleaseClaim(p) \/ UNCHANGED rows
                               /\ processes[p].phase = "release"
    BY <1>6 DEF Release, ReleaseFails
  <2>2. processes[p].token # NoToken
    BY <2>1, ProcessFacts DEF LoopOK
  <2>3. QED
    BY <1>1, <2>1, <2>2 DEF ReleaseClaim, Holds, RowChange
<1>7. CASE \E p \in Processes : EndPruning(p) \/ PruningFails(p)
  BY <1>1, <1>7 DEF EndPruning, PruningFails, PruneExpiredEvents, RowChange
<1>8. CASE \E p \in Processes :
              \/ StartDispatch(p) \/ StartPruning(p) \/ Shutdown(p)
              \/ ClosePrisma(p) \/ ClosePublisher(p) \/ Restart(p)
              \/ \E f \in Events : PublishEvent(p, f) \/ PublishFails(p, f)
  BY <1>1, <1>8 DEF StartDispatch, StartPruning, Shutdown, ClosePrisma,
                    ClosePublisher, Restart, PublishEvent, PublishFails
<1>9. QED
  BY <1>1, <1>2, <1>3, <1>4, <1>5, <1>6, <1>7, <1>8 DEF Next, vars

\* Neither a late release nor one after a mark that had committed undoes it:
\* markAsPublished and releaseClaim clear claim_token, which both match on.
THEOREM SettlementIsFinal == Spec => SettledForGood
<1>1. ASSUME Inv, [Next]_vars, NEW e \in DOMAIN rows, Settled(rows[e])
      PROVE  \/ e \notin DOMAIN rows'
             \/ rows'[e] = rows[e]
             \/ rows'[e] = [rows[e] EXCEPT !.aged = TRUE]
  <2>1. RowChange(e)
    BY <1>1, RowsChange
  <2>2. rows[e].token = NoToken /\ rows[e].due /\ rows[e].lease = "none"
    BY <1>1 DEF Inv, TableOK, RowOK
  <2>3. QED
    BY <1>1, <2>1, <2>2 DEF RowChange
<1>2. Inv /\ [Next]_vars =>
        [\A e \in DOMAIN rows :
           Settled(rows[e]) => \/ e \notin DOMAIN rows'
                               \/ rows'[e] = rows[e]
                               \/ rows'[e] = [rows[e] EXCEPT !.aged = TRUE]]_vars
  BY <1>1
<1>3. QED
  BY <1>2, OutboxInvariant, PTL DEF Spec, SettledForGood

\* An event under a live claim is written by the process that claimed it only:
\* every other one fails to match its claim_token.
THEOREM OutboxClaimsRespected == Spec => ClaimRespected
<1>1. ASSUME Inv, [Next]_vars, NEW e \in DOMAIN rows, rows[e].lease = "live"
      PROVE  \/ e \in DOMAIN rows' /\ rows'[e] = rows[e]
             \/ e \in DOMAIN rows'
                   /\ rows'[e] = [rows[e] EXCEPT !.lease = "expired"]
             \/ \E p \in Processes : processes[p].event = e /\ Holds(p, e)
  <2>1. RowChange(e)
    BY <1>1, RowsChange
  <2>2. rows[e].token # NoToken /\ rows[e].due /\ ~Settled(rows[e])
        /\ ~rows[e].aged
    BY <1>1 DEF Inv, TableOK, RowOK
  <2>3. QED
    BY <1>1, <2>1, <2>2 DEF RowChange
<1>2. Inv /\ [Next]_vars =>
        [\A e \in DOMAIN rows :
           \/ rows[e].lease # "live"
           \/ e \in DOMAIN rows' /\ rows'[e] = rows[e]
           \/ e \in DOMAIN rows'
                 /\ rows'[e] = [rows[e] EXCEPT !.lease = "expired"]
           \/ \E p \in Processes : processes[p].event = e /\ Holds(p, e)]_vars
  BY <1>1
<1>3. QED
  BY <1>2, OutboxInvariant, PTL DEF Spec, ClaimRespected
-----------------------------------------------------------------------------
(* RealtimeOutbox implements AtLeastOnce *)

\* What an event's stage is, case by case.
StageKnown(e) ==
    /\ e \notin appended => Stage(e) = "none"
    /\ e \in appended \ DOMAIN rows => Stage(e) = "forgotten"
    /\ e \in DOMAIN rows =>
          /\ rows[e].dead => Stage(e) = "dead"
          /\ ~rows[e].dead /\ rows[e].published => Stage(e) = "published"
          /\ ~rows[e].published /\ ~rows[e].dead => Stage(e) = "pending"

LEMMA StageFacts ==
    ASSUME TableOK, TableOK', NEW e \in Events
    PROVE  StageKnown(e) /\ StageKnown(e)'
<1>1. StageKnown(e)
  BY DEF StageKnown, Stage, TableOK
<1>2. StageKnown(e)'
  BY DEF StageKnown, Stage, TableOK
<1>3. QED
  BY <1>1, <1>2

\* A step that settles, adds and removes no row.
Quiet ==
    /\ UNCHANGED <<appended, sent, failures>>
    /\ DOMAIN rows' = DOMAIN rows
    /\ \A e \in DOMAIN rows : /\ rows'[e].published = rows[e].published
                              /\ rows'[e].dead = rows[e].dead

LEMMA QuietStages ==
    ASSUME UNCHANGED appended, DOMAIN rows' = DOMAIN rows,
           NEW S, \A e \in DOMAIN rows \cap S :
                     /\ rows'[e].published = rows[e].published
                     /\ rows'[e].dead = rows[e].dead
    PROVE  \A e \in S : Stage(e)' = Stage(e)
<1> SUFFICES ASSUME NEW e \in S PROVE Stage(e)' = Stage(e)
  OBVIOUS
<1>1. CASE e \notin DOMAIN rows
  BY <1>1 DEF Stage
<1>2. CASE e \in DOMAIN rows
  BY <1>2 DEF Stage
<1>3. QED
  BY <1>1, <1>2

LEMMA QuietImplements ==
    ASSUME Quiet PROVE UNCHANGED Promise!vars
<1>1. \A e \in Events : Stage(e)' = Stage(e)
  BY QuietStages DEF Quiet
<1>2. UNCHANGED Stages
  BY <1>1 DEF Stages
<1>3. QED
  BY <1>2 DEF Quiet, Promise!vars

\* A step that changes the stage of one event.
LEMMA OneStage ==
    ASSUME NEW e \in Events, NEW s, Stage(e)' = s,
           \A f \in Events \ {e} : Stage(f)' = Stage(f)
    PROVE  Stages' = [Stages EXCEPT ![e] = s]
<1>1. \A f \in Events : Stage(f)' = IF f = e THEN s ELSE Stage(f)
  OBVIOUS
<1>2. Stages' = [f \in Events |-> IF f = e THEN s ELSE Stage(f)]
  BY <1>1 DEF Stages
<1>3. QED
  BY <1>2 DEF Stages

\* Events are appended.
LEMMA AppendImplements ==
    ASSUME Inv, Inv', NEW events \in SUBSET Events, AppendEvents(events)
    PROVE  Promise!Next
<1>1. TableOK /\ TableOK' /\ \A e \in Events : StageKnown(e) /\ StageKnown(e)'
  BY StageFacts DEF Inv
<1>2. /\ events \cap appended = {} /\ appended' = appended \cup events
      /\ DOMAIN rows' = DOMAIN rows \cup events
      /\ \A e \in DOMAIN rows' : rows'[e] = IF e \in events THEN NewRow ELSE rows[e]
      /\ UNCHANGED <<sent, failures>>
  BY DEF AppendEvents
<1>3. \A e \in events : Stage(e) = "none" /\ Stage(e)' = "pending"
  BY <1>1, <1>2 DEF StageKnown, NewRow
<1>4. \A e \in Events \ events : Stage(e)' = Stage(e)
  <2> SUFFICES ASSUME NEW e \in Events \ events PROVE Stage(e)' = Stage(e)
    OBVIOUS
  <2>1. /\ e \in appended' <=> e \in appended
        /\ e \in DOMAIN rows' <=> e \in DOMAIN rows
        /\ e \in DOMAIN rows => rows'[e] = rows[e]
    BY <1>2
  <2>2. QED
    BY <2>1 DEF Stage
<1>5. Stages' = [e \in Events |-> IF e \in events THEN "pending" ELSE Stages[e]]
  BY <1>3, <1>4 DEF Stages
<1>6. Promise!Append(events)
  BY <1>2, <1>3, <1>5 DEF Promise!Append, Stages
<1>7. QED
  BY <1>6 DEF Promise!Next

\* Pruning forgets aged events, which are settled.
LEMMA PruneImplements ==
    ASSUME Inv, Inv', PruneExpiredEvents, UNCHANGED <<appended, sent, failures>>
    PROVE  Promise!Next
<1> DEFINE old == {e \in DOMAIN rows : rows[e].aged}
<1>1. TableOK /\ TableOK' /\ \A e \in Events : StageKnown(e) /\ StageKnown(e)'
  BY StageFacts DEF Inv
<1>2. old \in SUBSET Events /\ old \subseteq DOMAIN rows /\ old \subseteq appended
  BY <1>1 DEF Inv, TableOK, HistoryOK
<1>3. /\ DOMAIN rows' = DOMAIN rows \ old
      /\ \A e \in DOMAIN rows' : rows'[e] = rows[e]
  BY DEF PruneExpiredEvents
<1>4. \A e \in old : rows[e].published \/ rows[e].dead
  BY <1>1 DEF TableOK, RowOK, Settled
<1> HIDE DEF old
<1>5. \A e \in old : Stage(e) \in {"published", "dead"}
  BY <1>1, <1>2, <1>4 DEF StageKnown
<1>6. \A e \in old : Stage(e)' = "forgotten"
  BY <1>1, <1>2, <1>3 DEF StageKnown
<1>7. \A e \in Events \ old : Stage(e)' = Stage(e)
  <2> SUFFICES ASSUME NEW e \in Events \ old PROVE Stage(e)' = Stage(e)
    OBVIOUS
  <2>1. /\ appended' = appended
        /\ e \in DOMAIN rows' <=> e \in DOMAIN rows
        /\ e \in DOMAIN rows => rows'[e] = rows[e]
    BY <1>3
  <2>2. QED
    BY <2>1 DEF Stage
<1>8. Stages' = [e \in Events |-> IF e \in old THEN "forgotten" ELSE Stages[e]]
  BY <1>6, <1>7 DEF Stages
<1>9. Promise!Forget(old)
  BY <1>2, <1>5, <1>8 DEF Promise!Forget, Stages
<1>10. QED
  BY <1>2, <1>9 DEF Promise!Next

\* A publication is accepted, or fails, although it may have been accepted.
LEMMA PublishImplements ==
    ASSUME Inv, Inv', NEW p \in Processes, NEW e \in Events,
           PublishEvent(p, e) \/ PublishFails(p, e)
    PROVE  Promise!Next
<1>1. e \in appended /\ UNCHANGED <<rows, appended>>
  BY ProcessFacts DEF PublishEvent, PublishFails
<1>2. StageKnown(e) /\ UNCHANGED Stages
  BY <1>1, StageFacts DEF Inv, Stages, Stage
<1>3. Stages[e] # "none"
  BY <1>1, <1>2 DEF StageKnown, Stages
<1>4. CASE PublishEvent(p, e)
  <2>1. Promise!Accept(e)
    BY <1>2, <1>3, <1>4 DEF PublishEvent, Promise!Accept
  <2>2. QED
    BY <2>1 DEF Promise!Next
<1>5. CASE PublishFails(p, e)
  <2>1. Promise!Fail(e)
    BY <1>2, <1>3, <1>5 DEF PublishFails, CountFailure, Promise!Fail
  <2>2. QED
    BY <2>1 DEF Promise!Next
<1>6. QED
  BY <1>4, <1>5

\* A row that its process still holds is marked: it was pending, and accepted.
LEMMA MarkPublishes ==
    ASSUME Inv, Inv', NEW p \in Processes, processes[p].phase = "mark",
           NEW e, e = processes[p].event,
           MarkAsPublished(p), UNCHANGED <<appended, sent>>
    PROVE  Promise!Publish(e) \/ UNCHANGED Stages
<1>1. /\ e \in Events /\ e \in sent /\ processes[p].token # NoToken
  BY ProcessFacts DEF LoopOK, Backed
<1>2. TableOK /\ TableOK' /\ StageKnown(e) /\ StageKnown(e)'
  BY <1>1, StageFacts DEF Inv
<1>3. /\ DOMAIN rows' = DOMAIN rows
      /\ \A f \in DOMAIN rows : rows'[f] = IF f = e /\ Holds(p, f)
                                           THEN Published(rows[f]) ELSE rows[f]
  BY DEF MarkAsPublished
<1>4. CASE ~Holds(p, e)
  <2>1. \A f \in DOMAIN rows : rows'[f] = rows[f]
    BY <1>3, <1>4
  <2>2. \A f \in Events : Stage(f)' = Stage(f)
    BY <1>3, <2>1, QuietStages
  <2>3. QED
    BY <2>2 DEF Stages
<1>5. CASE Holds(p, e)
  <2>1. e \in DOMAIN rows /\ rows[e].token # NoToken /\ RowOK(rows[e])
    BY <1>1, <1>2, <1>5 DEF Holds, TableOK
  <2>2. Stage(e) = "pending"
    BY <1>2, <2>1 DEF StageKnown, RowOK, Settled
  <2>3. rows'[e].published /\ ~rows'[e].dead
    <3>1. rows'[e] = Published(rows[e]) /\ rows[e] \in Row /\ ~rows[e].dead
      BY <1>3, <1>5, <2>1 DEF RowOK, Settled
    <3>2. QED
      BY <3>1 DEF Published, Row
  <2>4. Stage(e)' = "published"
    BY <1>2, <1>3, <2>1, <2>3 DEF StageKnown
  <2>5. \A f \in DOMAIN rows \cap (Events \ {e}) : rows'[f] = rows[f]
    BY <1>3
  <2>6. \A f \in Events \ {e} : Stage(f)' = Stage(f)
    BY <1>3, <2>5, QuietStages
  <2>7. Stages' = [Stages EXCEPT ![e] = "published"]
    BY <1>1, <2>4, <2>6, OneStage
  <2>8. QED
    BY <1>1, <2>2, <2>7 DEF Promise!Publish, Stages
<1>6. QED
  BY <1>4, <1>5

LEMMA MarkImplements ==
    ASSUME Inv, Inv', NEW p \in Processes, Mark(p) \/ MarkFails(p)
    PROVE  Promise!Next \/ UNCHANGED Promise!vars
<1>1. PICK e : e = processes[p].event
  OBVIOUS
<1>2. /\ e \in Events /\ e \in appended
      /\ processes[p].phase = "mark" /\ UNCHANGED <<appended, sent>>
  <2>1. processes[p].phase = "mark" /\ UNCHANGED <<appended, sent>>
    BY DEF Mark, MarkFails
  <2>2. e \in Events /\ e \in sent
    BY <1>1, <2>1, ProcessFacts DEF LoopOK, Backed
  <2>3. QED
    BY <2>1, <2>2 DEF Inv, HistoryOK
<1>3. MarkAsPublished(p) => Promise!Publish(e) \/ UNCHANGED Stages
  BY <1>1, <1>2, MarkPublishes
<1>4. UNCHANGED rows => UNCHANGED Stages
  BY <1>2 DEF Stages, Stage
<1>5. CASE Mark(p)
  <2>1. MarkAsPublished(p) /\ UNCHANGED failures
    BY <1>5 DEF Mark
  <2>2. CASE Promise!Publish(e)
    BY <1>2, <2>1, <2>2 DEF Promise!Next
  <2>3. CASE UNCHANGED Stages
    BY <1>2, <2>1, <2>3 DEF Promise!vars
  <2>4. QED
    BY <1>3, <2>1, <2>2, <2>3
<1>6. CASE MarkFails(p)
  <2>1. CountFailure(e) /\ (MarkAsPublished(p) \/ UNCHANGED rows)
    BY <1>1, <1>6 DEF MarkFails
  <2>2. Promise!Publish(e) \/ UNCHANGED Stages
    BY <1>3, <1>4, <2>1
  <2>3. StageKnown(e)
    BY <1>2, StageFacts DEF Inv
  <2>4. Stages[e] # "none"
    BY <1>2, <2>3 DEF StageKnown, Stages
  <2>5. Promise!Fail(e)
    BY <1>2, <2>1, <2>2, <2>4 DEF CountFailure, Promise!Fail
  <2>6. QED
    BY <1>2, <2>5 DEF Promise!Next
<1>7. QED
  BY <1>5, <1>6

\* A claim is released: for the last time only after MaxAttempts failures.
LEMMA ReleaseImplements ==
    ASSUME Inv, Inv', NEW p \in Processes, Release(p) \/ ReleaseFails(p)
    PROVE  Promise!Next \/ UNCHANGED Promise!vars
<1>1. PICK e : e = processes[p].event
  OBVIOUS
<1>2. /\ e \in Events /\ processes[p].token # NoToken
      /\ processes[p].phase = "release" /\ UNCHANGED <<appended, sent, failures>>
      /\ ReleaseClaim(p) \/ UNCHANGED rows
  BY <1>1, ProcessFacts DEF LoopOK, Release, ReleaseFails
<1>3. TableOK /\ TableOK' /\ StageKnown(e) /\ StageKnown(e)'
  BY <1>2, StageFacts DEF Inv
<1>4. CASE UNCHANGED rows
  BY <1>2, <1>4, QuietImplements DEF Quiet
<1>5. CASE ReleaseClaim(p)
  <2>1. /\ DOMAIN rows' = DOMAIN rows
        /\ \A f \in DOMAIN rows : rows'[f] = IF f = e /\ Holds(p, f)
                                             THEN Released(rows[f]) ELSE rows[f]
    BY <1>1, <1>5 DEF ReleaseClaim
  <2>2. CASE ~Holds(p, e)
    <3>1. \A f \in DOMAIN rows : rows'[f] = rows[f]
      BY <2>1, <2>2
    <3>2. QED
      BY <1>2, <2>1, <3>1, QuietImplements DEF Quiet
  <2>3. CASE Holds(p, e)
    <3>1. e \in DOMAIN rows /\ rows[e].token # NoToken /\ RowOK(rows[e])
      BY <1>2, <1>3, <2>3 DEF Holds, TableOK
    <3>2. rows[e].attempts \in 0..MaxAttempts /\ rows[e].attempts # MaxAttempts
      BY <3>1 DEF RowOK, Row, Settled
    <3>3. ~rows[e].published /\ ~rows[e].dead
      BY <3>1 DEF RowOK, Settled
    <3>4. failures[e] > rows[e].attempts /\ failures[e] \in 0..MaxAttempts
      BY <1>1, <1>2, <2>3, ProcessFacts DEF Backed, Inv, HistoryOK
    <3>5. /\ rows'[e].published = rows[e].published
          /\ rows'[e].dead = (rows[e].attempts + 1 >= MaxAttempts)
      <4>1. rows'[e] = Released(rows[e]) /\ rows[e] \in Row
        BY <2>1, <2>3, <3>1 DEF RowOK
      <4>2. QED
        BY <4>1 DEF Released, Row
    <3>6. CASE ~(rows[e].attempts + 1 >= MaxAttempts)
      <4>1. rows'[e].dead = FALSE /\ rows[e].dead = FALSE
        BY <3>1, <3>3, <3>5, <3>6 DEF RowOK, Row
      <4>2. Quiet
        BY <1>2, <2>1, <3>5, <4>1 DEF Quiet
      <4>3. QED
        BY <4>2, QuietImplements
    <3>7. CASE rows[e].attempts + 1 >= MaxAttempts
      <4>1. failures[e] = MaxAttempts
        BY <3>2, <3>4, <3>7, OutboxAssumption
      <4>2. ~rows'[e].published /\ rows'[e].dead
        BY <3>3, <3>5, <3>7
      <4>3. Stage(e) = "pending" /\ Stage(e)' = "dead"
        BY <1>3, <2>1, <3>1, <3>3, <4>2 DEF StageKnown
      <4>4. \A f \in DOMAIN rows \cap (Events \ {e}) : rows'[f] = rows[f]
        BY <2>1
      <4>5. \A f \in Events \ {e} : Stage(f)' = Stage(f)
        BY <1>2, <2>1, <4>4, QuietStages
      <4>6. Stages' = [Stages EXCEPT ![e] = "dead"]
        BY <1>2, <4>3, <4>5, OneStage
      <4>7. Promise!GiveUp(e)
        BY <1>2, <4>1, <4>3, <4>6 DEF Promise!GiveUp, Stages
      <4>8. QED
        BY <1>2, <4>7 DEF Promise!Next
    <3>8. QED
      BY <3>6, <3>7
  <2>4. QED
    BY <2>2, <2>3
<1>6. QED
  BY <1>2, <1>4, <1>5

\* A claim settles nothing.
LEMMA ClaimIsQuiet ==
    ASSUME Inv, NEW batch \in SUBSET Claimable, Claim(batch),
           UNCHANGED <<appended, sent, failures>>
    PROVE  Quiet
<1>1. rows' = [e \in DOMAIN rows |->
                 IF e \in batch
                 THEN [rows[e] EXCEPT !.token = FreshToken, !.lease = "live"]
                 ELSE rows[e]]
  BY ONLY Claim(batch), Zenon DEF Claim
<1>2. PICK t : t = FreshToken
  OBVIOUS
<1>3. \A e \in DOMAIN rows : rows[e] \in Row
  BY DEF Inv, TableOK, RowOK
<1>4. DOMAIN rows' = DOMAIN rows
  BY ONLY <1>1, Zenon
<1>5. ASSUME NEW e \in DOMAIN rows
      PROVE  /\ rows'[e].published = rows[e].published
             /\ rows'[e].dead = rows[e].dead
  <2>1. rows'[e] = IF e \in batch
                   THEN [rows[e] EXCEPT !.token = t, !.lease = "live"]
                   ELSE rows[e]
    BY ONLY <1>1, <1>2, e \in DOMAIN rows, Zenon
  <2>2. rows[e] \in Row
    BY <1>3
  <2>3. CASE e \in batch
    <3>1. rows'[e] = [rows[e] EXCEPT !.token = t, !.lease = "live"]
      BY ONLY <2>1, <2>3
    <3>2. QED
      BY ONLY <2>2, <3>1 DEF Row
  <2>4. CASE e \notin batch
    BY ONLY <2>1, <2>4
  <2>5. QED
    BY ONLY <2>3, <2>4
<1>6. QED
  BY <1>4, <1>5 DEF Quiet

\* Claims, time, shutdowns, crashes and restarts are invisible.
LEMMA QuietSteps ==
    ASSUME Inv,
           \/ UNCHANGED vars
           \/ \E e \in Events : ExpireLease(e) \/ RetryDue(e) \/ Age(e)
           \/ \E p \in Processes : ClaimNextBatch(p) \/ EndDispatch(p)
           \/ \E p \in Processes :
                 \/ StartDispatch(p) \/ StartPruning(p) \/ Shutdown(p)
                 \/ ClosePrisma(p) \/ ClosePublisher(p) \/ Restart(p)
    PROVE  Quiet
<1>1. CASE UNCHANGED vars
  BY <1>1 DEF vars, Quiet
<1>2. CASE \E e \in Events : ExpireLease(e) \/ RetryDue(e) \/ Age(e)
  <2>1. PICK e \in Events : ExpireLease(e) \/ RetryDue(e) \/ Age(e)
    BY <1>2
  <2>2. UNCHANGED <<appended, sent, failures>> /\ e \in DOMAIN rows
    BY <2>1 DEF ExpireLease, RetryDue, Age
  <2>3. \/ rows' = [rows EXCEPT ![e].lease = "expired"]
        \/ rows' = [rows EXCEPT ![e].due = TRUE]
        \/ rows' = [rows EXCEPT ![e].aged = TRUE]
    BY <2>1 DEF ExpireLease, RetryDue, Age
  <2>4. rows[e] \in Row
    BY <2>2 DEF Inv, TableOK, RowOK
  <2>5. DOMAIN rows' = DOMAIN rows
    BY <2>3
  <2>6. ASSUME NEW f \in DOMAIN rows
        PROVE  /\ rows'[f].published = rows[f].published
               /\ rows'[f].dead = rows[f].dead
    BY <2>3, <2>4 DEF Row
  <2>7. QED
    BY <2>2, <2>5, <2>6 DEF Quiet
<1>3. CASE \E p \in Processes : ClaimNextBatch(p) \/ EndDispatch(p)
  <2>1. /\ UNCHANGED <<appended, sent, failures>>
        /\ rows' = rows \/ \E batch \in SUBSET Claimable : Claim(batch)
    <3>1. PICK p \in Processes : ClaimNextBatch(p) \/ EndDispatch(p)
      BY <1>3
    <3>2. QED
      BY ONLY <3>1 DEF ClaimNextBatch, EndDispatch
  <2>2. CASE rows' = rows
    BY <2>1, <2>2 DEF Quiet
  <2>3. CASE \E batch \in SUBSET Claimable : Claim(batch)
    BY <2>1, <2>3, ClaimIsQuiet
  <2>4. QED
    BY <2>1, <2>2, <2>3
<1>4. CASE \E p \in Processes :
              \/ StartDispatch(p) \/ StartPruning(p) \/ Shutdown(p)
              \/ ClosePrisma(p) \/ ClosePublisher(p) \/ Restart(p)
  <2>1. PICK p \in Processes :
            \/ StartDispatch(p) \/ StartPruning(p) \/ Shutdown(p)
            \/ ClosePrisma(p) \/ ClosePublisher(p) \/ Restart(p)
    BY <1>4
  <2>2. UNCHANGED <<rows, appended, sent, failures>>
    <3>1. CASE StartDispatch(p) \/ StartPruning(p) \/ Shutdown(p)
      BY <3>1 DEF StartDispatch, StartPruning, Shutdown
    <3>2. CASE ClosePrisma(p)
      BY ONLY <3>2, Zenon DEF ClosePrisma
    <3>3. CASE ClosePublisher(p)
      BY ONLY <3>3, Zenon DEF ClosePublisher
    <3>4. CASE Restart(p)
      BY <3>4 DEF Restart
    <3>5. QED
      BY <2>1, <3>1, <3>2, <3>3, <3>4
  <2>3. QED
    BY <2>2 DEF Quiet
<1>5. QED
  BY <1>1, <1>2, <1>3, <1>4

LEMMA StepImplements ==
    ASSUME Inv, Inv', [Next]_vars PROVE [Promise!Next]_(Promise!vars)
<1>1. CASE \/ UNCHANGED vars
           \/ \E e \in Events : ExpireLease(e) \/ RetryDue(e) \/ Age(e)
           \/ \E p \in Processes : ClaimNextBatch(p) \/ EndDispatch(p)
           \/ \E p \in Processes :
                 \/ StartDispatch(p) \/ StartPruning(p) \/ Shutdown(p)
                 \/ ClosePrisma(p) \/ ClosePublisher(p) \/ Restart(p)
  BY <1>1, QuietSteps, QuietImplements
<1>2. CASE \E events \in SUBSET Events : AppendEvents(events)
  BY <1>2, AppendImplements
<1>3. CASE \E p \in Processes, e \in Events : PublishEvent(p, e) \/ PublishFails(p, e)
  BY <1>3, PublishImplements
<1>4. CASE \E p \in Processes : Mark(p) \/ MarkFails(p)
  BY <1>4, MarkImplements
<1>5. CASE \E p \in Processes : Release(p) \/ ReleaseFails(p)
  BY <1>5, ReleaseImplements
<1>6. CASE \E p \in Processes : EndPruning(p) \/ PruningFails(p)
  <2>1. /\ UNCHANGED <<appended, sent, failures>>
        /\ PruneExpiredEvents \/ UNCHANGED rows
    BY <1>6 DEF EndPruning, PruningFails
  <2>2. CASE PruneExpiredEvents
    BY <2>1, <2>2, PruneImplements
  <2>3. CASE UNCHANGED rows
    BY <2>1, <2>3, QuietImplements DEF Quiet
  <2>4. QED
    BY <2>1, <2>2, <2>3
<1>7. QED
  BY <1>1, <1>2, <1>3, <1>4, <1>5, <1>6 DEF Next

\* Whatever the dispatchers and the maintenance do at the same time, and
\* whichever of their statements fail, an event is settled by one step that its
\* acceptance or its MaxAttempts failures justify, and forgotten after it.
THEOREM OutboxImplementsAtLeastOnce == Spec => ImplementsAtLeastOnce
<1>1. Init => Promise!Init
  <2> SUFFICES ASSUME Init PROVE Promise!Init
    OBVIOUS
  <2>1. Stages = [e \in Events |-> "none"]
    BY DEF Init, Stages, Stage
  <2>2. QED
    BY <2>1 DEF Init, Promise!Init
<1>2. Inv /\ Inv' /\ [Next]_vars => [Promise!Next]_(Promise!vars)
  BY StepImplements
<1>3. QED
  BY <1>1, <1>2, OutboxInvariant, PTL DEF Spec, ImplementsAtLeastOnce, Promise!Spec
=============================================================================
