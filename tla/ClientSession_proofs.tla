------------------------ MODULE ClientSession_proofs ------------------------
(***************************************************************************)
(* Proofs about the browser tabs.  What every tab holds is well formed     *)
(* with any number of tabs; that a page shows only its own session's data  *)
(* is proved for one tab, whatever the users, the sessions, the queries    *)
(* and the order in which answers, notices, expiries and reloads meet.     *)
(***************************************************************************)
EXTENDS ClientSession, TLAPS

(* Sessions reach a tab's state only from logins that were answered. *)
LoginsIssued ==
    \A t \in Tabs : \A login \in tabs[t].logins : login.session \in issued

WellFormed == TypeOK /\ LoginsIssued

(* What a tab in session s shows and is about to be given, where the tokens *)
(* in gone have expired: a request in flight was sent in the session that the *)
(* tab still has, for each change of the session drops the fetches. *)
ShownOf(data, q, s) == data # NoData => s # None /\ data.of = Subject(q, s)

RequestOf(fetch, q, s, gone) ==
    /\ fetch.status # "idle" => s # None
    /\ fetch.status \in {"sent", "unauthorized"} => fetch.header = s
    /\ fetch.status = "answered" => fetch.data.of = Subject(q, s)
    /\ fetch.status = "unauthorized" => s \in gone

Coherent(tab, s, gone) ==
    /\ tab.auth = s
    /\ tab.socket.session = s
    /\ tab.socket.status = "closed" <=> s = None
    /\ \A q \in Queries : /\ ShownOf(tab.cache[q], q, s)
                          /\ RequestOf(tab.fetch[q], q, s, gone)

Own == WellFormed /\ \A t \in Tabs : Coherent(tabs[t], storage, expired)

-----------------------------------------------------------------------------
(* The operators *)

LEMMA NoDataTyped ==
    /\ NoData \in Data
    /\ NoFetch \in Fetch
BY SessionAssumption DEF NoData, Data, NoFetch, Fetch

(* Updates of a request, written out. *)
LEMMA RequestWritten ==
    ASSUME NEW s, NEW h, NEW d, NEW r \in [status : {s}, header : {h}, data : {d}]
    PROVE  r = [status |-> s, header |-> h, data |-> d]
OBVIOUS

LEMMA FetchMarked ==
    ASSUME NEW f \in Fetch, NEW s
    PROVE  [f EXCEPT !.status = s] =
              [status |-> s, header |-> f.header, data |-> f.data]
<1> DEFINE marked == [f EXCEPT !.status = s]
<1>1. marked \in [status : {s}, header : {f.header}, data : {f.data}]
  BY DEF Fetch
<1> HIDE DEF marked
<1>2. marked = [status |-> s, header |-> f.header, data |-> f.data]
  BY <1>1, RequestWritten
<1> QED
  BY ONLY <1>2, Zenon DEF marked

LEMMA FetchAnswered ==
    ASSUME NEW f \in Fetch, NEW s, NEW d
    PROVE  [f EXCEPT !.status = s, !.data = d] =
              [status |-> s, header |-> f.header, data |-> d]
<1> DEFINE answered == [f EXCEPT !.status = s, !.data = d]
<1>1. answered \in [status : {s}, header : {f.header}, data : {d}]
  BY DEF Fetch
<1> HIDE DEF answered
<1>2. answered = [status |-> s, header |-> f.header, data |-> d]
  BY <1>1, RequestWritten
<1> QED
  BY ONLY <1>2, Zenon DEF answered

LEMMA FetchSent ==
    ASSUME NEW f \in Fetch, NEW s, NEW h
    PROVE  [f EXCEPT !.status = s, !.header = h] =
              [status |-> s, header |-> h, data |-> f.data]
<1> DEFINE sent == [f EXCEPT !.status = s, !.header = h]
<1>1. sent \in [status : {s}, header : {h}, data : {f.data}]
  BY DEF Fetch
<1> HIDE DEF sent
<1>2. sent = [status |-> s, header |-> h, data |-> f.data]
  BY <1>1, RequestWritten
<1> QED
  BY ONLY <1>2, Zenon DEF sent

LEMMA OpenedTyped ==
    ASSUME NEW s \in Sessions \cup {None}
    PROVE  Opened(s) \in Tab
BY NoDataTyped DEF Opened, Tab, ConnectFor, Socket

LEMMA SendTyped ==
    ASSUME NEW t, NEW qs, NEW fetches \in [Queries -> Fetch],
           storage \in Sessions \cup {None}
    PROVE  /\ Send(t, fetches, qs) \in [Queries -> Fetch]
           /\ \A q \in Queries :
                Send(t, fetches, qs)[q] =
                    IF q \in qs
                    THEN [status |-> "sent", header |-> storage, data |-> NoData]
                    ELSE fetches[q]
<1> DEFINE request == [status |-> "sent", header |-> storage, data |-> NoData]
<1>1. request \in Fetch
  BY NoDataTyped DEF Fetch
<1>2. [NoFetch EXCEPT !.status = "sent", !.header = storage] = request
  <2>1. NoFetch.data = NoData
    BY DEF NoFetch
  <2>2. [NoFetch EXCEPT !.status = "sent", !.header = storage] =
          [status |-> "sent", header |-> storage, data |-> NoFetch.data]
    <3>1. NoFetch \in Fetch
      BY NoDataTyped
    <3> QED
      BY ONLY <3>1, FetchSent, Zenon
  <2> QED
    BY <2>1, <2>2
<1>3. Send(t, fetches, qs) = [q \in Queries |-> IF q \in qs THEN request
                                                           ELSE fetches[q]]
  BY <1>2, Zenon DEF Send
<1> QED
  BY <1>1, <1>3

LEMMA SubjectTyped ==
    ASSUME NEW q, NEW s \in Sessions
    PROVE  Subject(q, s) \in Subjects
BY SessionAssumption DEF Subject, Subjects

(* A tab's new state, field by field. *)
LEMMA FieldsReplaced ==
    ASSUME NEW tab \in Tab,
           NEW F \in [Queries -> Fetch], NEW C \in [Queries -> Data],
           NEW S \in Socket, NEW b \in BOOLEAN,
           NEW L \in SUBSET [session : Sessions, version : 0..MaxChanges]
    PROVE  /\ [tab EXCEPT !.fetch = F] \in Tab
           /\ [tab EXCEPT !.cache = C, !.fetch = F] \in Tab
           /\ [tab EXCEPT !.socket = S] \in Tab
           /\ [tab EXCEPT !.orders = b] \in Tab
           /\ [tab EXCEPT !.orders = b, !.fetch = F] \in Tab
           /\ [tab EXCEPT !.logins = L] \in Tab
           /\ \A s \in Sessions \cup {None} :
                 [Opened(s) EXCEPT !.logins = L, !.orders = b] \in Tab
           /\ \A s \in Sessions :
                 [Opened(s) EXCEPT !.cache = C, !.logins = L, !.orders = b] \in Tab
<1>1. \A s \in Sessions \cup {None} : Opened(s) \in Tab
  BY OpenedTyped
<1> QED
  BY <1>1 DEF Tab

-----------------------------------------------------------------------------
(* What every tab holds is well formed *)

(* A step that replaces one tab keeps the types, if the new tab has its type *)
(* and holds only sessions that were handed out; and, where that is the only *)
(* tab, the new one being coherent is all there is to show. *)
LEMMA TabReplaced ==
    ASSUME WellFormed, NEW t \in Tabs, NEW tab \in Tab,
           tabs' = [tabs EXCEPT ![t] = tab],
           tab.auth \in issued' \cup {None},
           \A login \in tab.logins : login.session \in issued',
           storage' \in issued' \cup {None},
           version' \in [Subjects -> 0..MaxChanges],
           issued \subseteq issued', issued' \subseteq Sessions,
           expired' \subseteq issued', notices' \subseteq Subjects
    PROVE  /\ WellFormed'
           /\ Tabs = {t} /\ Coherent(tab, storage', expired') => Own'
<1>1. tabs' \in [Tabs -> Tab] /\ tabs'[t] = tab
  BY DEF WellFormed, TypeOK
<1>2. \A u \in Tabs \ {t} : tabs'[u] = tabs[u]
  BY DEF WellFormed, TypeOK
<1>3. WellFormed'
  BY <1>1, <1>2 DEF WellFormed, TypeOK, LoginsIssued
<1> QED
  BY <1>1, <1>3 DEF Own

(* ... and where it changes only its fetches, its cache or its socket. *)
LEMMA FieldsKept ==
    ASSUME WellFormed, NEW t \in Tabs, NEW tab \in Tab,
           tabs' = [tabs EXCEPT ![t] = tab],
           tab.auth = tabs[t].auth, tab.logins = tabs[t].logins,
           UNCHANGED <<version, issued, expired, notices, storage>>
    PROVE  /\ WellFormed'
           /\ Tabs = {t} /\ Coherent(tab, storage, expired) => Own'
<1>1. /\ tab.auth \in issued' \cup {None}
      /\ \A login \in tab.logins : login.session \in issued'
      /\ storage' \in issued' \cup {None}
      /\ version' \in [Subjects -> 0..MaxChanges]
      /\ issued \subseteq issued' /\ issued' \subseteq Sessions
      /\ expired' \subseteq issued' /\ notices' \subseteq Subjects
      /\ storage' = storage /\ expired' = expired
  BY DEF WellFormed, TypeOK, LoginsIssued
<1> QED
  BY <1>1, TabReplaced, Zenon

(* New fetches, each the old one, one just sent in the tab's session, or one *)
(* that is coherent for another reason. *)
LEMMA FetchesReplaced ==
    ASSUME WellFormed, NEW t \in Tabs, NEW F \in [Queries -> Fetch],
           tabs' = [tabs EXCEPT ![t] = [tabs[t] EXCEPT !.fetch = F]],
           UNCHANGED <<version, issued, expired, notices, storage>>
    PROVE  /\ WellFormed'
           /\ \/ ~Own
              \/ Tabs # {t}
              \/ \E q \in Queries : ~RequestOf(F[q], q, storage, expired)
              \/ Own'
<1> DEFINE tab == [tabs[t] EXCEPT !.fetch = F]
<1>1. tab \in Tab
  BY DEF WellFormed, TypeOK, Tab
<1>2. tabs[t] \in Tab
  BY DEF WellFormed, TypeOK
<1>3. /\ tab.auth = tabs[t].auth /\ tab.logins = tabs[t].logins
      /\ tab.socket = tabs[t].socket /\ tab.cache = tabs[t].cache
      /\ tab.fetch = F
  BY <1>2 DEF Tab
<1>4. \/ ~Own
      \/ \E q \in Queries : ~RequestOf(F[q], q, storage, expired)
      \/ Coherent(tab, storage, expired)
  <2> HIDE DEF tab
  <2> QED
    BY <1>3 DEF Own, Coherent
<1>5. tabs' = [tabs EXCEPT ![t] = tab]
  OBVIOUS
<1> HIDE DEF tab
<1> QED
  BY <1>1, <1>3, <1>4, <1>5, FieldsKept, Zenon

-----------------------------------------------------------------------------
(* The operations *)

LEMMA AnswerOwn ==
    ASSUME WellFormed, NEW t \in Tabs, NEW q \in Queries, Answer(t, q)
    PROVE  WellFormed' /\ (Own /\ Tabs = {t} => Own')
<1> DEFINE fetch == tabs[t].fetch[q]
           answer == [of |-> Subject(q, fetch.header),
                      version |-> version[Subject(q, fetch.header)]]
           next == IF Accepts(fetch.header)
                   THEN [status |-> "answered", header |-> fetch.header, data |-> answer]
                   ELSE [status |-> "unauthorized", header |-> fetch.header,
                         data |-> fetch.data]
           F == [tabs[t].fetch EXCEPT ![q] = next]
<1>1. tabs[t] \in Tab /\ fetch \in Fetch /\ tabs[t].fetch \in [Queries -> Fetch]
  BY DEF WellFormed, TypeOK, Tab
<1>2. next \in Fetch
  <2>1. CASE Accepts(fetch.header)
    <3>1. fetch.header \in Sessions
      BY <1>1, <2>1 DEF Fetch, Accepts
    <3>2. answer \in Data
      BY <3>1, SubjectTyped DEF Data, WellFormed, TypeOK
    <3> QED
      BY <1>1, <3>2, <2>1 DEF Fetch
  <2>2. CASE ~Accepts(fetch.header)
    BY <1>1, <2>2 DEF Fetch
  <2> QED
    BY <2>1, <2>2
<1>3. F \in [Queries -> Fetch]
  BY <1>1, <1>2
<1>4. tabs' = [tabs EXCEPT ![t] = [tabs[t] EXCEPT !.fetch = F]]
  <2>1. IF Accepts(fetch.header)
        THEN [fetch EXCEPT !.status = "answered", !.data = answer] = next
        ELSE [fetch EXCEPT !.status = "unauthorized"] = next
    <3>1. fetch \in Fetch
      BY <1>1
    <3> HIDE DEF fetch, answer
    <3>2. [fetch EXCEPT !.status = "answered", !.data = answer] =
              [status |-> "answered", header |-> fetch.header, data |-> answer]
      BY ONLY <3>1, FetchAnswered, Zenon
    <3>3. [fetch EXCEPT !.status = "unauthorized"] =
              [status |-> "unauthorized", header |-> fetch.header,
               data |-> fetch.data]
      BY ONLY <3>1, FetchMarked, Zenon
    <3> QED
      BY ONLY <3>2, <3>3, Zenon
  <2>2. tabs' = [tabs EXCEPT ![t].fetch[q] =
             IF Accepts(fetch.header)
             THEN [fetch EXCEPT !.status = "answered", !.data = answer]
             ELSE [fetch EXCEPT !.status = "unauthorized"]]
    BY Zenon DEF Answer
  <2> HIDE DEF next
  <2>3. tabs' = [tabs EXCEPT ![t].fetch[q] = next]
    BY <2>1, <2>2
  <2> QED
    BY <2>3
<1>5. Own => \A p \in Queries : RequestOf(F[p], p, storage, expired)
  <2> SUFFICES ASSUME Own, NEW p \in Queries
               PROVE  RequestOf(F[p], p, storage, expired)
    OBVIOUS
  <2>1. RequestOf(tabs[t].fetch[p], p, storage, expired)
    BY DEF Own, Coherent
  <2>2. CASE p # q
    <3> HIDE DEF next
    <3> QED
      BY <1>1, <2>1, <2>2
  <2>3. CASE p = q
    <3>1. F[p] = next
      BY <1>1, <2>3
    <3>2. fetch.status = "sent"
      BY DEF Answer
    <3>3. storage # None /\ fetch.header = storage
      BY <2>1, <2>3, <3>2 DEF RequestOf
    <3> HIDE DEF fetch
    <3>4. CASE Accepts(fetch.header)
      BY <3>1, <3>3, <3>4, <2>3 DEF RequestOf
    <3>5. CASE ~Accepts(fetch.header)
      BY <3>1, <3>3, <3>5, <2>3 DEF RequestOf, Accepts
    <3> QED
      BY <3>4, <3>5
  <2> QED
    BY <2>2, <2>3
<1>6. UNCHANGED <<version, issued, expired, notices, storage>>
  BY DEF Answer
<1> HIDE DEF F
<1> QED
  BY <1>3, <1>4, <1>5, <1>6, FetchesReplaced

(* The queries that are sent again carry the session in storage. *)
LEMMA SendOwn ==
    ASSUME WellFormed, NEW t \in Tabs, NEW qs,
           qs # {} => tabs[t].auth # None,
           tabs' = [tabs EXCEPT ![t].fetch = Send(t, @, qs)],
           UNCHANGED <<version, issued, expired, notices, storage>>
    PROVE  WellFormed' /\ (Own /\ Tabs = {t} => Own')
<1>1. tabs[t].fetch \in [Queries -> Fetch] /\ storage \in Sessions \cup {None}
  BY DEF WellFormed, TypeOK, Tab
<1> DEFINE F == Send(t, tabs[t].fetch, qs)
<1>2. /\ F \in [Queries -> Fetch]
      /\ \A q \in Queries :
            F[q] = IF q \in qs
                   THEN [status |-> "sent", header |-> storage, data |-> NoData]
                   ELSE tabs[t].fetch[q]
  BY <1>1, SendTyped
<1>3. tabs' = [tabs EXCEPT ![t] = [tabs[t] EXCEPT !.fetch = F]]
  OBVIOUS
<1> HIDE DEF F
<1>4. ASSUME Own, NEW q \in Queries
      PROVE  RequestOf(F[q], q, storage, expired)
  <2>1. RequestOf(tabs[t].fetch[q], q, storage, expired) /\ tabs[t].auth = storage
    BY <1>4 DEF Own, Coherent
  <2>2. CASE q \in qs
    BY <1>2, <2>1, <2>2 DEF RequestOf
  <2>3. CASE q \notin qs
    BY <1>2, <2>1, <2>3
  <2> QED
    BY <2>2, <2>3
<1> QED
  BY <1>2, <1>3, <1>4, FetchesReplaced

LEMMA PollOwn ==
    ASSUME WellFormed, NEW t \in Tabs, NEW q \in Queries, Poll(t, q)
    PROVE  WellFormed' /\ (Own /\ Tabs = {t} => Own')
<1>1. /\ tabs' = [tabs EXCEPT ![t].fetch = Send(t, @, {q})]
      /\ UNCHANGED <<version, issued, expired, notices, storage>>
      /\ tabs[t].auth # None
  BY DEF Poll
<1> QED
  BY <1>1, SendOwn

LEMMA DeliverOwn ==
    ASSUME WellFormed, NEW t \in Tabs, NEW x \in Subjects, Deliver(t, x)
    PROVE  WellFormed' /\ (Own /\ Tabs = {t} => Own')
<1> DEFINE q == IF x = Market THEN "market" ELSE "account"
<1>1. /\ tabs' = [tabs EXCEPT ![t].fetch = Send(t, @, Invalidated(t, {q}))]
      /\ UNCHANGED <<version, issued, expired, notices, storage>>
  BY DEF Deliver
<1>2. Invalidated(t, {q}) # {} => tabs[t].auth # None
  BY DEF Invalidated
<1> HIDE DEF q
<1> QED
  BY <1>1, <1>2, SendOwn

LEMMA FetchFailsOwn ==
    ASSUME WellFormed, NEW t \in Tabs, NEW q \in Queries, FetchFails(t, q)
    PROVE  WellFormed' /\ (Own /\ Tabs = {t} => Own')
<1> DEFINE F == [tabs[t].fetch EXCEPT ![q] = NoFetch]
<1>1. tabs[t].fetch \in [Queries -> Fetch]
  BY DEF WellFormed, TypeOK, Tab
<1>2. /\ F \in [Queries -> Fetch] /\ F[q] = NoFetch
      /\ \A p \in Queries \ {q} : F[p] = tabs[t].fetch[p]
  BY <1>1, NoDataTyped
<1>3. /\ tabs' = [tabs EXCEPT ![t] = [tabs[t] EXCEPT !.fetch = F]]
      /\ UNCHANGED <<version, issued, expired, notices, storage>>
  BY DEF FetchFails
<1> HIDE DEF F
<1>4. RequestOf(NoFetch, q, storage, expired)
  BY DEF RequestOf, NoFetch
<1>5. Own => \A p \in Queries : RequestOf(F[p], p, storage, expired)
  BY <1>2, <1>4 DEF Own, Coherent
<1> QED
  BY <1>2, <1>3, <1>5, FetchesReplaced

(* The answer to an order request, which may come in a later session. *)
LEMMA OrderAnsweredOwn ==
    ASSUME WellFormed, NEW t \in Tabs, OrderAnswered(t)
    PROVE  WellFormed' /\ (Own /\ Tabs = {t} => Own')
<1> DEFINE qs == Invalidated(t, Queries)
           F == Send(t, tabs[t].fetch, qs)
           tab == [tabs[t] EXCEPT !.orders = FALSE, !.fetch = F]
<1>1. tabs[t].fetch \in [Queries -> Fetch] /\ storage \in Sessions \cup {None}
      /\ tabs[t] \in Tab
  BY DEF WellFormed, TypeOK, Tab
<1>2. /\ F \in [Queries -> Fetch]
      /\ \A q \in Queries :
            F[q] = IF q \in qs
                   THEN [status |-> "sent", header |-> storage, data |-> NoData]
                   ELSE tabs[t].fetch[q]
  <2> HIDE DEF qs
  <2> QED
    BY <1>1, SendTyped
<1>3. tabs' = [tabs EXCEPT ![t] = tab]
  BY DEF OrderAnswered, WellFormed, TypeOK
<1>4. UNCHANGED <<version, issued, expired, notices, storage>>
  BY DEF OrderAnswered
<1>5. qs # {} => tabs[t].auth # None
  BY DEF Invalidated
<1> HIDE DEF F, qs
<1>6. /\ tab \in Tab /\ tab.fetch = F
      /\ tab.auth = tabs[t].auth /\ tab.logins = tabs[t].logins
      /\ tab.socket = tabs[t].socket /\ tab.cache = tabs[t].cache
  BY <1>1, <1>2 DEF Tab
<1> HIDE DEF tab
<1>7. ASSUME Own
      PROVE  Coherent(tab, storage, expired)
  <2>1. Coherent(tabs[t], storage, expired)
    BY <1>7 DEF Own
  <2>2. ASSUME NEW q \in Queries
        PROVE  RequestOf(F[q], q, storage, expired)
    <3>1. CASE q \in qs
      BY <1>2, <1>5, <2>1, <3>1 DEF RequestOf, Coherent
    <3>2. CASE q \notin qs
      BY <1>2, <2>1, <3>2 DEF Coherent
    <3> QED
      BY <3>1, <3>2
  <2> QED
    BY <1>6, <2>1, <2>2 DEF Coherent
<1> QED
  BY <1>3, <1>4, <1>6, <1>7, FieldsKept, Zenon

LEMMA ReceiveOwn ==
    ASSUME WellFormed, NEW t \in Tabs, NEW q \in Queries, Receive(t, q)
    PROVE  WellFormed' /\ (Own /\ Tabs = {t} => Own')
<1> DEFINE data == tabs[t].fetch[q].data
           C == [tabs[t].cache EXCEPT ![q] = data]
           F == [tabs[t].fetch EXCEPT ![q] = NoFetch]
           tab == [tabs[t] EXCEPT !.cache = C, !.fetch = F]
<1>1. /\ tabs[t] \in Tab
      /\ tabs[t].fetch \in [Queries -> Fetch] /\ tabs[t].cache \in [Queries -> Data]
      /\ data \in Data
  BY DEF WellFormed, TypeOK, Tab, Fetch
<1>2. tabs' = [tabs EXCEPT ![t] = tab]
  BY <1>1 DEF Receive, WellFormed, TypeOK
<1>3. /\ C \in [Queries -> Data] /\ F \in [Queries -> Fetch]
      /\ C[q] = data /\ F[q] = NoFetch
      /\ \A p \in Queries \ {q} : C[p] = tabs[t].cache[p] /\ F[p] = tabs[t].fetch[p]
  BY <1>1, NoDataTyped
<1>4. /\ UNCHANGED <<version, issued, expired, notices, storage>>
      /\ tabs[t].fetch[q].status = "answered"
  BY DEF Receive
<1> HIDE DEF C, F
<1>5. /\ tab \in Tab /\ tab.fetch = F /\ tab.cache = C
      /\ tab.auth = tabs[t].auth /\ tab.logins = tabs[t].logins
      /\ tab.socket = tabs[t].socket
  BY <1>1, <1>3 DEF Tab
<1> HIDE DEF tab
<1>6. ASSUME Own
      PROVE  Coherent(tab, storage, expired)
  <2>1. Coherent(tabs[t], storage, expired)
    BY <1>6 DEF Own
  <2>2. ASSUME NEW p \in Queries
        PROVE  ShownOf(C[p], p, storage) /\ RequestOf(F[p], p, storage, expired)
    <3>1. /\ ShownOf(tabs[t].cache[p], p, storage)
          /\ RequestOf(tabs[t].fetch[p], p, storage, expired)
      BY <2>1 DEF Coherent
    <3>2. CASE p = q
      BY <1>3, <1>4, <3>1, <3>2 DEF ShownOf, RequestOf, NoFetch
    <3>3. CASE p # q
      BY <1>3, <3>1, <3>3
    <3> QED
      BY <3>2, <3>3
  <2> QED
    BY <1>5, <2>1, <2>2 DEF Coherent
<1> QED
  BY <1>2, <1>4, <1>5, <1>6, FieldsKept, Zenon

(* A tab that was just opened has nothing to show or to wait for. *)
LEMMA OpenedCoherent ==
    ASSUME NEW s \in Sessions \cup {None}, NEW gone
    PROVE  Coherent(Opened(s), s, gone)
BY DEF Coherent, Opened, ConnectFor, ShownOf, RequestOf, NoFetch

(* The tab in another session, with its requests of logins and orders. *)
LEMMA SessionReplaced ==
    ASSUME WellFormed, NEW t \in Tabs, NEW s \in issued \cup {None},
           NEW tab \in Tab,
           tabs' = [tabs EXCEPT ![t] = tab], tab.auth = s,
           tab.logins \subseteq tabs[t].logins,
           storage' \in issued \cup {None},
           UNCHANGED <<version, issued, expired, notices>>
    PROVE  /\ WellFormed'
           /\ Tabs = {t} /\ Coherent(tab, storage', expired) => Own'
<1>1. /\ tab.auth \in issued' \cup {None}
      /\ \A login \in tab.logins : login.session \in issued'
      /\ storage' \in issued' \cup {None}
      /\ version' \in [Subjects -> 0..MaxChanges]
      /\ issued \subseteq issued' /\ issued' \subseteq Sessions
      /\ expired' \subseteq issued' /\ notices' \subseteq Subjects
      /\ expired' = expired
  BY DEF WellFormed, TypeOK, LoginsIssued
<1> QED
  BY <1>1, TabReplaced, Zenon

LEMMA EndSessionOwn ==
    ASSUME WellFormed, NEW t \in Tabs, EndSession(t),
           UNCHANGED <<version, issued, expired, notices>>
    PROVE  WellFormed' /\ (Tabs = {t} => Own')
<1> DEFINE tab == [Opened(None) EXCEPT !.logins = tabs[t].logins,
                                       !.orders = tabs[t].orders]
<1>1. Opened(None) \in Tab /\ tabs[t] \in Tab
  BY OpenedTyped DEF WellFormed, TypeOK
<1>2. /\ tab \in Tab /\ tab.logins = tabs[t].logins
      /\ tab.auth = Opened(None).auth /\ tab.cache = Opened(None).cache
      /\ tab.fetch = Opened(None).fetch /\ tab.socket = Opened(None).socket
  BY <1>1 DEF Tab
<1>3. /\ tabs' = [tabs EXCEPT ![t] = tab]
      /\ storage' = None
  BY DEF EndSession
<1> HIDE DEF tab
<1>4. Opened(None).auth = None
  BY DEF Opened
<1>5. Coherent(tab, None, expired)
  BY <1>2, OpenedCoherent DEF Coherent
<1> QED
  BY <1>2, <1>3, <1>4, <1>5, SessionReplaced

LEMMA LogoutOwn ==
    ASSUME WellFormed, NEW t \in Tabs, Logout(t)
    PROVE  WellFormed' /\ (Tabs = {t} => Own')
BY EndSessionOwn DEF Logout

LEMMA ReceiveUnauthorizedOwn ==
    ASSUME WellFormed, NEW t \in Tabs, NEW q \in Queries,
           ReceiveUnauthorized(t, q)
    PROVE  WellFormed' /\ (Tabs = {t} => Own')
BY EndSessionOwn DEF ReceiveUnauthorized

LEMMA ReloadOwn ==
    ASSUME WellFormed, NEW t \in Tabs, Reload(t)
    PROVE  WellFormed' /\ (Tabs = {t} => Own')
<1> DEFINE tab == Opened(storage)
<1>1. storage \in Sessions \cup {None} /\ storage \in issued \cup {None}
  BY DEF WellFormed, TypeOK
<1>2. tab \in Tab /\ Coherent(tab, storage, expired)
  BY <1>1, OpenedTyped, OpenedCoherent
<1>3. tab.auth = storage /\ tab.logins = {}
  BY DEF Opened
<1>4. /\ tabs' = [tabs EXCEPT ![t] = tab]
      /\ storage' = storage
      /\ UNCHANGED <<version, issued, expired, notices>>
  BY DEF Reload
<1> HIDE DEF tab
<1>5. tab.logins \subseteq tabs[t].logins /\ storage' \in issued \cup {None}
  BY <1>1, <1>3, <1>4
<1> QED
  BY <1>1, <1>2, <1>3, <1>4, <1>5, SessionReplaced

LEMMA LoginOwn ==
    ASSUME WellFormed, NEW t \in Tabs, NEW login \in tabs[t].logins,
           Login(t, login)
    PROVE  WellFormed' /\ (Tabs = {t} => Own')
<1> DEFINE s == login.session
           data == [of |-> Owner[s], version |-> login.version]
           C == [Opened(s).cache EXCEPT !["account"] = data]
           tab == [Opened(s) EXCEPT !.cache = C,
                                    !.logins = tabs[t].logins \ {login},
                                    !.orders = tabs[t].orders]
<1>1. /\ tabs[t] \in Tab /\ s \in Sessions /\ s \in issued
      /\ login.version \in 0..MaxChanges
  BY DEF WellFormed, TypeOK, LoginsIssued, Tab
<1>2. s # None /\ Owner[s] \in Subjects /\ "account" \in Queries
  BY <1>1, SessionAssumption DEF Subjects
<1>3. Opened(s) \in Tab /\ Opened(s).cache = [q \in Queries |-> NoData]
  BY <1>1, OpenedTyped DEF Opened
<1>4. data \in Data
  BY <1>1, <1>2 DEF Data
<1>5. /\ C \in [Queries -> Data] /\ C["account"] = data
      /\ \A q \in Queries \ {"account"} : C[q] = NoData
  BY <1>2, <1>3, <1>4, NoDataTyped
<1>6. /\ tabs' = [tabs EXCEPT ![t] = tab]
      /\ storage' = s
      /\ UNCHANGED <<version, issued, expired, notices>>
  BY DEF Login
<1>7. Coherent(Opened(s), s, expired) /\ Opened(s).auth = s
  BY <1>1, OpenedCoherent DEF Opened
<1>8. Subject("account", s) = Owner[s]
  BY DEF Subject
<1>9. \A q \in Queries : ShownOf(C[q], q, s)
  BY <1>2, <1>5, <1>8 DEF ShownOf
<1> HIDE DEF C, data
<1>10. /\ tab \in Tab /\ tab.auth = Opened(s).auth
       /\ tab.socket = Opened(s).socket /\ tab.fetch = Opened(s).fetch
       /\ tab.cache = C /\ tab.logins = tabs[t].logins \ {login}
  BY <1>1, <1>3, <1>5 DEF Tab
<1> HIDE DEF tab
<1>11. Coherent(tab, s, expired)
  BY <1>7, <1>9, <1>10 DEF Coherent
<1>12. tab.logins \subseteq tabs[t].logins /\ storage' \in issued \cup {None}
  BY <1>1, <1>6, <1>10
<1> QED
  BY <1>1, <1>6, <1>7, <1>10, <1>11, <1>12, SessionReplaced

LEMMA RequestLoginOwn ==
    ASSUME WellFormed, NEW t \in Tabs, NEW s \in Sessions, RequestLogin(t, s)
    PROVE  WellFormed' /\ (Own /\ Tabs = {t} => Own')
<1> DEFINE login == [session |-> s, version |-> version[Owner[s]]]
           L == tabs[t].logins \cup {login}
           tab == [tabs[t] EXCEPT !.logins = L]
<1>1. tabs[t] \in Tab
  BY DEF WellFormed, TypeOK
<1>2. Owner[s] \in Subjects
  BY SessionAssumption DEF Subjects
<1>3. login \in [session : Sessions, version : 0..MaxChanges] /\ login.session = s
  BY <1>2 DEF WellFormed, TypeOK
<1> HIDE DEF login
<1>4. /\ tabs' = [tabs EXCEPT ![t] = tab]
      /\ issued' = issued \cup {s}
      /\ UNCHANGED <<version, expired, notices, storage>>
  BY DEF RequestLogin, login
<1>5. /\ tab \in Tab /\ tab.auth = tabs[t].auth /\ tab.socket = tabs[t].socket
      /\ tab.fetch = tabs[t].fetch /\ tab.cache = tabs[t].cache
      /\ tab.logins = L
  BY <1>1, <1>3 DEF Tab
<1> HIDE DEF tab
<1>6. /\ tab.auth \in issued' \cup {None}
      /\ \A l \in tab.logins : l.session \in issued'
      /\ storage' \in issued' \cup {None}
      /\ version' \in [Subjects -> 0..MaxChanges]
      /\ issued \subseteq issued' /\ issued' \subseteq Sessions
      /\ expired' \subseteq issued' /\ notices' \subseteq Subjects
  BY <1>3, <1>4, <1>5 DEF WellFormed, TypeOK, LoginsIssued
<1>7. Own => Coherent(tab, storage', expired')
  BY <1>4, <1>5 DEF Own, Coherent
<1> QED
  BY <1>4, <1>5, <1>6, <1>7, TabReplaced, Zenon

LEMMA RequestOrderOwn ==
    ASSUME WellFormed, NEW t \in Tabs, RequestOrder(t)
    PROVE  WellFormed' /\ (Own /\ Tabs = {t} => Own')
<1> DEFINE tab == [tabs[t] EXCEPT !.orders = TRUE]
<1>1. tabs[t] \in Tab
  BY DEF WellFormed, TypeOK
<1>2. /\ tabs' = [tabs EXCEPT ![t] = tab]
      /\ version' = [version EXCEPT ![Owner[storage]] = @ + 1]
      /\ version[Owner[storage]] < MaxChanges
      /\ notices' = notices \cup {Owner[storage]}
      /\ UNCHANGED <<issued, expired, storage>>
      /\ storage # None
  BY DEF RequestOrder, Accepts
<1>3. storage \in Sessions /\ Owner[storage] \in Subjects
  BY <1>2, SessionAssumption DEF WellFormed, TypeOK, Subjects
<1>4. /\ tab \in Tab /\ tab.auth = tabs[t].auth /\ tab.socket = tabs[t].socket
      /\ tab.fetch = tabs[t].fetch /\ tab.cache = tabs[t].cache
      /\ tab.logins = tabs[t].logins
  BY <1>1 DEF Tab
<1> HIDE DEF tab
<1>5. /\ tab.auth \in issued' \cup {None}
      /\ \A l \in tab.logins : l.session \in issued'
      /\ storage' \in issued' \cup {None}
      /\ version' \in [Subjects -> 0..MaxChanges]
      /\ issued \subseteq issued' /\ issued' \subseteq Sessions
      /\ expired' \subseteq issued' /\ notices' \subseteq Subjects
  BY <1>2, <1>3, <1>4, SessionAssumption DEF WellFormed, TypeOK, LoginsIssued
<1>6. Own => Coherent(tab, storage', expired')
  BY <1>2, <1>4 DEF Own, Coherent
<1> QED
  BY <1>2, <1>4, <1>5, <1>6, TabReplaced, Zenon

(* The socket keeps its session and is not closed by what happens on it. *)
LEMMA SetSocketOwn ==
    ASSUME WellFormed, NEW t \in Tabs, NEW from, NEW to,
           to \in {"offline", "connected", "joined", "refused"},
           "closed" \notin from, SetSocket(t, from, to)
    PROVE  WellFormed' /\ (Own /\ Tabs = {t} => Own')
<1> DEFINE S == [tabs[t].socket EXCEPT !.status = to]
           tab == [tabs[t] EXCEPT !.socket = S]
<1>1. tabs[t] \in Tab /\ tabs[t].socket \in Socket
  BY DEF WellFormed, TypeOK, Tab
<1>2. S \in Socket /\ S.status = to /\ S.session = tabs[t].socket.session
  BY <1>1 DEF Socket
<1>3. /\ tabs' = [tabs EXCEPT ![t] = tab]
      /\ UNCHANGED <<version, issued, expired, notices, storage>>
      /\ tabs[t].socket.status \in from
  BY DEF SetSocket
<1> HIDE DEF S
<1>4. /\ tab \in Tab /\ tab.auth = tabs[t].auth /\ tab.socket = S
      /\ tab.fetch = tabs[t].fetch /\ tab.cache = tabs[t].cache
      /\ tab.logins = tabs[t].logins
  BY <1>1, <1>2 DEF Tab
<1> HIDE DEF tab
<1>5. Own => Coherent(tab, storage, expired)
  BY <1>2, <1>3, <1>4 DEF Own, Coherent
<1> QED
  BY <1>3, <1>4, <1>5, FieldsKept, Zenon

(* The steps that touch no tab. *)
LEMMA TabsKept ==
    ASSUME WellFormed, tabs' = tabs, UNCHANGED <<issued, storage>>,
           version' \in [Subjects -> 0..MaxChanges], notices' \subseteq Subjects,
           expired \subseteq expired', expired' \subseteq issued
    PROVE  WellFormed' /\ (Own => Own')
<1>1. WellFormed'
  BY DEF WellFormed, TypeOK, LoginsIssued
<1> QED
  BY <1>1 DEF Own, Coherent, RequestOf

-----------------------------------------------------------------------------
(* The specification *)

LEMMA InitOwn ==
    Init => Own
<1> SUFFICES ASSUME Init PROVE Own
  OBVIOUS
<1>1. Opened(None) \in Tab /\ Coherent(Opened(None), None, {})
  BY OpenedTyped, OpenedCoherent
<1>2. Opened(None).auth = None /\ Opened(None).logins = {}
  BY DEF Opened
<1> QED
  BY <1>1, <1>2, SessionAssumption DEF Init, Own, WellFormed, TypeOK, LoginsIssued

LEMMA NextOwn ==
    ASSUME WellFormed, [Next]_vars
    PROVE  WellFormed' /\ ((\E t : Tabs = {t}) /\ Own => Own')
<1>1. ASSUME NEW x \in Subjects, Change(x)
      PROVE  WellFormed' /\ (Own => Own')
  <2>1. /\ version' \in [Subjects -> 0..MaxChanges] /\ notices' \subseteq Subjects
        /\ UNCHANGED <<issued, storage, expired, tabs>> /\ expired \subseteq issued
    BY <1>1, SessionAssumption DEF Change, WellFormed, TypeOK
  <2> QED
    BY <2>1, TabsKept
<1>2. ASSUME NEW s \in Sessions, Expire(s)
      PROVE  WellFormed' /\ (Own => Own')
  <2>1. /\ version' \in [Subjects -> 0..MaxChanges] /\ notices' \subseteq Subjects
        /\ UNCHANGED <<issued, storage, tabs>>
        /\ expired \subseteq expired' /\ expired' \subseteq issued
    BY <1>2 DEF Expire, WellFormed, TypeOK
  <2> QED
    BY <2>1, TabsKept
<1>3. ASSUME NEW x \in Subjects, Forget(x)
      PROVE  WellFormed' /\ (Own => Own')
  <2>1. /\ version' \in [Subjects -> 0..MaxChanges] /\ notices' \subseteq Subjects
        /\ UNCHANGED <<issued, storage, expired, tabs>> /\ expired \subseteq issued
    BY <1>3 DEF Forget, WellFormed, TypeOK
  <2> QED
    BY <2>1, TabsKept
<1>4. ASSUME UNCHANGED vars
      PROVE  WellFormed' /\ (Own => Own')
  BY <1>4 DEF vars, Own, WellFormed, TypeOK, LoginsIssued, Coherent, RequestOf, ShownOf
<1>5. ASSUME NEW t \in Tabs, Connect(t) \/ Drop(t) \/ HandleConnection(t)
      PROVE  WellFormed' /\ (Own /\ Tabs = {t} => Own')
  <2>1. CASE Connect(t)
    BY <2>1, SetSocketOwn DEF Connect
  <2>2. CASE Drop(t)
    BY <2>2, SetSocketOwn DEF Drop
  <2>3. CASE HandleConnection(t)
    <3>1. \E to \in {"joined", "refused"} : SetSocket(t, {"connected"}, to)
      BY <2>3 DEF HandleConnection
    <3> QED
      BY <3>1, SetSocketOwn
  <2> QED
    BY <1>5, <2>1, <2>2, <2>3
<1>6. ASSUME NEW t \in Tabs,
             \/ \E q \in Queries : \/ Answer(t, q)
                                   \/ Poll(t, q)
                                   \/ Receive(t, q)
                                   \/ ReceiveUnauthorized(t, q)
                                   \/ FetchFails(t, q)
             \/ \E s \in Sessions : RequestLogin(t, s)
             \/ \E login \in tabs[t].logins : Login(t, login)
             \/ Logout(t) \/ Reload(t) \/ RequestOrder(t) \/ OrderAnswered(t)
             \/ \E x \in Subjects : Deliver(t, x)
      PROVE  WellFormed' /\ (Own /\ Tabs = {t} => Own')
  BY <1>6, AnswerOwn, PollOwn, ReceiveOwn, ReceiveUnauthorizedOwn, FetchFailsOwn,
     RequestLoginOwn, LoginOwn, LogoutOwn, ReloadOwn, RequestOrderOwn,
     OrderAnsweredOwn, DeliverOwn, Zenon
<1>7. \/ \E x \in Subjects : Change(x) \/ Forget(x)
      \/ \E s \in Sessions : Expire(s)
      \/ UNCHANGED vars
      \/ \E t \in Tabs :
            \/ Connect(t) \/ Drop(t) \/ HandleConnection(t)
            \/ \E q \in Queries : \/ Answer(t, q)
                                  \/ Poll(t, q)
                                  \/ Receive(t, q)
                                  \/ ReceiveUnauthorized(t, q)
                                  \/ FetchFails(t, q)
            \/ \E s \in Sessions : RequestLogin(t, s)
            \/ \E login \in tabs[t].logins : Login(t, login)
            \/ Logout(t) \/ Reload(t) \/ RequestOrder(t) \/ OrderAnswered(t)
            \/ \E x \in Subjects : Deliver(t, x)
  BY Zenon DEF Next
<1>8. ASSUME NEW t \in Tabs, \E u : Tabs = {u}
      PROVE  Tabs = {t}
  BY <1>8
<1> QED
  BY <1>1, <1>2, <1>3, <1>4, <1>5, <1>6, <1>7, <1>8, Zenon

LEMMA OwnImplies ==
    Own => OwnSessionOnly
BY DEF Own, WellFormed, OwnSessionOnly, Coherent, ShownOf, RequestOf

(* With any number of tabs: a tab has no session but one that a login handed  *)
(* out and whose answer it took or another tab stored. *)
THEOREM SessionTypeCorrect == Spec => []TypeOK
<1>1. Init => WellFormed
  BY InitOwn DEF Own
<1>2. WellFormed /\ [Next]_vars => WellFormed'
  BY NextOwn
<1>3. WellFormed => TypeOK
  BY DEF WellFormed
<1> QED
  BY <1>1, <1>2, <1>3, PTL DEF Spec

(* With one tab, the page shows only its own session's data, whatever was in *)
(* flight when it signed in or out (AuthContext, the interceptor that reads  *)
(* the session when a request is sent, and the cache cleared on log-out). *)
THEOREM OwnDataOnly == (\E t : Tabs = {t}) => (Spec => []OwnSessionOnly)
<1> SUFFICES ASSUME \E t : Tabs = {t}
             PROVE  Spec => []OwnSessionOnly
  OBVIOUS
<1>1. Init => Own
  BY InitOwn
<1>2. Own /\ [Next]_vars => Own'
  BY NextOwn DEF Own
<1>3. Own => OwnSessionOnly
  BY OwnImplies
<1> QED
  BY <1>1, <1>2, <1>3, PTL DEF Spec
=============================================================================
