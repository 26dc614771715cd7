---------------------------- MODULE ClientSession ----------------------------
(***************************************************************************)
(* What a browser tab shows of the exchange, and whose it is.              *)
(*                                                                         *)
(*   - a login stores the session in localStorage, which all tabs share,   *)
(*     and in the tab's own state; the exchange page runs while it lasts;  *)
(*   - the page fetches its queries with the stored session, and polls;    *)
(*   - a socket of the session brings the notices of changes, which        *)
(*     invalidate the queries that they concern;                           *)
(*   - a 401 answer to a query, and the sign-out button, end the session.  *)
(*                                                                         *)
(* Requests fail and are answered late, sockets drop, gateways miss        *)
(* notices, sessions expire and tabs are reloaded.  The query cache is     *)
(* React Query's: a query has one fetch at a time, and the answer of a     *)
(* fetch that was cancelled, or whose query was cleared, is dropped.       *)
(***************************************************************************)
EXTENDS Integers, FiniteSets

CONSTANTS
    Tabs,
    Users,
    Sessions,       \* the access tokens that logins hand out
    Owner,          \* whose they are (the token's sub)
    Queries,        \* "account": me, wallet, active orders and history;
                    \* "market": statistics, book and matches
    MaxChanges      \* bound: changes of an account and of the market

None == "none"
Market == "market"
Subjects == Users \cup {Market}

ASSUME SessionAssumption ==
    /\ Owner \in [Sessions -> Users]
    /\ "account" \in Queries /\ Queries \subseteq {"account", "market"}
    /\ None \notin Sessions \cup Subjects /\ Market \notin Users
    /\ MaxChanges \in Nat

VARIABLES
    version,        \* the server's accounts and its market, as change counters
    issued,         \* sessions handed out
    expired,        \* sessions whose token the server does not accept any more
    notices,        \* subjects whose change a gateway may still announce
    storage,        \* the session in localStorage
    tabs

vars == <<version, issued, expired, notices, storage, tabs>>

Data == [of : Subjects \cup {None}, version : 0..MaxChanges]
NoData == [of |-> None, version |-> 0]

\* A request: the session in its Authorization header and its answer.
Fetch == [status : {"idle", "sent", "unauthorized", "answered"},
          header : Sessions \cup {None}, data : Data]
NoFetch == [status |-> "idle", header |-> None, data |-> NoData]

\* A socket is connected before the gateway has put it into its user's room.
Socket == [status : {"closed", "offline", "connected", "joined", "refused"},
           session : Sessions \cup {None}]

\* logins: answers to login requests on their way, with the wallet as it was
\* read; orders: the answer of an order request is on its way.
Tab == [auth : Sessions \cup {None}, cache : [Queries -> Data],
        fetch : [Queries -> Fetch], socket : Socket,
        logins : SUBSET [session : Sessions, version : 0..MaxChanges],
        orders : BOOLEAN]

ConnectFor(s) == [status |-> IF s = None THEN "closed" ELSE "offline",
                  session |-> s]

\* The tab after it was loaded.
Opened(s) == [auth |-> s, cache |-> [q \in Queries |-> NoData],
              fetch |-> [q \in Queries |-> NoFetch],
              socket |-> ConnectFor(s), logins |-> {}, orders |-> FALSE]

Init ==
    /\ version = [x \in Subjects |-> 0]
    /\ issued = {} /\ expired = {} /\ notices = {}
    /\ storage = None
    /\ tabs = [t \in Tabs |-> Opened(None)]

-----------------------------------------------------------------------------
(* The server *)

\* Another client's or the matching engine's change, and its notice.
Change(x) ==
    /\ version[x] < MaxChanges
    /\ version' = [version EXCEPT ![x] = @ + 1]
    /\ notices' = notices \cup {x}
    /\ UNCHANGED <<issued, expired, storage, tabs>>

Expire(s) ==
    /\ s \in issued \ expired
    /\ expired' = expired \cup {s}
    /\ UNCHANGED <<version, issued, notices, storage, tabs>>

\* JwtAuthGuard.
Accepts(s) == s # None /\ s \notin expired

\* Whose data the server returns.
Subject(q, s) == IF q = "market" THEN Market ELSE Owner[s]

Answer(t, q) ==
    LET fetch == tabs[t].fetch[q]
    IN  /\ fetch.status = "sent"
        /\ tabs' = [tabs EXCEPT ![t].fetch[q] =
             IF Accepts(fetch.header)
             THEN [fetch EXCEPT
                     !.status = "answered",
                     !.data = [of |-> Subject(q, fetch.header),
                               version |-> version[Subject(q, fetch.header)]]]
             ELSE [fetch EXCEPT !.status = "unauthorized"]]
        /\ UNCHANGED <<version, issued, expired, notices, storage>>

-----------------------------------------------------------------------------
(* The session *)

\* A login request from the login page; the page may be opened again, and send
\* another one, while the answer is on its way.
RequestLogin(t, s) ==
    /\ tabs[t].auth = None
    /\ s \notin issued
    /\ issued' = issued \cup {s}
    /\ tabs' = [tabs EXCEPT ![t].logins =
                  @ \cup {[session |-> s, version |-> version[Owner[s]]]}]
    /\ UNCHANGED <<version, expired, notices, storage>>

Login(t, login) ==
    /\ login \in tabs[t].logins
    /\ storage' = login.session
    /\ tabs' = [tabs EXCEPT
         ![t] = [Opened(login.session) EXCEPT
                   !.cache["account"] = [of |-> Owner[login.session],
                                         version |-> login.version],
                   !.logins = tabs[t].logins \ {login},
                   !.orders = tabs[t].orders]]
    /\ UNCHANGED <<version, issued, expired, notices>>

\* Mutant: logout without queryClient.clear().
EndSessionKeepingCache(t) ==
    /\ storage' = None
    /\ tabs' = [tabs EXCEPT ![t].auth = None, ![t].socket = ConnectFor(None)]

EndSession(t) ==
    /\ storage' = None
    /\ tabs' = [tabs EXCEPT ![t] = [Opened(None) EXCEPT
                                      !.logins = tabs[t].logins,
                                      !.orders = tabs[t].orders]]

Logout(t) ==
    /\ tabs[t].auth # None
    /\ EndSession(t)
    /\ UNCHANGED <<version, issued, expired, notices>>

Reload(t) ==
    /\ tabs' = [tabs EXCEPT ![t] = Opened(storage)]
    /\ UNCHANGED <<version, issued, expired, notices, storage>>

-----------------------------------------------------------------------------
(* The queries *)

\* The interceptor reads the session when the request is sent.
Send(t, fetches, qs) ==
    [q \in Queries |-> IF q \in qs
                       THEN [NoFetch EXCEPT !.status = "sent",
                                            !.header = storage]
                       ELSE fetches[q]]

\* Mutant: a query that has data is not polled (no refetchInterval).
FetchOnce(t, q) ==
    /\ tabs[t].auth # None
    /\ tabs[t].fetch[q].status = "idle" /\ tabs[t].cache[q] = NoData
    /\ tabs' = [tabs EXCEPT ![t].fetch = Send(t, @, {q})]
    /\ UNCHANGED <<version, issued, expired, notices, storage>>

\* The page is opened, the poll interval has passed, or the browser is online
\* again.
Poll(t, q) ==
    /\ tabs[t].auth # None
    /\ tabs[t].fetch[q].status = "idle"
    /\ tabs' = [tabs EXCEPT ![t].fetch = Send(t, @, {q})]
    /\ UNCHANGED <<version, issued, expired, notices, storage>>

\* invalidateQueries: a fetch that runs is cancelled and sent again, unless the
\* query has no data yet: then it is left to end.
Invalidated(t, qs) ==
    IF tabs[t].auth = None THEN {}
    ELSE {q \in qs \cap Queries :
                   \/ tabs[t].fetch[q].status = "idle"
                   \/ tabs[t].cache[q] # NoData}

Receive(t, q) ==
    /\ tabs[t].fetch[q].status = "answered"
    /\ tabs' = [tabs EXCEPT ![t].cache[q] = tabs[t].fetch[q].data,
                            ![t].fetch[q] = NoFetch]
    /\ UNCHANGED <<version, issued, expired, notices, storage>>

\* hasAuthFailure, and its effect.
ReceiveUnauthorized(t, q) ==
    /\ tabs[t].fetch[q].status = "unauthorized"
    /\ EndSession(t)
    /\ UNCHANGED <<version, issued, expired, notices>>

\* No answer, or another error: shown until the next fetch; not retried.
FetchFails(t, q) ==
    /\ tabs[t].fetch[q].status # "idle"
    /\ tabs' = [tabs EXCEPT ![t].fetch[q] = NoFetch]
    /\ UNCHANGED <<version, issued, expired, notices, storage>>

\* An order is created or cancelled.
RequestOrder(t) ==
    /\ tabs[t].auth # None /\ ~tabs[t].orders
    /\ Accepts(storage)
    /\ version[Owner[storage]] < MaxChanges
    /\ version' = [version EXCEPT ![Owner[storage]] = @ + 1]
    /\ notices' = notices \cup {Owner[storage]}
    /\ tabs' = [tabs EXCEPT ![t].orders = TRUE]
    /\ UNCHANGED <<issued, expired, storage>>

\* The answer invalidates everything, in whatever session it arrives.
OrderAnswered(t) ==
    /\ tabs[t].orders
    /\ tabs' = [tabs EXCEPT ![t].orders = FALSE,
                            ![t].fetch = Send(t, @, Invalidated(t, Queries))]
    /\ UNCHANGED <<version, issued, expired, notices, storage>>

-----------------------------------------------------------------------------
(* The socket *)

SetSocket(t, from, to) ==
    /\ tabs[t].socket.status \in from
    /\ tabs' = [tabs EXCEPT ![t].socket.status = to]
    /\ UNCHANGED <<version, issued, expired, notices, storage>>

Connect(t) == SetSocket(t, {"offline"}, "connected")

Drop(t) == SetSocket(t, {"connected", "joined"}, "offline")

\* handleConnection; a client that the server disconnects does not return.
HandleConnection(t) ==
    SetSocket(t, {"connected"}, IF Accepts(tabs[t].socket.session)
                                THEN "joined" ELSE "refused")

\* dispatchEvent: market changes go to every socket, account changes to the
\* user's room.
Reaches(x, socket) ==
    \/ x = Market /\ socket.status \in {"connected", "joined"}
    \/ x # Market /\ socket.status = "joined" /\ Owner[socket.session] = x

Deliver(t, x) ==
    /\ x \in notices
    /\ Reaches(x, tabs[t].socket)
    /\ LET q == IF x = Market THEN "market" ELSE "account"
       IN  tabs' = [tabs EXCEPT ![t].fetch = Send(t, @, Invalidated(t, {q}))]
    /\ UNCHANGED <<version, issued, expired, notices, storage>>

\* The gateways passed a notice on, or their subscriptions missed it.
Forget(x) ==
    /\ x \in notices
    /\ notices' = notices \ {x}
    /\ UNCHANGED <<version, issued, expired, storage, tabs>>

-----------------------------------------------------------------------------
Next ==
    \/ \E x \in Subjects : Change(x)
    \/ \E s \in Sessions : Expire(s)
    \/ \E t \in Tabs, q \in Queries : Answer(t, q)
    \/ \E t \in Tabs, s \in Sessions : RequestLogin(t, s)
    \/ \E t \in Tabs : \E login \in tabs[t].logins : Login(t, login)
    \/ \E t \in Tabs : Logout(t)
    \/ \E t \in Tabs : Reload(t)
    \/ \E t \in Tabs, q \in Queries : Poll(t, q)
    \/ \E t \in Tabs, q \in Queries : Receive(t, q)
    \/ \E t \in Tabs, q \in Queries : ReceiveUnauthorized(t, q)
    \/ \E t \in Tabs, q \in Queries : FetchFails(t, q)
    \/ \E t \in Tabs : RequestOrder(t)
    \/ \E t \in Tabs : OrderAnswered(t)
    \/ \E t \in Tabs : Connect(t)
    \/ \E t \in Tabs : Drop(t)
    \/ \E t \in Tabs : HandleConnection(t)
    \/ \E t \in Tabs, x \in Subjects : Deliver(t, x)
    \/ \E x \in Subjects : Forget(x)

Spec == Init /\ [][Next]_vars

\* The page polls, the server answers, notices pass; not every fetch of a query
\* fails.  Nothing is assumed of sockets.
FairSpec ==
    /\ Spec
    /\ \A x \in Subjects : WF_vars(Forget(x))
    /\ \A t \in Tabs, q \in Queries :
          /\ WF_vars(Poll(t, q))
          /\ SF_vars(Answer(t, q))
          /\ SF_vars(Receive(t, q) \/ ReceiveUnauthorized(t, q))

-----------------------------------------------------------------------------
(* Properties *)

\* Everything holds what it can; a tab's session was handed out by a login.
TypeOK ==
    /\ version \in [Subjects -> 0..MaxChanges]
    /\ issued \subseteq Sessions /\ expired \subseteq issued
    /\ notices \subseteq Subjects
    /\ storage \in issued \cup {None}
    /\ tabs \in [Tabs -> Tab]
    /\ \A t \in Tabs : tabs[t].auth \in issued \cup {None}

\* With one tab, whatever was in flight when sessions changed: the page shows
\* and will be given the data of its own session's user, it is told that its
\* session expired only when it did, its socket is in its own user's room, and
\* after a session nothing of it is left.
OwnSessionOnly ==
    /\ TypeOK
    /\ \A t \in Tabs :
        LET tab == tabs[t]
        IN  /\ tab.auth = storage
            /\ tab.socket.session = tab.auth
            /\ tab.socket.status = "closed" <=> tab.auth = None
            /\ \A q \in Queries :
                  /\ tab.cache[q] # NoData =>
                        /\ tab.auth # None
                        /\ tab.cache[q].of = Subject(q, tab.auth)
                  /\ tab.fetch[q].status = "answered" =>
                        /\ tab.auth # None
                        /\ tab.fetch[q].data.of = Subject(q, tab.auth)
                  /\ tab.fetch[q].status = "unauthorized" =>
                        tab.auth \in expired

\* The page shows the account or the market as the server has it.
UpToDate(t, q) ==
    LET x == Subject(q, tabs[t].auth)
    IN  tabs[t].cache[q] = [of |-> x, version |-> version[x]]

\* With one tab, the page catches up with the server although every notice may
\* be lost and every socket be down.
CatchesUp ==
    \A t \in Tabs, q \in Queries :
        []<>(tabs[t].auth = None \/ UpToDate(t, q))
=============================================================================
