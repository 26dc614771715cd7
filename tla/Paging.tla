------------------------------- MODULE Paging -------------------------------
(***************************************************************************)
(* One paged table of the exchange page: the rows in the database, the     *)
(* requests for its pages, whose count and rows are two statements, and    *)
(* the page and page size that the user chooses in the browser.            *)
(*                                                                         *)
(* Items are numbered in the order of their sequence, and the table lists *)
(* them from the last to the first.  They are added and, as active orders  *)
(* do, end.  (A search makes another table of the items that it matches.)  *)
(***************************************************************************)
EXTENDS Integers, FiniteSets

CONSTANTS
    Count,          \* bound: how many items there ever are
    Sizes,          \* PAGE_SIZE_OPTIONS
    DefaultSize     \* the first of them

Items == 1..Count
Pages == 1..Count

ASSUME PagingAssumption ==
    /\ Count \in Nat \ {0}
    /\ Sizes \subseteq Nat \ {0} /\ DefaultSize \in Sizes

VARIABLES
    present,        \* the rows that the table lists
    next,           \* the number of the next item
    view,           \* usePaginatedTableState
    fetches,        \* requests under way, by query key
    cache           \* the answers that the query cache holds, by query key

vars == <<present, next, view, fetches, cache>>

\* The query's key, of a page that can exist.
Keys == {k \in [page : Pages, size : Sizes] : (k.page - 1) * k.size < Count}

\* An answer: the rows of the page, and how many items there are.
NoAnswer == [rows |-> {}, total |-> 0]

\* A request: the statements that have not run and what the others have read.
Asked == [todo |-> {"count", "findMany"}, answer |-> NoAnswer]

Init ==
    /\ present = {}
    /\ next = 1
    /\ view = [page |-> 1, size |-> DefaultSize]
    /\ fetches = [k \in {} |-> Asked]
    /\ cache = [k \in {} |-> NoAnswer]

-----------------------------------------------------------------------------
(* The table *)

Insert ==
    /\ next \in Items
    /\ present' = present \cup {next}
    /\ next' = next + 1
    /\ UNCHANGED <<view, fetches, cache>>

Remove ==
    /\ \E i \in present : present' = present \ {i}
    /\ UNCHANGED <<next, view, fetches, cache>>

-----------------------------------------------------------------------------
(* The two statements *)

Position(i, items) == Cardinality({j \in items : j >= i})

\* orderBy, skip and take.
RowsOf(items, page, size) ==
    {i \in items : Position(i, items) \in ((page - 1) * size + 1)..(page * size)}

\* Promise.all: both are under way at once, each with a snapshot of its own.
CountTotal(k) ==
    /\ k \in DOMAIN fetches /\ "count" \in fetches[k].todo
    /\ fetches' = [fetches EXCEPT
                      ![k].todo = @ \ {"count"},
                      ![k].answer.total = Cardinality(present)]
    /\ UNCHANGED <<present, next, view, cache>>

FindRows(k) ==
    /\ k \in DOMAIN fetches /\ "findMany" \in fetches[k].todo
    /\ fetches' = [fetches EXCEPT
                      ![k].todo = @ \ {"findMany"},
                      ![k].answer.rows = RowsOf(present, k.page, k.size)]
    /\ UNCHANGED <<present, next, view, cache>>

\* buildPaginatedResponse
TotalPages(total, size) == (total + size - 1) \div size

-----------------------------------------------------------------------------
(* The query *)

\* Mutant: a page is fetched once.
FetchOnce ==
    /\ view \notin DOMAIN fetches
    /\ view \notin DOMAIN cache
    /\ fetches' = [k \in DOMAIN fetches \cup {view} |->
                     IF k = view THEN Asked ELSE fetches[k]]
    /\ UNCHANGED <<present, next, view, cache>>

\* The page shown is fetched when it is first shown, at intervals, and when an
\* event says that it changed.
Fetch ==
    /\ view \notin DOMAIN fetches
    /\ fetches' = [k \in DOMAIN fetches \cup {view} |->
                     IF k = view THEN Asked ELSE fetches[k]]
    /\ UNCHANGED <<present, next, view, cache>>

Without(f, k) == [l \in DOMAIN f \ {k} |-> f[l]]

Receive(k) ==
    /\ k \in DOMAIN fetches
    /\ fetches[k].todo = {}
    /\ cache' = [l \in DOMAIN cache \cup {k} |->
                   IF l = k THEN fetches[k].answer ELSE cache[l]]
    /\ fetches' = Without(fetches, k)
    /\ UNCHANGED <<present, next, view>>

\* retry: false; what was shown stays until the next fetch.  (A request that
\* fails earlier is one whose statements run at once and are forgotten.)
FetchFails(k) ==
    /\ k \in DOMAIN fetches
    /\ fetches[k].todo = {}
    /\ fetches' = Without(fetches, k)
    /\ UNCHANGED <<present, next, view, cache>>

\* The cache drops answers that have not been shown for a while.
Discard(k) ==
    /\ k \in DOMAIN cache \ {view}
    /\ cache' = Without(cache, k)
    /\ UNCHANGED <<present, next, view, fetches>>

-----------------------------------------------------------------------------
(* The user *)

Shown == IF view \in DOMAIN cache THEN cache[view] ELSE NoAnswer
ShownPages == TotalPages(Shown.total, view.size)

Show(v) ==
    /\ view' = v
    /\ UNCHANGED <<present, next, fetches, cache>>

\* ListControls: the pagination is disabled unless there are several pages.
SetPage(p) ==
    /\ ShownPages > 1
    /\ p \in 1..ShownPages
    /\ Show([view EXCEPT !.page = p])

\* Mutant: the page is kept.
SetPageSizeOnly(s) ==
    /\ s # view.size
    /\ Show([view EXCEPT !.size = s])

SetPageSize(s) ==
    /\ s # view.size
    /\ Show([view EXCEPT !.size = s, !.page = 1])

-----------------------------------------------------------------------------
User ==
    \/ \E p \in Pages : SetPage(p)
    \/ \E s \in Sizes : SetPageSize(s)

\* A user who does not leave a page while it is loading.
PatientUser == view \in DOMAIN cache \ DOMAIN fetches /\ User

Next ==
    \/ Insert
    \/ Remove
    \/ Fetch
    \/ \E k \in DOMAIN fetches : CountTotal(k)
    \/ \E k \in DOMAIN fetches : FindRows(k)
    \/ \E k \in DOMAIN fetches : Receive(k)
    \/ \E k \in DOMAIN fetches : FetchFails(k)
    \/ \E k \in DOMAIN cache : Discard(k)
    \/ PatientUser

\* A user who sees an empty page of a list that has results tries what the
\* controls offer: another page, or another page size.
FindWay ==
    /\ view \in DOMAIN cache \ DOMAIN fetches
    /\ Shown.rows = {} /\ Shown.total > 0
    /\ (\E p \in Pages : SetPage(p)) \/ (\E s \in Sizes : SetPageSize(s))

\* A page is fetched at intervals while it is shown, and when it is shown again
\* after a while.  Statements run and answers arrive: not every request of a page
\* fails.
FairSpec ==
    /\ Init /\ [][Next]_vars
    /\ SF_vars(FindWay)
    /\ \A k \in Keys :
          /\ SF_vars(view = k /\ Fetch)
          /\ WF_vars(CountTotal(k))
          /\ WF_vars(FindRows(k))
          /\ SF_vars(Receive(k))

-----------------------------------------------------------------------------
(* Properties *)

\* What is shown is again and again what the list then is: an answer whose count
\* and rows were read around a change, or that the cache kept, is replaced.
PageSettles ==
    []<>(/\ view \in DOMAIN cache
         /\ Shown.total = Cardinality(present)
         /\ Shown.rows = RowsOf(present, view.page, view.size))

\* A user whose page has gone, because the list became shorter, finds the way
\* back to its rows by the controls that are not disabled.
EmptyPageIsLeft ==
    (Shown.rows = {} /\ Shown.total > 0) ~> (Shown.rows # {} \/ present = {})
=============================================================================
