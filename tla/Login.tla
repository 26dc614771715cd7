-------------------------------- MODULE Login --------------------------------
(***************************************************************************)
(* Logging in by name: the first login of a name opens its account.        *)
(*                                                                         *)
(* Any number of logins run at the same time; their statements interleave  *)
(* and fail, before or after they took effect.  The seed script deletes    *)
(* all accounts and opens its own.                                         *)
(***************************************************************************)
EXTENDS Integers, FiniteSets

CONSTANTS
    Names,
    Ids,            \* bound: the users ever inserted
    Requests        \* the login requests

None == "none"

ASSUME LoginAssumption == None \notin Ids /\ None \notin Names

VARIABLES
    users,          \* the rows of users
    wallets,        \* the rows of wallets, by the user's id
    usedIds,        \* history: ids that rows had
    requests,       \* login
    disturbed       \* history: requests during which a statement of theirs
                    \* failed or the accounts were deleted

vars == <<users, wallets, usedIds, requests, disturbed>>

User == [id : Ids, name : Names]

\* user: the id of the user found or created; a request that is done answered
\* with that user's session.
Request == [name : Names \cup {None}, user : Ids \cup {None},
            phase : {"new", "find", "load wallet", "create", "find again",
                     "reload wallet", "done", "failed"}]

Init ==
    /\ users = {} /\ wallets = {} /\ usedIds = {}
    /\ requests = [r \in Requests |-> [name |-> None, user |-> None,
                                       phase |-> "new"]]
    /\ disturbed = {}

-----------------------------------------------------------------------------
Go(r, phase, user) ==
    requests' = [requests EXCEPT ![r].phase = phase, ![r].user = user]

Keep == UNCHANGED <<users, wallets, usedIds, disturbed>>

Start(r, name) ==
    /\ requests[r].phase = "new"
    /\ requests' = [requests EXCEPT ![r].phase = "find", ![r].name = name]
    /\ Keep

OfName(name) == {u \in users : u.name = name}

\* findByUsername, its first statement: the user.
FindUser(r) ==
    /\ requests[r].phase = "find"
    /\ LET found == OfName(requests[r].name)
       IN  \/ \E u \in found : Go(r, "load wallet", u.id)
           \/ found = {} /\ Go(r, "create", None)
    /\ Keep

\* After the violation of the unique name: the login that came first.
FindAgain(r) ==
    /\ requests[r].phase = "find again"
    /\ LET found == OfName(requests[r].name)
       IN  \/ \E u \in found : Go(r, "reload wallet", u.id)
           \/ found = {} /\ Go(r, "failed", None)
    /\ Keep

\* findByUsername, its second statement, and ensureWallet.
LoadWallet(r) ==
    /\ requests[r].phase \in {"load wallet", "reload wallet"}
    /\ Go(r, IF requests[r].user \in wallets THEN "done" ELSE "failed",
          requests[r].user)
    /\ Keep

\* Mutant: a name is not unique in the table.
InsertAny(name, id) ==
    /\ users' = users \cup {[id |-> id, name |-> name]}
    /\ wallets' = wallets \cup {id}
    /\ usedIds' = usedIds \cup {id}

\* Both rows in one transaction; users_username_key.
Insert(name, id) ==
    /\ OfName(name) = {}
    /\ users' = users \cup {[id |-> id, name |-> name]}
    /\ wallets' = wallets \cup {id}
    /\ usedIds' = usedIds \cup {id}

CreateWithWallet(r) ==
    /\ requests[r].phase = "create"
    /\ \E id \in Ids \ usedIds :
          Insert(requests[r].name, id) /\ Go(r, "done", id)
    /\ UNCHANGED disturbed

\* Mutant: the violation is an error like any other.
NameTakenFails(r) ==
    /\ requests[r].phase = "create"
    /\ OfName(requests[r].name) # {}
    /\ Go(r, "failed", None)
    /\ Keep

\* isUniqueUsernameViolation.
NameTaken(r) ==
    /\ requests[r].phase = "create"
    /\ OfName(requests[r].name) # {}
    /\ Go(r, "find again", None)
    /\ Keep

Running(r) == requests[r].phase \notin {"new", "done", "failed"}

\* A statement fails; an insertion may have been committed.
StatementFails(r) ==
    /\ Running(r)
    /\ \/ UNCHANGED <<users, wallets, usedIds>>
       \/ /\ requests[r].phase = "create"
          /\ \E id \in Ids \ usedIds : Insert(requests[r].name, id)
    /\ Go(r, "failed", None)
    /\ disturbed' = disturbed \cup {r}

\* The seed script: deleteMany, whose cascade takes the wallets, ...
ResetDatabase ==
    /\ users # {}
    /\ users' = {} /\ wallets' = {}
    /\ disturbed' = disturbed \cup {r \in Requests : Running(r)}
    /\ UNCHANGED <<usedIds, requests>>

\* ... and its own accounts.
SeedUser(name) ==
    /\ \E id \in Ids \ usedIds : Insert(name, id)
    /\ UNCHANGED <<requests, disturbed>>

Next ==
    \/ \E r \in Requests, name \in Names : Start(r, name)
    \/ \E r \in Requests : FindUser(r)
    \/ \E r \in Requests : FindAgain(r)
    \/ \E r \in Requests : LoadWallet(r)
    \/ \E r \in Requests : CreateWithWallet(r)
    \/ \E r \in Requests : NameTaken(r)
    \/ \E r \in Requests : StatementFails(r)
    \/ ResetDatabase
    \/ \E name \in Names : SeedUser(name)

Spec == Init /\ [][Next]_vars

-----------------------------------------------------------------------------
(* Properties *)

\* The rows and the requests hold what they can; every answer is a user's.
TypeOK ==
    /\ users \subseteq User
    /\ wallets \subseteq Ids /\ usedIds \subseteq Ids
    /\ requests \in [Requests -> Request]
    /\ \A r \in Requests : requests[r].phase = "new" <=> requests[r].name = None
    /\ \A r \in Requests :
          requests[r].phase \in {"load wallet", "reload wallet", "done"} =>
             requests[r].user \in Ids
    /\ disturbed \subseteq Requests

\* A name has one account, with one wallet, however many first logins of the
\* name ran at the same time: none of them doubles the initial balance.
OneAccountPerName ==
    /\ \A u, v \in users : u.name = v.name \/ u.id = v.id => u = v
    /\ wallets = {u.id : u \in users}

\* A login that loses the race against another first login of its name ends in
\* a session of the account that the other one opened: it fails only with a
\* statement, or if the accounts are deleted while it runs.
RaceIsNoFailure ==
    \A r \in Requests : requests[r].phase = "failed" => r \in disturbed
=============================================================================
