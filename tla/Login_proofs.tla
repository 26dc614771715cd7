---------------------------- MODULE Login_proofs ----------------------------
(***************************************************************************)
(* Proofs about logging in, for any number of names and of logins at the   *)
(* same time.                                                              *)
(*                                                                         *)
(* The inductive invariant adds what a login that was not disturbed knows  *)
(* from its earlier statements and may still rely on: an account that it   *)
(* found, or ran into, is still there with its wallet.                     *)
(***************************************************************************)
EXTENDS Login, TLAPS

IdsAreUsed == wallets \subseteq usedIds

Undisturbed ==
    \A r \in Requests \ disturbed :
        /\ requests[r].phase = "find again" => OfName(requests[r].name) # {}
        /\ requests[r].phase \in {"load wallet", "reload wallet"} =>
              requests[r].user \in wallets
        /\ requests[r].phase # "failed"

Inv == TypeOK /\ OneAccountPerName /\ IdsAreUsed /\ Undisturbed

-----------------------------------------------------------------------------
\* One more account, of a name without one and under an id never used.
LEMMA InsertKeepsAccounts ==
    ASSUME Inv, NEW name \in Names, NEW id \in Ids \ usedIds, Insert(name, id)
    PROVE  /\ users' \subseteq User /\ wallets' \subseteq Ids /\ usedIds' \subseteq Ids
           /\ OneAccountPerName'
           /\ IdsAreUsed'
           /\ users \subseteq users' /\ wallets \subseteq wallets' /\ id \in wallets'
<1> USE DEF Inv, Insert
<1>1. users' \subseteq User /\ wallets' \subseteq Ids /\ usedIds' \subseteq Ids
  <2>1. users \subseteq User /\ wallets \subseteq Ids /\ usedIds \subseteq Ids
    BY DEF TypeOK
  <2>2. [id |-> id, name |-> name] \in User
    BY DEF User
  <2>3. QED
    BY <2>1, <2>2
<1>2. OneAccountPerName'
  <2>1. \A u \in users : u.name # name
    BY DEF OfName
  <2>2. \A u \in users : u.id # id
    BY DEF OneAccountPerName, IdsAreUsed
  <2>3. \A u, v \in users' : u.name = v.name \/ u.id = v.id => u = v
    BY <2>1, <2>2 DEF OneAccountPerName
  <2>4. wallets' = {u.id : u \in users'}
    <3>1. wallets = {u.id : u \in users}
      BY DEF OneAccountPerName
    <3>2. [id |-> id, name |-> name].id = id
      OBVIOUS
    <3>3. {u.id : u \in users'} = {u.id : u \in users} \cup {id}
      BY <3>2
    <3>4. QED
      BY <3>1, <3>3
  <2>5. QED
    BY <2>3, <2>4 DEF OneAccountPerName
<1>3. IdsAreUsed'
  BY DEF IdsAreUsed
<1>4. QED
  BY <1>1, <1>2, <1>3

\* What a login knows outlives the insertion of accounts.
LEMMA InsertKeepsKnown ==
    ASSUME Undisturbed, users \subseteq users', wallets \subseteq wallets',
           NEW r \in Requests \ disturbed,
           requests'[r] = requests[r]
    PROVE  /\ requests'[r].phase = "find again" => OfName(requests[r].name)' # {}
           /\ requests'[r].phase \in {"load wallet", "reload wallet"} =>
                 requests'[r].user \in wallets'
           /\ requests'[r].phase # "failed"
BY DEF Undisturbed, OfName

\* Steps of the logins leave the accounts alone; a step of one leaves what the
\* others know.
LEMMA LoginStep ==
    ASSUME Inv, NEW r \in Requests, NEW phase, NEW user,
           Go(r, phase, user), Keep,
           [name |-> requests[r].name, user |-> user, phase |-> phase] \in Request,
           requests[r].phase # "new", phase # "new",
           /\ phase = "find again" => OfName(requests[r].name) # {}
           /\ phase \in {"load wallet", "reload wallet"} => user \in wallets
           /\ phase = "failed" => r \in disturbed
           /\ phase = "done" => user \in Ids
    PROVE  Inv'
<1>1. /\ requests' \in [Requests -> Request]
      /\ requests'[r].name = requests[r].name
      /\ requests'[r].user = user /\ requests'[r].phase = phase
      /\ \A s \in Requests \ {r} : requests'[s] = requests[s]
  BY DEF Go, Inv, TypeOK, Request
<1>2. TypeOK'
  <2>1. \A s \in Requests : requests'[s].phase = "new" <=> requests'[s].name = None
    BY <1>1 DEF Inv, TypeOK
  <2>2. \A s \in Requests :
           requests'[s].phase \in {"load wallet", "reload wallet", "done"} =>
              requests'[s].user \in Ids
    BY <1>1 DEF Inv, TypeOK
  <2>3. QED
    BY <1>1, <2>1, <2>2 DEF Inv, TypeOK, Keep
<1>3. OneAccountPerName' /\ IdsAreUsed'
  BY DEF Inv, Keep, OneAccountPerName, IdsAreUsed
<1>4. Undisturbed'
  <2>1. ASSUME NEW s \in Requests \ disturbed, s # r
        PROVE  /\ requests'[s].phase = "find again" =>
                     OfName(requests[s].name)' # {}
               /\ requests'[s].phase \in {"load wallet", "reload wallet"} =>
                     requests'[s].user \in wallets'
               /\ requests'[s].phase # "failed"
    BY <1>1, <2>1, InsertKeepsKnown DEF Inv, Keep
  <2>2. /\ requests'[r].phase = "find again" => OfName(requests[r].name)' # {}
        /\ requests'[r].phase \in {"load wallet", "reload wallet"} =>
              requests'[r].user \in wallets'
    BY <1>1 DEF Keep, OfName
  <2>3. disturbed' = disturbed
    BY DEF Keep
  <2>4. /\ requests'[r].phase = phase
        /\ phase = "failed" => r \in disturbed
    BY <1>1
  <2>5. ASSUME NEW s \in Requests \ disturbed'
        PROVE  /\ requests'[s].phase = "find again" =>
                     OfName(requests[s].name)' # {}
               /\ requests'[s].phase \in {"load wallet", "reload wallet"} =>
                     requests'[s].user \in wallets'
               /\ requests'[s].phase # "failed"
    <3>1. CASE s = r
      BY ONLY <2>2, <2>3, <2>4, <2>5, <3>1
    <3>2. CASE s # r
      BY ONLY <2>1, <2>3, <2>5, <3>2
    <3> QED
      BY ONLY <3>1, <3>2
  <2>6. QED
    BY ONLY <2>5 DEF Undisturbed
<1>5. QED
  BY <1>2, <1>3, <1>4 DEF Inv

-----------------------------------------------------------------------------
LEMMA InitInv == Init => Inv
<1>1. Init => TypeOK
  <2>1. SUFFICES ASSUME Init PROVE TypeOK
    OBVIOUS
  <2>2. [name |-> None, user |-> None, phase |-> "new"] \in Request
    BY DEF Request
  <2>3. requests \in [Requests -> Request]
    BY <2>1, <2>2 DEF Init
  <2>4. \A r \in Requests : requests[r].phase = "new" /\ requests[r].name = None
    BY <2>1 DEF Init
  <2>5. users \subseteq User /\ wallets \subseteq Ids /\ usedIds \subseteq Ids
           /\ disturbed \subseteq Requests
    BY <2>1 DEF Init
  <2>6. QED
    BY <2>3, <2>4, <2>5 DEF TypeOK
<1>2. Init => OneAccountPerName
  <2>1. {u.id : u \in {}} = {}
    OBVIOUS
  <2>2. QED
    BY <2>1 DEF Init, OneAccountPerName
<1>3. Init => IdsAreUsed /\ Undisturbed
  <2>1. Init => \A r \in Requests : requests[r].phase = "new"
    BY DEF Init
  <2>2. Init => Undisturbed
    BY <2>1 DEF Undisturbed
  <2>3. Init => IdsAreUsed
    BY DEF Init, IdsAreUsed
  <2>4. QED
    BY <2>2, <2>3
<1>4. QED
  BY <1>1, <1>2, <1>3 DEF Inv

LEMMA StartStep ==
    ASSUME Inv, NEW r \in Requests, NEW name \in Names, Start(r, name)
    PROVE  Inv'
<1>1. /\ requests' \in [Requests -> Request]
      /\ requests'[r].name = name /\ requests'[r].phase = "find"
      /\ \A s \in Requests \ {r} : requests'[s] = requests[s]
  BY DEF Start, Inv, TypeOK, Request
<1>2. TypeOK'
  BY <1>1, LoginAssumption DEF Inv, TypeOK, Keep, Start
<1>3. OneAccountPerName' /\ IdsAreUsed'
  BY DEF Inv, Start, Keep, OneAccountPerName, IdsAreUsed
<1>4. Undisturbed'
  <2>1. ASSUME NEW s \in Requests \ disturbed, s # r
        PROVE  /\ requests'[s].phase = "find again" =>
                     OfName(requests[s].name)' # {}
               /\ requests'[s].phase \in {"load wallet", "reload wallet"} =>
                     requests'[s].user \in wallets'
               /\ requests'[s].phase # "failed"
    BY <1>1, <2>1, InsertKeepsKnown DEF Inv, Start, Keep
  <2>2. QED
    BY <1>1, <2>1 DEF Undisturbed, OfName, Start, Keep
<1>5. QED
  BY <1>2, <1>3, <1>4 DEF Inv

LEMMA FindUserStep ==
    ASSUME Inv, NEW r \in Requests, FindUser(r)
    PROVE  Inv'
<1>1. requests[r] \in Request /\ users \subseteq User
  BY DEF Inv, TypeOK
<1>2. ASSUME NEW u \in OfName(requests[r].name), Go(r, "load wallet", u.id)
      PROVE  Inv'
  <2>1. u.id \in Ids /\ u.id \in wallets
    BY <1>1 DEF OfName, User, Inv, OneAccountPerName
  <2>2. [name |-> requests[r].name, user |-> u.id, phase |-> "load wallet"]
           \in Request
    BY <1>1, <2>1 DEF Request
  <2>3. QED
    BY <1>2, <2>1, <2>2, LoginStep DEF FindUser
<1>3. ASSUME Go(r, "create", None)
      PROVE  Inv'
  <2>1. [name |-> requests[r].name, user |-> None, phase |-> "create"] \in Request
    BY <1>1 DEF Request
  <2>2. QED
    BY <1>3, <2>1, LoginStep DEF FindUser
<1>4. QED
  BY <1>2, <1>3 DEF FindUser

LEMMA FindAgainStep ==
    ASSUME Inv, NEW r \in Requests, FindAgain(r)
    PROVE  Inv'
<1>1. requests[r] \in Request /\ users \subseteq User
  BY DEF Inv, TypeOK
<1>2. ASSUME NEW u \in OfName(requests[r].name), Go(r, "reload wallet", u.id)
      PROVE  Inv'
  <2>1. u.id \in Ids /\ u.id \in wallets
    BY <1>1 DEF OfName, User, Inv, OneAccountPerName
  <2>2. [name |-> requests[r].name, user |-> u.id, phase |-> "reload wallet"]
           \in Request
    BY <1>1, <2>1 DEF Request
  <2>3. QED
    BY <1>2, <2>1, <2>2, LoginStep DEF FindAgain
<1>3. ASSUME OfName(requests[r].name) = {}, Go(r, "failed", None)
      PROVE  Inv'
  <2>1. [name |-> requests[r].name, user |-> None, phase |-> "failed"] \in Request
    BY <1>1 DEF Request
  <2>2. r \in disturbed
    BY <1>3 DEF FindAgain, Inv, Undisturbed
  <2>3. QED
    BY <1>3, <2>1, <2>2, LoginStep DEF FindAgain
<1>4. QED
  BY <1>2, <1>3 DEF FindAgain

LEMMA LoadWalletStep ==
    ASSUME Inv, NEW r \in Requests, LoadWallet(r)
    PROVE  Inv'
<1> DEFINE phase == IF requests[r].user \in wallets THEN "done" ELSE "failed"
<1>1. [name |-> requests[r].name, user |-> requests[r].user, phase |-> phase]
         \in Request
  BY DEF Inv, TypeOK, Request
<1>2. phase = "failed" => r \in disturbed
  BY DEF LoadWallet, Inv, Undisturbed
<1>3. Go(r, phase, requests[r].user) /\ Keep /\ requests[r].phase # "new"
  BY DEF LoadWallet
<1>4. phase \in {"done", "failed"}
  OBVIOUS
<1> HIDE DEF phase
<1>5. phase = "done" => requests[r].user \in Ids
  BY DEF Inv, TypeOK, phase
<1>6. QED
  BY <1>1, <1>2, <1>3, <1>4, <1>5, LoginStep

LEMMA NameTakenStep ==
    ASSUME Inv, NEW r \in Requests, NameTaken(r)
    PROVE  Inv'
<1>1. [name |-> requests[r].name, user |-> None, phase |-> "find again"]
         \in Request
  BY DEF Inv, TypeOK, Request
<1>2. QED
  BY <1>1, LoginStep DEF NameTaken

LEMMA CreateWithWalletStep ==
    ASSUME Inv, NEW r \in Requests, CreateWithWallet(r)
    PROVE  Inv'
<1>1. PICK id \in Ids \ usedIds : Insert(requests[r].name, id) /\ Go(r, "done", id)
  BY DEF CreateWithWallet
<1>2. requests[r] \in Request /\ requests[r].name \in Names
  BY DEF CreateWithWallet, Inv, TypeOK, Request
<1>3. /\ users' \subseteq User /\ wallets' \subseteq Ids /\ usedIds' \subseteq Ids
      /\ OneAccountPerName' /\ IdsAreUsed'
      /\ users \subseteq users' /\ wallets \subseteq wallets'
  BY <1>1, <1>2, InsertKeepsAccounts
<1>4. /\ requests' \in [Requests -> Request]
      /\ requests'[r].name = requests[r].name /\ requests'[r].phase = "done"
      /\ requests'[r].user = id
      /\ \A s \in Requests \ {r} : requests'[s] = requests[s]
  BY <1>1, <1>2 DEF Go, Inv, TypeOK, Request
<1>5. disturbed' = disturbed
  BY DEF CreateWithWallet
<1>6. TypeOK'
  BY <1>2, <1>3, <1>4, <1>5, LoginAssumption DEF Inv, TypeOK
<1>7. Undisturbed'
  <2>1. ASSUME NEW s \in Requests \ disturbed, s # r
        PROVE  /\ requests'[s].phase = "find again" =>
                     OfName(requests[s].name)' # {}
               /\ requests'[s].phase \in {"load wallet", "reload wallet"} =>
                     requests'[s].user \in wallets'
               /\ requests'[s].phase # "failed"
    BY <1>3, <1>4, <2>1, InsertKeepsKnown DEF Inv
  <2>2. QED
    BY <1>4, <1>5, <2>1 DEF Undisturbed, OfName
<1>8. QED
  BY <1>3, <1>6, <1>7 DEF Inv

LEMMA StatementFailsStep ==
    ASSUME Inv, NEW r \in Requests, StatementFails(r)
    PROVE  Inv'
<1>1. requests[r] \in Request /\ requests[r].name \in Names
  BY DEF StatementFails, Running, Inv, TypeOK, Request
<1>2. /\ users' \subseteq User /\ wallets' \subseteq Ids /\ usedIds' \subseteq Ids
      /\ OneAccountPerName' /\ IdsAreUsed'
      /\ users \subseteq users' /\ wallets \subseteq wallets'
  <2>1. CASE UNCHANGED <<users, wallets, usedIds>>
    BY <2>1 DEF Inv, TypeOK, OneAccountPerName, IdsAreUsed
  <2>2. CASE \E id \in Ids \ usedIds : Insert(requests[r].name, id)
    BY <1>1, <2>2, InsertKeepsAccounts
  <2>3. QED
    BY <2>1, <2>2 DEF StatementFails
<1>3. /\ requests' \in [Requests -> Request]
      /\ requests'[r].name = requests[r].name /\ requests'[r].phase = "failed"
      /\ \A s \in Requests \ {r} : requests'[s] = requests[s]
  BY <1>1 DEF StatementFails, Go, Inv, TypeOK, Request
<1>4. disturbed' = disturbed \cup {r}
  BY DEF StatementFails
<1>5. TypeOK'
  BY <1>1, <1>2, <1>3, <1>4, LoginAssumption DEF Inv, TypeOK
<1>6. Undisturbed'
  <2>1. ASSUME NEW s \in Requests \ disturbed, s # r
        PROVE  /\ requests'[s].phase = "find again" =>
                     OfName(requests[s].name)' # {}
               /\ requests'[s].phase \in {"load wallet", "reload wallet"} =>
                     requests'[s].user \in wallets'
               /\ requests'[s].phase # "failed"
    BY <1>2, <1>3, <2>1, InsertKeepsKnown DEF Inv
  <2>2. QED
    BY <1>3, <1>4, <2>1 DEF Undisturbed, OfName
<1>7. QED
  BY <1>2, <1>5, <1>6 DEF Inv

LEMMA ResetDatabaseStep ==
    ASSUME Inv, ResetDatabase
    PROVE  Inv'
<1>1. TypeOK'
  BY DEF Inv, ResetDatabase, TypeOK
<1>2. OneAccountPerName' /\ IdsAreUsed'
  BY DEF ResetDatabase, OneAccountPerName, IdsAreUsed
<1>3. Undisturbed'
  BY DEF Inv, TypeOK, Request, ResetDatabase, Undisturbed, Running
<1>4. QED
  BY <1>1, <1>2, <1>3 DEF Inv

LEMMA SeedUserStep ==
    ASSUME Inv, NEW name \in Names, SeedUser(name)
    PROVE  Inv'
<1>1. PICK id \in Ids \ usedIds : Insert(name, id)
  BY DEF SeedUser
<1>2. /\ users' \subseteq User /\ wallets' \subseteq Ids /\ usedIds' \subseteq Ids
      /\ OneAccountPerName' /\ IdsAreUsed'
      /\ users \subseteq users' /\ wallets \subseteq wallets'
  BY <1>1, InsertKeepsAccounts
<1>3. requests' = requests /\ disturbed' = disturbed
  BY DEF SeedUser
<1>4. TypeOK'
  BY <1>2, <1>3 DEF Inv, TypeOK
<1>5. Undisturbed'
  BY <1>2, <1>3, InsertKeepsKnown DEF Inv, Undisturbed, OfName
<1>6. QED
  BY <1>2, <1>4, <1>5 DEF Inv

THEOREM LoginInvariant == Spec => []Inv
<1>1. Inv /\ [Next]_vars => Inv'
  <2> SUFFICES ASSUME Inv, [Next]_vars PROVE Inv'
    OBVIOUS
  <2>1. ASSUME Next PROVE Inv'
    BY <2>1, StartStep, FindUserStep, FindAgainStep, LoadWalletStep,
       CreateWithWalletStep, NameTakenStep, StatementFailsStep,
       ResetDatabaseStep, SeedUserStep DEF Next
  <2>2. CASE UNCHANGED vars
    <3>1. TypeOK' /\ OneAccountPerName' /\ IdsAreUsed'
      BY <2>2 DEF vars, Inv, TypeOK, OneAccountPerName, IdsAreUsed
    <3>2. Undisturbed'
      BY <2>2 DEF vars, Inv, Undisturbed, OfName
    <3> QED
      BY <3>1, <3>2 DEF Inv
  <2>3. QED
    BY <2>1, <2>2
<1>2. QED
  BY <1>1, InitInv, PTL DEF Spec

\* Rows and requests hold what they can, for any number of them.
THEOREM LoginTypeCorrect == Spec => []TypeOK
<1>1. Inv => TypeOK
  BY DEF Inv
<1>2. QED
  BY <1>1, LoginInvariant, PTL

\* However many first logins of a name run at the same time, the name has one
\* account with one wallet (users_username_key and the nested insertion).
THEOREM LoginOneAccountPerName == Spec => []OneAccountPerName
<1>1. Inv => OneAccountPerName
  BY DEF Inv
<1>2. QED
  BY <1>1, LoginInvariant, PTL

\* A login fails only with a statement or a reset, never by losing the race
\* (AuthService.login and findOrCreateUser).
THEOREM LoginRaceIsNoFailure == Spec => []RaceIsNoFailure
<1>1. Inv => RaceIsNoFailure
  BY DEF Inv, Undisturbed, RaceIsNoFailure
<1>2. QED
  BY <1>1, LoginInvariant, PTL
=============================================================================
