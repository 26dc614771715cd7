------------------------------ MODULE Delivery ------------------------------
(***************************************************************************)
(* What the matching pipeline promises of every order, without intents,    *)
(* claims, leases, a queue, dispatchers or workers: from the moment it is  *)
(* created an order is attended to until it is settled, and it is settled  *)
(* once.  Only an order whose job Redis forgot may be left unattended, and *)
(* only one that failed MaxAttempts times is rejected.                     *)
(***************************************************************************)
EXTENDS Integers

CONSTANTS Orders, MaxAttempts

VARIABLES
    status,
    attended,       \* queued orders that something in the system will process
    failures,       \* failed runs of each order, up to MaxAttempts
    forgotten       \* orders with a job that Redis forgot and nobody restored

vars == <<status, attended, failures, forgotten>>

Init ==
    /\ status = [o \in Orders |-> "none"]
    /\ attended = {}
    /\ failures = [o \in Orders |-> 0]
    /\ forgotten = {}

Place(o) ==
    /\ status[o] = "none"
    /\ status' = [status EXCEPT ![o] = "QUEUED"]
    /\ attended' = attended \cup {o}
    /\ UNCHANGED <<failures, forgotten>>

\* Once, and for good.
Settle(o, outcome) ==
    /\ status[o] = "QUEUED"
    /\ status' = [status EXCEPT ![o] = outcome]
    /\ attended' = attended \ {o}

Cancel(o) == Settle(o, "CANCELLED") /\ UNCHANGED <<failures, forgotten>>

Match(o) == Settle(o, "MATCHED") /\ UNCHANGED <<failures, forgotten>>

Reject(o) ==
    /\ failures[o] = MaxAttempts
    /\ Settle(o, "REJECTED")
    /\ UNCHANGED <<failures, forgotten>>

\* A run of the order fails, although the order may have been matched.
Fail(o) ==
    /\ status[o] # "none"
    /\ failures' = [failures EXCEPT ![o] = IF @ < MaxAttempts THEN @ + 1 ELSE @]
    /\ Settle(o, "MATCHED") \/ UNCHANGED <<status, attended>>
    /\ UNCHANGED forgotten

\* Redis forgets a job of the order.  There may be an intent besides; once that
\* is acknowledged too, nothing attends to the order.
Forget(o) ==
    /\ status[o] # "none"
    /\ forgotten' = forgotten \cup {o}
    /\ attended' \in {attended, attended \ {o}}
    /\ UNCHANGED <<status, failures>>

Abandon(o) ==
    /\ o \in forgotten /\ o \in attended
    /\ attended' = attended \ {o}
    /\ UNCHANGED <<status, failures, forgotten>>

\* A call that was under way when the job was forgotten adds it again.
Return(o) ==
    /\ status[o] = "QUEUED"
    /\ o \in forgotten /\ o \notin attended
    /\ attended' = attended \cup {o}
    /\ UNCHANGED <<status, failures, forgotten>>

\* The operator has queued orders processed after all.
Restore(pending) ==
    /\ \A o \in pending : status[o] = "QUEUED"
    /\ attended' = attended \cup pending
    /\ forgotten' = forgotten \ pending
    /\ UNCHANGED <<status, failures>>

OrderStep(o) ==
    \/ Place(o) \/ Cancel(o) \/ Match(o) \/ Reject(o) \/ Fail(o)
    \/ Forget(o) \/ Abandon(o) \/ Return(o)

Next ==
    \/ \E o \in Orders : OrderStep(o)
    \/ \E pending \in SUBSET Orders : Restore(pending)

Spec == Init /\ [][Next]_vars
=============================================================================
