---------------------------- MODULE AtLeastOnce -----------------------------
(***************************************************************************)
(* What the realtime outbox promises of every event, without rows, claims, *)
(* leases, processes or maintenance: it is pending until it is published,  *)
(* which takes an acceptance, or dead, which takes MaxAttempts failures;   *)
(* that is decided once, and only then is the event forgotten.  It may be  *)
(* accepted several times, even after that.                                *)
(***************************************************************************)
EXTENDS Integers

CONSTANTS Events, MaxAttempts

VARIABLES
    stage,
    accepted,       \* events that were accepted at least once
    failures        \* failed deliveries of each event, up to MaxAttempts

vars == <<stage, accepted, failures>>

Init ==
    /\ stage = [e \in Events |-> "none"]
    /\ accepted = {}
    /\ failures = [e \in Events |-> 0]

Append(events) ==
    /\ \A e \in events : stage[e] = "none"
    /\ stage' = [e \in Events |-> IF e \in events THEN "pending" ELSE stage[e]]
    /\ UNCHANGED <<accepted, failures>>

Accept(e) ==
    /\ stage[e] # "none"
    /\ accepted' = accepted \cup {e}
    /\ UNCHANGED <<stage, failures>>

Publish(e) ==
    /\ stage[e] = "pending" /\ e \in accepted
    /\ stage' = [stage EXCEPT ![e] = "published"]
    /\ UNCHANGED accepted

\* A failed delivery may have been one after all, and may even be recorded.
Fail(e) ==
    /\ stage[e] # "none"
    /\ failures' = [failures EXCEPT ![e] = IF @ < MaxAttempts THEN @ + 1 ELSE @]
    /\ \/ UNCHANGED stage /\ accepted' \in {accepted, accepted \cup {e}}
       \/ Publish(e)

GiveUp(e) ==
    /\ stage[e] = "pending" /\ failures[e] = MaxAttempts
    /\ stage' = [stage EXCEPT ![e] = "dead"]
    /\ UNCHANGED <<accepted, failures>>

Forget(events) ==
    /\ \A e \in events : stage[e] \in {"published", "dead"}
    /\ stage' = [e \in Events |-> IF e \in events THEN "forgotten" ELSE stage[e]]
    /\ UNCHANGED <<accepted, failures>>

Next ==
    \/ \E events \in SUBSET Events : Append(events) \/ Forget(events)
    \/ \E e \in Events :
          \/ Accept(e)
          \/ Publish(e) /\ UNCHANGED failures
          \/ Fail(e)
          \/ GiveUp(e)

Spec == Init /\ [][Next]_vars
=============================================================================
