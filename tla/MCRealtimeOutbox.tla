-------------------------- MODULE MCRealtimeOutbox --------------------------
(***************************************************************************)
(* Small instances of RealtimeOutbox.                                      *)
(***************************************************************************)
EXTENDS RealtimeOutbox, TLC

\* Bound: two events and one process in the middle of something, or one event
\* and two processes.
Busy == {p \in Processes : processes[p] # Started}
ThreeAtOnce == Cardinality(appended) + Cardinality(Busy) <= 3

OutboxSymmetry == Permutations(Processes) \cup Permutations(Events)
=============================================================================
