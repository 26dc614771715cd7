------------------------- MODULE MCMatchingPipeline -------------------------
(***************************************************************************)
(* Small instances of MatchingPipeline.                                    *)
(***************************************************************************)
EXTENDS MatchingPipeline, TLC

\* Bounds: one order, and two of the dispatchers and workers in the middle of
\* something; or two orders, whose jobs are not taken, and one of them.
Created == {o \in Orders : status[o] # "none"}
Busy == Cardinality({d \in Dispatchers : dispatchers[d] # Started})
            + Cardinality({w \in Workers : workers[w] # IdleWorker})
RacesOrBatches ==
    \/ Cardinality(Created) = 1 /\ Busy <= 2
    \/ /\ Busy <= 1
       /\ \A o \in Orders : /\ jobs[o].state \in {"none", "waiting"}
                             /\ status[o] \notin {"MATCHED", "REJECTED"}
                             /\ throws[o] = 0

PipelineSymmetry ==
    Permutations(Orders) \cup Permutations(Dispatchers) \cup Permutations(Workers)
=============================================================================
