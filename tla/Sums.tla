-------------------------------- MODULE Sums --------------------------------
(***************************************************************************)
(* The sum of a function of naturals over a finite set, as the number of   *)
(* its unit tokens: x contributes the f[x] tokens <<x, 1>>, <<x, 2>>, ...  *)
(* Counting needs no recursion, so that facts about sums follow from facts *)
(* about the cardinality of finite sets (Matching_proofs).                 *)
(***************************************************************************)
EXTENDS Integers, FiniteSets

Tokens(f, S) == UNION {{x} \X (1..f[x]) : x \in S}

SumOver(f, S) == Cardinality(Tokens(f, S))
=============================================================================
