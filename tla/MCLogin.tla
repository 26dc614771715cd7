------------------------------- MODULE MCLogin -------------------------------
(***************************************************************************)
(* Small instances of Login.                                               *)
(***************************************************************************)
EXTENDS Login, TLC

LoginSymmetry ==
    Permutations(Names) \cup Permutations(Ids) \cup Permutations(Requests)
=============================================================================
