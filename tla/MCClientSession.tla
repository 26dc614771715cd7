--------------------------- MODULE MCClientSession ---------------------------
(***************************************************************************)
(* Small instances of ClientSession: one user or two, who logs in twice.   *)
(***************************************************************************)
EXTENDS ClientSession

MCOwner == [s \in Sessions |-> IF s = "bob's" THEN "bob" ELSE "alice"]
=============================================================================
