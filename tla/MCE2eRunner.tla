----------------------------- MODULE MCE2eRunner -----------------------------
(***************************************************************************)
(* E2eRunner with three exit codes, one of which is that of an interruption.   *)
(***************************************************************************)
EXTENDS E2eRunner

MCCodes == {1, 7, 130}
=============================================================================
