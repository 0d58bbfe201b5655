------------------------ MODULE MCVerificationCodes ------------------------
(***************************************************************************)
(* Small instances of VerificationCodes for TLC.                           *)
(***************************************************************************)
EXTENDS VerificationCodes, TLC

Symmetric == Permutations(Calls)
=============================================================================
