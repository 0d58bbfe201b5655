------------------------------ MODULE MCLogin ------------------------------
(***************************************************************************)
(* Small instances of Login for TLC.                                       *)
(***************************************************************************)
EXTENDS Login, TLC

Symmetric == Permutations(Calls) \cup Permutations(Creds)
=============================================================================
