--------------------------- MODULE MCOAuthTokens ---------------------------
(***************************************************************************)
(* Small instances of OAuthTokens for TLC.                                 *)
(***************************************************************************)
EXTENDS OAuthTokens, TLC

\* Handlers, pairs and users are interchangeable (no liveness is checked with
\* these).
Symmetric == Permutations(Calls) \cup Permutations(Pairs) \cup Permutations(Users)
=============================================================================
