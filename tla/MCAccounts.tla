----------------------------- MODULE MCAccounts -----------------------------
(***************************************************************************)
(* Small instances of Accounts for TLC.                                    *)
(***************************************************************************)
EXTENDS Accounts, TLC

CONSTANTS u1, u2, u3, e1, e2, n1, n2

\* One account, in normal use, or marked as deleted before this process started.
OneUser  == 1 :> [uuid |-> u1, email |-> e1, name |-> n1, mark |-> "none"]
OneTable == {OneUser}
Tables   == {OneUser, 1 :> [OneUser[1] EXCEPT !.mark = "cooling"]}

\* What follows a failed query and an overlap is not explored further: uniqueness
\* is promised after neither.
OneExcuse == unseen = {} \/ ~overlapped

Symmetric == Permutations(Calls)
=============================================================================
