---------------------------- MODULE GrantLedger ----------------------------
(***************************************************************************)
(* What the token endpoint promises, with no tables, clocks or requests: a *)
(* grant (an authorization code or a refresh token) is offered once, can   *)
(* be claimed by one request only, and a claimed grant is settled by       *)
(* issuing one token pair or is lost.  Every token pair is itself a grant, *)
(* because its refresh token can be exchanged.  Hence the pairs descended  *)
(* from a login or a code never fork.                                      *)
(***************************************************************************)
CONSTANTS Codes, Pairs, None

VARIABLES
  status,  \* status[g] for every code and pair
  parent   \* the grant each issued pair was exchanged for, None for a login

Grants == Codes \cup Pairs

LedgerTypeOK ==
  /\ status \in [Grants -> {"unborn", "open", "claimed", "closed"}]
  /\ DOMAIN parent \subseteq Pairs
  /\ parent \in [DOMAIN parent -> Grants \cup {None}]

Init ==
  /\ status = [g \in Grants |-> "unborn"]
  /\ parent = [x \in {} |-> None]

\* A user grants a client an authorization code.
Offer(c) ==
  /\ status[c] = "unborn"
  /\ status' = [status EXCEPT ![c] = "open"]
  /\ UNCHANGED parent

Claim(g) ==
  /\ status[g] = "open"
  /\ status' = [status EXCEPT ![g] = "claimed"]
  /\ UNCHANGED parent

Birth(p, g) == parent' = [x \in DOMAIN parent \cup {p} |-> IF x = p THEN g ELSE parent[x]]

\* A claimed grant is exchanged for a new pair.
Settle(g, p) ==
  /\ status[g] = "claimed" /\ status[p] = "unborn"
  /\ status' = [status EXCEPT ![g] = "closed", ![p] = "open"]
  /\ Birth(p, g)

\* A login issues a pair with no grant behind it.
Login(p) ==
  /\ status[p] = "unborn"
  /\ status' = [status EXCEPT ![p] = "open"]
  /\ Birth(p, None)

\* Grants are lost: deleted with the account, by the cleanup, or with the
\* request that had claimed them.
Lose(S) ==
  /\ \A g \in S : status[g] \in {"open", "claimed"}
  /\ status' = [g \in Grants |-> IF g \in S THEN "closed" ELSE status[g]]
  /\ UNCHANGED parent

Next ==
  \/ \E c \in Codes : Offer(c)
  \/ \E g \in Grants : Claim(g)
  \/ \E g \in Grants, p \in Pairs : Settle(g, p)
  \/ \E p \in Pairs : Login(p)
  \/ \E S \in SUBSET Grants : Lose(S)

Ledger == Init /\ [][Next]_<<status, parent>>

\* No two pairs descend from the same grant.
NoFork ==
  \A p, q \in DOMAIN parent : parent[p] = parent[q] /\ parent[p] # None => p = q
=============================================================================
