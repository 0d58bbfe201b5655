---------------------------- MODULE OAuthTokens ----------------------------
(***************************************************************************)
(* The OAuth2 grants and tokens of HRPAuth: authorization codes, access    *)
(* tokens and refresh tokens, as services/oauth2_service.go keeps them in  *)
(* MySQL, with the HTTP handlers that use them running concurrently.       *)
(*                                                                         *)
(* The unit of atomicity is one SQL statement, or one transaction where    *)
(* the code opens one.  A handler that issues several statements is a call *)
(* whose locals are kept in `calls`, and takes one step per statement;     *)
(* statements of other handlers, of the cleanup task and of account        *)
(* deletion come in between.                                               *)
(*                                                                         *)
(* The code value, and the pair of token values, of a row are its key here *)
(* (they are random 32-byte strings under a UNIQUE index).  issueUserTokens*)
(* creates an access row and the refresh row that references it together,  *)
(* so one element of Pairs names both.                                     *)
(***************************************************************************)
EXTENDS Naturals

CONSTANTS
  Users,        \* uuids of registered users
  Clients,      \* active public clients that may use the code grant
  FirstParty,   \* the built-in public client (config oauth2.public_client_id)
  Codes,        \* authorization code values
  Pairs,        \* access/refresh token pairs
  Calls,        \* concurrent HTTP handlers
  CodeTTL,      \* authorization_code_ttl_sec, in ticks
  AccessTTL,    \* access_token_ttl_sec, in ticks
  RefreshTTL,   \* refresh_token_ttl_sec, in ticks
  MaxTime,      \* bound: the clock stops here
  None          \* "no value" in a call's locals and in the history

Grants == Codes \cup Pairs

ASSUME TokenConstants ==
  /\ FirstParty \in Clients
  /\ Codes \cap Pairs = {}
  /\ None \notin Users \cup Clients \cup Grants
  /\ {CodeTTL, AccessTTL, RefreshTTL, MaxTime} \subseteq Nat

VARIABLES
  now,       \* wall clock
  users,     \* users table: the uuids that have a row
  codes,     \* oauth2_authorization_codes, by code
  access,    \* oauth2_access_tokens, by pair
  refresh,   \* oauth2_refresh_tokens, by pair
  calls,     \* locals of the handlers in flight
  cleaner,   \* which statement of runOnce the cleanup task is at
  issued     \* history: every code and pair ever stored, for whom and from
             \* which grant

tables == <<users, codes, access, refresh>>
vars == <<now, users, codes, access, refresh, calls, cleaner, issued>>

CodeRow    == [client : Clients, user : Users, expires : Nat, consumed : BOOLEAN]
TokenRow   == [client : Clients, user : Users, expires : Nat, revoked : BOOLEAN]
Issuance   == [from : Grants \cup {None}, client : Clients, user : Users]

Idle == [pc |-> "idle", client |-> None, user |-> None, grant |-> None]

\* The three kinds of local state a handler in flight can hold.
CallState ==
  {Idle}
    \cup [pc : {"authorize", "login"}, client : Clients, user : Users, grant : {None}]
    \cup [pc : {"claim", "issue"}, client : Clients, user : Users, grant : Grants]
    \cup [pc : {"delete"}, client : {None}, user : Users, grant : {None}]

\* A table is a function whose domain is the set of keys that have a row.
IsTable(t, Keys, Row) == DOMAIN t \subseteq Keys /\ t \in [DOMAIN t -> Row]
Put(t, k, row) == [x \in DOMAIN t \cup {k} |-> IF x = k THEN row ELSE t[x]]
Without(t, S)  == [x \in DOMAIN t \ S |-> t[x]]
RowsOf(t, u)   == {x \in DOMAIN t : t[x].user = u}

TypeOK ==
  /\ now \in Nat
  /\ users \subseteq Users
  /\ IsTable(codes, Codes, CodeRow)
  /\ IsTable(access, Pairs, TokenRow)
  /\ IsTable(refresh, Pairs, TokenRow)
  /\ calls \in [Calls -> CallState]
  /\ cleaner \in {"access", "codes"}
  /\ IsTable(issued, Grants, Issuance)

Init ==
  /\ now = 0
  /\ users = Users
  /\ codes = [x \in {} |-> None]
  /\ access = [x \in {} |-> None]
  /\ refresh = [x \in {} |-> None]
  /\ calls = [r \in Calls |-> Idle]
  /\ cleaner = "access"
  /\ issued = [x \in {} |-> None]

----------------------------------------------------------------------------
\* What the code's tests on a row say, and what it does to a row.  A definition
\* named M_x is the definition x with a plausible mistake; it is used only to
\* show that the properties notice the mistake.

\* time.Now().After(row.ExpiresAt)
Expired(row) == now > row.expires

\* WHERE ... AND expires_at > now
Unexpired(row) == row.expires > now

\* ResolveAccessToken accepts the access token of pair p.
Usable(p) == p \in DOMAIN access /\ ~access[p].revoked /\ ~Expired(access[p])

\* The rows that the conditional UPDATEs of the two exchanges match.
M_CodeClaimable(c)    == c \in DOMAIN codes /\ Unexpired(codes[c])
CodeClaimable(c)      == c \in DOMAIN codes /\ ~codes[c].consumed /\ Unexpired(codes[c])
M_RefreshClaimable(p) == p \in DOMAIN refresh /\ Unexpired(refresh[p])
RefreshClaimable(p)   == p \in DOMAIN refresh /\ ~refresh[p].revoked /\ Unexpired(refresh[p])

M_Consume(row) == row
Consume(row)   == [row EXCEPT !.consumed = TRUE]

\* The row belongs to the client that authenticated the request.
M_OwnedBy(row, cl) == TRUE
OwnedBy(row, cl)   == row.client = cl

\* FOREIGN KEY (user_id) REFERENCES users (uuid), when a row is inserted.
UserKeyHolds(u)   == u \in users

\* Token values are random and unique: a value is never used twice.
M_FreshPairs == Pairs \ DOMAIN access
FreshPairs   == Pairs \ DOMAIN issued

\* The WHERE clauses of the two cleanup statements.
M_DeadAccess == {p \in DOMAIN access : access[p].expires < now}
DeadAccess   == {p \in DOMAIN access : access[p].expires < now \/ access[p].revoked}
M_DeadCodes  == {c \in DOMAIN codes : codes[c].expires < now \/ ~codes[c].consumed}
DeadCodes    == {c \in DOMAIN codes : codes[c].expires < now}

Goto(r, state) == calls' = [calls EXCEPT ![r] = state]
Return(r)      == Goto(r, Idle)

----------------------------------------------------------------------------
\* POST /oauth/authorize/decision: VerifyCredentials found the user ...
AuthorizeVerified(r) ==
  /\ calls[r].pc = "idle"
  /\ \E u \in users, cl \in Clients :
       Goto(r, [pc |-> "authorize", client |-> cl, user |-> u, grant |-> None])
  /\ UNCHANGED <<now, tables, cleaner, issued>>

\* ... and CreateAuthorizationCode inserts the row; the foreign key refuses
\* it when the user is gone by then (that request ends in CallFails).
CreateAuthorizationCode(r) ==
  LET call == calls[r] IN
  /\ call.pc = "authorize"
  /\ UserKeyHolds(call.user)
  /\ \E c \in Codes \ DOMAIN issued :
       /\ codes' = Put(codes, c, [client |-> call.client, user |-> call.user,
                                  expires |-> now + CodeTTL, consumed |-> FALSE])
       /\ issued' = Put(issued, c, [from |-> None, client |-> call.client,
                                    user |-> call.user])
  /\ Return(r)
  /\ UNCHANGED <<now, users, access, refresh, cleaner>>

----------------------------------------------------------------------------
\* POST /oauth/token, grant_type=authorization_code: the SELECT and the tests
\* on the row it returned.  A request refused here (wrong client, redirect or
\* verifier, consumed or expired code) changes nothing.
ExchangeCheck(r) ==
  /\ calls[r].pc = "idle"
  /\ \E c \in DOMAIN codes, cl \in Clients :
       /\ OwnedBy(codes[c], cl)
       /\ ~codes[c].consumed /\ ~Expired(codes[c])
       /\ Goto(r, [pc |-> "claim", client |-> cl, user |-> codes[c].user, grant |-> c])
  /\ UNCHANGED <<now, tables, cleaner, issued>>

\* The atomic UPDATE of consumed_at: the request goes on only if it changed a
\* row, otherwise it answers invalid_grant.
ClaimCode(r) ==
  LET call == calls[r] IN
  /\ call.pc = "claim" /\ call.grant \in Codes
  /\ IF CodeClaimable(call.grant)
       THEN /\ codes' = [codes EXCEPT ![call.grant] = Consume(@)]
            /\ Goto(r, [call EXCEPT !.pc = "issue"])
       ELSE Return(r) /\ UNCHANGED codes
  /\ UNCHANGED <<now, users, access, refresh, cleaner, issued>>

\* grant_type=refresh_token: the SELECT and its tests ...
RefreshCheck(r) ==
  /\ calls[r].pc = "idle"
  /\ \E p \in DOMAIN refresh, cl \in Clients :
       /\ OwnedBy(refresh[p], cl)
       /\ ~refresh[p].revoked /\ ~Expired(refresh[p])
       /\ Goto(r, [pc |-> "claim", client |-> cl, user |-> refresh[p].user, grant |-> p])
  /\ UNCHANGED <<now, tables, cleaner, issued>>

\* ... and the atomic UPDATE of revoked_at.
ClaimRefresh(r) ==
  LET call == calls[r] IN
  /\ call.pc = "claim" /\ call.grant \in Pairs
  /\ IF RefreshClaimable(call.grant)
       THEN /\ refresh' = [refresh EXCEPT ![call.grant].revoked = TRUE]
            /\ Goto(r, [call EXCEPT !.pc = "issue"])
       ELSE Return(r) /\ UNCHANGED refresh
  /\ UNCHANGED <<now, users, codes, access, cleaner, issued>>

\* A first-party login that has passed every factor: IssueFirstPartyUserTokens
\* for a user read earlier in the same request.
LoginVerified(r) ==
  /\ calls[r].pc = "idle"
  /\ \E u \in users :
       Goto(r, [pc |-> "login", client |-> FirstParty, user |-> u, grant |-> None])
  /\ UNCHANGED <<now, tables, cleaner, issued>>

\* issueUserTokens: one transaction inserts the access row and the refresh row
\* that references it.  Both rows reference the user.
IssueUserTokens(r) ==
  LET call == calls[r]
      row(ttl) == [client |-> call.client, user |-> call.user,
                   expires |-> now + ttl, revoked |-> FALSE]
  IN
  /\ call.pc \in {"issue", "login"}
  /\ UserKeyHolds(call.user)
  /\ \E p \in FreshPairs :
       /\ access' = Put(access, p, row(AccessTTL))
       /\ refresh' = Put(refresh, p, row(RefreshTTL))
       /\ issued' = Put(issued, p, [from |-> call.grant, client |-> call.client,
                                    user |-> call.user])
  /\ Return(r)
  /\ UNCHANGED <<now, users, codes, cleaner>>

\* Any statement may fail (a foreign key that refuses the row, a lost
\* connection): the handler answers with an error and nothing it did before is
\* undone.
CallFails(r) ==
  /\ calls[r].pc # "idle"
  /\ Return(r)
  /\ UNCHANGED <<now, tables, cleaner, issued>>

----------------------------------------------------------------------------
\* POST /oauth/revoke and POST /logout: the access row only.
RevokeAccessToken(p) ==
  /\ p \in DOMAIN access /\ ~access[p].revoked
  /\ access' = [access EXCEPT ![p].revoked = TRUE]
  /\ UNCHANGED <<now, users, codes, refresh, calls, cleaner, issued>>

\* DELETE account: the bearer token resolves to its user and the password
\* matches ...
DeleteVerified(r) ==
  /\ calls[r].pc = "idle"
  /\ \E p \in Pairs :
       /\ Usable(p) /\ access[p].user \in users
       /\ Goto(r, [pc |-> "delete", client |-> None, user |-> access[p].user, grant |-> None])
  /\ UNCHANGED <<now, tables, cleaner, issued>>

\* ... and one transaction deletes the user's codes, access tokens, refresh
\* tokens and the user.  Deleting access rows also deletes, by the foreign
\* key's ON DELETE CASCADE, the refresh rows that reference them.
DeleteAccount(r) ==
  LET u == calls[r].user IN
  /\ calls[r].pc = "delete"
  /\ codes' = Without(codes, RowsOf(codes, u))
  /\ access' = Without(access, RowsOf(access, u))
  /\ refresh' = Without(refresh, RowsOf(access, u) \cup RowsOf(refresh, u))
  /\ users' = users \ {u}
  /\ Return(r)
  /\ UNCHANGED <<now, cleaner, issued>>

----------------------------------------------------------------------------
\* The daily cleanup task, statement by statement: an error of the first
\* statement is logged and does not keep the second from running.

\* CleanupExpiredAccessTokens: expired or revoked access rows, and by cascade
\* the refresh rows that reference them.
CleanupExpiredAccessTokens ==
  /\ cleaner = "access"
  /\ access' = Without(access, DeadAccess)
  /\ refresh' = Without(refresh, DeadAccess)
  /\ cleaner' = "codes"
  /\ UNCHANGED <<now, users, codes, calls, issued>>

\* CleanupExpiredAuthorizationCodes.
CleanupExpiredAuthorizationCodes ==
  /\ cleaner = "codes"
  /\ codes' = Without(codes, DeadCodes)
  /\ cleaner' = "access"
  /\ UNCHANGED <<now, users, access, refresh, calls, issued>>


CleanupFails ==
  /\ cleaner' = IF cleaner = "access" THEN "codes" ELSE "access"
  /\ UNCHANGED <<now, tables, calls, issued>>

----------------------------------------------------------------------------
\* The process stops and starts again: every handler in flight is lost, and
\* main starts the cleanup task from its first statement.
Restart ==
  /\ calls' = [r \in Calls |-> Idle]
  /\ cleaner' = "access"
  /\ UNCHANGED <<now, tables, issued>>

Tick ==
  /\ now < MaxTime
  /\ now' = now + 1
  /\ UNCHANGED <<tables, calls, cleaner, issued>>

CallStep(r) ==
  \/ AuthorizeVerified(r) \/ CreateAuthorizationCode(r)
  \/ ExchangeCheck(r) \/ ClaimCode(r)
  \/ RefreshCheck(r) \/ ClaimRefresh(r)
  \/ LoginVerified(r) \/ IssueUserTokens(r)
  \/ DeleteVerified(r) \/ DeleteAccount(r)
  \/ CallFails(r)

Cleanup == CleanupExpiredAccessTokens \/ CleanupExpiredAuthorizationCodes \/ CleanupFails

Next ==
  \/ \E r \in Calls : CallStep(r)
  \/ \E p \in Pairs : RevokeAccessToken(p)
  \/ Cleanup
  \/ Restart
  \/ Tick

Spec == Init /\ [][Next]_vars

\* The ticker of the cleanup task keeps firing, and a statement that is run
\* again and again does not fail for ever.
Fairness ==
  /\ WF_vars(Cleanup)
  /\ SF_vars(CleanupExpiredAccessTokens)
  /\ SF_vars(CleanupExpiredAuthorizationCodes)

FairSpec == Spec /\ Fairness

----------------------------------------------------------------------------
\* Safety.

\* However the requests that present a grant interleave, fail or are lost in a
\* restart, at most one token pair is ever issued for it: an authorization
\* code is single-use and a refresh token rotates once
\* (ExchangeAuthorizationCode, RefreshUserToken: check, conditional UPDATE,
\* issue in three statements).
GrantYieldsOnePair ==
  \A p, q \in DOMAIN issued :
    issued[p].from = issued[q].from /\ issued[p].from # None => p = q

\* A pair is issued to the client and the user its grant was issued to, along
\* a whole chain of rotations: the handler takes the user from the row it read
\* and the client from the request it authenticated, and uses both after
\* another statement.
PairMatchesGrant ==
  \A p \in DOMAIN issued :
    LET g == issued[p].from IN
      g # None => /\ g \in DOMAIN issued
                  /\ issued[g].client = issued[p].client
                  /\ issued[g].user = issued[p].user

\* No code or token outlives its user, even when the account is deleted while
\* an exchange is between its statements; and a refresh token never outlives
\* the access row it references, whose client and user are its own.
NoOrphanRows ==
  /\ \A c \in DOMAIN codes : codes[c].user \in users
  /\ \A p \in DOMAIN access : access[p].user \in users
  /\ \A p \in DOMAIN refresh :
       /\ p \in DOMAIN access
       /\ refresh[p].client = access[p].client
       /\ refresh[p].user = access[p].user

\* Once a grant has been exchanged it can never be claimed again, whatever
\* happens to its row afterwards; likewise while a request holds it.
ExchangedGrantIsSpent ==
  \A g \in Grants :
    (\/ \E p \in DOMAIN issued : issued[p].from = g
     \/ \E r \in Calls : calls[r].pc = "issue" /\ calls[r].grant = g)
      => ~CodeClaimable(g) /\ ~RefreshClaimable(g)

\* The invariant that makes single use inductive.  The history covers and
\* agrees with the tables and with the grants handlers hold; one handler at
\* most holds a claimed grant, which is spent and has no pair yet; and a grant
\* that has a pair is spent.  The last two facts are what the conditional
\* UPDATE buys: it succeeds only on a grant that is not spent.
Spent(g) ==
  /\ g \in DOMAIN codes => codes[g].consumed
  /\ g \in DOMAIN refresh => refresh[g].revoked

HeldBy(r, g) == calls[r].pc = "issue" /\ calls[r].grant = g

HistoryAgrees(t) ==
  \A k \in DOMAIN t :
    k \in DOMAIN issued /\ t[k].client = issued[k].client /\ t[k].user = issued[k].user

SingleUseInv ==
  /\ HistoryAgrees(codes) /\ HistoryAgrees(access) /\ HistoryAgrees(refresh)
  /\ \A r \in Calls : calls[r].pc \in {"claim", "issue"} =>
       LET g == calls[r].grant IN
         g \in DOMAIN issued /\ calls[r].client = issued[g].client
                            /\ calls[r].user = issued[g].user
  /\ \A r, s \in Calls, g \in Grants : HeldBy(r, g) /\ HeldBy(s, g) => r = s
  /\ \A r \in Calls, g \in Grants :
       HeldBy(r, g) => Spent(g) /\ \A p \in DOMAIN issued : issued[p].from # g
  /\ \A p \in DOMAIN issued : issued[p].from # None => Spent(issued[p].from)
  /\ GrantYieldsOnePair
  /\ PairMatchesGrant

\* What a step may never do.

\* An access token that has been issued and has stopped resolving (revoked,
\* expired, cleaned up or deleted with its account) never resolves again.
DeadTokensStayDead ==
  [][\A p \in DOMAIN issued : Usable(p)' => Usable(p)]_vars

\* The daily cleanup never takes away a code that could still be exchanged: a
\* claimable code leaves the table only with its user.
CleanupKeepsClaimableCodes ==
  [][\A c \in DOMAIN codes : CodeClaimable(c) /\ codes[c].user \in users'
                                => c \in DOMAIN codes']_vars

----------------------------------------------------------------------------
\* Liveness, under FairSpec.

\* Every access token that has expired or been revoked is removed in the end,
\* and so is every expired code: the failure of one cleanup statement, or a
\* restart between the two, does not leave garbage for ever.
GarbageIsCollected ==
  /\ \A p \in Pairs : (p \in DOMAIN access /\ ~Usable(p)) ~> (p \notin DOMAIN access)
  /\ \A c \in Codes : (c \in DOMAIN codes /\ Expired(codes[c])) ~> (c \notin DOMAIN codes)

----------------------------------------------------------------------------
\* The abstract ledger that the tables and the requests in flight implement.

GrantStatus(g) ==
  CASE g \notin DOMAIN issued -> "unborn"
    [] \E r \in Calls : HeldBy(r, g) -> "claimed"
    [] g \in DOMAIN codes /\ ~codes[g].consumed -> "open"
    [] g \in DOMAIN refresh /\ ~refresh[g].revoked -> "open"
    [] OTHER -> "closed"

Abstract == INSTANCE GrantLedger WITH
  status <- [g \in Grants |-> GrantStatus(g)],
  parent <- [p \in DOMAIN issued \cap Pairs |-> issued[p].from]

\* The requests, the tables, the cleanup and the account deletions together
\* behave as the ledger of single-use grants.
ImplementsLedger == Abstract!Ledger

----------------------------------------------------------------------------
\* What the documentation says and the code does not do; it is refuted.

\* knowledge/0009-token-system.md lists what the cleanup task deletes: expired
\* or revoked access tokens and expired codes.  A refresh token that could
\* still be exchanged is not among them: unless its session was revoked, it
\* leaves the table only with its user.
CleanupKeepsClaimableRefreshTokens ==
  [][\A p \in DOMAIN refresh :
       RefreshClaimable(p) /\ ~access[p].revoked /\ refresh[p].user \in users'
         => p \in DOMAIN refresh']_vars
=============================================================================
