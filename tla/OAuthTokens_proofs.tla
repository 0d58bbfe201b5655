------------------------- MODULE OAuthTokens_proofs -------------------------
(***************************************************************************)
(* Theorems about OAuthTokens, for every choice of its constants.          *)
(***************************************************************************)
EXTENDS OAuthTokens, TLAPS

----------------------------------------------------------------------------
\* Tables.

\* Inserting a row of the right kind under a key keeps a table a table.
LEMMA PutTable ==
  ASSUME NEW Keys, NEW Row, NEW t, IsTable(t, Keys, Row),
         NEW k \in Keys, NEW row \in Row
  PROVE  IsTable(Put(t, k, row), Keys, Row)
  BY DEF IsTable, Put

\* Deleting rows keeps a table a table.
LEMMA WithoutTable ==
  ASSUME NEW Keys, NEW Row, NEW t, IsTable(t, Keys, Row), NEW S
  PROVE  IsTable(Without(t, S), Keys, Row)
  BY DEF IsTable, Without

\* Updating one row keeps a table a table.
LEMMA UpdateTable ==
  ASSUME NEW Keys, NEW Row, NEW t, IsTable(t, Keys, Row),
         NEW k \in DOMAIN t, NEW row \in Row
  PROVE  IsTable([t EXCEPT ![k] = row], Keys, Row)
  BY DEF IsTable

\* A row found in a table is of the table's kind, under one of its keys.
LEMMA RowOfTable ==
  ASSUME NEW Keys, NEW Row, NEW t, IsTable(t, Keys, Row), NEW k \in DOMAIN t
  PROVE  k \in Keys /\ t[k] \in Row
  BY DEF IsTable

LEMMA EmptyTable ==
  ASSUME NEW Keys, NEW Row, NEW v
  PROVE  IsTable([x \in {} |-> v], Keys, Row)
  BY DEF IsTable

----------------------------------------------------------------------------
\* Every variable keeps its type.

\* The state a handler is left in after a step is one it can hold.
LEMMA GotoType ==
  ASSUME calls \in [Calls -> CallState], NEW r \in Calls, NEW s \in CallState, Goto(r, s)
  PROVE  calls' \in [Calls -> CallState]
  BY DEF Goto

LEMMA IdleType == Idle \in CallState
  BY DEF CallState

LEMMA TypeStep == TypeOK /\ [Next]_vars => TypeOK'
<1> SUFFICES ASSUME TypeOK, [Next]_vars PROVE TypeOK'
  OBVIOUS
<1> USE TokenConstants
<1>u. CASE UNCHANGED vars
  BY <1>u DEF TypeOK, vars, tables
<1>1. ASSUME NEW r \in Calls, AuthorizeVerified(r) PROVE TypeOK'
  <2>1. PICK u \in users, cl \in Clients :
          Goto(r, [pc |-> "authorize", client |-> cl, user |-> u, grant |-> None])
    BY <1>1 DEF AuthorizeVerified
  <2>2. [pc |-> "authorize", client |-> cl, user |-> u, grant |-> None] \in CallState
    BY DEF TypeOK, CallState
  <2>3. calls' \in [Calls -> CallState]
    BY <2>1, <2>2, GotoType DEF TypeOK
  <2> QED BY <1>1, <2>3 DEF AuthorizeVerified, TypeOK, tables
<1>2. ASSUME NEW r \in Calls, CreateAuthorizationCode(r) PROVE TypeOK'
  <2> DEFINE call == calls[r]
  <2>1. call.user \in Users /\ call.client \in Clients
    BY <1>2 DEF CreateAuthorizationCode, TypeOK, CallState, Idle
  <2>2. PICK c \in Codes \ DOMAIN issued :
       /\ codes' = Put(codes, c, [client |-> call.client, user |-> call.user,
                                  expires |-> now + CodeTTL, consumed |-> FALSE])
       /\ issued' = Put(issued, c, [from |-> None, client |-> call.client,
                                    user |-> call.user])
    BY <1>2 DEF CreateAuthorizationCode
  <2>3. [client |-> call.client, user |-> call.user,
         expires |-> now + CodeTTL, consumed |-> FALSE] \in CodeRow
    BY <2>1 DEF TypeOK, CodeRow
  <2>4. [from |-> None, client |-> call.client, user |-> call.user] \in Issuance
    BY <2>1 DEF Issuance
  <2>5. IsTable(codes', Codes, CodeRow)
    BY <2>2, <2>3, PutTable DEF TypeOK
  <2>6. IsTable(issued', Grants, Issuance)
    BY <2>2, <2>4, PutTable DEF TypeOK, Grants
  <2>7. calls' \in [Calls -> CallState]
    BY <1>2, GotoType, IdleType DEF CreateAuthorizationCode, Return, TypeOK
  <2> QED BY <1>2, <2>5, <2>6, <2>7 DEF CreateAuthorizationCode, TypeOK
<1>3. ASSUME NEW r \in Calls, ExchangeCheck(r) PROVE TypeOK'
  <2>1. PICK c \in DOMAIN codes, cl \in Clients :
          Goto(r, [pc |-> "claim", client |-> cl, user |-> codes[c].user, grant |-> c])
    BY <1>3 DEF ExchangeCheck
  <2>2. c \in Codes /\ codes[c] \in CodeRow
    BY RowOfTable DEF TypeOK
  <2>3. [pc |-> "claim", client |-> cl, user |-> codes[c].user, grant |-> c] \in CallState
    BY <2>2 DEF CallState, CodeRow, Grants
  <2>4. calls' \in [Calls -> CallState]
    BY <2>1, <2>3, GotoType DEF TypeOK
  <2> QED BY <1>3, <2>4 DEF ExchangeCheck, TypeOK, tables
<1>4. ASSUME NEW r \in Calls, ClaimCode(r) PROVE TypeOK'
  <2> DEFINE call == calls[r]
  <2>1. CASE CodeClaimable(call.grant)
    <3>1. /\ codes' = [codes EXCEPT ![call.grant] = Consume(@)]
          /\ Goto(r, [call EXCEPT !.pc = "issue"])
      BY <1>4, <2>1 DEF ClaimCode
    <3>2. call.grant \in DOMAIN codes /\ codes[call.grant] \in CodeRow
      BY <2>1, RowOfTable DEF CodeClaimable, TypeOK
    <3>3. Consume(codes[call.grant]) \in CodeRow
      BY <3>2 DEF Consume, CodeRow
    <3>4. IsTable(codes', Codes, CodeRow)
      BY <3>1, <3>2, <3>3, UpdateTable DEF TypeOK
    <3>5. [call EXCEPT !.pc = "issue"] \in CallState
      BY <1>4 DEF ClaimCode, TypeOK, CallState, Idle
    <3>6. calls' \in [Calls -> CallState]
      BY <3>1, <3>5, GotoType DEF TypeOK
    <3> QED BY <1>4, <3>4, <3>6 DEF ClaimCode, TypeOK
  <2>2. CASE ~CodeClaimable(call.grant)
    <3>1. Return(r) /\ UNCHANGED codes
      BY <1>4, <2>2 DEF ClaimCode
    <3>2. calls' \in [Calls -> CallState]
      BY <3>1, GotoType, IdleType DEF Return, TypeOK
    <3> QED BY <1>4, <3>1, <3>2 DEF ClaimCode, TypeOK
  <2> QED BY <2>1, <2>2
<1>5. ASSUME NEW r \in Calls, RefreshCheck(r) PROVE TypeOK'
  <2>1. PICK p \in DOMAIN refresh, cl \in Clients :
          Goto(r, [pc |-> "claim", client |-> cl, user |-> refresh[p].user, grant |-> p])
    BY <1>5 DEF RefreshCheck
  <2>2. p \in Pairs /\ refresh[p] \in TokenRow
    BY RowOfTable DEF TypeOK
  <2>3. [pc |-> "claim", client |-> cl, user |-> refresh[p].user, grant |-> p] \in CallState
    BY <2>2 DEF CallState, TokenRow, Grants
  <2>4. calls' \in [Calls -> CallState]
    BY <2>1, <2>3, GotoType DEF TypeOK
  <2> QED BY <1>5, <2>4 DEF RefreshCheck, TypeOK, tables
<1>6. ASSUME NEW r \in Calls, ClaimRefresh(r) PROVE TypeOK'
  <2> DEFINE call == calls[r]
  <2>1. CASE RefreshClaimable(call.grant)
    <3>1. /\ refresh' = [refresh EXCEPT ![call.grant].revoked = TRUE]
          /\ Goto(r, [call EXCEPT !.pc = "issue"])
      BY <1>6, <2>1 DEF ClaimRefresh
    <3>2. call.grant \in DOMAIN refresh /\ refresh[call.grant] \in TokenRow
      BY <2>1, RowOfTable DEF RefreshClaimable, TypeOK
    <3>3. [refresh[call.grant] EXCEPT !.revoked = TRUE] \in TokenRow
      BY <3>2 DEF TokenRow
    <3>4. IsTable(refresh', Pairs, TokenRow)
      BY <3>1, <3>2, <3>3, UpdateTable DEF TypeOK
    <3>5. [call EXCEPT !.pc = "issue"] \in CallState
      BY <1>6 DEF ClaimRefresh, TypeOK, CallState, Idle
    <3>6. calls' \in [Calls -> CallState]
      BY <3>1, <3>5, GotoType DEF TypeOK
    <3> QED BY <1>6, <3>4, <3>6 DEF ClaimRefresh, TypeOK
  <2>2. CASE ~RefreshClaimable(call.grant)
    <3>1. Return(r) /\ UNCHANGED refresh
      BY <1>6, <2>2 DEF ClaimRefresh
    <3>2. calls' \in [Calls -> CallState]
      BY <3>1, GotoType, IdleType DEF Return, TypeOK
    <3> QED BY <1>6, <3>1, <3>2 DEF ClaimRefresh, TypeOK
  <2> QED BY <2>1, <2>2
<1>7. ASSUME NEW r \in Calls, LoginVerified(r) PROVE TypeOK'
  <2>1. PICK u \in users :
          Goto(r, [pc |-> "login", client |-> FirstParty, user |-> u, grant |-> None])
    BY <1>7 DEF LoginVerified
  <2>2. [pc |-> "login", client |-> FirstParty, user |-> u, grant |-> None] \in CallState
    BY DEF TypeOK, CallState
  <2>3. calls' \in [Calls -> CallState]
    BY <2>1, <2>2, GotoType DEF TypeOK
  <2> QED BY <1>7, <2>3 DEF LoginVerified, TypeOK, tables
<1>8. ASSUME NEW r \in Calls, IssueUserTokens(r) PROVE TypeOK'
  <2> DEFINE call == calls[r]
             row(ttl) == [client |-> call.client, user |-> call.user,
                          expires |-> now + ttl, revoked |-> FALSE]
  <2>1. /\ call.user \in Users /\ call.client \in Clients
        /\ call.grant \in Grants \cup {None}
    BY <1>8 DEF IssueUserTokens, TypeOK, CallState, Idle
  <2>2. PICK p \in FreshPairs :
       /\ access' = Put(access, p, row(AccessTTL))
       /\ refresh' = Put(refresh, p, row(RefreshTTL))
       /\ issued' = Put(issued, p, [from |-> call.grant, client |-> call.client,
                                    user |-> call.user])
    BY <1>8 DEF IssueUserTokens
  <2>3. row(AccessTTL) \in TokenRow /\ row(RefreshTTL) \in TokenRow
    BY <2>1 DEF TypeOK, TokenRow
  <2>4. [from |-> call.grant, client |-> call.client, user |-> call.user] \in Issuance
    BY <2>1 DEF Issuance
  <2>5. p \in Pairs /\ p \in Grants
    BY DEF FreshPairs, Grants
  <2> HIDE DEF row
  <2>6. IsTable(access', Pairs, TokenRow) /\ IsTable(refresh', Pairs, TokenRow)
    BY <2>2, <2>3, <2>5, PutTable DEF TypeOK
  <2>7. IsTable(issued', Grants, Issuance)
    BY <2>2, <2>4, <2>5, PutTable DEF TypeOK
  <2>8. calls' \in [Calls -> CallState]
    BY <1>8, GotoType, IdleType DEF IssueUserTokens, Return, TypeOK
  <2> QED BY <1>8, <2>6, <2>7, <2>8 DEF IssueUserTokens, TypeOK
<1>9. ASSUME NEW r \in Calls, DeleteVerified(r) PROVE TypeOK'
  <2>1. PICK p \in Pairs :
       /\ Usable(p) /\ access[p].user \in users
       /\ Goto(r, [pc |-> "delete", client |-> None, user |-> access[p].user, grant |-> None])
    BY <1>9 DEF DeleteVerified
  <2>2. [pc |-> "delete", client |-> None, user |-> access[p].user, grant |-> None] \in CallState
    BY <2>1 DEF TypeOK, CallState
  <2>3. calls' \in [Calls -> CallState]
    BY <2>1, <2>2, GotoType DEF TypeOK
  <2> QED BY <1>9, <2>3 DEF DeleteVerified, TypeOK, tables
<1>10. ASSUME NEW r \in Calls, DeleteAccount(r) PROVE TypeOK'
  <2>1. calls' \in [Calls -> CallState]
    BY <1>10, GotoType, IdleType DEF DeleteAccount, Return, TypeOK
  <2> QED BY <1>10, <2>1, WithoutTable DEF DeleteAccount, TypeOK
<1>11. ASSUME NEW r \in Calls, CallFails(r) PROVE TypeOK'
  <2>1. calls' \in [Calls -> CallState]
    BY <1>11, GotoType, IdleType DEF CallFails, Return, TypeOK
  <2> QED BY <1>11, <2>1 DEF CallFails, TypeOK, tables
<1>12. ASSUME NEW p \in Pairs, RevokeAccessToken(p) PROVE TypeOK'
  <2>1. access[p] \in TokenRow
    BY <1>12, RowOfTable DEF RevokeAccessToken, TypeOK
  <2>2. [access[p] EXCEPT !.revoked = TRUE] \in TokenRow
    BY <2>1 DEF TokenRow
  <2>3. IsTable(access', Pairs, TokenRow)
    BY <1>12, <2>2, UpdateTable DEF RevokeAccessToken, TypeOK
  <2> QED BY <1>12, <2>3 DEF RevokeAccessToken, TypeOK
<1>13. CASE CleanupExpiredAccessTokens
  BY <1>13, WithoutTable DEF CleanupExpiredAccessTokens, TypeOK
<1>14. CASE CleanupExpiredAuthorizationCodes
  BY <1>14, WithoutTable DEF CleanupExpiredAuthorizationCodes, TypeOK
<1>15. CASE CleanupFails
  BY <1>15 DEF CleanupFails, TypeOK, tables
<1>16. CASE Restart
  BY <1>16, IdleType DEF Restart, TypeOK, tables
<1>17. CASE Tick
  BY <1>17 DEF Tick, TypeOK, tables
<1> QED BY <1>u, <1>1, <1>2, <1>3, <1>4, <1>5, <1>6, <1>7, <1>8, <1>9, <1>10, <1>11,
           <1>12, <1>13, <1>14, <1>15, <1>16, <1>17 DEF Next, CallStep, Cleanup

\* Every reachable state is well typed: tables stay tables and a handler in
\* flight holds only what its next statement needs.
THEOREM TypeCorrect == Spec => []TypeOK
<1>1. Init => TypeOK
  BY TokenConstants, EmptyTable, IdleType DEF Init, TypeOK
<1> QED BY <1>1, TypeStep, PTL DEF Spec

----------------------------------------------------------------------------
\* Grants are single-use.

\* The steps that leave the history and the grants that handlers hold alone,
\* and neither add rows nor revive spent ones, keep SingleUseInv.
LEMMA QuietStep ==
  ASSUME SingleUseInv, UNCHANGED issued,
         \A c \in DOMAIN codes' :
           /\ c \in DOMAIN codes
           /\ codes'[c].client = codes[c].client /\ codes'[c].user = codes[c].user
           /\ codes[c].consumed => codes'[c].consumed,
         \A p \in DOMAIN access' :
           /\ p \in DOMAIN access
           /\ access'[p].client = access[p].client /\ access'[p].user = access[p].user,
         \A p \in DOMAIN refresh' :
           /\ p \in DOMAIN refresh
           /\ refresh'[p].client = refresh[p].client /\ refresh'[p].user = refresh[p].user
           /\ refresh[p].revoked => refresh'[p].revoked,
         \A r \in Calls : calls'[r].pc \in {"claim", "issue"} => calls'[r] = calls[r]
  PROVE  SingleUseInv'
  BY DEF SingleUseInv, HistoryAgrees, HeldBy, Spent, GrantYieldsOnePair, PairMatchesGrant

\* Reading a row into a handler's locals keeps SingleUseInv: the locals agree
\* with the history because the row does.
LEMMA CheckStep ==
  ASSUME TypeOK, SingleUseInv, NEW r \in Calls, NEW g \in Grants, NEW s \in CallState,
         s.pc = "claim", s.grant = g,
         g \in DOMAIN issued, s.client = issued[g].client, s.user = issued[g].user,
         Goto(r, s), UNCHANGED <<codes, access, refresh, issued>>
  PROVE  SingleUseInv'
<1>1. calls'[r] = s /\ \A q \in Calls : q # r => calls'[q] = calls[q]
  BY DEF TypeOK, Goto
<1> QED
  BY <1>1 DEF SingleUseInv, HistoryAgrees, HeldBy, Spent, GrantYieldsOnePair, PairMatchesGrant

\* Claiming a grant keeps SingleUseInv: the grant was not spent, so no handler
\* held it and no pair had been issued for it; now it is spent.
LEMMA ClaimStep ==
  ASSUME TypeOK, SingleUseInv, NEW r \in Calls, calls[r].pc = "claim",
         Goto(r, [calls[r] EXCEPT !.pc = "issue"]),
         ~Spent(calls[r].grant), Spent(calls[r].grant)',
         \A g \in Grants : Spent(g) => Spent(g)',
         HistoryAgrees(codes)', HistoryAgrees(access)', HistoryAgrees(refresh)',
         UNCHANGED issued
  PROVE  SingleUseInv'
<1> DEFINE g == calls[r].grant
<1>1. calls[r] \in CallState /\ calls[r].grant \in Grants
  BY DEF TypeOK, CallState, Idle
<1>2. /\ calls'[r].pc = "issue" /\ calls'[r].grant = g
      /\ calls'[r].client = calls[r].client /\ calls'[r].user = calls[r].user
      /\ \A q \in Calls : q # r => calls'[q] = calls[q]
  BY <1>1 DEF TypeOK, Goto, CallState, Idle
<1>3. \A q \in Calls : ~HeldBy(q, g)
  BY <1>1 DEF SingleUseInv
<1>4. g # None /\ \A p \in DOMAIN issued : issued[p].from # g
  BY <1>1, TokenConstants DEF SingleUseInv
<1>5. \A q \in Calls, h \in Grants : HeldBy(q, h)' => HeldBy(q, h) \/ (q = r /\ h = g)
  BY <1>2 DEF HeldBy
<1>6. \A q, s \in Calls, h \in Grants : HeldBy(q, h)' /\ HeldBy(s, h)' => q = s
  BY <1>3, <1>5 DEF SingleUseInv
<1>7. \A q \in Calls, h \in Grants :
        HeldBy(q, h)' => Spent(h)' /\ \A p \in DOMAIN issued' : issued'[p].from # h
  BY <1>1, <1>2, <1>4, <1>5 DEF SingleUseInv, Spent
<1>8. \A p \in DOMAIN issued : issued[p].from \in Grants \cup {None}
  BY DEF TypeOK, IsTable, Issuance
<1>9. \A p \in DOMAIN issued' : issued'[p].from # None => Spent(issued[p].from)'
  BY <1>8 DEF SingleUseInv
<1>10. \A q \in Calls : calls'[q].pc \in {"claim", "issue"} =>
         /\ calls'[q].grant \in DOMAIN issued'
         /\ calls'[q].client = issued'[calls'[q].grant].client
         /\ calls'[q].user = issued'[calls'[q].grant].user
  BY <1>2 DEF SingleUseInv
<1>11. GrantYieldsOnePair' /\ PairMatchesGrant'
  BY DEF SingleUseInv, GrantYieldsOnePair, PairMatchesGrant
<1> QED BY <1>6, <1>7, <1>9, <1>10, <1>11 DEF SingleUseInv

\* Issuing a pair keeps SingleUseInv: the handler that held the grant lets it
\* go, and the new pair is a grant nobody has seen before.
LEMMA IssueStep ==
  ASSUME TypeOK, SingleUseInv, NEW r \in Calls, IssueUserTokens(r)
  PROVE  SingleUseInv'
<1> DEFINE call == calls[r]
           row(ttl) == [client |-> call.client, user |-> call.user,
                        expires |-> now + ttl, revoked |-> FALSE]
<1>1. PICK p \in FreshPairs :
        /\ access' = Put(access, p, row(AccessTTL))
        /\ refresh' = Put(refresh, p, row(RefreshTTL))
        /\ issued' = Put(issued, p, [from |-> call.grant, client |-> call.client,
                                     user |-> call.user])
  BY DEF IssueUserTokens
<1>2. p \in Pairs /\ p \in Grants /\ p \notin DOMAIN issued /\ p \notin Codes /\ p # None
  BY TokenConstants DEF FreshPairs, Grants
<1>3. /\ calls'[r] = Idle
      /\ \A q \in Calls : q # r => calls'[q] = calls[q]
      /\ codes' = codes
  BY DEF IssueUserTokens, Return, Goto, TypeOK
<1>4. /\ DOMAIN issued' = DOMAIN issued \cup {p}
      /\ issued'[p].from = call.grant
      /\ issued'[p].client = call.client /\ issued'[p].user = call.user
      /\ \A q \in DOMAIN issued : issued'[q] = issued[q]
  BY <1>1, <1>2 DEF Put
<1>5. /\ DOMAIN access' = DOMAIN access \cup {p}
      /\ access'[p].client = call.client /\ access'[p].user = call.user
      /\ \A q \in DOMAIN access : q # p => access'[q] = access[q]
  BY <1>1 DEF Put
<1>6. /\ DOMAIN refresh' = DOMAIN refresh \cup {p}
      /\ refresh'[p].client = call.client /\ refresh'[p].user = call.user
      /\ \A q \in DOMAIN refresh : q # p => refresh'[q] = refresh[q]
  BY <1>1 DEF Put
<1>7. \/ call.pc = "issue" /\ call.grant \in Grants
      \/ call.pc = "login" /\ call.grant = None
  BY DEF IssueUserTokens, TypeOK, CallState, Idle
<1>8. \A g \in DOMAIN issued : Spent(g) => Spent(g)'
  BY <1>2, <1>3, <1>6 DEF Spent
<1>9. HistoryAgrees(codes)' /\ HistoryAgrees(access)' /\ HistoryAgrees(refresh)'
  BY <1>3, <1>4, <1>5, <1>6 DEF SingleUseInv, HistoryAgrees
<1>10. \A q \in Calls, g \in Grants : HeldBy(q, g)' => HeldBy(q, g) /\ q # r /\ g \in DOMAIN issued
  BY <1>3 DEF HeldBy, Idle, SingleUseInv
<1>11. \A q \in Calls : calls'[q].pc \in {"claim", "issue"} =>
         /\ calls'[q].grant \in DOMAIN issued'
         /\ calls'[q].client = issued'[calls'[q].grant].client
         /\ calls'[q].user = issued'[calls'[q].grant].user
  BY <1>3, <1>4 DEF SingleUseInv, Idle
<1>12. \A q, s \in Calls, g \in Grants : HeldBy(q, g)' /\ HeldBy(s, g)' => q = s
  BY <1>10 DEF SingleUseInv
<1>13. \A q \in Calls, g \in Grants :
         HeldBy(q, g)' => Spent(g)' /\ \A x \in DOMAIN issued' : issued'[x].from # g
  <2> SUFFICES ASSUME NEW q \in Calls, NEW g \in Grants, HeldBy(q, g)'
               PROVE  Spent(g)' /\ \A x \in DOMAIN issued' : issued'[x].from # g
    OBVIOUS
  <2>1. HeldBy(q, g) /\ q # r /\ g \in DOMAIN issued
    BY <1>10
  <2>2. Spent(g)' /\ \A x \in DOMAIN issued : issued[x].from # g
    BY <2>1, <1>8 DEF SingleUseInv
  <2>3. call.grant # g
    BY <2>1, <1>7, TokenConstants DEF SingleUseInv, HeldBy
  <2> QED BY <2>2, <2>3, <1>4
<1>14. call.grant # None => /\ call.grant \in DOMAIN issued
                            /\ Spent(call.grant)
                            /\ \A x \in DOMAIN issued : issued[x].from # call.grant
                            /\ issued[call.grant].client = call.client
                            /\ issued[call.grant].user = call.user
  BY <1>7 DEF SingleUseInv, HeldBy
<1>15. \A x \in DOMAIN issued :
         issued[x].from # None => issued[x].from \in DOMAIN issued /\ Spent(issued[x].from)
  BY DEF SingleUseInv, PairMatchesGrant
<1>16. \A x \in DOMAIN issued' : issued'[x].from # None => Spent(issued[x].from)'
  BY <1>4, <1>8, <1>14, <1>15 DEF Spent
<1>17. GrantYieldsOnePair'
  BY <1>2, <1>4, <1>14 DEF SingleUseInv, GrantYieldsOnePair
<1>18. PairMatchesGrant'
  BY <1>2, <1>4, <1>14 DEF SingleUseInv, PairMatchesGrant
<1> QED BY <1>9, <1>11, <1>12, <1>13, <1>16, <1>17, <1>18 DEF SingleUseInv

LEMMA SingleUseStep == TypeOK /\ SingleUseInv /\ [Next]_vars => SingleUseInv'
<1> SUFFICES ASSUME TypeOK, SingleUseInv, [Next]_vars PROVE SingleUseInv'
  OBVIOUS
<1> USE TokenConstants
<1>u. CASE UNCHANGED vars
  BY <1>u, QuietStep DEF vars, tables
<1>1. ASSUME NEW r \in Calls, AuthorizeVerified(r) PROVE SingleUseInv'
  BY <1>1, QuietStep DEF AuthorizeVerified, Goto, TypeOK, tables
<1>2. ASSUME NEW r \in Calls, CreateAuthorizationCode(r) PROVE SingleUseInv'
  <2> DEFINE call == calls[r]
  <2>1. PICK c \in Codes \ DOMAIN issued :
       /\ codes' = Put(codes, c, [client |-> call.client, user |-> call.user,
                                  expires |-> now + CodeTTL, consumed |-> FALSE])
       /\ issued' = Put(issued, c, [from |-> None, client |-> call.client,
                                    user |-> call.user])
    BY <1>2 DEF CreateAuthorizationCode
  <2>2. /\ calls'[r] = Idle
        /\ \A q \in Calls : q # r => calls'[q] = calls[q]
        /\ access' = access /\ refresh' = refresh
    BY <1>2 DEF CreateAuthorizationCode, Return, Goto, TypeOK
  <2>3. /\ DOMAIN issued' = DOMAIN issued \cup {c}
        /\ issued'[c].from = None
        /\ issued'[c].client = call.client /\ issued'[c].user = call.user
        /\ \A q \in DOMAIN issued : issued'[q] = issued[q]
    BY <2>1 DEF Put
  <2>4. /\ DOMAIN codes' = DOMAIN codes \cup {c}
        /\ codes'[c].client = call.client /\ codes'[c].user = call.user
        /\ \A q \in DOMAIN codes : q # c => codes'[q] = codes[q]
    BY <2>1 DEF Put
  <2>5. c \notin DOMAIN refresh
    BY DEF TypeOK, IsTable
  <2>6. \A g \in DOMAIN issued : Spent(g) => Spent(g)'
    BY <2>2, <2>4 DEF Spent
  <2>7. HistoryAgrees(codes)' /\ HistoryAgrees(access)' /\ HistoryAgrees(refresh)'
    BY <2>2, <2>3, <2>4 DEF SingleUseInv, HistoryAgrees
  <2>8. \A q \in Calls, g \in Grants : HeldBy(q, g)' => HeldBy(q, g) /\ g \in DOMAIN issued
    BY <2>2 DEF HeldBy, Idle, SingleUseInv
  <2>9. \A q \in Calls : calls'[q].pc \in {"claim", "issue"} =>
         /\ calls'[q].grant \in DOMAIN issued'
         /\ calls'[q].client = issued'[calls'[q].grant].client
         /\ calls'[q].user = issued'[calls'[q].grant].user
    BY <2>2, <2>3 DEF SingleUseInv, Idle
  <2>10. \A q, s \in Calls, g \in Grants : HeldBy(q, g)' /\ HeldBy(s, g)' => q = s
    BY <2>8 DEF SingleUseInv
  <2>11. \A q \in Calls, g \in Grants :
           HeldBy(q, g)' => Spent(g)' /\ \A x \in DOMAIN issued' : issued'[x].from # g
    BY <2>3, <2>6, <2>8 DEF SingleUseInv, Grants
  <2>12. \A x \in DOMAIN issued :
           issued[x].from # None => issued[x].from \in DOMAIN issued /\ Spent(issued[x].from)
    BY DEF SingleUseInv, PairMatchesGrant
  <2>13. \A x \in DOMAIN issued' : issued'[x].from # None => Spent(issued[x].from)'
    BY <2>2, <2>3, <2>4, <2>12 DEF Spent
  <2>14. GrantYieldsOnePair' /\ PairMatchesGrant'
    BY <2>3, <2>12 DEF SingleUseInv, GrantYieldsOnePair, PairMatchesGrant
  <2> QED BY <2>7, <2>9, <2>10, <2>11, <2>13, <2>14 DEF SingleUseInv
<1>3. ASSUME NEW r \in Calls, ExchangeCheck(r) PROVE SingleUseInv'
  <2>1. PICK c \in DOMAIN codes, cl \in Clients :
       /\ OwnedBy(codes[c], cl)
       /\ Goto(r, [pc |-> "claim", client |-> cl, user |-> codes[c].user, grant |-> c])
    BY <1>3 DEF ExchangeCheck
  <2> DEFINE s == [pc |-> "claim", client |-> cl, user |-> codes[c].user, grant |-> c]
  <2>a. c \in Codes /\ codes[c] \in CodeRow
    BY RowOfTable DEF TypeOK
  <2>2. c \in Grants /\ s \in CallState
    BY <2>a DEF CallState, CodeRow, Grants
  <2>3. c \in DOMAIN issued /\ s.client = issued[c].client /\ s.user = issued[c].user
    BY <2>1 DEF SingleUseInv, HistoryAgrees, OwnedBy
  <2> QED BY <1>3, <2>1, <2>2, <2>3, CheckStep DEF ExchangeCheck, tables
<1>4. ASSUME NEW r \in Calls, ClaimCode(r) PROVE SingleUseInv'
  <2> DEFINE g == calls[r].grant
  <2>1. CASE CodeClaimable(g)
    <3>1. /\ calls[r].pc = "claim" /\ g \in Codes
          /\ codes' = [codes EXCEPT ![g] = Consume(@)]
          /\ Goto(r, [calls[r] EXCEPT !.pc = "issue"])
          /\ access' = access /\ refresh' = refresh /\ issued' = issued
      BY <1>4, <2>1 DEF ClaimCode
    <3>2. g \in DOMAIN codes /\ ~codes[g].consumed /\ codes[g] \in CodeRow
      BY <2>1, RowOfTable DEF CodeClaimable, TypeOK
    <3>3. g \notin DOMAIN refresh
      BY <3>1 DEF TypeOK, IsTable
    <3>4. /\ DOMAIN codes' = DOMAIN codes
          /\ codes'[g].consumed
          /\ codes'[g].client = codes[g].client /\ codes'[g].user = codes[g].user
          /\ \A c \in DOMAIN codes : c # g => codes'[c] = codes[c]
      BY <3>1, <3>2 DEF Consume, CodeRow
    <3>5. calls'[r].grant = g
      BY <3>1 DEF TypeOK, CallState, Goto, Idle
    <3>6. ~Spent(g) /\ Spent(g)' /\ \A h \in Grants : Spent(h) => Spent(h)'
      BY <3>1, <3>2, <3>3, <3>4, <3>5 DEF Spent
    <3>7. HistoryAgrees(codes)' /\ HistoryAgrees(access)' /\ HistoryAgrees(refresh)'
      BY <3>1, <3>4 DEF SingleUseInv, HistoryAgrees
    <3> QED BY <3>1, <3>6, <3>7, ClaimStep
  <2>2. CASE ~CodeClaimable(g)
    BY <1>4, <2>2, QuietStep DEF ClaimCode, Return, Goto, TypeOK, Idle
  <2> QED BY <2>1, <2>2
<1>5. ASSUME NEW r \in Calls, RefreshCheck(r) PROVE SingleUseInv'
  <2>1. PICK p \in DOMAIN refresh, cl \in Clients :
       /\ OwnedBy(refresh[p], cl)
       /\ Goto(r, [pc |-> "claim", client |-> cl, user |-> refresh[p].user, grant |-> p])
    BY <1>5 DEF RefreshCheck
  <2> DEFINE s == [pc |-> "claim", client |-> cl, user |-> refresh[p].user, grant |-> p]
  <2>a. p \in Pairs /\ refresh[p] \in TokenRow
    BY RowOfTable DEF TypeOK
  <2>2. p \in Grants /\ s \in CallState
    BY <2>a DEF CallState, TokenRow, Grants
  <2>3. p \in DOMAIN issued /\ s.client = issued[p].client /\ s.user = issued[p].user
    BY <2>1 DEF SingleUseInv, HistoryAgrees, OwnedBy
  <2> QED BY <1>5, <2>1, <2>2, <2>3, CheckStep DEF RefreshCheck, tables
<1>6. ASSUME NEW r \in Calls, ClaimRefresh(r) PROVE SingleUseInv'
  <2> DEFINE g == calls[r].grant
  <2>1. CASE RefreshClaimable(g)
    <3>1. /\ calls[r].pc = "claim" /\ g \in Pairs
          /\ refresh' = [refresh EXCEPT ![g].revoked = TRUE]
          /\ Goto(r, [calls[r] EXCEPT !.pc = "issue"])
          /\ access' = access /\ codes' = codes /\ issued' = issued
      BY <1>6, <2>1 DEF ClaimRefresh
    <3>2. g \in DOMAIN refresh /\ ~refresh[g].revoked /\ refresh[g] \in TokenRow
      BY <2>1, RowOfTable DEF RefreshClaimable, TypeOK
    <3>3. g \notin DOMAIN codes
      BY <3>1 DEF TypeOK, IsTable
    <3>4. /\ DOMAIN refresh' = DOMAIN refresh
          /\ refresh'[g].revoked
          /\ refresh'[g].client = refresh[g].client /\ refresh'[g].user = refresh[g].user
          /\ \A p \in DOMAIN refresh : p # g => refresh'[p] = refresh[p]
      BY <3>1, <3>2 DEF TokenRow
    <3>5. calls'[r].grant = g
      BY <3>1 DEF TypeOK, CallState, Goto, Idle
    <3>6. ~Spent(g) /\ Spent(g)' /\ \A h \in Grants : Spent(h) => Spent(h)'
      BY <3>1, <3>2, <3>3, <3>4, <3>5 DEF Spent
    <3>7. HistoryAgrees(codes)' /\ HistoryAgrees(access)' /\ HistoryAgrees(refresh)'
      BY <3>1, <3>4 DEF SingleUseInv, HistoryAgrees
    <3> QED BY <3>1, <3>6, <3>7, ClaimStep
  <2>2. CASE ~RefreshClaimable(g)
    BY <1>6, <2>2, QuietStep DEF ClaimRefresh, Return, Goto, TypeOK, Idle
  <2> QED BY <2>1, <2>2
<1>7. ASSUME NEW r \in Calls, LoginVerified(r) PROVE SingleUseInv'
  BY <1>7, QuietStep DEF LoginVerified, Goto, TypeOK, tables
<1>8. ASSUME NEW r \in Calls, IssueUserTokens(r) PROVE SingleUseInv'
  BY <1>8, IssueStep
<1>9. ASSUME NEW r \in Calls, DeleteVerified(r) PROVE SingleUseInv'
  BY <1>9, QuietStep DEF DeleteVerified, Goto, TypeOK, tables
<1>10. ASSUME NEW r \in Calls, DeleteAccount(r) PROVE SingleUseInv'
  BY <1>10, QuietStep DEF DeleteAccount, Return, Goto, TypeOK, Idle, Without
<1>11. ASSUME NEW r \in Calls, CallFails(r) PROVE SingleUseInv'
  BY <1>11, QuietStep DEF CallFails, Return, Goto, TypeOK, Idle, tables
<1>12. ASSUME NEW p \in Pairs, RevokeAccessToken(p) PROVE SingleUseInv'
  <2>1. access[p] \in TokenRow
    BY <1>12, RowOfTable DEF RevokeAccessToken, TypeOK
  <2> QED BY <1>12, <2>1, QuietStep DEF RevokeAccessToken, TokenRow
<1>13. CASE CleanupExpiredAccessTokens
  BY <1>13, QuietStep DEF CleanupExpiredAccessTokens, Without
<1>14. CASE CleanupExpiredAuthorizationCodes
  BY <1>14, QuietStep DEF CleanupExpiredAuthorizationCodes, Without
<1>15. CASE CleanupFails
  BY <1>15, QuietStep DEF CleanupFails, tables
<1>16. CASE Restart
  BY <1>16, QuietStep DEF Restart, Idle, tables
<1>17. CASE Tick
  BY <1>17, QuietStep DEF Tick, tables
<1> QED BY <1>u, <1>1, <1>2, <1>3, <1>4, <1>5, <1>6, <1>7, <1>8, <1>9, <1>10, <1>11,
           <1>12, <1>13, <1>14, <1>15, <1>16, <1>17 DEF Next, CallStep, Cleanup

LEMMA SingleUseInit == Init => SingleUseInv
  BY DEF Init, SingleUseInv, HistoryAgrees, HeldBy, Idle, Spent, GrantYieldsOnePair,
         PairMatchesGrant

\* The inductive invariant holds for any number of clients, users, handlers,
\* codes and pairs, and whatever the token lifetimes.
THEOREM SingleUse == Spec => []SingleUseInv
<1>1. QED BY SingleUseInit, SingleUseStep, TypeCorrect, PTL DEF Spec

\* At most one token pair is ever issued for a code or a refresh token.
THEOREM OnePairPerGrant == Spec => []GrantYieldsOnePair
<1>1. SingleUseInv => GrantYieldsOnePair
  BY DEF SingleUseInv
<1> QED BY <1>1, SingleUse, PTL

\* A pair belongs to the client and the user of the grant it was exchanged for.
THEOREM PairsMatchGrants == Spec => []PairMatchesGrant
<1>1. SingleUseInv => PairMatchesGrant
  BY DEF SingleUseInv
<1> QED BY <1>1, SingleUse, PTL

\* An exchanged grant, or one a handler is exchanging, cannot be claimed again.
THEOREM ExchangedGrantsAreSpent == Spec => []ExchangedGrantIsSpent
<1>1. SingleUseInv => ExchangedGrantIsSpent
  BY TokenConstants
  DEF SingleUseInv, ExchangedGrantIsSpent, HeldBy, Spent, CodeClaimable, RefreshClaimable
<1> QED BY <1>1, SingleUse, PTL

----------------------------------------------------------------------------
\* What the foreign keys and the account deletion keep.

LEMMA NoOrphanStep == TypeOK /\ NoOrphanRows /\ [Next]_vars => NoOrphanRows'
<1> SUFFICES ASSUME TypeOK, NoOrphanRows, [Next]_vars PROVE NoOrphanRows'
  OBVIOUS
<1>q. ASSUME UNCHANGED tables PROVE NoOrphanRows'
  BY <1>q DEF tables, NoOrphanRows
<1>1. ASSUME NEW r \in Calls,
             \/ AuthorizeVerified(r) \/ ExchangeCheck(r) \/ RefreshCheck(r)
             \/ LoginVerified(r) \/ DeleteVerified(r) \/ CallFails(r)
      PROVE  NoOrphanRows'
  BY <1>q, <1>1 DEF AuthorizeVerified, ExchangeCheck, RefreshCheck, LoginVerified,
                    DeleteVerified, CallFails
<1>2. ASSUME NEW r \in Calls, CreateAuthorizationCode(r) PROVE NoOrphanRows'
  BY <1>2 DEF CreateAuthorizationCode, UserKeyHolds, Put, NoOrphanRows
<1>3. ASSUME NEW r \in Calls, ClaimCode(r) PROVE NoOrphanRows'
  <2>1. \A c \in DOMAIN codes : codes[c] \in CodeRow
    BY RowOfTable DEF TypeOK
  <2> QED BY <1>3, <2>1 DEF ClaimCode, CodeClaimable, Consume, CodeRow, NoOrphanRows
<1>4. ASSUME NEW r \in Calls, ClaimRefresh(r) PROVE NoOrphanRows'
  <2>1. \A p \in DOMAIN refresh : refresh[p] \in TokenRow
    BY RowOfTable DEF TypeOK
  <2> QED BY <1>4, <2>1 DEF ClaimRefresh, RefreshClaimable, TokenRow, NoOrphanRows
<1>5. ASSUME NEW r \in Calls, IssueUserTokens(r) PROVE NoOrphanRows'
  BY <1>5 DEF IssueUserTokens, UserKeyHolds, Put, NoOrphanRows
<1>6. ASSUME NEW r \in Calls, DeleteAccount(r) PROVE NoOrphanRows'
  BY <1>6 DEF DeleteAccount, RowsOf, Without, NoOrphanRows
<1>7. ASSUME NEW p \in Pairs, RevokeAccessToken(p) PROVE NoOrphanRows'
  <2>1. \A q \in DOMAIN access : access[q] \in TokenRow
    BY RowOfTable DEF TypeOK
  <2> QED BY <1>7, <2>1 DEF RevokeAccessToken, TokenRow, NoOrphanRows
<1>8. CASE CleanupExpiredAccessTokens
  BY <1>8 DEF CleanupExpiredAccessTokens, Without, NoOrphanRows
<1>9. CASE CleanupExpiredAuthorizationCodes
  BY <1>9 DEF CleanupExpiredAuthorizationCodes, Without, NoOrphanRows
<1>10. CASE CleanupFails \/ Restart \/ Tick \/ UNCHANGED vars
  BY <1>q, <1>10 DEF CleanupFails, Restart, Tick, vars, tables
<1> QED BY <1>1, <1>2, <1>3, <1>4, <1>5, <1>6, <1>7, <1>8, <1>9, <1>10
        DEF Next, CallStep, Cleanup

\* No row outlives its user, and no refresh row its access row, whatever the
\* account deletion interleaves with.
THEOREM NoOrphans == Spec => []NoOrphanRows
<1>1. Init => NoOrphanRows
  BY DEF Init, NoOrphanRows
<1> QED BY <1>1, NoOrphanStep, TypeCorrect, PTL DEF Spec

----------------------------------------------------------------------------
\* Dead tokens stay dead.

\* Once an access token has stopped resolving it never resolves again: rows are
\* only added under fresh values, expiry times never move, revocation is never
\* undone and the clock does not run back.
THEOREM DeadTokens == Spec => DeadTokensStayDead
<1>1. TypeOK /\ [Next]_vars => [\A p \in DOMAIN issued : Usable(p)' => Usable(p)]_vars
  <2> SUFFICES ASSUME TypeOK, Next, NEW p \in DOMAIN issued, Usable(p)' PROVE Usable(p)
    OBVIOUS
  <2>1. \A q \in DOMAIN access : access[q] \in TokenRow
    BY RowOfTable DEF TypeOK
  <2>2. /\ p \in DOMAIN access
        /\ access'[p].expires = access[p].expires
        /\ ~access'[p].revoked => ~access[p].revoked
        /\ now \in Nat /\ now' \in Nat /\ now <= now'
        /\ access[p].expires \in Nat
    <3>1. p \in DOMAIN access'
      BY DEF Usable
    <3>2. CASE access' = access /\ (now' = now \/ now' = now + 1)
      BY <2>1, <3>1, <3>2 DEF TypeOK, TokenRow
    <3>3. CASE now' = now /\ \E S : access' = Without(access, S)
      BY <2>1, <3>1, <3>3 DEF TypeOK, TokenRow, Without
    <3>4. ASSUME NEW r \in Calls, IssueUserTokens(r) PROVE <2>2
      <4>1. PICK x \in FreshPairs : \E row : access' = Put(access, x, row)
        BY <3>4 DEF IssueUserTokens
      <4>2. p # x
        BY DEF FreshPairs
      <4> QED BY <2>1, <3>1, <3>4, <4>1, <4>2 DEF IssueUserTokens, Put, TypeOK, TokenRow
    <3>5. ASSUME NEW q \in Pairs, RevokeAccessToken(q) PROVE <2>2
      BY <2>1, <3>1, <3>5 DEF RevokeAccessToken, TypeOK, TokenRow
    <3>6. CASE \E r \in Calls : CallStep(r) /\ ~IssueUserTokens(r)
      <4>1. ASSUME NEW r \in Calls, DeleteAccount(r)
            PROVE  now' = now /\ \E S : access' = Without(access, S)
        BY <4>1 DEF DeleteAccount
      <4>2. ASSUME NEW r \in Calls, CallStep(r), ~IssueUserTokens(r), ~DeleteAccount(r)
            PROVE  access' = access /\ now' = now
        BY <4>2 DEF CallStep, AuthorizeVerified, CreateAuthorizationCode, ExchangeCheck,
             ClaimCode, RefreshCheck, ClaimRefresh, LoginVerified, DeleteVerified,
             CallFails, tables
      <4> QED BY <3>2, <3>3, <3>6, <4>1, <4>2
    <3>7. CASE Cleanup \/ Restart \/ Tick
      <4>1. CASE CleanupExpiredAccessTokens
        BY <3>3, <4>1 DEF CleanupExpiredAccessTokens
      <4>2. CASE CleanupExpiredAuthorizationCodes \/ CleanupFails \/ Restart \/ Tick
        BY <3>2, <4>2 DEF CleanupExpiredAuthorizationCodes, CleanupFails, Restart, Tick, tables
      <4> QED BY <3>7, <4>1, <4>2 DEF Cleanup
    <3> QED BY <3>4, <3>5, <3>6, <3>7 DEF Next
  <2> QED BY <2>2 DEF Usable, Expired
<1> QED BY <1>1, TypeCorrect, PTL DEF Spec, DeadTokensStayDead

----------------------------------------------------------------------------
\* The cleanup and the codes.

\* A code that can still be exchanged is deleted only with its account: the
\* cleanup deletes expired codes, and a claim marks a code without deleting it.
THEOREM CleanupSparesCodes == Spec => CleanupKeepsClaimableCodes
<1>1. TypeOK /\ [Next]_vars =>
        [\A c \in DOMAIN codes : CodeClaimable(c) /\ codes[c].user \in users'
                                   => c \in DOMAIN codes']_vars
  <2> SUFFICES ASSUME TypeOK, Next, NEW c \in DOMAIN codes,
                      CodeClaimable(c), codes[c].user \in users'
               PROVE  c \in DOMAIN codes'
    OBVIOUS
  <2>1. ASSUME NEW r \in Calls, CreateAuthorizationCode(r) PROVE c \in DOMAIN codes'
    BY <2>1 DEF CreateAuthorizationCode, Put
  <2>2. ASSUME NEW r \in Calls, ClaimCode(r) PROVE c \in DOMAIN codes'
    BY <2>2 DEF ClaimCode
  <2>3. ASSUME NEW r \in Calls, DeleteAccount(r) PROVE c \in DOMAIN codes'
    BY <2>3 DEF DeleteAccount, Without, RowsOf
  <2>4. CASE CleanupExpiredAuthorizationCodes
    <3>1. codes[c] \in CodeRow
      BY RowOfTable DEF TypeOK
    <3>2. c \notin DeadCodes
      BY <3>1 DEF DeadCodes, CodeClaimable, Unexpired, CodeRow, TypeOK
    <3> QED BY <2>4, <3>2 DEF CleanupExpiredAuthorizationCodes, Without
  <2>5. ASSUME NEW r \in Calls, CallStep(r),
               ~CreateAuthorizationCode(r), ~ClaimCode(r), ~DeleteAccount(r)
        PROVE  c \in DOMAIN codes'
    BY <2>5 DEF CallStep, AuthorizeVerified, ExchangeCheck, RefreshCheck, ClaimRefresh,
         LoginVerified, IssueUserTokens, DeleteVerified, CallFails, tables
  <2>6. CASE CleanupExpiredAccessTokens \/ CleanupFails \/ Restart \/ Tick
    BY <2>6 DEF CleanupExpiredAccessTokens, CleanupFails, Restart, Tick, tables
  <2>7. ASSUME NEW p \in Pairs, RevokeAccessToken(p) PROVE c \in DOMAIN codes'
    BY <2>7 DEF RevokeAccessToken
  <2> QED BY <2>1, <2>2, <2>3, <2>4, <2>5, <2>6, <2>7 DEF Next, Cleanup
<1> QED BY <1>1, TypeCorrect, PTL DEF Spec, CleanupKeepsClaimableCodes

----------------------------------------------------------------------------
\* The tables and the requests implement the ledger.

\* A grant that a request has claimed and is about to settle; and one that has a
\* row that no request has claimed, expired or not.
Held(g) == \E r \in Calls : HeldBy(r, g)
Open(g) ==
  \/ g \in DOMAIN codes /\ ~codes[g].consumed
  \/ g \in DOMAIN refresh /\ ~refresh[g].revoked

\* The status of a grant, as a table of cases that exclude each other.
StatusTable ==
  \A g \in Grants :
    /\ Held(g) => g \in DOMAIN issued /\ ~Open(g)
    /\ Open(g) => g \in DOMAIN issued
    /\ g \notin DOMAIN issued => GrantStatus(g) = "unborn"
    /\ Held(g) => GrantStatus(g) = "claimed"
    /\ Open(g) => GrantStatus(g) = "open"
    /\ g \in DOMAIN issued /\ ~Held(g) /\ ~Open(g) => GrantStatus(g) = "closed"

LEMMA StatusNow == SingleUseInv => StatusTable
<1> SUFFICES ASSUME SingleUseInv PROVE StatusTable
  OBVIOUS
<1>1. \A g \in Grants : Open(g) => g \in DOMAIN issued
  BY DEF Open, SingleUseInv, HistoryAgrees
<1>2. \A g \in Grants : Held(g) => g \in DOMAIN issued /\ ~Open(g)
  BY DEF Held, HeldBy, Open, Spent, SingleUseInv
<1> QED BY <1>1, <1>2 DEF StatusTable, GrantStatus, Held, Open

LEMMA StatusNext == SingleUseInv' => StatusTable'
  BY StatusNow, PTL

\* A step after which no grant is held or open that was not before: what it
\* takes from the tables or from the requests is lost.
LEMMA LoseStep ==
  ASSUME SingleUseInv, SingleUseInv', UNCHANGED issued,
         \A r \in Calls, g \in Grants : HeldBy(r, g)' => HeldBy(r, g),
         \A g \in Grants : Open(g)' => Open(g)
  PROVE  Abstract!Next
<1> DEFINE gone == {g \in Grants : (Held(g) \/ Open(g)) /\ ~Held(g)' /\ ~Open(g)'}
<1>1. \A g \in Grants : Held(g)' => Held(g)
  BY DEF Held
<1>2. \A g \in gone : GrantStatus(g) \in {"open", "claimed"}
  BY StatusNow DEF StatusTable
<1>3. StatusTable /\ StatusTable'
  BY StatusNow, StatusNext
<1>4. \A g \in Grants : GrantStatus(g)' = IF g \in gone THEN "closed" ELSE GrantStatus(g)
  BY <1>1, <1>3 DEF StatusTable
<1>5. gone \in SUBSET Grants
  OBVIOUS
<1> HIDE DEF gone
<1>6. Abstract!Lose(gone)
  BY <1>2, <1>4, <1>5 DEF Abstract!Lose, Abstract!Grants, Grants
<1> QED BY <1>5, <1>6 DEF Abstract!Next, Abstract!Grants, Grants

\* A new code is a new grant; the parents of the pairs are as they were.
LEMMA OfferStep ==
  ASSUME TypeOK, SingleUseInv, SingleUseInv', NEW r \in Calls, CreateAuthorizationCode(r)
  PROVE  Abstract!Next
<1> USE TokenConstants
<1>1. PICK c \in Codes \ DOMAIN issued :
        /\ codes' = Put(codes, c, [client |-> calls[r].client, user |-> calls[r].user,
                                   expires |-> now + CodeTTL, consumed |-> FALSE])
        /\ issued' = Put(issued, c, [from |-> None, client |-> calls[r].client,
                                     user |-> calls[r].user])
  BY DEF CreateAuthorizationCode
<1>2. /\ calls'[r] = Idle /\ refresh' = refresh
      /\ \A q \in Calls : q # r => calls'[q] = calls[q]
      /\ calls[r].pc = "authorize"
  BY DEF CreateAuthorizationCode, Return, Goto, TypeOK
<1>3. \A g \in Grants : Held(g)' <=> Held(g)
  BY <1>2 DEF Held, HeldBy, Idle
<1>4. \A g \in Grants : Open(g)' <=> (Open(g) \/ g = c)
  BY <1>1, <1>2 DEF Open, Put, SingleUseInv, HistoryAgrees
<1>5. DOMAIN issued' = DOMAIN issued \cup {c} /\ \A g \in DOMAIN issued : issued'[g] = issued[g]
  BY <1>1 DEF Put
<1>6. StatusTable /\ StatusTable'
  BY StatusNow, StatusNext
<1>7. c \in Codes /\ GrantStatus(c) = "unborn" /\ GrantStatus(c)' = "open"
  BY <1>1, <1>4, <1>6 DEF StatusTable, Grants
<1>8. \A g \in Grants : g # c => GrantStatus(g)' = GrantStatus(g)
  BY <1>3, <1>4, <1>5, <1>6 DEF StatusTable
<1>9. [p \in DOMAIN issued' \cap Pairs |-> issued'[p].from]
        = [p \in DOMAIN issued \cap Pairs |-> issued[p].from]
  BY <1>5, <1>7
<1>10. Abstract!Offer(c)
  BY <1>7, <1>8, <1>9 DEF Abstract!Offer, Grants
<1> QED BY <1>7, <1>10 DEF Abstract!Next

\* A conditional UPDATE that changes its row claims the grant.
LEMMA ClaimLedger ==
  ASSUME TypeOK, SingleUseInv, SingleUseInv', UNCHANGED issued,
         NEW r \in Calls, calls[r].pc = "claim",
         Goto(r, [calls[r] EXCEPT !.pc = "issue"]), Open(calls[r].grant),
         \A g \in Grants : Open(g)' <=> Open(g) /\ g # calls[r].grant
  PROVE  Abstract!Next
<1>1. PICK g \in Grants : g = calls[r].grant
  BY DEF TypeOK, CallState, Idle
<1>2. /\ calls'[r].pc = "issue" /\ calls'[r].grant = g
      /\ \A q \in Calls : q # r => calls'[q] = calls[q]
  BY <1>1 DEF Goto, TypeOK, CallState, Idle
<1>3. \A x \in Grants : Held(x)' <=> (Held(x) \/ x = g)
  BY <1>2 DEF Held, HeldBy
<1>4. StatusTable /\ StatusTable'
  BY StatusNow, StatusNext
<1>5. GrantStatus(g) = "open" /\ GrantStatus(g)' = "claimed"
  BY <1>1, <1>3, <1>4 DEF StatusTable
<1>6. \A x \in Grants : x # g => GrantStatus(x)' = GrantStatus(x)
  BY <1>1, <1>3, <1>4 DEF StatusTable
<1>7. Abstract!Claim(g)
  BY <1>1, <1>5, <1>6 DEF Abstract!Claim, Grants
<1> QED BY <1>1, <1>7 DEF Abstract!Next, Abstract!Grants, Grants

\* The pair that is issued settles the grant the request has claimed; a login
\* has claimed none.
LEMMA SettleStep ==
  ASSUME TypeOK, SingleUseInv, SingleUseInv', NEW r \in Calls, IssueUserTokens(r)
  PROVE  Abstract!Next
<1> USE TokenConstants
<1> DEFINE parent == [q \in DOMAIN issued \cap Pairs |-> issued[q].from]
<1>0. PICK g \in Grants \cup {None} : g = calls[r].grant
  BY DEF IssueUserTokens, TypeOK, CallState, Idle
<1>1. PICK p \in FreshPairs :
        /\ refresh' = Put(refresh, p, [client |-> calls[r].client, user |-> calls[r].user,
                                       expires |-> now + RefreshTTL, revoked |-> FALSE])
        /\ issued' = Put(issued, p, [from |-> g, client |-> calls[r].client,
                                     user |-> calls[r].user])
  BY <1>0 DEF IssueUserTokens
<1>2. /\ calls'[r] = Idle /\ codes' = codes
      /\ \A q \in Calls : q # r => calls'[q] = calls[q]
      /\ calls[r].pc \in {"issue", "login"}
  BY DEF IssueUserTokens, Return, Goto, TypeOK
<1>3. p \in Pairs /\ p \notin DOMAIN issued
  BY DEF FreshPairs
<1>4. \A x \in Grants : Open(x)' <=> (Open(x) \/ x = p)
  BY <1>1, <1>2, <1>3 DEF Open, Put, SingleUseInv, HistoryAgrees
<1>5. DOMAIN issued' = DOMAIN issued \cup {p} /\ issued'[p].from = g
      /\ \A x \in DOMAIN issued : issued'[x] = issued[x]
  BY <1>1, <1>3 DEF Put
<1>6. StatusTable /\ StatusTable'
  BY StatusNow, StatusNext
<1>7. p \in Grants /\ GrantStatus(p) = "unborn" /\ GrantStatus(p)' = "open"
  BY <1>3, <1>4, <1>6 DEF StatusTable, Grants
<1>8. parent' = [x \in DOMAIN parent \cup {p} |-> IF x = p THEN g ELSE parent[x]]
  BY <1>3, <1>5
<1>9. CASE calls[r].pc = "issue"
  <2>1. g \in Grants /\ HeldBy(r, g)
    BY <1>0, <1>9 DEF TypeOK, CallState, Idle, HeldBy
  <2>2. \A x \in Grants : Held(x)' <=> (Held(x) /\ x # g)
    BY <1>2, <1>9, <2>1 DEF Held, HeldBy, Idle, SingleUseInv
  <2>3. Held(g)
    BY <2>1 DEF Held
  <2>4. GrantStatus(g) = "claimed" /\ g # p
    BY <1>7, <2>1, <2>3, <1>6 DEF StatusTable
  <2>5. GrantStatus(g)' = "closed"
    BY <1>4, <1>5, <1>6, <2>1, <2>2, <2>3, <2>4 DEF StatusTable
  <2>6. \A x \in Grants : x # g /\ x # p => GrantStatus(x)' = GrantStatus(x)
    BY <1>4, <1>5, <1>6, <2>2 DEF StatusTable
  <2>7. Abstract!Settle(g, p)
    BY <1>3, <1>7, <1>8, <2>1, <2>4, <2>5, <2>6 DEF Abstract!Settle, Abstract!Birth, Grants
  <2> QED BY <1>3, <2>1, <2>7 DEF Abstract!Next, Abstract!Grants, Grants
<1>10. CASE calls[r].pc = "login"
  <2>1. g = None
    BY <1>0, <1>10 DEF TypeOK, CallState, Idle
  <2>2. \A x \in Grants : Held(x)' <=> Held(x)
    BY <1>2, <1>10 DEF Held, HeldBy, Idle
  <2>3. \A x \in Grants : x # p => GrantStatus(x)' = GrantStatus(x)
    BY <1>4, <1>5, <1>6, <2>2 DEF StatusTable
  <2>4. Abstract!Login(p)
    BY <1>3, <1>7, <1>8, <2>1, <2>3 DEF Abstract!Login, Abstract!Birth, Grants
  <2> QED BY <1>3, <2>4 DEF Abstract!Next
<1> QED BY <1>2, <1>9, <1>10

\* Every step of the tables, the requests and the cleanup is a step of the ledger
\* or leaves it as it is.
LEMMA LedgerStep ==
  TypeOK /\ SingleUseInv /\ SingleUseInv' /\ [Next]_vars
    => Abstract!Next \/ UNCHANGED vars
<1> SUFFICES ASSUME TypeOK, SingleUseInv, SingleUseInv', Next PROVE Abstract!Next
  BY DEF vars
<1> USE TokenConstants
<1>1. ASSUME NEW r \in Calls, CreateAuthorizationCode(r) \/ IssueUserTokens(r)
      PROVE  Abstract!Next
  BY <1>1, OfferStep, SettleStep
<1>2. ASSUME NEW r \in Calls, ClaimCode(r) PROVE Abstract!Next
  <2>1. CASE CodeClaimable(calls[r].grant)
    <3>1. PICK g \in Codes : g = calls[r].grant
      BY <1>2 DEF ClaimCode
    <3>2. codes' = [codes EXCEPT ![g] = Consume(@)] /\ g \in DOMAIN codes /\ ~codes[g].consumed
      BY <1>2, <2>1, <3>1 DEF ClaimCode, CodeClaimable
    <3>3. codes[g] \in CodeRow /\ g \notin DOMAIN refresh
      BY <3>2, RowOfTable DEF TypeOK, IsTable
    <3>4. /\ DOMAIN codes' = DOMAIN codes /\ codes'[g].consumed
          /\ \A x \in DOMAIN codes : x # g => codes'[x] = codes[x]
      BY <3>2, <3>3 DEF Consume, CodeRow
    <3>5. \A x \in Grants : Open(x)' <=> Open(x) /\ x # g
      BY <1>2, <3>2, <3>3, <3>4 DEF Open, ClaimCode
    <3>6. Open(g)
      BY <3>2 DEF Open
    <3>7. /\ calls[r].pc = "claim" /\ Goto(r, [calls[r] EXCEPT !.pc = "issue"])
          /\ UNCHANGED issued
      BY <1>2, <2>1 DEF ClaimCode
    <3> QED BY <3>1, <3>5, <3>6, <3>7, ClaimLedger
  <2>2. CASE ~CodeClaimable(calls[r].grant)
    <3>1. UNCHANGED <<codes, refresh, issued>> /\ Return(r)
      BY <1>2, <2>2 DEF ClaimCode
    <3> QED BY <3>1, LoseStep DEF Return, Goto, TypeOK, HeldBy, Idle, Open
  <2> QED BY <2>1, <2>2
<1>3. ASSUME NEW r \in Calls, ClaimRefresh(r) PROVE Abstract!Next
  <2>1. CASE RefreshClaimable(calls[r].grant)
    <3>1. PICK g \in Pairs : g = calls[r].grant
      BY <1>3 DEF ClaimRefresh
    <3>2. refresh' = [refresh EXCEPT ![g].revoked = TRUE] /\ g \in DOMAIN refresh
          /\ ~refresh[g].revoked
      BY <1>3, <2>1, <3>1 DEF ClaimRefresh, RefreshClaimable
    <3>3. refresh[g] \in TokenRow /\ g \notin DOMAIN codes
      BY <3>2, RowOfTable DEF TypeOK, IsTable
    <3>4. /\ DOMAIN refresh' = DOMAIN refresh /\ refresh'[g].revoked
          /\ \A x \in DOMAIN refresh : x # g => refresh'[x] = refresh[x]
      BY <3>2, <3>3 DEF TokenRow
    <3>5. \A x \in Grants : Open(x)' <=> Open(x) /\ x # g
      BY <1>3, <3>2, <3>3, <3>4 DEF Open, ClaimRefresh
    <3>6. Open(g)
      BY <3>2 DEF Open
    <3>7. /\ calls[r].pc = "claim" /\ Goto(r, [calls[r] EXCEPT !.pc = "issue"])
          /\ UNCHANGED issued
      BY <1>3, <2>1 DEF ClaimRefresh
    <3> QED BY <3>1, <3>5, <3>6, <3>7, ClaimLedger
  <2>2. CASE ~RefreshClaimable(calls[r].grant)
    <3>1. UNCHANGED <<codes, refresh, issued>> /\ Return(r)
      BY <1>3, <2>2 DEF ClaimRefresh
    <3> QED BY <3>1, LoseStep DEF Return, Goto, TypeOK, HeldBy, Idle, Open
  <2> QED BY <2>1, <2>2
<1>4. ASSUME NEW r \in Calls,
             AuthorizeVerified(r) \/ ExchangeCheck(r) \/ RefreshCheck(r) \/ LoginVerified(r)
               \/ DeleteVerified(r) \/ CallFails(r)
      PROVE  Abstract!Next
  <2>1. UNCHANGED <<codes, refresh, issued>>
    BY <1>4 DEF AuthorizeVerified, ExchangeCheck, RefreshCheck, LoginVerified,
         DeleteVerified, CallFails, tables
  <2>2. /\ calls'[r].pc # "issue"
        /\ \A q \in Calls : q # r => calls'[q] = calls[q]
    BY <1>4 DEF AuthorizeVerified, ExchangeCheck, RefreshCheck, LoginVerified,
         DeleteVerified, CallFails, Return, Goto, TypeOK, Idle
  <2> QED BY <2>1, <2>2, LoseStep DEF HeldBy, Open
<1>5. ASSUME NEW r \in Calls, DeleteAccount(r) PROVE Abstract!Next
  <2>1. \A q \in Calls : calls'[q].pc = "issue" => calls'[q] = calls[q]
    BY <1>5 DEF DeleteAccount, Return, Goto, TypeOK, Idle
  <2>2. \A g \in Grants : Open(g)' => Open(g)
    BY <1>5 DEF DeleteAccount, Without, Open
  <2> QED BY <1>5, <2>1, <2>2, LoseStep DEF DeleteAccount, HeldBy
<1>6. ASSUME NEW p \in Pairs, RevokeAccessToken(p) PROVE Abstract!Next
  BY <1>6, LoseStep DEF RevokeAccessToken, HeldBy, Open
<1>7. CASE Cleanup
  <2>1. UNCHANGED <<calls, issued>>
    BY <1>7 DEF Cleanup, CleanupExpiredAccessTokens, CleanupExpiredAuthorizationCodes, CleanupFails
  <2>2. \A g \in Grants : Open(g)' => Open(g)
    BY <1>7 DEF Cleanup, CleanupExpiredAccessTokens, CleanupExpiredAuthorizationCodes,
         CleanupFails, Without, Open, tables
  <2> QED BY <2>1, <2>2, LoseStep DEF HeldBy
<1>8. CASE Restart
  BY <1>8, LoseStep DEF Restart, HeldBy, Idle, Open, tables
<1>9. CASE Tick
  BY <1>9, LoseStep DEF Tick, HeldBy, Open, tables
<1> QED BY <1>1, <1>2, <1>3, <1>4, <1>5, <1>6, <1>7, <1>8, <1>9 DEF Next, CallStep

\* The token endpoint keeps the promise of the ledger: whatever overlaps, fails, is
\* cleaned up or restarted, every step offers, claims, settles or loses grants, and
\* a claimed grant is settled by one pair (ExchangeAuthorizationCode,
\* RefreshUserToken and issueUserTokens in oauth2_service.go).
THEOREM ServiceImplementsLedger == Spec => ImplementsLedger
<1>1. Init => Abstract!Init
  <2> SUFFICES ASSUME Init PROVE Abstract!Init
    OBVIOUS
  <2>1. DOMAIN issued = {}
    BY DEF Init
  <2>2. \A g \in Grants : GrantStatus(g) = "unborn"
    BY <2>1, SingleUseInit, StatusNow DEF StatusTable
  <2>3. [p \in DOMAIN issued \cap Pairs |-> issued[p].from] = [x \in {} |-> None]
    BY <2>1
  <2> QED BY <2>2, <2>3 DEF Abstract!Init, Abstract!Grants, Grants
<1>2. TypeOK /\ SingleUseInv /\ SingleUseInv' /\ [Next]_vars =>
        [Abstract!Next]_<<[g \in Grants |-> GrantStatus(g)],
                          [p \in DOMAIN issued \cap Pairs |-> issued[p].from]>>
  <2>1. UNCHANGED vars => UNCHANGED <<[g \in Grants |-> GrantStatus(g)],
                                      [p \in DOMAIN issued \cap Pairs |-> issued[p].from]>>
    <3> SUFFICES ASSUME UNCHANGED vars
                 PROVE  UNCHANGED <<[g \in Grants |-> GrantStatus(g)],
                                    [p \in DOMAIN issued \cap Pairs |-> issued[p].from]>>
      OBVIOUS
    <3>1. UNCHANGED <<codes, refresh, issued, calls>>
      BY DEF vars, tables
    <3>2. \A g \in Grants : GrantStatus(g)' = GrantStatus(g)
      BY <3>1 DEF GrantStatus, HeldBy
    <3> QED BY <3>1, <3>2
  <2> QED BY <2>1, LedgerStep
<1> QED BY <1>1, <1>2, TypeCorrect, SingleUse, PTL DEF Spec, ImplementsLedger, Abstract!Ledger

\* The pairs that the service has issued never fork: no two of them descend from one
\* grant.
THEOREM PairsNeverFork == Spec => [](Abstract!LedgerTypeOK /\ Abstract!NoFork)
<1>1. TypeOK /\ SingleUseInv => Abstract!LedgerTypeOK
  <2> SUFFICES ASSUME TypeOK, SingleUseInv PROVE Abstract!LedgerTypeOK
    OBVIOUS
  <2>1. \A g \in Grants : GrantStatus(g) \in {"unborn", "open", "claimed", "closed"}
    BY StatusNow DEF StatusTable
  <2>2. \A p \in DOMAIN issued \cap Pairs : issued[p].from \in Grants \cup {None}
    BY DEF TypeOK, IsTable, Issuance
  <2> QED BY <2>1, <2>2 DEF Abstract!LedgerTypeOK, Abstract!Grants, Grants
<1>2. SingleUseInv => Abstract!NoFork
  BY DEF SingleUseInv, GrantYieldsOnePair, Abstract!NoFork
<1> QED BY <1>1, <1>2, TypeCorrect, SingleUse, PTL
=============================================================================
