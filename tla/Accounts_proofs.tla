-------------------------- MODULE Accounts_proofs --------------------------
(***************************************************************************)
(* Theorems about Accounts, for every choice of its constants.             *)
(***************************************************************************)
EXTENDS Accounts, TLAPS

----------------------------------------------------------------------------
\* Steps of a handler.

\* The state a handler is left in after a step is one it can hold.
LEMMA GotoType ==
  ASSUME calls \in [Calls -> CallState], overlapped \in BOOLEAN,
         NEW r \in Calls, NEW s \in CallState, Goto(r, s)
  PROVE  calls' \in [Calls -> CallState] /\ overlapped' \in BOOLEAN
  BY DEF Goto

LEMMA IdleType == Idle \in CallState
  BY DEF CallState

\* A handler that looks for another holder of a value answers, or goes on with the
\* value free or the query for it failed.
LEMMA CheckStep ==
  ASSUME NEW r, NEW v, NEW taken, NEW s, Check(r, v, taken, s)
  PROVE  /\ UNCHANGED <<users, deleted, sweep, uidOf, legacy>>
         /\ unseen \subseteq unseen' /\ unseen' \subseteq unseen \cup {v}
         /\ Goto(r, Idle) \/ (Goto(r, s) /\ (taken => v \in unseen'))
  BY DEF Check, Return

LEMMA CheckType ==
  ASSUME TypeOK, NEW r \in Calls, NEW v \in Emails \cup Names, NEW taken, NEW s \in CallState,
         Check(r, v, taken, s)
  PROVE  TypeOK'
<1>1. /\ UNCHANGED <<users, deleted, sweep, uidOf, legacy>>
      /\ unseen' \subseteq unseen \cup {v}
      /\ Goto(r, Idle) \/ Goto(r, s)
  BY CheckStep
<1>2. calls' \in [Calls -> CallState] /\ overlapped' \in BOOLEAN
  BY <1>1, GotoType, IdleType DEF TypeOK
<1> QED BY <1>1, <1>2 DEF TypeOK

\* A handler that has found the row of its bearer token holds a uid and a uuid.
LEMMA ResolveType ==
  ASSUME TypeOK, NEW r \in Calls, NEW pc, NEW e, NEW n, Resolve(r, pc, e, n),
         Call({pc}, Uids, Uuids, {e}, {n}) \subseteq CallState
  PROVE  TypeOK'
<1>1. PICK i \in DOMAIN users :
        Goto(r, [pc |-> pc, uid |-> i, uuid |-> users[i].uuid, email |-> e, name |-> n])
  BY DEF Resolve
<1>2. i \in Uids /\ users[i].uuid \in Uuids
  BY DEF TypeOK, IsTable, Row
<1>3. [pc |-> pc, uid |-> i, uuid |-> users[i].uuid, email |-> e, name |-> n] \in CallState
  BY <1>2 DEF Call
<1>4. calls' \in [Calls -> CallState] /\ overlapped' \in BOOLEAN
  BY <1>1, <1>3, GotoType DEF TypeOK
<1> QED BY <1>4 DEF Resolve, TypeOK

----------------------------------------------------------------------------
\* Every variable keeps its type.

LEMMA TypeStep == TypeOK /\ [Next]_vars => TypeOK'
<1> SUFFICES ASSUME TypeOK, [Next]_vars PROVE TypeOK'
  OBVIOUS
<1> USE AccountConstants
<1>u. CASE UNCHANGED vars
  BY <1>u DEF TypeOK, vars
<1>1. ASSUME NEW r \in Calls, RegisterCountEmail(r) PROVE TypeOK'
  <2>1. PICK e \in Emails, n \in Names :
          Check(r, e, EmailTaken(e), [Idle EXCEPT !.pc = "countName", !.email = e, !.name = n])
    BY <1>1 DEF RegisterCountEmail
  <2>2. [Idle EXCEPT !.pc = "countName", !.email = e, !.name = n] \in CallState
    BY DEF Idle, CallState, Call
  <2> QED BY <2>1, <2>2, CheckType
<1>2. ASSUME NEW r \in Calls, RegisterCountName(r) PROVE TypeOK'
  <2>1. [calls[r] EXCEPT !.pc = "readMax"] \in CallState /\ calls[r].name \in Emails \cup Names
    BY <1>2 DEF RegisterCountName, TypeOK, CallState, Call, Idle
  <2> QED BY <1>2, <2>1, CheckType DEF RegisterCountName
<1>3. ASSUME NEW r \in Calls, ClaimLookup(r) PROVE TypeOK'
  <2>1. PICK e \in Emails, n \in Names :
          Check(r, n, NameTaken(n), [Idle EXCEPT !.pc = "countEmail", !.email = e, !.name = n])
    BY <1>3 DEF ClaimLookup
  <2>2. [Idle EXCEPT !.pc = "countEmail", !.email = e, !.name = n] \in CallState
    BY DEF Idle, CallState, Call
  <2> QED BY <2>1, <2>2, CheckType
<1>4. ASSUME NEW r \in Calls, ClaimCountEmail(r) PROVE TypeOK'
  <2>1. [calls[r] EXCEPT !.pc = "readMax"] \in CallState /\ calls[r].email \in Emails \cup Names
    BY <1>4 DEF ClaimCountEmail, TypeOK, CallState, Call, Idle
  <2> QED BY <1>4, <2>1, CheckType DEF ClaimCountEmail
<1>5. ASSUME NEW r \in Calls, ReadMaxUid(r) PROVE TypeOK'
  <2>1. PICK i \in 1..(MaxUid + 1) : Goto(r, [calls[r] EXCEPT !.pc = "create", !.uid = i])
    BY <1>5 DEF ReadMaxUid
  <2>3. [calls[r] EXCEPT !.pc = "create", !.uid = i] \in CallState
    <3>1. calls[r] \in Call({"countName", "countEmail", "readMax"}, {None}, {None}, Emails, Names)
      BY <1>5 DEF ReadMaxUid, TypeOK, CallState, Call, Idle
    <3>2. [calls[r] EXCEPT !.pc = "create", !.uid = i] \in
            Call({"create"}, 1..(MaxUid + 1), {None}, Emails, Names)
      BY <3>1 DEF Call
    <3> QED BY <3>2 DEF CallState
  <2>4. calls' \in [Calls -> CallState] /\ overlapped' \in BOOLEAN
    BY <2>1, <2>3, GotoType DEF TypeOK
  <2> QED BY <1>5, <2>4 DEF ReadMaxUid, TypeOK
<1>6. ASSUME NEW r \in Calls, CreateUser(r) PROVE TypeOK'
  <2> DEFINE call == calls[r]
  <2>1. PICK u \in Uuids \ DOMAIN uidOf :
       /\ users' = [i \in DOMAIN users \cup {call.uid} |->
                      IF i = call.uid
                        THEN [uuid |-> u, email |-> call.email, name |-> call.name,
                              mark |-> "none"]
                        ELSE users[i]]
       /\ uidOf' = [v \in DOMAIN uidOf \cup {u} |-> IF v = u THEN call.uid ELSE uidOf[v]]
    BY <1>6 DEF CreateUser
  <2>2. call.uid \in Uids /\ call.email \in Emails /\ call.name \in Names
    BY <1>6 DEF CreateUser, TypeOK, CallState, Call, Idle, Uids
  <2>3. IsTable(users', Uids, Row)
    BY <2>1, <2>2 DEF TypeOK, IsTable, Row, Marks
  <2>4. IsTable(uidOf', Uuids, Uids)
    BY <2>1, <2>2 DEF TypeOK, IsTable
  <2>5. calls' \in [Calls -> CallState] /\ overlapped' \in BOOLEAN
    BY <1>6, GotoType, IdleType DEF CreateUser, Return, TypeOK
  <2> QED BY <1>6, <2>3, <2>4, <2>5 DEF CreateUser, TypeOK
<1>7. ASSUME NEW r \in Calls, ChangeEmailResolve(r) PROVE TypeOK'
  <2>1. PICK e \in Emails : Resolve(r, "countNewEmail", e, None)
    BY <1>7 DEF ChangeEmailResolve
  <2>2. Call({"countNewEmail"}, Uids, Uuids, {e}, {None}) \subseteq CallState
    BY DEF CallState, Call
  <2> QED BY <2>1, <2>2, ResolveType
<1>8. ASSUME NEW r \in Calls, ChangeEmailCount(r) PROVE TypeOK'
  <2>1. [calls[r] EXCEPT !.pc = "setEmail"] \in CallState /\ calls[r].email \in Emails \cup Names
    BY <1>8 DEF ChangeEmailCount, TypeOK, CallState, Call, Idle
  <2> QED BY <1>8, <2>1, CheckType DEF ChangeEmailCount
<1>9. ASSUME NEW r \in Calls, ChangeEmailUpdate(r) PROVE TypeOK'
  <2> DEFINE call == calls[r]
  <2>1. call.email \in Emails
    BY <1>9 DEF ChangeEmailUpdate, TypeOK, CallState, Call, Idle
  <2>2. IsTable(users', Uids, Row)
    BY <1>9, <2>1, ZenonT(60) DEF ChangeEmailUpdate, TypeOK, IsTable, Row
  <2>3. calls' \in [Calls -> CallState] /\ overlapped' \in BOOLEAN
    BY <1>9, GotoType, IdleType DEF ChangeEmailUpdate, Return, TypeOK
  <2> QED BY <1>9, <2>2, <2>3 DEF ChangeEmailUpdate, TypeOK
<1>10. ASSUME NEW r \in Calls, ChangeUsernameResolve(r) PROVE TypeOK'
  <2>1. PICK n \in Names : Resolve(r, "checkName", None, n)
    BY <1>10 DEF ChangeUsernameResolve
  <2>2. Call({"checkName"}, Uids, Uuids, {None}, {n}) \subseteq CallState
    BY DEF CallState, Call
  <2> QED BY <2>1, <2>2, ResolveType
<1>11. ASSUME NEW r \in Calls, ChangeUsernameCheck(r) PROVE TypeOK'
  <2>1. [calls[r] EXCEPT !.pc = "setName"] \in CallState /\ calls[r].name \in Emails \cup Names
    BY <1>11 DEF ChangeUsernameCheck, TypeOK, CallState, Call, Idle
  <2> QED BY <1>11, <2>1, CheckType DEF ChangeUsernameCheck
<1>12. ASSUME NEW r \in Calls, ChangeUsernameUpdate(r) PROVE TypeOK'
  <2> DEFINE call == calls[r]
  <2>1. call.name \in Names
    BY <1>12 DEF ChangeUsernameUpdate, TypeOK, CallState, Call, Idle
  <2>2. IsTable(users', Uids, Row)
    BY <1>12, <2>1, SMTT(30) DEF ChangeUsernameUpdate, TypeOK, IsTable, Row
  <2>3. calls' \in [Calls -> CallState] /\ overlapped' \in BOOLEAN
    BY <1>12, GotoType, IdleType DEF ChangeUsernameUpdate, Return, TypeOK
  <2> QED BY <1>12, <2>2, <2>3 DEF ChangeUsernameUpdate, TypeOK
<1>13. ASSUME NEW r \in Calls, DeleteResolve(r) \/ LoginResolve(r) PROVE TypeOK'
  <2>1. /\ Call({"delete"}, Uids, Uuids, {None}, {None}) \subseteq CallState
        /\ Call({"restore"}, Uids, Uuids, {None}, {None}) \subseteq CallState
    BY DEF CallState, Call
  <2> QED BY <1>13, <2>1, ResolveType DEF DeleteResolve, LoginResolve
<1>14. ASSUME NEW r \in Calls, DeleteTransaction(r) PROVE TypeOK'
  <2>1. calls[r].uid \in Uids
    BY <1>14 DEF DeleteTransaction, TypeOK, CallState, Call, Idle
  <2>2. IsTable(users', Uids, Row) /\ deleted' \subseteq Uids
    BY <1>14, <2>1 DEF DeleteTransaction, TypeOK, IsTable, Without, Record
  <2>3. calls' \in [Calls -> CallState] /\ overlapped' \in BOOLEAN
    BY <1>14, GotoType, IdleType DEF DeleteTransaction, Return, TypeOK
  <2> QED BY <1>14, <2>2, <2>3 DEF DeleteTransaction, TypeOK
<1>15. ASSUME NEW r \in Calls, LoginRestore(r) PROVE TypeOK'
  <2>1. IsTable(users', Uids, Row) /\ deleted' \subseteq Uids
    BY <1>15, ZenonT(60) DEF LoginRestore, TypeOK, IsTable, Row, Marks
  <2>2. calls' \in [Calls -> CallState] /\ overlapped' \in BOOLEAN
    BY <1>15, GotoType, IdleType DEF LoginRestore, Return, TypeOK
  <2> QED BY <1>15, <2>1, <2>2 DEF LoginRestore, TypeOK
<1>16. ASSUME NEW r \in Calls, CallFails(r) PROVE TypeOK'
  <2>1. calls' \in [Calls -> CallState] /\ overlapped' \in BOOLEAN
    BY <1>16, GotoType, IdleType DEF CallFails, Return, TypeOK
  <2> QED BY <1>16, <2>1 DEF CallFails, TypeOK
<1>17. CASE ScanMarked
  BY <1>17 DEF ScanMarked, TypeOK, IsTable, Row
<1>18. ASSUME NEW u \in sweep, DeleteUserCascade(u) \/ DeleteCascadeFails(u) PROVE TypeOK'
  BY <1>18 DEF DeleteUserCascade, DeleteCascadeFails, TypeOK, IsTable, Without
<1>19. ASSUME NEW i \in DOMAIN users, CoolingEnds(i) PROVE TypeOK'
  BY <1>19 DEF CoolingEnds, TypeOK, IsTable, Row, Marks
<1>20. CASE Restart
  BY <1>20, IdleType DEF Restart, TypeOK
<1> QED BY <1>u, <1>1, <1>2, <1>3, <1>4, <1>5, <1>6, <1>7, <1>8, <1>9, <1>10, <1>11,
           <1>12, <1>13, <1>14, <1>15, <1>16, <1>17, <1>18, <1>19, <1>20
        DEF Next, CallStep

LEMMA InitType == Init => TypeOK
<1> SUFFICES ASSUME Init PROVE TypeOK
  OBVIOUS
<1>1. calls \in [Calls -> CallState]
  BY IdleType DEF Init
<1>2. IsTable(uidOf, Uuids, Uids)
  BY AccountConstants DEF Init, IsTable, Row
<1> QED BY <1>1, <1>2, AccountConstants DEF Init, TypeOK, IsTable

\* Type correctness of the accounts model.
THEOREM TypeCorrect == Spec => []TypeOK
<1>1. QED BY InitType, TypeStep, PTL DEF Spec

----------------------------------------------------------------------------
\* Deletion by uid.

\* A step that changes neither the tables nor the sweep, and leaves each handler
\* idle, as it was, creating a user or holding the uid and uuid of a row.
LEMMA IdentityQuiet ==
  ASSUME TypeOK, Accounted, UNCHANGED <<users, deleted, sweep, uidOf>>,
         \A r \in Calls : \/ calls'[r] = calls[r]
                         \/ calls'[r] = Idle
                         \/ calls'[r].pc \in {"countName", "countEmail", "readMax", "create"}
                         \/ /\ calls'[r].pc # "restore"
                            /\ calls'[r].uid = calls[r].uid /\ calls'[r].uuid = calls[r].uuid
                            /\ calls[r].pc \in {"countNewEmail", "checkName"}
                         \/ /\ calls'[r].pc # "restore"
                            /\ calls'[r].uid \in DOMAIN users
                            /\ calls'[r].uuid = users[calls'[r].uid].uuid
  PROVE  Accounted'
  BY DEF Accounted, DeletionsAreListed, ByUuid, Idle

LEMMA IdentityStep == TypeOK /\ Accounted /\ [Next]_vars => Accounted'
<1> SUFFICES ASSUME TypeOK, Accounted, [Next]_vars PROVE Accounted'
  OBVIOUS
<1> DEFINE Same == UNCHANGED <<users, deleted, sweep, uidOf>>
<1>u. CASE UNCHANGED vars
  BY <1>u, IdentityQuiet DEF vars
<1>0. ASSUME NEW r \in Calls, NEW s, Same, Goto(r, s) \/ Goto(r, Idle),
             \/ s = Idle
             \/ s.pc \in {"countName", "countEmail", "readMax", "create"}
             \/ /\ s.pc \in {"setEmail", "setName"} /\ s.uid = calls[r].uid
                /\ s.uuid = calls[r].uuid /\ calls[r].pc \in {"countNewEmail", "checkName"}
      PROVE  Accounted'
  <2>1. \E t \in {s, Idle} : calls' = [calls EXCEPT ![r] = t]
    BY <1>0 DEF Goto
  <2> QED BY <1>0, <2>1, IdentityQuiet DEF TypeOK
<1>1. ASSUME NEW r \in Calls, NEW v, NEW taken, NEW s, Check(r, v, taken, s),
             \/ s.pc \in {"countName", "countEmail", "readMax", "create"}
             \/ /\ s.pc \in {"setEmail", "setName"} /\ s.uid = calls[r].uid
                /\ s.uuid = calls[r].uuid /\ calls[r].pc \in {"countNewEmail", "checkName"}
      PROVE  Accounted'
  <2>1. Same /\ (Goto(r, s) \/ Goto(r, Idle))
    BY <1>1, CheckStep
  <2> QED BY <1>0, <1>1, <2>1
<1>2. ASSUME NEW r \in Calls, NEW pc \in {"countNewEmail", "checkName", "delete"},
             NEW e, NEW n, Resolve(r, pc, e, n)
      PROVE  Accounted'
  <2>1. Same /\ \E i \in DOMAIN users : calls' = [calls EXCEPT ![r] =
           [pc |-> pc, uid |-> i, uuid |-> users[i].uuid, email |-> e, name |-> n]]
    BY <1>2 DEF Resolve, Goto
  <2> QED BY <2>1, IdentityQuiet DEF TypeOK
<1>3. ASSUME NEW r \in Calls, CreateUser(r) PROVE Accounted'
  <2> DEFINE call == calls[r]
  <2>1. PICK u \in Uuids \ DOMAIN uidOf :
       /\ users' = [i \in DOMAIN users \cup {call.uid} |->
                      IF i = call.uid
                        THEN [uuid |-> u, email |-> call.email, name |-> call.name,
                              mark |-> "none"]
                        ELSE users[i]]
       /\ uidOf' = [v \in DOMAIN uidOf \cup {u} |-> IF v = u THEN call.uid ELSE uidOf[v]]
    BY <1>3 DEF CreateUser
  <2>2. /\ call.uid \notin DOMAIN users
        /\ UNCHANGED <<deleted, sweep>>
        /\ calls' = [calls EXCEPT ![r] = Idle]
    BY <1>3 DEF CreateUser, Return, Goto
  <2>3. \A i \in DOMAIN users' : users'[i].uuid \in DOMAIN uidOf' /\ uidOf'[users'[i].uuid] = i
    BY <2>1, <2>2 DEF Accounted
  <2>4. \A i \in DOMAIN users' : users'[i].mark = "none"
    BY <2>1 DEF Accounted
  <2>5. \A s \in Calls : calls'[s].pc \in {"delete", "countNewEmail", "setEmail", "checkName", "setName"} =>
          calls'[s].uuid \in DOMAIN uidOf' /\ uidOf'[calls'[s].uuid] = calls'[s].uid
    BY <2>1, <2>2 DEF Accounted, TypeOK, Idle
  <2>6. DeletionsAreListed'
    <3> SUFFICES ASSUME NEW v \in DOMAIN uidOf', ByUuid(v)' = {} PROVE uidOf'[v] \in deleted'
      BY DEF DeletionsAreListed
    <3>1. v # u
      BY <2>1 DEF ByUuid
    <3>2. v \in DOMAIN uidOf /\ uidOf'[v] = uidOf[v]
      BY <2>1, <3>1
    <3>3. ByUuid(v) = {}
      BY <2>1, <2>2 DEF ByUuid
    <3> QED BY <2>2, <3>2, <3>3 DEF Accounted, DeletionsAreListed
  <2>7. \A s \in Calls : calls'[s].pc # "restore"
    BY <2>2 DEF Accounted, TypeOK, Idle
  <2> QED BY <2>2, <2>3, <2>4, <2>5, <2>6, <2>7 DEF Accounted
<1>4. ASSUME NEW r \in Calls, ChangeEmailUpdate(r) \/ ChangeUsernameUpdate(r) PROVE Accounted'
  <2>1. /\ DOMAIN users' = DOMAIN users
        /\ \A i \in DOMAIN users : users'[i].uuid = users[i].uuid /\ users'[i].mark = users[i].mark
    BY <1>4 DEF ChangeEmailUpdate, ChangeUsernameUpdate, TypeOK, IsTable, Row
  <2>2. UNCHANGED <<deleted, sweep, uidOf>> /\ calls' = [calls EXCEPT ![r] = Idle]
    BY <1>4 DEF ChangeEmailUpdate, ChangeUsernameUpdate, Return, Goto
  <2> QED BY <2>1, <2>2 DEF Accounted, DeletionsAreListed, ByUuid, TypeOK, Idle
<1>5. ASSUME NEW r \in Calls, DeleteTransaction(r) PROVE Accounted'
  <2>1. UNCHANGED <<sweep, uidOf>> /\ calls' = [calls EXCEPT ![r] = Idle]
    BY <1>5 DEF DeleteTransaction, Return, Goto
  <2>2. CASE ~CanRecord(calls[r].uid)
    <3>1. UNCHANGED <<users, deleted>>
      BY <1>5, <2>2 DEF DeleteTransaction
    <3> QED BY <2>1, <3>1, IdentityQuiet DEF TypeOK
  <2>3. CASE CanRecord(calls[r].uid)
    <3>1. /\ users' = [x \in DOMAIN users \ {calls[r].uid} |-> users[x]]
          /\ deleted' = deleted \cup {calls[r].uid}
      BY <1>5, <2>3 DEF DeleteTransaction, Without, Record
    <3>2. DeletionsAreListed'
      <4> SUFFICES ASSUME NEW u \in DOMAIN uidOf, ByUuid(u)' = {} PROVE uidOf[u] \in deleted'
        BY <2>1 DEF DeletionsAreListed
      <4>1. CASE ByUuid(u) = {}
        BY <3>1, <4>1 DEF Accounted, DeletionsAreListed
      <4>2. CASE ByUuid(u) # {}
        <5>1. PICK i \in DOMAIN users : users[i].uuid = u
          BY <4>2 DEF ByUuid
        <5>2. i = calls[r].uid
          BY <3>1, <5>1 DEF ByUuid
        <5> QED BY <3>1, <5>1, <5>2 DEF Accounted
      <4> QED BY <4>1, <4>2
    <3> QED BY <2>1, <3>1, <3>2 DEF Accounted, TypeOK, Idle
  <2> QED BY <2>2, <2>3
<1>6. ASSUME NEW r \in Calls, LoginResolve(r) PROVE FALSE
  BY <1>6 DEF LoginResolve, Resolve, Goto, Accounted, TypeOK
<1>7. ASSUME NEW r \in Calls, LoginRestore(r) PROVE FALSE
  BY <1>7 DEF LoginRestore, Accounted
<1>8. CASE ScanMarked
  BY <1>8 DEF ScanMarked, Accounted
<1>9. ASSUME NEW u \in sweep PROVE FALSE
  BY <1>9 DEF Accounted
<1>10. ASSUME NEW i \in DOMAIN users, CoolingEnds(i) PROVE FALSE
  BY <1>10 DEF CoolingEnds, Accounted
<1>11. CASE Restart
  BY <1>11, IdentityQuiet DEF Restart, Accounted
<1>12. ASSUME NEW r \in Calls, CallStep(r) PROVE Accounted'
  <2>1. CASE RegisterCountEmail(r)
    BY <1>1, <2>1 DEF RegisterCountEmail, Idle, StillSo
  <2>2. CASE RegisterCountName(r) \/ ClaimCountEmail(r)
    <3>1. [calls[r] EXCEPT !.pc = "readMax"].pc = "readMax"
      BY <2>2 DEF RegisterCountName, ClaimCountEmail, TypeOK, CallState, Call, Idle
    <3> QED BY <1>1, <2>2, <3>1 DEF RegisterCountName, ClaimCountEmail
  <2>3. CASE ClaimLookup(r)
    BY <1>1, <2>3 DEF ClaimLookup, Idle, StillSo
  <2>4. CASE ReadMaxUid(r)
    <3>1. PICK i \in 1..(MaxUid + 1) :
            Same /\ Goto(r, [calls[r] EXCEPT !.pc = "create", !.uid = i])
      BY <2>4 DEF ReadMaxUid
    <3>2. [calls[r] EXCEPT !.pc = "create", !.uid = i].pc = "create"
      BY <2>4 DEF ReadMaxUid, TypeOK, CallState, Call, Idle
    <3> QED BY <1>0, <3>1, <3>2
  <2>5. CASE ChangeEmailResolve(r) \/ ChangeUsernameResolve(r) \/ DeleteResolve(r)
    <3>1. CASE ChangeEmailResolve(r)
      <4>1. PICK e \in Emails : Resolve(r, "countNewEmail", e, None)
        BY <3>1 DEF ChangeEmailResolve
      <4> QED BY <1>2, <4>1
    <3>2. CASE ChangeUsernameResolve(r)
      <4>1. PICK n \in Names : Resolve(r, "checkName", None, n)
        BY <3>2 DEF ChangeUsernameResolve
      <4> QED BY <1>2, <4>1
    <3>3. CASE DeleteResolve(r)
      BY <1>2, <3>3 DEF DeleteResolve
    <3> QED BY <2>5, <3>1, <3>2, <3>3
  <2>6. CASE ChangeEmailCount(r)
    <3>1. /\ [calls[r] EXCEPT !.pc = "setEmail"].pc = "setEmail"
          /\ [calls[r] EXCEPT !.pc = "setEmail"].uid = calls[r].uid
          /\ [calls[r] EXCEPT !.pc = "setEmail"].uuid = calls[r].uuid
      BY <2>6 DEF ChangeEmailCount, TypeOK, CallState, Call, Idle
    <3> QED BY <1>1, <2>6, <3>1 DEF ChangeEmailCount
  <2>7. CASE ChangeUsernameCheck(r)
    <3>1. /\ [calls[r] EXCEPT !.pc = "setName"].pc = "setName"
          /\ [calls[r] EXCEPT !.pc = "setName"].uid = calls[r].uid
          /\ [calls[r] EXCEPT !.pc = "setName"].uuid = calls[r].uuid
      BY <2>7 DEF ChangeUsernameCheck, TypeOK, CallState, Call, Idle
    <3> QED BY <1>1, <2>7, <3>1 DEF ChangeUsernameCheck
  <2>8. CASE CallFails(r)
    BY <1>0, <2>8 DEF CallFails, Return
  <2> QED BY <1>3, <1>4, <1>5, <1>6, <1>7, <1>12, <2>1, <2>2, <2>3, <2>4, <2>5, <2>6, <2>7, <2>8
          DEF CallStep
<1> QED BY <1>u, <1>8, <1>9, <1>10, <1>11, <1>12 DEF Next

\* The table the process started with is never forgotten.
LEMMA LegacyStays == [Next]_vars => legacy' = legacy
<1> SUFFICES ASSUME [Next]_vars PROVE legacy' = legacy
  OBVIOUS
<1>1. ASSUME NEW r \in Calls, CallStep(r) PROVE legacy' = legacy
  <2>1. CASE CreateUser(r) \/ ChangeEmailUpdate(r) \/ ChangeUsernameUpdate(r)
             \/ DeleteTransaction(r) \/ LoginRestore(r)
    BY <2>1 DEF CreateUser, ChangeEmailUpdate, ChangeUsernameUpdate, DeleteTransaction, LoginRestore
  <2>2. CASE ChangeEmailResolve(r) \/ ChangeUsernameResolve(r) \/ DeleteResolve(r) \/ LoginResolve(r)
    BY <2>2 DEF ChangeEmailResolve, ChangeUsernameResolve, DeleteResolve, LoginResolve, Resolve
  <2>3. CASE RegisterCountEmail(r) \/ RegisterCountName(r) \/ ClaimLookup(r) \/ ClaimCountEmail(r)
    BY <2>3 DEF RegisterCountEmail, RegisterCountName, ClaimLookup, ClaimCountEmail, Check
  <2>4. CASE ReadMaxUid(r) \/ ChangeEmailCount(r) \/ ChangeUsernameCheck(r) \/ CallFails(r)
    BY <2>4 DEF ReadMaxUid, ChangeEmailCount, ChangeUsernameCheck, CallFails, Check
  <2> QED BY <1>1, <2>1, <2>2, <2>3, <2>4 DEF CallStep
<1> QED BY <1>1 DEF Next, ScanMarked, DeleteUserCascade, DeleteCascadeFails, CoolingEnds, Restart, vars

LEMMA IdentityInit == Init => IdentityInv
<1> SUFFICES ASSUME Unmarked, Init PROVE Accounted
  BY DEF IdentityInv
<1>1. \A i \in DOMAIN users : users[i].uuid \in DOMAIN uidOf /\ uidOf[users[i].uuid] = i
  BY AccountConstants DEF Init
<1>2. DeletionsAreListed
  BY DEF Init, DeletionsAreListed, ByUuid
<1> QED BY <1>1, <1>2 DEF Init, Unmarked, Accounted, Idle

\* The invariant on which deletion by uid rests: a handler holds the uid of the
\* uuid it resolved, and every uuid without a row has its uid on record.
THEOREM Identity == Spec => []IdentityInv
<1>1. TypeOK /\ IdentityInv /\ [Next]_vars => IdentityInv'
  BY IdentityStep, LegacyStays DEF IdentityInv, Unmarked
<1> QED BY <1>1, IdentityInit, TypeCorrect, PTL DEF Spec

\* A transaction of DeleteAccount deletes no row but that of the user who asked.
THEOREM DeletesOwn == Spec => DeletesOwnRow
<1>1. TypeOK /\ IdentityInv /\ [Next]_vars =>
        [\A r \in Calls : Unmarked /\ DeleteTransaction(r) =>
           \A i \in DOMAIN users \ DOMAIN users' : users[i].uuid = calls[r].uuid]_vars
  <2> SUFFICES ASSUME Accounted, NEW r \in Calls, DeleteTransaction(r),
                      NEW i \in DOMAIN users \ DOMAIN users'
               PROVE  users[i].uuid = calls[r].uuid
    BY DEF IdentityInv
  <2>1. CanRecord(calls[r].uid) /\ i = calls[r].uid
    BY DEF DeleteTransaction, Without
  <2>2. calls[r].uuid \in DOMAIN uidOf /\ uidOf[calls[r].uuid] = calls[r].uid
    BY DEF DeleteTransaction, Accounted
  <2>3. PICK j \in DOMAIN users : users[j].uuid = calls[r].uuid
    BY <2>1, <2>2 DEF Accounted, DeletionsAreListed, CanRecord, ByUuid
  <2> QED BY <2>1, <2>2, <2>3 DEF Accounted
<1> QED BY <1>1, Identity, TypeCorrect, PTL DEF Spec, DeletesOwnRow

----------------------------------------------------------------------------
\* Uniqueness of emails and usernames while handlers do not overlap.

LegacyUnique ==
  \A t \in LegacyTables : \A i, j \in DOMAIN t :
    t[i].email = t[j].email \/ t[i].name = t[j].name => i = j

\* Once two handlers have overlapped, that is remembered.
LEMMA OverlapStays ==
  ASSUME [Next]_vars, overlapped
  PROVE  overlapped'
<1>1. ASSUME NEW r \in Calls, NEW s, Goto(r, s) PROVE overlapped'
  BY <1>1 DEF Goto
<1>2. ASSUME NEW r \in Calls, NEW v, NEW taken, NEW s, Check(r, v, taken, s) PROVE overlapped'
  BY <1>1, <1>2, CheckStep
<1>3. ASSUME NEW r \in Calls, NEW pc, NEW e, NEW n, Resolve(r, pc, e, n) PROVE overlapped'
  BY <1>1, <1>3 DEF Resolve
<1>4. ASSUME NEW r \in Calls, CallStep(r) PROVE overlapped'
  <2>1. CASE CreateUser(r) \/ ChangeEmailUpdate(r) \/ ChangeUsernameUpdate(r)
             \/ DeleteTransaction(r) \/ LoginRestore(r)
    BY <1>1, <2>1 DEF CreateUser, ChangeEmailUpdate, ChangeUsernameUpdate, DeleteTransaction,
                      LoginRestore, Return
  <2>2. CASE ChangeEmailResolve(r) \/ ChangeUsernameResolve(r) \/ DeleteResolve(r) \/ LoginResolve(r)
    BY <1>3, <2>2 DEF ChangeEmailResolve, ChangeUsernameResolve, DeleteResolve, LoginResolve
  <2>3. CASE RegisterCountEmail(r) \/ RegisterCountName(r) \/ ClaimLookup(r) \/ ClaimCountEmail(r)
    BY <1>2, <2>3 DEF RegisterCountEmail, RegisterCountName, ClaimLookup, ClaimCountEmail
  <2>4. CASE ReadMaxUid(r) \/ ChangeEmailCount(r) \/ ChangeUsernameCheck(r) \/ CallFails(r)
    BY <1>1, <1>2, <2>4 DEF ReadMaxUid, ChangeEmailCount, ChangeUsernameCheck, CallFails, Return
  <2> QED BY <1>4, <2>1, <2>2, <2>3, <2>4 DEF CallStep
<1> QED BY <1>4 DEF Next, ScanMarked, DeleteUserCascade, DeleteCascadeFails, CoolingEnds, Restart, vars

\* A handler that moves while nothing overlaps is the only one, before and after.
LEMMA AloneStep ==
  ASSUME TypeOK, Alone, ~overlapped', NEW r \in Calls, NEW s, Goto(r, s), Busy(s) \/ Busy(calls[r])
  PROVE  /\ Alone'
         /\ \A q \in Calls : IF q = r THEN calls'[q] = s ELSE ~Busy(calls'[q])
<1>1. calls'[r] = s /\ \A q \in Calls \ {r} : ~Busy(calls[q]) /\ calls'[q] = calls[q]
  BY DEF Goto, Alone, TypeOK
<1> QED BY <1>1 DEF Alone, Busy

\* Rows go away or keep their identity, and handlers go on as they were or end.
LEMMA UniqueShrink ==
  ASSUME TypeOK, Undisturbed, uidOf' = uidOf, unseen \subseteq unseen',
         DOMAIN users' \subseteq DOMAIN users,
         \A i \in DOMAIN users' : /\ users'[i].uuid = users[i].uuid
                                 /\ users'[i].email = users[i].email
                                 /\ users'[i].name = users[i].name,
         \A r \in Calls : calls'[r] \in {calls[r], Idle}
  PROVE  Undisturbed'
<1>1. EmailsUnique' /\ NamesUnique'
  BY DEF Undisturbed, EmailsUnique, NamesUnique
<1>2. \A i \in DOMAIN users' : users'[i].uuid \in DOMAIN uidOf' /\ uidOf'[users'[i].uuid] = i
  BY DEF Undisturbed
<1>3. \A r \in Calls : StillSo(calls[r])'
  <2> SUFFICES ASSUME NEW r \in Calls PROVE StillSo(calls[r])'
    OBVIOUS
  <2>1. StillSo(calls[r])
    BY DEF Undisturbed
  <2>2. CASE calls'[r] = Idle
    BY <2>2 DEF StillSo, Idle
  <2>3. CASE calls'[r] = calls[r]
    BY <2>1, <2>3 DEF StillSo, EmailTaken, NameTaken, EmailTakenByOther, NameTakenByOther
  <2> QED BY <2>2, <2>3
<1>4. Alone'
  BY DEF Alone, Undisturbed, Busy, Idle
<1> QED BY <1>1, <1>2, <1>3, <1>4 DEF Undisturbed

\* The table is unchanged, and the handler that moves holds what it has checked.
LEMMA UniqueCheck ==
  ASSUME TypeOK, Undisturbed, ~overlapped', UNCHANGED <<users, uidOf>>, unseen \subseteq unseen',
         NEW r \in Calls, NEW s, Goto(r, s), Busy(s), StillSo(s)'
  PROVE  Undisturbed'
<1>1. EmailsUnique' /\ NamesUnique'
  BY DEF Undisturbed, EmailsUnique, NamesUnique
<1>2. Alone' /\ \A q \in Calls : IF q = r THEN calls'[q] = s ELSE ~Busy(calls'[q])
  BY AloneStep DEF Undisturbed
<1>4. \A q \in Calls : StillSo(calls[q])'
  BY <1>2 DEF StillSo, Busy
<1>5. \A i \in DOMAIN users' : users'[i].uuid \in DOMAIN uidOf' /\ uidOf'[users'[i].uuid] = i
  BY DEF Undisturbed
<1> QED BY <1>1, <1>2, <1>4, <1>5 DEF Undisturbed

LEMMA SequentialStep == TypeOK /\ SequentialInv /\ [Next]_vars => SequentialInv'
<1> SUFFICES ASSUME TypeOK, Undisturbed, [Next]_vars, ~overlapped' PROVE Undisturbed'
  BY OverlapStays DEF SequentialInv, TypeOK
<1>u. CASE UNCHANGED vars
  BY <1>u, UniqueShrink DEF vars
<1>0. ASSUME NEW r \in Calls, UNCHANGED <<users, uidOf>>, unseen \subseteq unseen', Goto(r, Idle)
      PROVE  Undisturbed'
  BY <1>0, UniqueShrink DEF TypeOK, Goto
<1>1. ASSUME NEW r \in Calls, NEW v, NEW taken, NEW s, Check(r, v, taken, s), Busy(s),
             UNCHANGED users /\ unseen \subseteq unseen' /\ (taken => v \in unseen') => StillSo(s)'
      PROVE  Undisturbed'
  <2>1. /\ UNCHANGED <<users, uidOf>> /\ unseen \subseteq unseen'
        /\ Goto(r, Idle) \/ (Goto(r, s) /\ (taken => v \in unseen'))
    BY <1>1, CheckStep
  <2> QED BY <1>0, <1>1, <2>1, UniqueCheck
<1>2. ASSUME NEW r \in Calls, NEW pc \in {"countNewEmail", "checkName", "delete", "restore"},
             NEW e, NEW n, Resolve(r, pc, e, n)
      PROVE  Undisturbed'
  <2>1. PICK i \in DOMAIN users :
          Goto(r, [pc |-> pc, uid |-> i, uuid |-> users[i].uuid, email |-> e, name |-> n])
    BY <1>2 DEF Resolve
  <2>2. UNCHANGED <<users, uidOf, unseen>>
    BY <1>2 DEF Resolve
  <2>3. PICK s : s = [pc |-> pc, uid |-> i, uuid |-> users[i].uuid, email |-> e, name |-> n]
    OBVIOUS
  <2>4. Goto(r, s)
    BY <2>1, <2>3
  <2>5. StillSo(s)' /\ Busy(s)
    BY <1>2, <2>2, <2>3 DEF StillSo, Busy
  <2> QED BY <2>2, <2>4, <2>5, UniqueCheck
<1>3. ASSUME NEW r \in Calls, CallStep(r) PROVE Undisturbed'
  <2> DEFINE call == calls[r]
  <2>1. CASE RegisterCountEmail(r)
    BY <1>1, <2>1 DEF RegisterCountEmail, Idle, StillSo, Busy, EmailTaken
  <2>2. CASE RegisterCountName(r)
    <3>1. /\ [call EXCEPT !.pc = "readMax"].pc = "readMax"
          /\ [call EXCEPT !.pc = "readMax"].email = call.email
          /\ [call EXCEPT !.pc = "readMax"].name = call.name
      BY <2>2 DEF RegisterCountName, TypeOK, CallState, Call, Idle
    <3>2. call.email \in unseen \/ ~EmailTaken(call.email)
      BY <2>2 DEF RegisterCountName, Undisturbed, StillSo
    <3> QED BY <1>1, <2>2, <3>1, <3>2 DEF RegisterCountName, StillSo, Busy, EmailTaken, NameTaken
  <2>3. CASE ClaimLookup(r)
    BY <1>1, <2>3 DEF ClaimLookup, Idle, StillSo, Busy, NameTaken
  <2>4. CASE ClaimCountEmail(r)
    <3>1. /\ [call EXCEPT !.pc = "readMax"].pc = "readMax"
          /\ [call EXCEPT !.pc = "readMax"].email = call.email
          /\ [call EXCEPT !.pc = "readMax"].name = call.name
      BY <2>4 DEF ClaimCountEmail, TypeOK, CallState, Call, Idle
    <3>2. call.name \in unseen \/ ~NameTaken(call.name)
      BY <2>4 DEF ClaimCountEmail, Undisturbed, StillSo
    <3> QED BY <1>1, <2>4, <3>1, <3>2 DEF ClaimCountEmail, StillSo, Busy, EmailTaken, NameTaken
  <2>5. CASE ReadMaxUid(r)
    <3>0. PICK i \in 1..(MaxUid + 1) : Goto(r, [call EXCEPT !.pc = "create", !.uid = i])
      BY <2>5 DEF ReadMaxUid
    <3>1. PICK s : s = [call EXCEPT !.pc = "create", !.uid = i] /\ Goto(r, s)
      BY <3>0
    <3>2. s.pc = "create" /\ s.email = call.email /\ s.name = call.name
      BY <2>5, <3>1 DEF ReadMaxUid, TypeOK, CallState, Call, Idle
    <3>3. /\ call.email \in unseen \/ ~EmailTaken(call.email)
          /\ call.name \in unseen \/ ~NameTaken(call.name)
      BY <2>5 DEF ReadMaxUid, Undisturbed, StillSo
    <3>4. UNCHANGED <<users, uidOf, unseen>>
      BY <2>5 DEF ReadMaxUid
    <3>5. Busy(s) /\ StillSo(s)'
      BY <3>2, <3>3, <3>4 DEF StillSo, Busy, EmailTaken, NameTaken
    <3> QED BY <3>1, <3>4, <3>5, UniqueCheck
  <2>6. CASE CreateUser(r)
    <3>1. PICK u \in Uuids \ DOMAIN uidOf :
         /\ users' = [i \in DOMAIN users \cup {call.uid} |->
                        IF i = call.uid
                          THEN [uuid |-> u, email |-> call.email, name |-> call.name,
                                mark |-> "none"]
                          ELSE users[i]]
         /\ uidOf' = [v \in DOMAIN uidOf \cup {u} |-> IF v = u THEN call.uid ELSE uidOf[v]]
      BY <2>6 DEF CreateUser
    <3>2. call.uid \notin DOMAIN users /\ calls' = [calls EXCEPT ![r] = Idle]
      BY <2>6 DEF CreateUser, Return, Goto
    <3>3. /\ call.email \in unseen \/ ~EmailTaken(call.email)
          /\ call.name \in unseen \/ ~NameTaken(call.name)
          /\ unseen' = unseen
      BY <2>6 DEF CreateUser, Undisturbed, StillSo
    <3>4. \A i \in DOMAIN users' : users'[i].uuid \in DOMAIN uidOf' /\ uidOf'[users'[i].uuid] = i
      BY <3>1, <3>2 DEF Undisturbed
    <3>5. EmailsUnique' /\ NamesUnique'
      BY <3>1, <3>2, <3>3 DEF Undisturbed, EmailsUnique, NamesUnique, EmailTaken, NameTaken
    <3>6. Alone' /\ \A q \in Calls : ~Busy(calls'[q])
      BY <2>6, AloneStep DEF CreateUser, Return, Busy, Idle, Undisturbed
    <3> QED BY <3>4, <3>5, <3>6 DEF Undisturbed, StillSo, Busy
  <2>7. CASE ChangeEmailResolve(r) \/ ChangeUsernameResolve(r) \/ DeleteResolve(r) \/ LoginResolve(r)
    <3>1. CASE ChangeEmailResolve(r)
      BY <1>2, <3>1 DEF ChangeEmailResolve
    <3>2. CASE ChangeUsernameResolve(r)
      <4>1. PICK n \in Names : Resolve(r, "checkName", None, n)
        BY <3>2 DEF ChangeUsernameResolve
      <4> QED BY <1>2, <4>1
    <3>3. CASE DeleteResolve(r)
      BY <1>2, <3>3 DEF DeleteResolve
    <3>4. CASE LoginResolve(r)
      <4>1. Resolve(r, "restore", None, None)
        BY <3>4 DEF LoginResolve
      <4> QED BY <1>2, <4>1
    <3> QED BY <2>7, <3>1, <3>2, <3>3, <3>4
  <2>8. CASE ChangeEmailCount(r)
    <3>1. /\ [call EXCEPT !.pc = "setEmail"].pc = "setEmail"
          /\ [call EXCEPT !.pc = "setEmail"].uid = call.uid
          /\ [call EXCEPT !.pc = "setEmail"].uuid = call.uuid
          /\ [call EXCEPT !.pc = "setEmail"].email = call.email
      BY <2>8 DEF ChangeEmailCount, TypeOK, CallState, Call, Idle
    <3>2. call.uid \in DOMAIN users => users[call.uid].uuid = call.uuid
      BY <2>8 DEF ChangeEmailCount, Undisturbed, StillSo
    <3> QED BY <1>1, <2>8, <3>1, <3>2 DEF ChangeEmailCount, StillSo, Busy, EmailTakenByOther
  <2>9. CASE ChangeEmailUpdate(r)
    <3>1. /\ users' = [i \in DOMAIN users |->
                 IF i = call.uid THEN [users[i] EXCEPT !.email = call.email] ELSE users[i]]
          /\ calls' = [calls EXCEPT ![r] = Idle]
          /\ UNCHANGED <<uidOf, unseen>>
      BY <2>9 DEF ChangeEmailUpdate, Return, Goto
    <3>2. \A i \in DOMAIN users : /\ users'[i].uuid = users[i].uuid
                                 /\ users'[i].name = users[i].name
                                 /\ (i # call.uid => users'[i].email = users[i].email)
                                 /\ (i = call.uid => users'[i].email = call.email)
      BY <3>1 DEF TypeOK, IsTable, Row
    <3>3. \A i \in DOMAIN users : i # call.uid /\ call.uid \in DOMAIN users =>
            call.email \in unseen \/ users[i].email # call.email
      BY <2>9 DEF ChangeEmailUpdate, Undisturbed, StillSo, EmailTakenByOther
    <3>4. EmailsUnique' /\ NamesUnique'
      BY <3>1, <3>2, <3>3 DEF Undisturbed, EmailsUnique, NamesUnique
    <3>5. Alone' /\ \A q \in Calls : ~Busy(calls'[q])
      BY <2>9, AloneStep DEF ChangeEmailUpdate, Return, Busy, Idle, Undisturbed
    <3> QED BY <3>1, <3>2, <3>4, <3>5 DEF Undisturbed, StillSo, Busy
  <2>10. CASE ChangeUsernameCheck(r)
    <3>1. /\ [call EXCEPT !.pc = "setName"].pc = "setName"
          /\ [call EXCEPT !.pc = "setName"].uuid = call.uuid
          /\ [call EXCEPT !.pc = "setName"].name = call.name
      BY <2>10 DEF ChangeUsernameCheck, TypeOK, CallState, Call, Idle
    <3> QED BY <1>1, <2>10, <3>1 DEF ChangeUsernameCheck, StillSo, Busy, NameTakenByOther
  <2>11. CASE ChangeUsernameUpdate(r)
    <3>1. /\ users' = [i \in DOMAIN users |->
                 IF i \in ByUuid(call.uuid)
                   THEN [users[i] EXCEPT !.name = call.name] ELSE users[i]]
          /\ calls' = [calls EXCEPT ![r] = Idle]
          /\ UNCHANGED <<uidOf, unseen>>
      BY <2>11 DEF ChangeUsernameUpdate, RenamedRows, Return, Goto
    <3>2. \A i \in DOMAIN users : /\ users'[i].uuid = users[i].uuid
                                 /\ users'[i].email = users[i].email
                                 /\ (users[i].uuid # call.uuid => users'[i].name = users[i].name)
                                 /\ (users[i].uuid = call.uuid => users'[i].name = call.name)
      BY <3>1 DEF TypeOK, IsTable, Row, ByUuid
    <3>3. \A i \in DOMAIN users :
            users[i].uuid # call.uuid => call.name \in unseen \/ users[i].name # call.name
      BY <2>11 DEF ChangeUsernameUpdate, Undisturbed, StillSo, NameTakenByOther
    <3>4. EmailsUnique'
      BY <3>1, <3>2 DEF Undisturbed, EmailsUnique
    <3>6. NamesUnique'
      <4> SUFFICES ASSUME NEW i \in DOMAIN users, NEW j \in DOMAIN users,
                          users'[i].name = users'[j].name, users'[i].name \notin unseen
                   PROVE  i = j
        BY <3>1 DEF NamesUnique
      <4> DEFINE New(k) == IF users[k].uuid = call.uuid THEN call.name ELSE users[k].name
      <4>1. \A k \in DOMAIN users : users'[k].name = New(k)
        BY <3>1 DEF TypeOK, IsTable, Row, ByUuid
      <4>2. New(i) = New(j) /\ New(i) \notin unseen
        BY <4>1
      <4>3. CASE users[i].uuid = users[j].uuid
        BY <4>3 DEF Undisturbed
      <4>4. CASE users[i].uuid # call.uuid /\ users[j].uuid # call.uuid
        BY <4>2, <4>4 DEF Undisturbed, NamesUnique
      <4>5. CASE users[i].uuid = call.uuid /\ users[j].uuid # call.uuid
        BY <3>3, <4>2, <4>5
      <4>6. CASE users[i].uuid # call.uuid /\ users[j].uuid = call.uuid
        BY <3>3, <4>2, <4>6
      <4> QED BY <4>3, <4>4, <4>5, <4>6
    <3>5. Alone' /\ \A q \in Calls : ~Busy(calls'[q])
      BY <2>11, AloneStep DEF ChangeUsernameUpdate, Return, Busy, Idle, Undisturbed
    <3> QED BY <3>1, <3>2, <3>4, <3>5, <3>6 DEF Undisturbed, StillSo, Busy
  <2>12. CASE DeleteTransaction(r)
    <3>1. /\ UNCHANGED <<uidOf, unseen>> /\ calls' = [calls EXCEPT ![r] = Idle]
          /\ DOMAIN users' \subseteq DOMAIN users
          /\ \A i \in DOMAIN users' : users'[i] = users[i]
      BY <2>12 DEF DeleteTransaction, Without, Return, Goto
    <3> QED BY <3>1, UniqueShrink DEF TypeOK
  <2>13. CASE LoginRestore(r)
    <3>1. /\ UNCHANGED <<uidOf, unseen>> /\ calls' = [calls EXCEPT ![r] = Idle]
          /\ DOMAIN users' = DOMAIN users
          /\ \A i \in DOMAIN users' : /\ users'[i].uuid = users[i].uuid
                                      /\ users'[i].email = users[i].email
                                      /\ users'[i].name = users[i].name
      BY <2>13 DEF LoginRestore, Return, Goto, TypeOK, IsTable, Row
    <3> QED BY <3>1, UniqueShrink DEF TypeOK
  <2>14. CASE CallFails(r)
    BY <1>0, <2>14 DEF CallFails, Return
  <2> QED BY <1>3, <2>1, <2>2, <2>3, <2>4, <2>5, <2>6, <2>7, <2>8, <2>9, <2>10, <2>11, <2>12,
             <2>13, <2>14 DEF CallStep
<1>4. CASE ScanMarked
  BY <1>4, UniqueShrink DEF ScanMarked
<1>5. ASSUME NEW u \in sweep, DeleteUserCascade(u) \/ DeleteCascadeFails(u) PROVE Undisturbed'
  BY <1>5, UniqueShrink DEF DeleteUserCascade, DeleteCascadeFails, Without
<1>6. ASSUME NEW i \in DOMAIN users, CoolingEnds(i) PROVE Undisturbed'
  <2>1. /\ DOMAIN users' = DOMAIN users
        /\ \A j \in DOMAIN users' : /\ users'[j].uuid = users[j].uuid
                                    /\ users'[j].email = users[j].email
                                    /\ users'[j].name = users[j].name
    BY <1>6 DEF CoolingEnds, TypeOK, IsTable, Row
  <2> QED BY <1>6, <2>1, UniqueShrink DEF CoolingEnds
<1>7. CASE Restart
  BY <1>7, UniqueShrink DEF Restart
<1> QED BY <1>u, <1>3, <1>4, <1>5, <1>6, <1>7 DEF Next

\* While no two handlers have been in flight at once, what a handler has looked up by
\* a query that did not fail holds until it writes, whatever the cleanup task and
\* restarts do meanwhile (the checks of auth_controller.go, user_security_controller.go).
THEOREM Sequential == LegacyUnique /\ Spec => []SequentialInv
<1>1. LegacyUnique /\ Init => SequentialInv
  <2> SUFFICES ASSUME LegacyUnique, Init PROVE Undisturbed
    BY DEF SequentialInv
  <2>1. \A i \in DOMAIN users : users[i].uuid \in DOMAIN uidOf /\ uidOf[users[i].uuid] = i
    BY AccountConstants DEF Init
  <2>2. EmailsUnique /\ NamesUnique
    BY DEF Init, LegacyUnique, EmailsUnique, NamesUnique
  <2> QED BY <2>1, <2>2 DEF Init, Undisturbed, Alone, StillSo, Busy, Idle
<1>2. CASE LegacyUnique
  <2>1. Init => SequentialInv
    BY <1>1, <1>2
  <2> QED BY <2>1, SequentialStep, TypeCorrect, PTL DEF Spec
<1> QED BY <1>2

\* Emails and usernames are unique until two handlers have overlapped or the query
\* for the value has failed (Register, ClaimUserInternal, ChangeEmail, ChangeUsername).
THEOREM SequentialUnique == LegacyUnique /\ Spec => []UniqueUnlessRaced
<1>1. SequentialInv => UniqueUnlessRaced
  BY DEF SequentialInv, Undisturbed, UniqueUnlessRaced
<1> QED BY <1>1, Sequential, PTL
=============================================================================
