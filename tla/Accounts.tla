------------------------------ MODULE Accounts ------------------------------
(***************************************************************************)
(* The users table of HRPAuth and the operations that create, change and   *)
(* remove its rows, run by concurrent HTTP handlers and by the account     *)
(* cleanup task.                                                           *)
(*                                                                         *)
(* `uid` is the primary key and is chosen by the handler that inserts the  *)
(* row (MAX(uid) + 1); `uuid` is random and has a UNIQUE index; neither    *)
(* email nor username has one.  Some statements find their row by uid and  *)
(* some by uuid, and a uid can be given to another user once its row is    *)
(* gone: this module is about what follows from that.  A handler takes one *)
(* step per SQL statement (or transaction); its locals are in `calls`.     *)
(*                                                                         *)
(* Emails and usernames are compared by MySQL with a case-insensitive      *)
(* collation, so a value stands for all its spellings.                     *)
(***************************************************************************)
EXTENDS Naturals

CONSTANTS
  Uuids,       \* uuids that users can get
  Emails,
  Names,       \* usernames
  MaxUid,      \* bound: uids are 1..MaxUid
  Calls,       \* concurrent HTTP handlers
  LegacyTables, \* the users tables the process may start with
  None

Uids  == 1..MaxUid
Marks == {"none", "cooling", "due"}   \* deleted_at: NULL, recent, older than the cutoff
Row   == [uuid : Uuids, email : Emails, name : Names, mark : Marks]

IsTable(t, Keys, R) == DOMAIN t \subseteq Keys /\ t \in [DOMAIN t -> R]

ASSUME AccountConstants ==
  /\ MaxUid \in Nat
  /\ \A t \in LegacyTables :
       /\ IsTable(t, Uids, Row)
       /\ \A i, j \in DOMAIN t : t[i].uuid = t[j].uuid => i = j
  /\ None \notin Uuids \cup Emails \cup Names \cup Uids

VARIABLES
  users,     \* users table, by uid
  deleted,   \* deleted_accounts table: a set of uids
  calls,     \* locals of the handlers in flight
  sweep,     \* candidates the cleanup task has read and not yet deleted
  uidOf,     \* history: the uid each uuid was created with
  legacy,    \* history: the users table the process started with
  unseen,    \* history: emails and usernames for which a query has failed
  overlapped \* history: two handlers have been in flight at once

vars == <<users, deleted, calls, sweep, uidOf, legacy, unseen, overlapped>>

Idle == [pc |-> "idle", uid |-> None, uuid |-> None, email |-> None, name |-> None]

Call(pcs, U, V, E, N) == [pc : pcs, uid : U, uuid : V, email : E, name : N]

\* The kinds of local state a handler in flight can hold.
CallState ==
  {Idle}
    \cup Call({"countName", "countEmail", "readMax"}, {None}, {None}, Emails, Names)
    \cup Call({"create"}, 1..(MaxUid + 1), {None}, Emails, Names)
    \cup Call({"countNewEmail", "setEmail"}, Uids, Uuids, Emails, {None})
    \cup Call({"checkName", "setName"}, Uids, Uuids, {None}, Names)
    \cup Call({"delete", "restore"}, Uids, Uuids, {None}, {None})

TypeOK ==
  /\ IsTable(users, Uids, Row)
  /\ deleted \subseteq Uids
  /\ calls \in [Calls -> CallState]
  /\ sweep \subseteq [uid : Uids, uuid : Uuids]
  /\ IsTable(uidOf, Uuids, Uids)
  /\ legacy \in LegacyTables
  /\ unseen \subseteq Emails \cup Names
  /\ overlapped \in BOOLEAN

Init ==
  /\ users \in LegacyTables
  /\ legacy = users
  /\ deleted = {i \in DOMAIN users : users[i].mark # "none"}
  /\ calls = [r \in Calls |-> Idle]
  /\ sweep = {}
  /\ uidOf = [u \in {users[i].uuid : i \in DOMAIN users} |->
                CHOOSE i \in DOMAIN users : users[i].uuid = u]
  /\ unseen = {}
  /\ overlapped = FALSE

----------------------------------------------------------------------------
\* The queries.  M_x is x with a plausible mistake; it is used only to show
\* that the properties notice the mistake.

\* Rows with the uuid: at most one.
ByUuid(u) == {i \in DOMAIN users : users[i].uuid = u}

\* SELECT count(*) WHERE email = e: rows marked as deleted count as well.
M_EmailTaken(e) == \E i \in DOMAIN users : users[i].email = e /\ users[i].mark = "none"
EmailTaken(e)   == \E i \in DOMAIN users : users[i].email = e

\* SELECT count(*) WHERE email = e AND uuid <> u
EmailTakenByOther(e, u) == \E i \in DOMAIN users : users[i].email = e /\ users[i].uuid # u

NameTaken(n)   == \E i \in DOMAIN users : users[i].name = n

NameTakenByOther(n, u) == \E i \in DOMAIN users : users[i].name = n /\ users[i].uuid # u

\* i is SELECT COALESCE(MAX(uid), 0), plus one.
IsNextUid(i)   == IF DOMAIN users = {} THEN i = 1
                  ELSE i - 1 \in DOMAIN users /\ \A j \in DOMAIN users : j < i

\* INSERT INTO deleted_accounts succeeds: uid is its primary key.
M_CanRecord(i) == TRUE
CanRecord(i)   == i \notin deleted

\* UPDATE users SET username ... WHERE uuid = the uuid the handler resolved.
RenamedRows(call)   == ByUuid(call.uuid)

\* tx.Create(&DeletedAccount{...}), in the transaction that deletes the user.
Record(i)   == deleted \cup {i}

Without(t, S)  == [x \in DOMAIN t \ S |-> t[x]]

Busy(call) == call.pc # "idle"
Goto(r, state) ==
  /\ calls' = [calls EXCEPT ![r] = state]
  /\ overlapped' = (overlapped \/ (Busy(state) /\ \E q \in Calls \ {r} : Busy(calls[q])))
Return(r) == Goto(r, Idle)

\* A handler looks for another holder of the value v and answers with an error
\* when there is one.  The error of the query is dropped, and what it would have
\* filled is empty then: a query that fails finds nobody.
Check(r, v, taken, state) ==
  /\ \/ taken /\ Return(r) /\ UNCHANGED unseen
     \/ ~taken /\ Goto(r, state) /\ UNCHANGED unseen
     \/ Goto(r, state) /\ unseen' = unseen \cup {v}
  /\ UNCHANGED <<users, deleted, sweep, uidOf, legacy>>

\* The bearer token resolves to the user's row as it is now.
Resolve(r, pc, e, n) ==
  /\ calls[r].pc = "idle"
  /\ \E i \in DOMAIN users :
       Goto(r, [pc |-> pc, uid |-> i, uuid |-> users[i].uuid, email |-> e, name |-> n])
  /\ UNCHANGED <<users, deleted, sweep, uidOf, legacy, unseen>>

----------------------------------------------------------------------------
\* POST /register: count the email, count the username, read MAX(uid), insert.
RegisterCountEmail(r) ==
  /\ calls[r].pc = "idle"
  /\ \E e \in Emails, n \in Names :
       Check(r, e, EmailTaken(e), [Idle EXCEPT !.pc = "countName", !.email = e, !.name = n])

RegisterCountName(r) ==
  LET call == calls[r] IN
  /\ call.pc = "countName"
  /\ Check(r, call.name, NameTaken(call.name), [call EXCEPT !.pc = "readMax"])

\* POST /internal/claim-user: a user with the name is returned when its email
\* is the same and is a conflict when it is not; otherwise count the email, then
\* as in Register.
ClaimLookup(r) ==
  /\ calls[r].pc = "idle"
  /\ \E e \in Emails, n \in Names :
       Check(r, n, NameTaken(n), [Idle EXCEPT !.pc = "countEmail", !.email = e, !.name = n])

ClaimCountEmail(r) ==
  LET call == calls[r] IN
  /\ call.pc = "countEmail"
  /\ Check(r, call.email, EmailTaken(call.email), [call EXCEPT !.pc = "readMax"])

\* A query that fails leaves 0 for the maximum.
ReadMaxUid(r) ==
  LET call == calls[r] IN
  /\ call.pc = "readMax"
  /\ \E i \in 1..(MaxUid + 1) :
       (IsNextUid(i) \/ i = 1) /\ Goto(r, [call EXCEPT !.pc = "create", !.uid = i])
  /\ UNCHANGED <<users, deleted, sweep, uidOf, legacy, unseen>>

\* The insert fails when another handler has taken the uid.
CreateUser(r) ==
  LET call == calls[r] IN
  /\ call.pc = "create"
  /\ call.uid <= MaxUid
  /\ call.uid \notin DOMAIN users
  /\ \E u \in Uuids \ DOMAIN uidOf :
       /\ users' = [i \in DOMAIN users \cup {call.uid} |->
                      IF i = call.uid
                        THEN [uuid |-> u, email |-> call.email, name |-> call.name,
                              mark |-> "none"]
                        ELSE users[i]]
       /\ uidOf' = [v \in DOMAIN uidOf \cup {u} |-> IF v = u THEN call.uid ELSE uidOf[v]]
  /\ Return(r)
  /\ UNCHANGED <<deleted, sweep, legacy, unseen>>

----------------------------------------------------------------------------
\* POST /user/security/change-email: resolve, count, verify a factor, update
\* the row with the resolved uid (tx.Model(user).Updates).
ChangeEmailResolve(r) == \E e \in Emails : Resolve(r, "countNewEmail", e, None)

ChangeEmailCount(r) ==
  LET call == calls[r] IN
  /\ call.pc = "countNewEmail"
  /\ Check(r, call.email, EmailTakenByOther(call.email, call.uuid), [call EXCEPT !.pc = "setEmail"])

ChangeEmailUpdate(r) ==
  LET call == calls[r] IN
  /\ call.pc = "setEmail"
  /\ users' = [i \in DOMAIN users |->
                 IF i = call.uid THEN [users[i] EXCEPT !.email = call.email] ELSE users[i]]
  /\ Return(r)
  /\ UNCHANGED <<deleted, sweep, uidOf, legacy, unseen>>

\* POST /change-username: resolve; return if the name is already the user's;
\* look for another holder; update by uuid.
ChangeUsernameResolve(r) ==
  \E n \in Names :
    /\ Resolve(r, "checkName", None, n)
    /\ users[calls'[r].uid].name # n

ChangeUsernameCheck(r) ==
  LET call == calls[r] IN
  /\ call.pc = "checkName"
  /\ Check(r, call.name, NameTakenByOther(call.name, call.uuid), [call EXCEPT !.pc = "setName"])

ChangeUsernameUpdate(r) ==
  LET call == calls[r] IN
  /\ call.pc = "setName"
  /\ users' = [i \in DOMAIN users |->
                 IF i \in RenamedRows(call)
                   THEN [users[i] EXCEPT !.name = call.name] ELSE users[i]]
  /\ Return(r)
  /\ UNCHANGED <<deleted, sweep, uidOf, legacy, unseen>>

----------------------------------------------------------------------------
\* DELETE account: resolve and compare the password; then one transaction
\* deletes the user's tokens, the row with its uid, and records the uid in
\* deleted_accounts.  When the record cannot be inserted all of it is undone.
DeleteResolve(r) == Resolve(r, "delete", None, None)

DeleteTransaction(r) ==
  LET call == calls[r] IN
  /\ call.pc = "delete"
  /\ IF CanRecord(call.uid)
       THEN users' = Without(users, {call.uid}) /\ deleted' = Record(call.uid)
       ELSE UNCHANGED <<users, deleted>>
  /\ Return(r)
  /\ UNCHANGED <<sweep, uidOf, legacy, unseen>>

\* VerifyCredentials: a row with a deletion mark gets it removed, in one
\* transaction with its record in deleted_accounts.
LoginResolve(r) ==
  /\ Resolve(r, "restore", None, None)
  /\ users[calls'[r].uid].mark # "none"

LoginRestore(r) ==
  LET call == calls[r] IN
  /\ call.pc = "restore"
  /\ users' = [i \in DOMAIN users |->
                 IF i = call.uid THEN [users[i] EXCEPT !.mark = "none"] ELSE users[i]]
  /\ deleted' = deleted \ {call.uid}
  /\ Return(r)
  /\ UNCHANGED <<sweep, uidOf, legacy, unseen>>

\* A write fails, or the factor that a change of email asks for: an error is
\* answered, and nothing the handler did before is undone.
CallFails(r) ==
  /\ calls[r].pc \in {"create", "setEmail", "setName", "delete", "restore"}
  /\ Return(r)
  /\ UNCHANGED <<users, deleted, sweep, uidOf, legacy, unseen>>

----------------------------------------------------------------------------
\* CleanupDeletedAccounts: read the rows whose mark is older than three days,
\* then delete them one transaction each; an error skips to the next.
ScanMarked ==
  /\ sweep = {}
  /\ sweep' = {[uid |-> i, uuid |-> users[i].uuid] :
                 i \in {j \in DOMAIN users : users[j].mark = "due"}}
  /\ sweep' # {}
  /\ UNCHANGED <<users, deleted, calls, uidOf, overlapped, legacy, unseen>>

DeleteUserCascade(u) ==
  /\ users' = Without(users, {u.uid})
  /\ deleted' = deleted \ {u.uid}
  /\ sweep' = sweep \ {u}
  /\ UNCHANGED <<calls, uidOf, overlapped, legacy, unseen>>

DeleteCascadeFails(u) ==
  /\ sweep' = sweep \ {u}
  /\ UNCHANGED <<users, deleted, calls, uidOf, overlapped, legacy, unseen>>

\* Three days pass for an account that is marked.
CoolingEnds(i) ==
  /\ users[i].mark = "cooling"
  /\ users' = [users EXCEPT ![i].mark = "due"]
  /\ UNCHANGED <<deleted, calls, sweep, uidOf, overlapped, legacy, unseen>>

Restart ==
  /\ calls' = [r \in Calls |-> Idle]
  /\ sweep' = {}
  /\ UNCHANGED <<users, deleted, uidOf, overlapped, legacy, unseen>>

CallStep(r) ==
  \/ RegisterCountEmail(r) \/ RegisterCountName(r)
  \/ ClaimLookup(r) \/ ClaimCountEmail(r)
  \/ ReadMaxUid(r) \/ CreateUser(r)
  \/ ChangeEmailResolve(r) \/ ChangeEmailCount(r) \/ ChangeEmailUpdate(r)
  \/ ChangeUsernameResolve(r) \/ ChangeUsernameCheck(r) \/ ChangeUsernameUpdate(r)
  \/ DeleteResolve(r) \/ DeleteTransaction(r)
  \/ LoginResolve(r) \/ LoginRestore(r)
  \/ CallFails(r)

Next ==
  \/ \E r \in Calls : CallStep(r)
  \/ ScanMarked
  \/ \E u \in sweep : DeleteUserCascade(u) \/ DeleteCascadeFails(u)
  \/ \E i \in DOMAIN users : CoolingEnds(i)
  \/ Restart

Spec == Init /\ [][Next]_vars

----------------------------------------------------------------------------
\* Safety.

\* Email uniqueness across all users, as the comment of ClaimUserInternal and the
\* data model's documentation state it, for the emails of which no query has
\* failed.  It is refuted: see the next property.
EmailsUnique ==
  \A i, j \in DOMAIN users :
    users[i].email = users[j].email /\ users[i].email \notin unseen => i = j

NamesUnique ==
  \A i, j \in DOMAIN users :
    users[i].name = users[j].name /\ users[i].name \notin unseen => i = j

\* Register, ClaimUserInternal, ChangeEmail and ChangeUsername each look for an email
\* or a name with a SELECT before they write it, and take a SELECT that fails for
\* one that found nothing.  Over deleted, marked and restored accounts, failing
\* statements, cleanups and restarts, two accounts share an email or a name only
\* after two handlers have been in flight at once, or the SELECT for this very
\* value has failed.
UniqueUnlessRaced == ~overlapped => EmailsUnique /\ NamesUnique

\* No deletion marks were in the users table when the process started.
Unmarked == \A i \in DOMAIN legacy : legacy[i].mark = "none"

\* A user that DeleteAccount removed is on record, under the uid it had: the
\* transaction keeps `users` and `deleted_accounts` in step, and nothing takes
\* the record away.
DeletionsAreListed ==
  \A u \in DOMAIN uidOf : ByUuid(u) = {} => uidOf[u] \in deleted

\* Deleting an account by its uid removes nobody else's row, although the uid may
\* by then belong to another user: the record left by the first deletion makes
\* the second transaction fail.  (The cleanup of marked accounts removes such
\* records, so this is about tables without marks.)
DeletesOwnRow ==
  [][\A r \in Calls : Unmarked /\ DeleteTransaction(r) =>
       \A i \in DOMAIN users \ DOMAIN users' : users[i].uuid = calls[r].uuid]_vars

\* What DeletesOwnRow rests on: a uuid keeps its uid for life, a handler holds
\* the uid of the uuid it resolved, and deletions are on record.
Accounted ==
  /\ \A i \in DOMAIN users : users[i].uuid \in DOMAIN uidOf /\ uidOf[users[i].uuid] = i
  /\ \A i \in DOMAIN users : users[i].mark = "none"
  /\ \A r \in Calls :
       calls[r].pc \in {"delete", "countNewEmail", "setEmail", "checkName", "setName"} =>
         calls[r].uuid \in DOMAIN uidOf /\ uidOf[calls[r].uuid] = calls[r].uid
  /\ \A r \in Calls : calls[r].pc # "restore"
  /\ sweep = {}
  /\ DeletionsAreListed

IdentityInv == Unmarked => Accounted

\* What uniqueness rests on while handlers run one at a time: what a handler has
\* checked is still so when it writes, since nothing but another handler could
\* make it false.
StillSo(call) ==
  /\ call.pc \in {"countName", "readMax", "create"} =>
       call.email \in unseen \/ ~EmailTaken(call.email)
  /\ call.pc \in {"countEmail", "readMax", "create"} =>
       call.name \in unseen \/ ~NameTaken(call.name)
  /\ call.pc \in {"countNewEmail", "setEmail"} /\ call.uid \in DOMAIN users =>
       users[call.uid].uuid = call.uuid
  /\ call.pc = "setEmail" => call.email \in unseen \/ ~EmailTakenByOther(call.email, call.uuid)
  /\ call.pc = "setName" => call.name \in unseen \/ ~NameTakenByOther(call.name, call.uuid)

Alone == \A q, r \in Calls : Busy(calls[q]) /\ Busy(calls[r]) => q = r

Undisturbed ==
  /\ Alone
  /\ \A i \in DOMAIN users : users[i].uuid \in DOMAIN uidOf /\ uidOf[users[i].uuid] = i
  /\ \A r \in Calls : StillSo(calls[r])
  /\ EmailsUnique
  /\ NamesUnique

SequentialInv == ~overlapped => Undisturbed
=============================================================================
