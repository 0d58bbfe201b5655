------------------------------- MODULE Login -------------------------------
(***************************************************************************)
(* Password login with second factors: login tickets, WebAuthn flows and   *)
(* credentials, and the requests that set up, use and remove the factors.  *)
(*                                                                         *)
(* Tickets and flows are Redis keys with a TTL; factor settings and        *)
(* credentials are MySQL rows; the email code is a file.  No handler holds *)
(* a lock over two of them, so a handler takes a step per write and reads  *)
(* what it bases the next write on in the step before.  Its locals are in  *)
(* `calls`.  Whether the caller knows the password, the passcode, the key  *)
(* or has the authenticator is the environment's choice: a request that    *)
(* presents the wrong one changes nothing, and is left out.  A request     *)
(* that manages the recovery key presents one factor.                      *)
(***************************************************************************)
EXTENDS Naturals

CONSTANTS
  Users, Tickets, Flows,
  Creds,      \* WebAuthn credentials, by authenticator
  Verified,   \* the users whose email is verified
  Calls,      \* concurrent HTTP handlers
  MaxPairs,   \* bound: pairs counted for one ticket
  None

ASSUME LoginConstants ==
  /\ Verified \subseteq Users
  /\ MaxPairs \in Nat
  /\ None \notin Users \cup Tickets \cup Flows \cup Creds

VARIABLES
  settings,   \* users table: which factors are switched on
  creds,      \* webauthn_credentials: credential -> user
  codes,      \* code store: users for whose email there is a code
  tickets,    \* login tickets in Redis: ticket -> user
  flows,      \* WebAuthn flows in Redis
  calls,      \* locals of the handlers in flight
  issuedTo,   \* history: the user each ticket was made for
  pairs,      \* history: token pairs handed out for each ticket
  overlapped  \* history: two handlers have been in flight at the same time

vars == <<settings, creds, codes, tickets, flows, calls, issuedTo, pairs, overlapped>>

Settings == [totp : BOOLEAN,      \* users.totp is not empty
             twoFA : BOOLEAN,     \* users.2FA
             webauthn : BOOLEAN,  \* users.webauthn_2fa_enabled
             email : BOOLEAN,     \* users.email_2fa_enabled
             recovery : BOOLEAN]  \* users.recovery_key(_enabled)
Factors  == {"totp", "webauthn", "email", "recovery_key"}

LoginFlows == {"login", "discoverable_login", "second_factor", "sudo"}
Flow == [type : {"register"} \cup LoginFlows, user : Users \cup {None},
         ticket : Tickets \cup {None}]

Idle == [pc |-> "idle", goal |-> None, user |-> None, ticket |-> None, flow |-> None,
         cred |-> None, seen |-> {}]

CallState ==
  [pc : {"idle", "count", "setTicket", "useCode", "touch", "insert", "dropFlow",
         "delTicket", "issue", "setRecovery", "enable", "commit"},
   goal : {"ticket", "password", "passkey", "regenerate", "revoke", "register",
           "last", "more", None},
   user : Users \cup {None}, ticket : Tickets \cup {None}, flow : Flows \cup {None},
   cred : Creds \cup {None}, seen : SUBSET Factors]

IsTable(t, K, R) == DOMAIN t \subseteq K /\ t \in [DOMAIN t -> R]

TypeOK ==
  /\ settings \in [Users -> Settings]
  /\ IsTable(creds, Creds, Users)
  /\ codes \subseteq Users
  /\ IsTable(tickets, Tickets, Users)
  /\ IsTable(flows, Flows, Flow)
  /\ calls \in [Calls -> CallState]
  /\ IsTable(issuedTo, Tickets, Users)
  /\ pairs \in [Tickets -> 0..MaxPairs]
  /\ overlapped \in BOOLEAN

Init ==
  /\ settings = [u \in Users |-> [totp |-> FALSE, twoFA |-> FALSE, webauthn |-> FALSE,
                                  email |-> FALSE, recovery |-> FALSE]]
  /\ creds = <<>> /\ codes = {} /\ tickets = <<>> /\ flows = <<>>
  /\ calls = [r \in Calls |-> Idle]
  /\ issuedTo = <<>> /\ pairs = [t \in Tickets |-> 0] /\ overlapped = FALSE

----------------------------------------------------------------------------
\* Tables, and the answers the handlers read from them.  M_x is x with a
\* plausible mistake; it is used only to show that the properties notice it.

With(t, k, v) == [x \in DOMAIN t \cup {k} |-> IF x = k THEN v ELSE t[x]]
Without(t, k) == [x \in DOMAIN t \ {k} |-> t[x]]

CredsOf(u) == {c \in DOMAIN creds : creds[c] = u}

\* The factors LoginTicket finds switched on in the row; it counts the
\* credentials afterwards.
SwitchedOn(u) ==
  LET s == settings[u] IN
  {f \in Factors : \/ f = "totp" /\ s.twoFA /\ s.totp
                   \/ f = "webauthn" /\ s.webauthn
                   \/ f = "email" /\ s.email
                   \/ f = "recovery_key" /\ s.recovery}

\* A recovery key alone does not make login ask for a factor.
M_AsksFor(available) == available \cap {"totp", "webauthn"}
AsksFor(available)   == available \ {"recovery_key"}

\* A ticket endpoint accepts its factor: the TOTP endpoint looks at the secret
\* only and the email endpoint at the stored code only.
AcceptsTOTP(u)     == settings[u].totp
AcceptsCode(u)     == u \in codes
AcceptsRecovery(u) == settings[u].recovery

\* Redis DEL of a ticket, and of a flow once it is finished.
M_TicketsAfterUse(t) == tickets
TicketsAfterUse(t)   == Without(tickets, t)

\* The switch as DeleteCredential leaves it when its count finds no more.
M_SwitchAfterDelete(last, on) == on
SwitchAfterDelete(last, on)   == on /\ ~last

\* The credentials FinishLogin takes for a flow: those of the flow's user; for
\* a discoverable login the credential names the user.
FlowAccepts(f, c) == IF flows[f].type = "discoverable_login" THEN TRUE
                     ELSE creds[c] = flows[f].user

\* A second-factor flow is good for as long as its ticket is.
M_FlowOpen(f) == TRUE
FlowOpen(f)   == flows[f].type = "second_factor" => flows[f].ticket \in DOMAIN tickets

\* A handler starts: whether another is in flight is remembered.
Begin(r, state) ==
  /\ calls[r].pc = "idle"
  /\ calls' = [calls EXCEPT ![r] = state]
  /\ overlapped' = (overlapped \/ \E q \in Calls : calls[q].pc # "idle")

Goto(r, state) == calls' = [calls EXCEPT ![r] = state] /\ UNCHANGED overlapped
Return(r)      == Goto(r, Idle)

\* A request that is one update: with nothing read before, nothing to be stale.
Request(r) == Begin(r, Idle)

history == <<issuedTo, pairs>>
redis   == <<tickets, flows>>
factors == <<settings, creds, codes>>

----------------------------------------------------------------------------
\* POST /oauth/login-ticket: read the row, count the credentials, let the hooks
\* demand one of the available factors, then issue tokens or store a ticket.
LoginTicket(r) ==
  /\ \E u \in Users : Begin(r, [Idle EXCEPT !.pc = "count", !.user = u, !.seen = SwitchedOn(u)])
  /\ UNCHANGED <<factors, redis, history>>

\* Without a demand from the hooks; with one, a ticket is stored whatever it is.
LoginDecide(r) ==
  LET call      == calls[r]
      available == IF CredsOf(call.user) = {} THEN call.seen \ {"webauthn"} ELSE call.seen
  IN
  /\ call.pc = "count"
  /\ \/ AsksFor(available) = {} /\ Goto(r, [Idle EXCEPT !.pc = "issue", !.goal = "password",
                                                        !.user = call.user])
     \/ available # {} /\ Goto(r, [Idle EXCEPT !.pc = "setTicket", !.user = call.user])
  /\ UNCHANGED <<factors, redis, history>>

StoreTicket(r) ==
  LET call == calls[r] IN
  /\ call.pc = "setTicket"
  /\ \E t \in Tickets \ DOMAIN issuedTo :
       /\ tickets' = With(tickets, t, call.user)
       /\ issuedTo' = With(issuedTo, t, call.user)
  /\ Return(r)
  /\ UNCHANGED <<factors, flows, pairs>>

----------------------------------------------------------------------------
\* The endpoints that take a ticket and a factor: GET the ticket, load the row,
\* check the factor; DEL the ticket, whether or not it is still there; issue.
ReadTicket(r, t, pc) ==
  /\ Begin(r, [Idle EXCEPT !.pc = pc, !.goal = "ticket", !.ticket = t, !.user = tickets[t]])
  /\ UNCHANGED <<factors, redis, history>>

VerifyTOTP(r) ==
  \E t \in DOMAIN tickets : AcceptsTOTP(tickets[t]) /\ ReadTicket(r, t, "delTicket")

VerifyRecoveryKey(r) ==
  \E t \in DOMAIN tickets : AcceptsRecovery(tickets[t]) /\ ReadTicket(r, t, "delTicket")

VerifyCode(r) ==
  \E t \in DOMAIN tickets : AcceptsCode(tickets[t]) /\ ReadTicket(r, t, "useCode")

\* codeStore.Delete; the recovery key endpoints go on to their update.
UseCode(r) ==
  LET call == calls[r] IN
  /\ call.pc = "useCode"
  /\ codes' = codes \ {call.user}
  /\ Goto(r, [call EXCEPT !.pc = IF call.goal = "ticket" THEN "delTicket" ELSE "setRecovery"])
  /\ UNCHANGED <<settings, creds, redis, history>>

DeleteTicket(r) ==
  LET call == calls[r] IN
  /\ call.pc = "delTicket"
  /\ tickets' = TicketsAfterUse(call.ticket)
  /\ Goto(r, [call EXCEPT !.pc = "issue"])
  /\ UNCHANGED <<factors, flows, history>>

IssueTokens(r) ==
  LET call == calls[r] IN
  /\ call.pc = "issue"
  /\ pairs' = IF call.ticket = None THEN pairs
              ELSE [pairs EXCEPT ![call.ticket] = IF @ < MaxPairs THEN @ + 1 ELSE @]
  /\ Return(r)
  /\ UNCHANGED <<factors, redis, issuedTo>>

\* The email endpoint refuses while a code is stored; a mail that cannot be sent
\* takes the code with it, and then nothing has changed.
SendCode(r) ==
  /\ \E t \in DOMAIN tickets :
       /\ settings[tickets[t]].email
       /\ tickets[t] \notin codes
       /\ codes' = codes \cup {tickets[t]}
  /\ Request(r)
  /\ UNCHANGED <<settings, creds, redis, history>>

\* The codes that verify an email, change it or reset a password lie in the same
\* file, so the email endpoint takes them too.
SendOtherCode(r) ==
  /\ \E u \in Users : codes' = codes \cup {u}
  /\ Request(r)
  /\ UNCHANGED <<settings, creds, redis, history>>

----------------------------------------------------------------------------
\* Factor settings.
Set(r, u, new) ==
  /\ settings' = [settings EXCEPT ![u] = new]
  /\ Request(r)
  /\ UNCHANGED <<creds, codes, redis, history>>

SetupTOTP(r) == \E u \in Users : Set(r, u, [settings[u] EXCEPT !.totp = TRUE, !.twoFA = TRUE])

ToggleTOTP(r) ==
  \E u \in Users, on \in BOOLEAN :
    (on => settings[u].totp) /\ Set(r, u, [settings[u] EXCEPT !.twoFA = on])

ToggleEmail(r) ==
  \E u \in Users, on \in BOOLEAN :
    (on => u \in Verified) /\ Set(r, u, [settings[u] EXCEPT !.email = on])

CreateRecoveryKey(r) ==
  \E u \in Users : ~settings[u].recovery /\ Set(r, u, [settings[u] EXCEPT !.recovery = TRUE])

\* Regenerate and revoke ask for any one factor first (verifyAnyFactor); the
\* WebAuthn factor is a login flow, finished as below.
ManageRecoveryKey(r) ==
  /\ \E u \in Users, goal \in {"regenerate", "revoke"} :
       LET start == [Idle EXCEPT !.goal = goal, !.user = u] IN
       \/ /\ {"totp", "recovery_key"} \cap SwitchedOn(u) # {}
          /\ Begin(r, [start EXCEPT !.pc = "setRecovery"])
       \/ /\ "email" \in SwitchedOn(u) /\ AcceptsCode(u)
          /\ Begin(r, [start EXCEPT !.pc = "useCode"])
  /\ UNCHANGED <<factors, redis, history>>

SetRecoveryKey(r) ==
  LET call == calls[r] IN
  /\ call.pc = "setRecovery"
  /\ settings' = [settings EXCEPT ![call.user].recovery = (call.goal = "regenerate")]
  /\ Return(r)
  /\ UNCHANGED <<creds, codes, redis, history>>

\* SetTwoFactorEnabled: switching on counts the credentials, then updates.
DisableWebAuthn(r) == \E u \in Users : Set(r, u, [settings[u] EXCEPT !.webauthn = FALSE])

EnableWebAuthn(r) ==
  /\ \E u \in Users : /\ CredsOf(u) # {}
                      /\ Begin(r, [Idle EXCEPT !.pc = "enable", !.user = u])
  /\ UNCHANGED <<factors, redis, history>>

SwitchWebAuthnOn(r) ==
  LET call == calls[r] IN
  /\ call.pc = "enable"
  /\ settings' = [settings EXCEPT ![call.user].webauthn = TRUE]
  /\ Return(r)
  /\ UNCHANGED <<creds, codes, redis, history>>

\* DeleteCredential, one transaction: delete, count the rest (InnoDB's snapshot:
\* what others have deleted and not committed is still counted), and switch
\* WebAuthn off when there is none.  Nobody else can delete the same row
\* meanwhile.
DeleteCredential(r) ==
  /\ \E c \in DOMAIN creds :
       /\ \A q \in Calls : calls[q].pc = "commit" => calls[q].cred # c
       /\ Begin(r, [Idle EXCEPT !.pc = "commit", !.user = creds[c], !.cred = c,
                      !.goal = IF CredsOf(creds[c]) = {c} THEN "last" ELSE "more"])
  /\ UNCHANGED <<factors, redis, history>>

CommitDelete(r) ==
  LET call == calls[r] IN
  /\ call.pc = "commit"
  /\ creds' = Without(creds, call.cred)
  /\ settings' = [settings EXCEPT ![call.user].webauthn =
                    SwitchAfterDelete(call.goal = "last", @)]
  /\ Return(r)
  /\ UNCHANGED <<codes, redis, history>>

----------------------------------------------------------------------------
\* WebAuthn flows.  Beginning one only reads, and then stores the flow under a
\* random name: not one that a handler still holds.
NewFlow(r, flow) ==
  /\ \E f \in Flows \ (DOMAIN flows \cup {calls[q].flow : q \in Calls}) :
       flows' = With(flows, f, flow)
  /\ Request(r)
  /\ UNCHANGED <<factors, tickets, history>>

BeginRegistration(r) ==
  \E u \in Users : NewFlow(r, [type |-> "register", user |-> u, ticket |-> None])

BeginLogin(r) ==
  \/ \E u \in Users, type \in {"login", "sudo"} :
       CredsOf(u) # {} /\ NewFlow(r, [type |-> type, user |-> u, ticket |-> None])
  \/ NewFlow(r, [type |-> "discoverable_login", user |-> None, ticket |-> None])

BeginSecondFactor(r) ==
  \E t \in DOMAIN tickets :
    /\ settings[tickets[t]].webauthn
    /\ CredsOf(tickets[t]) # {}
    /\ NewFlow(r, [type |-> "second_factor", user |-> tickets[t], ticket |-> t])

\* FinishRegistration: load and verify, insert (the credential id is unique),
\* delete the flow.
FinishRegistration(r) ==
  /\ \E f \in DOMAIN flows, c \in Creds :
       /\ flows[f].type = "register"
       /\ Begin(r, [Idle EXCEPT !.pc = "insert", !.goal = "register", !.flow = f,
                                !.user = flows[f].user, !.cred = c])
  /\ UNCHANGED <<factors, redis, history>>

InsertCredential(r) ==
  LET call == calls[r] IN
  /\ call.pc = "insert"
  /\ call.cred \notin DOMAIN creds
  /\ creds' = With(creds, call.cred, call.user)
  /\ Goto(r, [call EXCEPT !.pc = "dropFlow"])
  /\ UNCHANGED <<settings, codes, redis, history>>

\* FinishLogin takes a flow of any login type; FinishSecondFactor one of its own
\* type, and remembers the ticket.  Of a request to manage the recovery key only
\* the outcome is used.
FinishFlow(r) ==
  /\ \E f \in DOMAIN flows, c \in DOMAIN creds :
       /\ flows[f].type \in LoginFlows
       /\ FlowOpen(f)
       /\ FlowAccepts(f, c)
       /\ LET call == [Idle EXCEPT !.pc = "touch", !.flow = f, !.cred = c] IN
          \/ Begin(r, [call EXCEPT !.goal = "passkey", !.user = creds[c]])
          \/ /\ flows[f].type = "second_factor"
             /\ Begin(r, [call EXCEPT !.goal = "ticket", !.user = creds[c],
                                      !.ticket = flows[f].ticket])
          \/ \E u \in Users, goal \in {"regenerate", "revoke"} :
               Begin(r, [call EXCEPT !.goal = goal, !.user = u])
  /\ UNCHANGED <<factors, redis, history>>

\* updateCredential: no row, no login.
TouchCredential(r) ==
  LET call == calls[r] IN
  /\ call.pc = "touch"
  /\ call.cred \in DOMAIN creds
  /\ Goto(r, [call EXCEPT !.pc = "dropFlow"])
  /\ UNCHANGED <<factors, redis, history>>

\* deleteFlow: its error is ignored, and the flow is then left to its TTL.
DropFlow(r) ==
  LET call == calls[r] IN
  /\ call.pc = "dropFlow"
  /\ flows' \in {flows, Without(flows, call.flow)}
  /\ Goto(r, CASE call.goal = "register" -> Idle
               [] call.goal = "passkey"  -> [call EXCEPT !.pc = "issue", !.flow = None, !.cred = None]
               [] call.goal = "ticket"   -> [call EXCEPT !.pc = "delTicket", !.flow = None, !.cred = None]
               [] OTHER                  -> [call EXCEPT !.pc = "setRecovery", !.flow = None, !.cred = None])
  /\ UNCHANGED <<factors, tickets, history>>

----------------------------------------------------------------------------
\* A statement fails, or a check after the first: nothing done before is undone.
CallFails(r) ==
  /\ calls[r].pc # "idle"
  /\ Return(r)
  /\ UNCHANGED <<factors, redis, history>>

TicketExpires(t) ==
  tickets' = Without(tickets, t) /\ UNCHANGED <<factors, flows, calls, history, overlapped>>

FlowExpires(f) ==
  flows' = Without(flows, f) /\ UNCHANGED <<factors, tickets, calls, history, overlapped>>

CodeExpires(u) ==
  codes' = codes \ {u} /\ UNCHANGED <<settings, creds, redis, calls, history, overlapped>>

LoginStep(r) ==
  \/ LoginTicket(r) \/ LoginDecide(r) \/ StoreTicket(r)
  \/ VerifyTOTP(r) \/ VerifyRecoveryKey(r) \/ VerifyCode(r)
  \/ SendCode(r) \/ SendOtherCode(r) \/ UseCode(r) \/ DeleteTicket(r) \/ IssueTokens(r)
  \/ CallFails(r)

SettingStep(r) ==
  \/ SetupTOTP(r) \/ ToggleTOTP(r) \/ ToggleEmail(r)
  \/ CreateRecoveryKey(r) \/ ManageRecoveryKey(r) \/ SetRecoveryKey(r)
  \/ DisableWebAuthn(r) \/ EnableWebAuthn(r) \/ SwitchWebAuthnOn(r)
  \/ DeleteCredential(r) \/ CommitDelete(r)

FlowStep(r) ==
  \/ BeginRegistration(r) \/ BeginLogin(r) \/ BeginSecondFactor(r)
  \/ FinishRegistration(r) \/ InsertCredential(r)
  \/ FinishFlow(r) \/ TouchCredential(r) \/ DropFlow(r)

Expire ==
  \/ \E t \in DOMAIN tickets : TicketExpires(t)
  \/ \E f \in DOMAIN flows : FlowExpires(f)
  \/ \E u \in codes : CodeExpires(u)

Next ==
  \/ \E r \in Calls : LoginStep(r) \/ SettingStep(r) \/ FlowStep(r)
  \/ Expire

Spec == Init /\ [][Next]_vars

----------------------------------------------------------------------------
\* Safety.

\* Tokens for a ticket are issued only when the ticket is gone: whatever fails or
\* expires afterwards, it cannot be presented again (VerifyTOTP, VerifyCode,
\* VerifyRecoveryKey and FinishSecondFactor all DEL before they issue).
TicketGoneBeforeTokens ==
  \A r \in Calls : calls[r].pc = "issue" => calls[r].ticket \notin DOMAIN tickets

\* With one request at a time, the endpoints that take a ticket hand out one
\* pair for it at most.  (GET and DEL are two commands, so that two requests at
\* the same time may both get tokens.)
OnePairPerTicket ==
  ~overlapped => \A t \in Tickets : pairs[t] <= 1

\* With one request at a time, a user whose WebAuthn switch is on has a
\* credential: SetTwoFactorEnabled and DeleteCredential keep the two tables in
\* step.  (They count before they write, and the count may be out of date.)
SwitchHasCredential ==
  ~overlapped => \A u \in Users : settings[u].webauthn => CredsOf(u) # {}

\* With one request at a time, LoginTicket gives tokens for a password alone only
\* to a user with no factor but perhaps a recovery key.
PasswordAloneOnlyWithoutFactors ==
  ~overlapped =>
    \A r \in Calls : calls[r].pc = "issue" /\ calls[r].goal = "password" =>
      SwitchedOn(calls[r].user) \subseteq {"recovery_key"}
=============================================================================
