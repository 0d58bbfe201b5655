---------------------------- MODULE Login_proofs ----------------------------
(***************************************************************************)
(* Theorems about Login, for any users, tickets, flows, credentials and    *)
(* handlers.                                                               *)
(***************************************************************************)
EXTENDS Login, Sequences, TLAPS

\* The tables have their types, and each ticket that Redis or a flow has was made
\* by LoginTicket.
Tables ==
  /\ settings \in [Users -> Settings]
  /\ IsTable(creds, Creds, Users)
  /\ codes \subseteq Users
  /\ IsTable(tickets, Tickets, Users)
  /\ IsTable(flows, Flows, Flow)
  /\ IsTable(issuedTo, Tickets, Users)
  /\ pairs \in [Tickets -> 0..MaxPairs]
  /\ DOMAIN tickets \subseteq DOMAIN issuedTo
  /\ \A f \in DOMAIN flows :
       /\ flows[f].ticket \in DOMAIN issuedTo \cup {None}
       /\ flows[f].type = "register" => flows[f].user \in Users

\* What a handler in flight carries; at "issue" its ticket is not in Redis.
GoodCall(call) ==
  /\ call.pc \in {"count", "setTicket", "insert"} => call.user \in Users
  /\ call.pc = "insert" => call.cred \in Creds
  /\ call.ticket \in DOMAIN issuedTo \cup {None}
  /\ call.goal = "passkey" => call.ticket = None
  /\ call.pc = "issue" => call.ticket \notin DOMAIN tickets

LoginInv ==
  /\ Tables
  /\ calls \in [Calls -> CallState] /\ overlapped \in BOOLEAN
  /\ \A r \in Calls : GoodCall(calls[r])

----------------------------------------------------------------------------
\* Tables and moves.

LEMMA WithTable ==
  ASSUME NEW K, NEW R, NEW t, IsTable(t, K, R), NEW k \in K, NEW v \in R
  PROVE  /\ IsTable(With(t, k, v), K, R) /\ DOMAIN With(t, k, v) = DOMAIN t \cup {k}
         /\ With(t, k, v)[k] = v
         /\ \A x \in DOMAIN t : x # k => With(t, k, v)[x] = t[x]
BY DEF IsTable, With

LEMMA WithoutTable ==
  ASSUME NEW K, NEW R, NEW t, IsTable(t, K, R), NEW k
  PROVE  /\ IsTable(Without(t, k), K, R) /\ DOMAIN Without(t, k) = DOMAIN t \ {k}
         /\ \A x \in DOMAIN t \ {k} : Without(t, k)[x] = t[x]
BY DEF IsTable, Without

LEMMA NoneApart == None \notin Users /\ None \notin Tickets /\ None \notin Flows /\ None \notin Creds
BY LoginConstants

LEMMA IdleState ==
  /\ Idle \in CallState /\ Idle.pc = "idle" /\ Idle.goal = None /\ Idle.ticket = None
BY DEF Idle, CallState

LEMMA IdleGood == GoodCall(Idle)
BY IdleState DEF GoodCall, Idle

LEMMA OtherCalls ==
  ASSUME LoginInv, NEW r \in Calls, NEW state, calls' = [calls EXCEPT ![r] = state]
  PROVE  calls'[r] = state /\ \A q \in Calls : q # r => calls'[q] = calls[q]
BY DEF LoginInv

\* What is to be shown of a step of one handler.  A ticket that is new in Redis is
\* new to everybody.
LEMMA StepKeeps ==
  ASSUME LoginInv, NEW r \in Calls, NEW state \in CallState,
         calls' = [calls EXCEPT ![r] = state], overlapped' \in BOOLEAN,
         Tables', GoodCall(state)',
         DOMAIN issuedTo \subseteq DOMAIN issuedTo',
         \A t \in DOMAIN tickets' : t \in DOMAIN tickets \/ t \notin DOMAIN issuedTo
  PROVE  LoginInv'
<1>1. calls' \in [Calls -> CallState]
  BY DEF LoginInv
<1>2. calls'[r] = state /\ \A q \in Calls : q # r => calls'[q] = calls[q]
  BY OtherCalls
<1>3. ASSUME NEW q \in Calls PROVE GoodCall(calls[q])'
  <2>1. CASE q = r
    BY <1>2, <2>1 DEF GoodCall
  <2>2. CASE q # r
    <3>1. GoodCall(calls[q]) /\ calls'[q] = calls[q]
      BY <1>2, <2>2 DEF LoginInv
    <3>2. None \notin DOMAIN tickets'
      BY NoneApart DEF Tables, IsTable
    <3> QED BY <3>1, <3>2 DEF GoodCall
  <2> QED BY <2>1, <2>2
<1> QED BY <1>1, <1>3 DEF LoginInv

\* A handler begins, goes on or ends without a change of the tables.
LEMMA QuietStep ==
  ASSUME LoginInv, NEW r \in Calls, NEW state \in CallState,
         Begin(r, state) \/ Goto(r, state),
         UNCHANGED <<factors, redis, history>>, GoodCall(state)
  PROVE  LoginInv'
<1>1. calls' = [calls EXCEPT ![r] = state] /\ overlapped' \in BOOLEAN
  BY DEF Begin, Goto, LoginInv
<1>2. UNCHANGED <<settings, creds, codes, tickets, flows, issuedTo, pairs>>
  BY DEF factors, redis, history
<1>3. Tables'
  BY <1>2 DEF LoginInv, Tables
<1>4. GoodCall(state)'
  BY <1>2 DEF GoodCall
<1> QED BY <1>1, <1>2, <1>3, <1>4, StepKeeps

\* A handler ends, or a request is one update; tickets are not touched.
LEMMA EndStep ==
  ASSUME LoginInv, NEW r \in Calls, Begin(r, Idle) \/ Goto(r, Idle), Tables',
         UNCHANGED <<tickets, issuedTo>>
  PROVE  LoginInv'
<1>1. calls' = [calls EXCEPT ![r] = Idle] /\ overlapped' \in BOOLEAN
  BY DEF Begin, Goto, LoginInv
<1>2. GoodCall(Idle)'
  BY IdleState DEF GoodCall, Idle
<1> QED BY <1>1, <1>2, IdleState, StepKeeps

----------------------------------------------------------------------------
\* Login tickets.

LEMMA TicketUser ==
  ASSUME Tables, NEW t \in DOMAIN tickets
  PROVE  t \in Tickets /\ tickets[t] \in Users /\ t \in DOMAIN issuedTo
BY DEF Tables, IsTable

LEMMA LoginTicketKeeps ==
  ASSUME LoginInv, NEW r \in Calls, LoginTicket(r)
  PROVE  LoginInv'
<1>1. PICK u \in Users :
        Begin(r, [Idle EXCEPT !.pc = "count", !.user = u, !.seen = SwitchedOn(u)])
  BY DEF LoginTicket
<1>2. PICK state :
        /\ state = [Idle EXCEPT !.pc = "count", !.user = u, !.seen = SwitchedOn(u)]
        /\ Begin(r, state)
  BY <1>1
<1>3. SwitchedOn(u) \in SUBSET Factors
  BY DEF SwitchedOn
<1>4. state \in CallState
  BY <1>2, <1>3 DEF Idle, CallState
<1>5. GoodCall(state)
  BY <1>2, NoneApart DEF Idle, GoodCall
<1> QED BY <1>2, <1>4, <1>5, QuietStep DEF LoginTicket

LEMMA LoginDecideKeeps ==
  ASSUME LoginInv, NEW r \in Calls, LoginDecide(r)
  PROVE  LoginInv'
<1>1. calls[r].user \in Users
  BY DEF LoginDecide, LoginInv, GoodCall
<1>2. PICK state :
        /\ \/ state = [Idle EXCEPT !.pc = "issue", !.goal = "password", !.user = calls[r].user]
           \/ state = [Idle EXCEPT !.pc = "setTicket", !.user = calls[r].user]
        /\ Goto(r, state)
  BY DEF LoginDecide
<1>3. state \in CallState
  BY <1>1, <1>2 DEF Idle, CallState
<1>4. None \notin DOMAIN tickets
  BY NoneApart DEF LoginInv, Tables, IsTable
<1>5. GoodCall(state)
  BY <1>1, <1>2, <1>4 DEF Idle, GoodCall
<1> QED BY <1>2, <1>3, <1>5, QuietStep DEF LoginDecide

LEMMA StoreTicketKeeps ==
  ASSUME LoginInv, NEW r \in Calls, StoreTicket(r)
  PROVE  LoginInv'
<1>1. calls[r].user \in Users
  BY DEF StoreTicket, LoginInv, GoodCall
<1>2. PICK t \in Tickets \ DOMAIN issuedTo :
        /\ tickets' = With(tickets, t, calls[r].user)
        /\ issuedTo' = With(issuedTo, t, calls[r].user)
  BY DEF StoreTicket
<1>3. /\ IsTable(tickets', Tickets, Users) /\ DOMAIN tickets' = DOMAIN tickets \cup {t}
      /\ IsTable(issuedTo', Tickets, Users) /\ DOMAIN issuedTo' = DOMAIN issuedTo \cup {t}
  <2>1. IsTable(tickets, Tickets, Users) /\ IsTable(issuedTo, Tickets, Users) /\ t \in Tickets
    BY DEF LoginInv, Tables
  <2>2. /\ IsTable(With(tickets, t, calls[r].user), Tickets, Users)
        /\ DOMAIN With(tickets, t, calls[r].user) = DOMAIN tickets \cup {t}
    BY <1>1, <2>1 DEF With, IsTable
  <2>3. /\ IsTable(With(issuedTo, t, calls[r].user), Tickets, Users)
        /\ DOMAIN With(issuedTo, t, calls[r].user) = DOMAIN issuedTo \cup {t}
    BY <1>1, <2>1 DEF With, IsTable
  <2> QED BY <1>2, <2>2, <2>3
<1>4. UNCHANGED <<settings, creds, codes, flows, pairs>>
  BY DEF StoreTicket, factors
<1>5. Tables'
  BY <1>3, <1>4 DEF LoginInv, Tables
<1>6. calls' = [calls EXCEPT ![r] = Idle] /\ overlapped' \in BOOLEAN
  BY DEF StoreTicket, Return, Goto, LoginInv
<1>7. GoodCall(Idle)'
  BY IdleState DEF GoodCall, Idle
<1> QED BY <1>3, <1>5, <1>6, <1>7, IdleState, StepKeeps

LEMMA ReadTicketKeeps ==
  ASSUME LoginInv, NEW r \in Calls, NEW t \in DOMAIN tickets,
         NEW pc \in {"delTicket", "useCode"}, ReadTicket(r, t, pc)
  PROVE  LoginInv'
<1>1. t \in Tickets /\ tickets[t] \in Users /\ t \in DOMAIN issuedTo
  BY TicketUser DEF LoginInv
<1>2. PICK state :
        /\ state = [Idle EXCEPT !.pc = pc, !.goal = "ticket", !.ticket = t, !.user = tickets[t]]
        /\ Begin(r, state)
  BY DEF ReadTicket
<1>3. state \in CallState
  BY <1>1, <1>2 DEF Idle, CallState
<1>4. GoodCall(state)
  BY <1>1, <1>2 DEF Idle, GoodCall
<1> QED BY <1>2, <1>3, <1>4, QuietStep DEF ReadTicket

LEMMA UseCodeKeeps ==
  ASSUME LoginInv, NEW r \in Calls, UseCode(r)
  PROVE  LoginInv'
<1>1. PICK state :
        /\ state = [calls[r] EXCEPT !.pc = IF calls[r].goal = "ticket" THEN "delTicket"
                                           ELSE "setRecovery"]
        /\ Goto(r, state)
  BY DEF UseCode
<1>2. calls[r] \in CallState /\ GoodCall(calls[r])
  BY DEF LoginInv
<1>3. /\ state \in CallState /\ state.pc \in {"delTicket", "setRecovery"}
      /\ state.goal = calls[r].goal /\ state.ticket = calls[r].ticket
  BY <1>1, <1>2 DEF CallState
<1>4. calls' = [calls EXCEPT ![r] = state] /\ overlapped' \in BOOLEAN
  BY <1>1 DEF Goto, LoginInv
<1>5. UNCHANGED <<settings, creds, tickets, flows, issuedTo, pairs>> /\ codes' \subseteq codes
  BY DEF UseCode, redis, history
<1>6. Tables'
  BY <1>5 DEF LoginInv, Tables
<1>7. GoodCall(state)'
  BY <1>2, <1>3, <1>5 DEF GoodCall
<1> QED BY <1>3, <1>4, <1>5, <1>6, <1>7, StepKeeps

LEMMA DeleteTicketKeeps ==
  ASSUME LoginInv, NEW r \in Calls, DeleteTicket(r)
  PROVE  LoginInv'
<1>1. PICK state : state = [calls[r] EXCEPT !.pc = "issue"] /\ Goto(r, state)
  BY DEF DeleteTicket
<1>2. calls[r] \in CallState /\ GoodCall(calls[r])
  BY DEF LoginInv
<1>3. /\ state \in CallState /\ state.pc = "issue"
      /\ state.goal = calls[r].goal /\ state.ticket = calls[r].ticket
  BY <1>1, <1>2 DEF CallState
<1>4. calls' = [calls EXCEPT ![r] = state] /\ overlapped' \in BOOLEAN
  BY <1>1 DEF Goto, LoginInv
<1>5. /\ IsTable(tickets', Tickets, Users)
      /\ DOMAIN tickets' = DOMAIN tickets \ {calls[r].ticket}
  <2>1. tickets' = Without(tickets, calls[r].ticket)
    BY DEF DeleteTicket, TicketsAfterUse
  <2>2. IsTable(tickets, Tickets, Users)
    BY DEF LoginInv, Tables
  <2> QED BY <2>1, <2>2 DEF Without, IsTable
<1>6. UNCHANGED <<settings, creds, codes, flows, issuedTo, pairs>>
  BY DEF DeleteTicket, factors, history
<1>7. Tables'
  BY <1>5, <1>6 DEF LoginInv, Tables
<1>8. GoodCall(state)'
  BY <1>2, <1>3, <1>5, <1>6 DEF GoodCall
<1> QED BY <1>3, <1>4, <1>5, <1>6, <1>7, <1>8, StepKeeps

\* Counting a pair.
LEMMA PairsCounted ==
  ASSUME LoginInv, NEW r \in Calls, IssueTokens(r)
  PROVE  /\ pairs' \in [Tickets -> 0..MaxPairs]
         /\ \A t \in Tickets : t # calls[r].ticket => pairs'[t] = pairs[t]
         /\ \A t \in Tickets : pairs[t] = 0 => pairs'[t] <= 1
         /\ calls[r].ticket = None => pairs' = pairs
         /\ calls[r].ticket # None => calls[r].ticket \in DOMAIN issuedTo
<1>1. pairs \in [Tickets -> 0..MaxPairs] /\ MaxPairs \in Nat
  BY LoginConstants DEF LoginInv, Tables
<1>2. calls[r].ticket # None => calls[r].ticket \in DOMAIN issuedTo /\ calls[r].ticket \in Tickets
  BY DEF LoginInv, GoodCall, Tables, IsTable
<1>3. CASE calls[r].ticket = None
  BY <1>1, <1>3, NoneApart DEF IssueTokens
<1>4. CASE calls[r].ticket # None
  <2>1. PICK t \in Tickets : t = calls[r].ticket
    BY <1>2, <1>4
  <2>2. pairs' = [pairs EXCEPT ![t] = IF pairs[t] < MaxPairs THEN pairs[t] + 1 ELSE pairs[t]]
    BY <1>4, <2>1 DEF IssueTokens
  <2>3. pairs'[t] \in 0..MaxPairs /\ (pairs[t] = 0 => pairs'[t] <= 1)
    BY <1>1, <2>2
  <2>4. \A x \in Tickets : x # t => pairs'[x] = pairs[x]
    BY <1>1, <2>2
  <2> QED BY <1>1, <1>2, <1>4, <2>1, <2>2, <2>3, <2>4
<1> QED BY <1>3, <1>4

LEMMA IssueTokensKeeps ==
  ASSUME LoginInv, NEW r \in Calls, IssueTokens(r)
  PROVE  LoginInv'
<1>1. pairs' \in [Tickets -> 0..MaxPairs]
  BY PairsCounted
<1>2. UNCHANGED <<settings, creds, codes, tickets, flows, issuedTo>>
  BY DEF IssueTokens, factors, redis
<1>3. Tables'
  BY <1>1, <1>2 DEF LoginInv, Tables
<1> QED BY <1>2, <1>3, EndStep DEF IssueTokens, Return

LEMMA SendingKeeps ==
  ASSUME LoginInv, NEW r \in Calls, SendCode(r) \/ SendOtherCode(r)
  PROVE  LoginInv'
<1>1. codes' \subseteq Users
  BY TicketUser DEF SendCode, SendOtherCode, LoginInv, Tables
<1>2. UNCHANGED <<settings, creds, tickets, flows, issuedTo, pairs>> /\ Request(r)
  BY DEF SendCode, SendOtherCode, redis, history
<1>3. Tables'
  BY <1>1, <1>2 DEF LoginInv, Tables
<1> QED BY <1>2, <1>3, EndStep DEF Request

LEMMA FailingKeeps ==
  ASSUME LoginInv, NEW r \in Calls, CallFails(r)
  PROVE  LoginInv'
BY IdleState, IdleGood, QuietStep DEF CallFails, Return

LEMMA LoginStepKeeps ==
  ASSUME LoginInv, NEW r \in Calls, LoginStep(r)
  PROVE  LoginInv'
<1>1. CASE VerifyTOTP(r) \/ VerifyRecoveryKey(r)
  BY <1>1, ReadTicketKeeps DEF VerifyTOTP, VerifyRecoveryKey
<1>2. CASE VerifyCode(r)
  BY <1>2, ReadTicketKeeps DEF VerifyCode
<1> QED BY <1>1, <1>2, LoginTicketKeeps, LoginDecideKeeps, StoreTicketKeeps, SendingKeeps,
           UseCodeKeeps, DeleteTicketKeeps, IssueTokensKeeps, FailingKeeps DEF LoginStep

----------------------------------------------------------------------------
\* Factor settings.

LEMMA SettingsUpdated ==
  ASSUME LoginInv, NEW r \in Calls, NEW u \in Users, NEW new \in Settings,
         settings' = [settings EXCEPT ![u] = new],
         Begin(r, Idle) \/ Goto(r, Idle),
         UNCHANGED <<creds, codes, redis, history>>
  PROVE  LoginInv'
<1>1. settings' \in [Users -> Settings]
  BY DEF LoginInv, Tables
<1>2. UNCHANGED <<creds, codes, tickets, flows, issuedTo, pairs>>
  BY DEF redis, history
<1>3. Tables'
  BY <1>1, <1>2 DEF LoginInv, Tables
<1> QED BY <1>2, <1>3, EndStep

LEMMA SetKeeps ==
  ASSUME LoginInv, NEW r \in Calls, NEW u \in Users, NEW new \in Settings, Set(r, u, new)
  PROVE  LoginInv'
BY SettingsUpdated DEF Set, Request

LEMMA OneRequestKeeps ==
  ASSUME LoginInv, NEW r \in Calls,
         \/ SetupTOTP(r) \/ ToggleTOTP(r) \/ ToggleEmail(r)
         \/ CreateRecoveryKey(r) \/ DisableWebAuthn(r)
  PROVE  LoginInv'
<1>1. \A u \in Users : settings[u] \in Settings
  BY DEF LoginInv, Tables
<1>2. CASE SetupTOTP(r)
  <2>1. PICK u, new :
          /\ u \in Users
          /\ new = [settings[u] EXCEPT !.totp = TRUE, !.twoFA = TRUE] /\ Set(r, u, new)
    BY <1>2 DEF SetupTOTP
  <2>2. new \in Settings
    BY <1>1, <2>1 DEF Settings
  <2> QED BY <2>1, <2>2, SetKeeps
<1>3. CASE ToggleTOTP(r)
  <2>1. PICK u, on, new :
          /\ u \in Users /\ on \in BOOLEAN
          /\ new = [settings[u] EXCEPT !.twoFA = on] /\ Set(r, u, new)
    BY <1>3 DEF ToggleTOTP
  <2>2. new \in Settings
    BY <1>1, <2>1 DEF Settings
  <2> QED BY <2>1, <2>2, SetKeeps
<1>4. CASE ToggleEmail(r)
  <2>1. PICK u, on, new :
          /\ u \in Users /\ on \in BOOLEAN
          /\ new = [settings[u] EXCEPT !.email = on] /\ Set(r, u, new)
    BY <1>4 DEF ToggleEmail
  <2>2. new \in Settings
    BY <1>1, <2>1 DEF Settings
  <2> QED BY <2>1, <2>2, SetKeeps
<1>5. CASE CreateRecoveryKey(r)
  <2>1. PICK u, new :
          /\ u \in Users
          /\ new = [settings[u] EXCEPT !.recovery = TRUE] /\ Set(r, u, new)
    BY <1>5 DEF CreateRecoveryKey
  <2>2. new \in Settings
    BY <1>1, <2>1 DEF Settings
  <2> QED BY <2>1, <2>2, SetKeeps
<1>6. CASE DisableWebAuthn(r)
  <2>1. PICK u, new :
          /\ u \in Users
          /\ new = [settings[u] EXCEPT !.webauthn = FALSE] /\ Set(r, u, new)
    BY <1>6 DEF DisableWebAuthn
  <2>2. new \in Settings
    BY <1>1, <2>1 DEF Settings
  <2> QED BY <2>1, <2>2, SetKeeps
<1> QED BY <1>2, <1>3, <1>4, <1>5, <1>6
LEMMA ManageRecoveryKeyKeeps ==
  ASSUME LoginInv, NEW r \in Calls, ManageRecoveryKey(r)
  PROVE  LoginInv'
<1>1. PICK u, goal, pc, state :
        /\ u \in Users /\ goal \in {"regenerate", "revoke"} /\ pc \in {"setRecovery", "useCode"}
        /\ state = [[Idle EXCEPT !.goal = goal, !.user = u] EXCEPT !.pc = pc]
        /\ Begin(r, state)
  BY DEF ManageRecoveryKey
<1>2. state \in CallState /\ state.pc = pc /\ state.goal = goal /\ state.ticket = None
  BY <1>1 DEF Idle, CallState
<1>3. GoodCall(state)
  BY <1>1, <1>2 DEF GoodCall
<1> QED BY <1>1, <1>2, <1>3, QuietStep DEF ManageRecoveryKey

LEMMA EnableWebAuthnKeeps ==
  ASSUME LoginInv, NEW r \in Calls, EnableWebAuthn(r)
  PROVE  LoginInv'
<1>1. PICK u, state :
        /\ u \in Users
        /\ state = [Idle EXCEPT !.pc = "enable", !.user = u] /\ Begin(r, state)
  BY DEF EnableWebAuthn
<1>2. state \in CallState /\ GoodCall(state)
  BY <1>1, NoneApart DEF Idle, CallState, GoodCall
<1> QED BY <1>1, <1>2, QuietStep DEF EnableWebAuthn

LEMMA LastStepKeeps ==
  ASSUME LoginInv, NEW r \in Calls, SetRecoveryKey(r) \/ SwitchWebAuthnOn(r)
  PROVE  LoginInv'
<1>1. settings' \in [Users -> Settings]
  <2>1. CASE SetRecoveryKey(r)
    <3>1. PICK on \in BOOLEAN : on = (calls[r].goal = "regenerate")
      OBVIOUS
    <3>2. settings' = [settings EXCEPT ![calls[r].user].recovery = on]
      BY <2>1, <3>1 DEF SetRecoveryKey
    <3> QED BY <3>2 DEF LoginInv, Tables, Settings
  <2>2. CASE SwitchWebAuthnOn(r)
    BY <2>2 DEF SwitchWebAuthnOn, LoginInv, Tables, Settings
  <2> QED BY <2>1, <2>2
<1>2. UNCHANGED <<creds, codes, tickets, flows, issuedTo, pairs>> /\ Goto(r, Idle)
  BY DEF SetRecoveryKey, SwitchWebAuthnOn, Return, redis, history
<1>3. Tables'
  BY <1>1, <1>2 DEF LoginInv, Tables
<1> QED BY <1>2, <1>3, EndStep

LEMMA DeleteCredentialKeeps ==
  ASSUME LoginInv, NEW r \in Calls, DeleteCredential(r)
  PROVE  LoginInv'
<1>1. PICK c, goal, state :
        /\ c \in DOMAIN creds /\ goal \in {"last", "more"}
        /\ state = [Idle EXCEPT !.pc = "commit", !.user = creds[c], !.cred = c, !.goal = goal]
        /\ Begin(r, state)
  BY DEF DeleteCredential
<1>2. c \in Creds /\ creds[c] \in Users
  BY <1>1 DEF LoginInv, Tables, IsTable
<1>3. state \in CallState /\ GoodCall(state)
  BY <1>1, <1>2 DEF Idle, CallState, GoodCall
<1> QED BY <1>1, <1>3, QuietStep DEF DeleteCredential

LEMMA CommitDeleteKeeps ==
  ASSUME LoginInv, NEW r \in Calls, CommitDelete(r)
  PROVE  LoginInv'
<1>1. settings' \in [Users -> Settings]
  BY ZenonT(60) DEF CommitDelete, SwitchAfterDelete, LoginInv, Tables, Settings
<1>2. IsTable(creds', Creds, Users)
  BY DEF CommitDelete, Without, IsTable, LoginInv, Tables
<1>3. UNCHANGED <<codes, tickets, flows, issuedTo, pairs>> /\ Goto(r, Idle)
  BY DEF CommitDelete, Return, redis, history
<1>4. Tables'
  BY <1>1, <1>2, <1>3 DEF LoginInv, Tables
<1> QED BY <1>3, <1>4, EndStep

LEMMA SettingStepKeeps ==
  ASSUME LoginInv, NEW r \in Calls, SettingStep(r)
  PROVE  LoginInv'
BY OneRequestKeeps, ManageRecoveryKeyKeeps, LastStepKeeps, EnableWebAuthnKeeps,
   DeleteCredentialKeeps, CommitDeleteKeeps DEF SettingStep

----------------------------------------------------------------------------
\* WebAuthn flows.

LEMMA NewFlowKeeps ==
  ASSUME LoginInv, NEW r \in Calls, NEW flow \in Flow,
         flow.ticket \in DOMAIN issuedTo \cup {None},
         flow.type = "register" => flow.user \in Users, NewFlow(r, flow)
  PROVE  LoginInv'
<1>1. PICK f \in Flows : flows' = With(flows, f, flow)
  BY DEF NewFlow
<1>2. /\ IsTable(flows', Flows, Flow) /\ DOMAIN flows' = DOMAIN flows \cup {f}
      /\ flows'[f] = flow /\ \A x \in DOMAIN flows : x # f => flows'[x] = flows[x]
  BY <1>1 DEF With, IsTable, LoginInv, Tables
<1>3. UNCHANGED <<settings, creds, codes, tickets, issuedTo, pairs>> /\ Request(r)
  BY DEF NewFlow, factors, history
<1>4. Tables'
  BY <1>2, <1>3 DEF LoginInv, Tables
<1> QED BY <1>3, <1>4, EndStep DEF Request

LEMMA BeginningKeeps ==
  ASSUME LoginInv, NEW r \in Calls,
         BeginRegistration(r) \/ BeginLogin(r) \/ BeginSecondFactor(r)
  PROVE  LoginInv'
<1>1. CASE BeginRegistration(r)
  <2>1. PICK u, flow :
          /\ u \in Users
          /\ flow = [type |-> "register", user |-> u, ticket |-> None] /\ NewFlow(r, flow)
    BY <1>1 DEF BeginRegistration
  <2> QED BY <2>1, NewFlowKeeps DEF Flow
<1>2. CASE BeginLogin(r)
  <2>1. PICK u, type, flow :
          /\ u \in Users \cup {None} /\ type \in LoginFlows
          /\ flow = [type |-> type, user |-> u, ticket |-> None] /\ NewFlow(r, flow)
    BY <1>2 DEF BeginLogin, LoginFlows
  <2> QED BY <2>1, NewFlowKeeps DEF Flow, LoginFlows
<1>3. CASE BeginSecondFactor(r)
  <2>1. PICK t, flow :
          /\ t \in DOMAIN tickets
          /\ flow = [type |-> "second_factor", user |-> tickets[t], ticket |-> t]
          /\ NewFlow(r, flow)
    BY <1>3 DEF BeginSecondFactor
  <2>2. t \in Tickets /\ tickets[t] \in Users /\ t \in DOMAIN issuedTo
    BY <2>1, TicketUser DEF LoginInv
  <2> QED BY <2>1, <2>2, NewFlowKeeps DEF Flow, LoginFlows
<1> QED BY <1>1, <1>2, <1>3

LEMMA FinishRegistrationKeeps ==
  ASSUME LoginInv, NEW r \in Calls, FinishRegistration(r)
  PROVE  LoginInv'
<1>1. PICK f, c, state :
        /\ f \in DOMAIN flows /\ c \in Creds
        /\ flows[f].type = "register"
        /\ state = [Idle EXCEPT !.pc = "insert", !.goal = "register", !.flow = f,
                                !.user = flows[f].user, !.cred = c]
        /\ Begin(r, state)
  BY DEF FinishRegistration
<1>2. f \in Flows /\ flows[f].user \in Users
  BY <1>1 DEF LoginInv, Tables, IsTable, Flow
<1>3. state \in CallState /\ GoodCall(state)
  BY <1>1, <1>2 DEF Idle, CallState, GoodCall
<1> QED BY <1>1, <1>3, QuietStep DEF FinishRegistration
LEMMA InsertCredentialKeeps ==
  ASSUME LoginInv, NEW r \in Calls, InsertCredential(r)
  PROVE  LoginInv'
<1>1. PICK state : state = [calls[r] EXCEPT !.pc = "dropFlow"] /\ Goto(r, state)
  BY DEF InsertCredential
<1>2. calls[r] \in CallState /\ GoodCall(calls[r])
  BY DEF LoginInv
<1>3. /\ state \in CallState /\ state.pc = "dropFlow"
      /\ state.goal = calls[r].goal /\ state.ticket = calls[r].ticket
  BY <1>1, <1>2 DEF CallState
<1>4. calls' = [calls EXCEPT ![r] = state] /\ overlapped' \in BOOLEAN
  BY <1>1 DEF Goto, LoginInv
<1>5. calls[r].cred \in Creds /\ calls[r].user \in Users
  BY <1>2 DEF InsertCredential, GoodCall
<1>6. IsTable(creds', Creds, Users)
  BY <1>5 DEF InsertCredential, With, IsTable, LoginInv, Tables
<1>7. UNCHANGED <<settings, codes, tickets, flows, issuedTo, pairs>>
  BY DEF InsertCredential, redis, history
<1>8. Tables'
  BY <1>6, <1>7 DEF LoginInv, Tables
<1>9. GoodCall(state)'
  BY <1>2, <1>3, <1>7 DEF GoodCall
<1> QED BY <1>3, <1>4, <1>7, <1>8, <1>9, StepKeeps

\* What a finished flow begins.
LEMMA FinishFlowCases ==
  ASSUME NEW r \in Calls, FinishFlow(r)
  PROVE  \E f, c, state :
           /\ f \in DOMAIN flows /\ c \in DOMAIN creds
           /\ Begin(r, state)
           /\ \/ state = [[Idle EXCEPT !.pc = "touch", !.flow = f, !.cred = c]
                            EXCEPT !.goal = "passkey", !.user = creds[c]]
              \/ state = [[Idle EXCEPT !.pc = "touch", !.flow = f, !.cred = c]
                            EXCEPT !.goal = "ticket", !.user = creds[c],
                                   !.ticket = flows[f].ticket]
              \/ \E u \in Users, goal \in {"regenerate", "revoke"} :
                   state = [[Idle EXCEPT !.pc = "touch", !.flow = f, !.cred = c]
                              EXCEPT !.goal = goal, !.user = u]
<1>1. PICK f \in DOMAIN flows, c \in DOMAIN creds :
        LET call == [Idle EXCEPT !.pc = "touch", !.flow = f, !.cred = c] IN
        \/ Begin(r, [call EXCEPT !.goal = "passkey", !.user = creds[c]])
        \/ Begin(r, [call EXCEPT !.goal = "ticket", !.user = creds[c],
                                 !.ticket = flows[f].ticket])
        \/ \E u \in Users, goal \in {"regenerate", "revoke"} :
             Begin(r, [call EXCEPT !.goal = goal, !.user = u])
  BY DEF FinishFlow
<1> QED BY <1>1

LEMMA FinishFlowKeeps ==
  ASSUME LoginInv, NEW r \in Calls, FinishFlow(r)
  PROVE  LoginInv'
<1>1. PICK f, c, state :
        /\ f \in DOMAIN flows /\ c \in DOMAIN creds
        /\ Begin(r, state)
        /\ \/ state = [[Idle EXCEPT !.pc = "touch", !.flow = f, !.cred = c]
                         EXCEPT !.goal = "passkey", !.user = creds[c]]
           \/ state = [[Idle EXCEPT !.pc = "touch", !.flow = f, !.cred = c]
                         EXCEPT !.goal = "ticket", !.user = creds[c],
                                !.ticket = flows[f].ticket]
           \/ \E u \in Users, goal \in {"regenerate", "revoke"} :
                state = [[Idle EXCEPT !.pc = "touch", !.flow = f, !.cred = c]
                           EXCEPT !.goal = goal, !.user = u]
  BY FinishFlowCases
<1>2. /\ f \in Flows /\ flows[f].ticket \in DOMAIN issuedTo \cup {None}
      /\ flows[f].ticket \in Tickets \cup {None}
      /\ c \in Creds /\ creds[c] \in Users
  BY <1>1 DEF LoginInv, Tables, IsTable, Flow
<1>3. /\ state \in CallState /\ state.pc = "touch"
      /\ state.ticket \in {None, flows[f].ticket}
      /\ state.goal = "passkey" => state.ticket = None
  <2>1. CASE state = [[Idle EXCEPT !.pc = "touch", !.flow = f, !.cred = c]
                        EXCEPT !.goal = "passkey", !.user = creds[c]]
    BY <1>2, <2>1 DEF Idle, CallState
  <2>2. CASE state = [[Idle EXCEPT !.pc = "touch", !.flow = f, !.cred = c]
                        EXCEPT !.goal = "ticket", !.user = creds[c], !.ticket = flows[f].ticket]
    BY <1>2, <2>2 DEF Idle, CallState
  <2>3. ASSUME NEW u \in Users, NEW goal \in {"regenerate", "revoke"},
               state = [[Idle EXCEPT !.pc = "touch", !.flow = f, !.cred = c]
                          EXCEPT !.goal = goal, !.user = u]
        PROVE  <1>3!:
    BY <1>2, <2>3 DEF Idle, CallState
  <2> QED BY <1>1, <2>1, <2>2, <2>3
<1>4. GoodCall(state)
  BY <1>2, <1>3 DEF GoodCall
<1> QED BY <1>1, <1>3, <1>4, QuietStep DEF FinishFlow

LEMMA TouchCredentialKeeps ==
  ASSUME LoginInv, NEW r \in Calls, TouchCredential(r)
  PROVE  LoginInv'
<1>1. PICK state : state = [calls[r] EXCEPT !.pc = "dropFlow"] /\ Goto(r, state)
  BY DEF TouchCredential
<1>2. calls[r] \in CallState /\ GoodCall(calls[r])
  BY DEF LoginInv
<1>3. state \in CallState /\ GoodCall(state)
  BY <1>1, <1>2 DEF CallState, GoodCall
<1> QED BY <1>1, <1>3, QuietStep DEF TouchCredential

LEMMA FlowDropped ==
  ASSUME Tables, NEW f, flows' \in {flows, Without(flows, f)},
         UNCHANGED <<settings, creds, codes, tickets, issuedTo, pairs>>
  PROVE  Tables'
<1>1. /\ IsTable(flows', Flows, Flow) /\ DOMAIN flows' \subseteq DOMAIN flows
      /\ \A x \in DOMAIN flows' : flows'[x] = flows[x]
  BY DEF Without, IsTable, Tables
<1> QED BY <1>1 DEF Tables

\* DropFlow goes on with nothing but the user and the ticket.
LEMMA DropFlowCases ==
  ASSUME LoginInv, NEW r \in Calls, DropFlow(r)
  PROVE  \E state \in CallState :
           /\ Goto(r, state) /\ state.ticket \in {None, calls[r].ticket}
           /\ \/ state = Idle
              \/ /\ calls[r].goal # "register"
                 /\ state.user = calls[r].user /\ state.goal = calls[r].goal
                 /\ \/ state.pc = "issue" /\ state.goal = "passkey"
                    \/ state.pc = "delTicket" /\ state.goal = "ticket"
                    \/ state.pc = "setRecovery"
<1>1. calls[r] \in CallState
  BY DEF LoginInv
<1>2. CASE calls[r].goal = "register"
  BY <1>2, IdleState DEF DropFlow
<1>3. ASSUME NEW pc \in {"issue", "delTicket", "setRecovery"}, calls[r].goal # "register",
             pc = "issue" => calls[r].goal = "passkey",
             pc = "delTicket" => calls[r].goal = "ticket",
             Goto(r, [calls[r] EXCEPT !.pc = pc, !.flow = None, !.cred = None])
      PROVE  \E state \in CallState :
               /\ Goto(r, state) /\ state.ticket \in {None, calls[r].ticket}
               /\ \/ state = Idle
                  \/ /\ calls[r].goal # "register"
                     /\ state.user = calls[r].user /\ state.goal = calls[r].goal
                     /\ \/ state.pc = "issue" /\ state.goal = "passkey"
                        \/ state.pc = "delTicket" /\ state.goal = "ticket"
                        \/ state.pc = "setRecovery"
  <2>1. PICK state :
          /\ state = [calls[r] EXCEPT !.pc = pc, !.flow = None, !.cred = None]
          /\ Goto(r, state)
    BY <1>3
  <2>2. /\ state \in CallState /\ state.pc = pc /\ state.goal = calls[r].goal
        /\ state.user = calls[r].user /\ state.ticket = calls[r].ticket
    BY <1>1, <2>1 DEF CallState
  <2> QED BY <1>3, <2>1, <2>2
<1>4. CASE calls[r].goal = "passkey"
  BY <1>3, <1>4 DEF DropFlow
<1>5. CASE calls[r].goal = "ticket"
  BY <1>3, <1>5 DEF DropFlow
<1>6. CASE calls[r].goal \notin {"register", "passkey", "ticket"}
  BY <1>3, <1>6 DEF DropFlow
<1> QED BY <1>2, <1>4, <1>5, <1>6

LEMMA DropFlowKeeps ==
  ASSUME LoginInv, NEW r \in Calls, DropFlow(r)
  PROVE  LoginInv'
<1>1. PICK state \in CallState :
        /\ Goto(r, state) /\ state.ticket \in {None, calls[r].ticket}
        /\ \/ state = Idle
           \/ /\ state.goal = calls[r].goal
              /\ \/ state.pc = "issue" /\ state.goal = "passkey"
                 \/ state.pc = "delTicket" /\ state.goal = "ticket"
                 \/ state.pc = "setRecovery"
  BY DropFlowCases
<1>2. GoodCall(calls[r]) /\ None \notin DOMAIN tickets
  BY NoneApart DEF LoginInv, Tables, IsTable
<1>3. UNCHANGED <<settings, creds, codes, tickets, issuedTo, pairs>>
  BY DEF DropFlow, factors, history
<1>4. Tables'
  BY <1>3, FlowDropped DEF DropFlow, LoginInv
<1>5. calls[r].ticket \in DOMAIN issuedTo \cup {None}
  BY <1>2 DEF GoodCall
<1>6. calls[r].goal = "passkey" => calls[r].ticket = None
  BY <1>2 DEF GoodCall
<1>7. GoodCall(state)'
  BY <1>1, <1>2, <1>3, <1>5, <1>6, IdleState DEF GoodCall
<1>8. calls' = [calls EXCEPT ![r] = state] /\ overlapped' \in BOOLEAN
  BY <1>1 DEF Goto, LoginInv
<1> QED BY <1>1, <1>3, <1>4, <1>7, <1>8, StepKeeps

LEMMA FlowStepKeeps ==
  ASSUME LoginInv, NEW r \in Calls, FlowStep(r)
  PROVE  LoginInv'
BY BeginningKeeps, FinishRegistrationKeeps, InsertCredentialKeeps, FinishFlowKeeps,
   TouchCredentialKeeps, DropFlowKeeps DEF FlowStep

----------------------------------------------------------------------------
\* Expiry, and the theorems.

LEMMA ExpireKeeps ==
  ASSUME LoginInv, Expire
  PROVE  LoginInv'
<1>1. ASSUME NEW t \in DOMAIN tickets, TicketExpires(t) PROVE LoginInv'
  <2>1. IsTable(tickets', Tickets, Users) /\ DOMAIN tickets' \subseteq DOMAIN tickets
    BY <1>1 DEF TicketExpires, Without, IsTable, LoginInv, Tables
  <2>2. UNCHANGED <<settings, creds, codes, flows, issuedTo, pairs, calls, overlapped>>
    BY <1>1 DEF TicketExpires, factors, history
  <2>3. Tables'
    BY <2>1, <2>2 DEF LoginInv, Tables
  <2>4. ASSUME NEW r \in Calls PROVE GoodCall(calls[r])'
    BY <2>1, <2>2 DEF LoginInv, GoodCall
  <2> QED BY <2>2, <2>3, <2>4 DEF LoginInv
<1>2. ASSUME NEW f \in DOMAIN flows, FlowExpires(f) PROVE LoginInv'
  <2>1. UNCHANGED <<settings, creds, codes, tickets, issuedTo, pairs, calls, overlapped>>
    BY <1>2 DEF FlowExpires, factors, history
  <2>2. Tables'
    BY <1>2, <2>1, FlowDropped DEF FlowExpires, LoginInv
  <2> QED BY <2>1, <2>2 DEF LoginInv, GoodCall
<1>3. ASSUME NEW u \in codes, CodeExpires(u) PROVE LoginInv'
  <2>1. UNCHANGED <<settings, creds, tickets, flows, issuedTo, pairs, calls, overlapped>>
    BY <1>3 DEF CodeExpires, redis, history
  <2>2. Tables'
    BY <1>3, <2>1 DEF CodeExpires, LoginInv, Tables
  <2> QED BY <2>1, <2>2 DEF LoginInv, GoodCall
<1> QED BY <1>1, <1>2, <1>3 DEF Expire

LEMMA LoginInvStep == LoginInv /\ [Next]_vars => LoginInv'
<1> SUFFICES ASSUME LoginInv, [Next]_vars PROVE LoginInv'
  OBVIOUS
<1>1. CASE UNCHANGED vars
  BY <1>1 DEF vars, LoginInv, Tables, GoodCall
<1> QED BY <1>1, LoginStepKeeps, SettingStepKeeps, FlowStepKeeps, ExpireKeeps DEF Next

LEMMA LoginInvInit == Init => LoginInv
<1> SUFFICES ASSUME Init PROVE LoginInv
  OBVIOUS
<1>1. DOMAIN creds = {} /\ DOMAIN tickets = {} /\ DOMAIN flows = {} /\ DOMAIN issuedTo = {}
  <2>1. \A q : q = <<>> => q \in Seq({}) /\ Len(q) = 0
    OBVIOUS
  <2> QED BY <2>1 DEF Init
<1>2. settings \in [Users -> Settings] /\ pairs \in [Tickets -> 0..MaxPairs]
  BY LoginConstants DEF Init, Settings
<1>3. calls \in [Calls -> CallState] /\ \A r \in Calls : calls[r] = Idle
  BY IdleState DEF Init
<1>4. Tables
  BY <1>1, <1>2 DEF Init, Tables, IsTable
<1>5. \A r \in Calls : GoodCall(calls[r])
  BY <1>3, IdleGood
<1> QED BY <1>3, <1>4, <1>5 DEF Init, LoginInv

\* The settings, credentials, tickets and flows are of their types.
THEOREM TypeCorrect == Spec => []TypeOK
<1>1. LoginInv => TypeOK
  BY DEF LoginInv, Tables, TypeOK
<1> QED BY <1>1, LoginInvInit, LoginInvStep, PTL DEF Spec

\* Whatever fails or expires meanwhile, tokens for a login ticket are issued only
\* when the ticket is gone.
THEOREM TicketGone == Spec => []TicketGoneBeforeTokens
<1>1. LoginInv => TicketGoneBeforeTokens
  BY DEF LoginInv, GoodCall, TicketGoneBeforeTokens
<1> QED BY <1>1, LoginInvInit, LoginInvStep, PTL DEF Spec
----------------------------------------------------------------------------
\* As long as no two handlers have been in flight at the same time, what a handler
\* has read is still so when it writes.

Alone == \A p, q \in Calls : calls[p].pc # "idle" /\ calls[q].pc # "idle" => p = q

\* A ticket for which tokens were handed out is gone for good.
PairsInv ==
  \A t \in Tickets : /\ pairs[t] <= 1
                     /\ pairs[t] # 0 => t \in DOMAIN issuedTo /\ t \notin DOMAIN tickets

SwitchInv == \A u \in Users : settings[u].webauthn => CredsOf(u) # {}

CalmCall(call) ==
  /\ call.pc # "idle" /\ call.ticket # None => pairs[call.ticket] = 0
  /\ call.pc = "delTicket" => call.goal = "ticket"
  /\ call.pc = "enable" => CredsOf(call.user) # {}
  /\ call.pc = "commit" => /\ call.cred \in DOMAIN creds /\ creds[call.cred] = call.user
                           /\ call.goal = "last" \/ CredsOf(call.user) # {call.cred}
  /\ call.pc = "count" => call.seen = SwitchedOn(call.user)
  /\ call.pc = "issue" /\ call.goal = "password" =>
       SwitchedOn(call.user) \subseteq {"recovery_key"}

CalmState ==
  /\ Alone /\ PairsInv /\ SwitchInv
  /\ \A r \in Calls : CalmCall(calls[r])

CalmInv == ~overlapped => CalmState

\* A handler moves, the first of all or on from where it was.
Moves(r, state) == Begin(r, state) \/ (calls[r].pc # "idle" /\ Goto(r, state))

LEMMA CalmMove ==
  ASSUME LoginInv, CalmInv, NEW r \in Calls, NEW state, Moves(r, state), ~overlapped'
  PROVE  /\ CalmState /\ Alone'
         /\ calls'[r] = state
         /\ \A q \in Calls : q # r => calls'[q].pc = "idle"
<1>1. calls' = [calls EXCEPT ![r] = state]
  BY DEF Moves, Begin, Goto
<1>2. calls'[r] = state /\ \A q \in Calls : q # r => calls'[q] = calls[q]
  BY <1>1, OtherCalls
<1>3. CalmState
  BY DEF Moves, Begin, Goto, CalmInv
<1>4. \A q \in Calls : q # r => calls[q].pc = "idle"
  <2>1. CASE Begin(r, state)
    BY <2>1 DEF Begin
  <2>2. CASE calls[r].pc # "idle"
    BY <1>3, <2>2 DEF CalmState, Alone
  <2> QED BY <2>1, <2>2 DEF Moves
<1> QED BY <1>2, <1>3, <1>4 DEF Alone

LEMMA CalmStays ==
  ASSUME LoginInv, CalmInv, NEW r \in Calls, NEW state, Moves(r, state),
         ~overlapped' /\ CalmState => PairsInv' /\ SwitchInv' /\ CalmCall(state)'
  PROVE  CalmInv'
<1> SUFFICES ASSUME ~overlapped' PROVE CalmState'
  BY DEF CalmInv
<1>1. /\ CalmState /\ Alone'
      /\ calls'[r] = state
      /\ \A q \in Calls : q # r => calls'[q].pc = "idle"
  BY CalmMove
<1>2. PairsInv' /\ SwitchInv' /\ CalmCall(state)'
  BY <1>1
<1>3. ASSUME NEW q \in Calls PROVE CalmCall(calls[q])'
  <2>1. CASE q = r
    BY <1>1, <1>2, <2>1 DEF CalmCall, CredsOf, SwitchedOn
  <2>2. CASE q # r
    BY <1>1, <2>2 DEF CalmCall
  <2> QED BY <2>1, <2>2
<1> QED BY <1>1, <1>2, <1>3 DEF CalmState

\* A step that changes nothing these conditions are about.
LEMMA CalmQuiet ==
  ASSUME LoginInv, CalmInv, NEW r \in Calls, NEW state, Moves(r, state),
         UNCHANGED <<settings, creds, pairs, issuedTo>>, DOMAIN tickets' \subseteq DOMAIN tickets,
         CalmState => CalmCall(state)
  PROVE  CalmInv'
<1>1. CalmState => PairsInv'
  BY DEF CalmState, PairsInv
<1>2. CalmState => SwitchInv'
  BY DEF CalmState, SwitchInv, CredsOf
<1>3. CalmCall(state) => CalmCall(state)'
  BY DEF CalmCall, CredsOf, SwitchedOn
<1> QED BY <1>1, <1>2, <1>3, CalmStays

LEMMA IdleCalm == CalmCall(Idle) /\ CalmCall(Idle)'
BY IdleState DEF CalmCall, Idle

LEMMA LoginTicketCalm ==
  ASSUME LoginInv, CalmInv, NEW r \in Calls, LoginTicket(r)
  PROVE  CalmInv'
<1>1. PICK u, state :
        /\ u \in Users
        /\ state = [Idle EXCEPT !.pc = "count", !.user = u, !.seen = SwitchedOn(u)]
        /\ Begin(r, state)
  BY DEF LoginTicket
<1>2. CalmCall(state)
  BY <1>1 DEF Idle, CalmCall
<1>3. UNCHANGED <<settings, creds, tickets, pairs, issuedTo>>
  BY DEF LoginTicket, factors, redis, history
<1> QED BY <1>1, <1>2, <1>3, CalmQuiet DEF Moves

LEMMA LoginDecideCalm ==
  ASSUME LoginInv, CalmInv, NEW r \in Calls, LoginDecide(r)
  PROVE  CalmInv'
<1> DEFINE available == IF CredsOf(calls[r].user) = {} THEN calls[r].seen \ {"webauthn"}
                        ELSE calls[r].seen
<1>1. PICK state :
        /\ \/ /\ AsksFor(available) = {}
              /\ state = [Idle EXCEPT !.pc = "issue", !.goal = "password", !.user = calls[r].user]
           \/ state = [Idle EXCEPT !.pc = "setTicket", !.user = calls[r].user]
        /\ Goto(r, state)
  BY DEF LoginDecide
<1>2. calls[r].pc = "count" /\ calls[r].user \in Users
  BY DEF LoginDecide, LoginInv, GoodCall
<1>3. ASSUME CalmState, AsksFor(available) = {}
      PROVE  SwitchedOn(calls[r].user) \subseteq {"recovery_key"}
  <2>1. calls[r].seen = SwitchedOn(calls[r].user)
    BY <1>2, <1>3 DEF CalmState, CalmCall
  <2>2. CredsOf(calls[r].user) = {} => "webauthn" \notin SwitchedOn(calls[r].user)
    BY <1>2, <1>3 DEF CalmState, SwitchInv, SwitchedOn
  <2>3. available = SwitchedOn(calls[r].user)
    BY <2>1, <2>2
  <2> QED BY <1>3, <2>3 DEF AsksFor
<1>4. CalmState => CalmCall(state)
  BY <1>1, <1>3 DEF Idle, CalmCall
<1>5. UNCHANGED <<settings, creds, tickets, pairs, issuedTo>>
  BY DEF LoginDecide, factors, redis, history
<1> QED BY <1>1, <1>2, <1>4, <1>5, CalmQuiet DEF Moves

LEMMA StoreTicketCalm ==
  ASSUME LoginInv, CalmInv, NEW r \in Calls, StoreTicket(r)
  PROVE  CalmInv'
<1>1. PICK t \in Tickets \ DOMAIN issuedTo :
        /\ tickets' = With(tickets, t, calls[r].user)
        /\ issuedTo' = With(issuedTo, t, calls[r].user)
  BY DEF StoreTicket
<1>2. DOMAIN tickets' = DOMAIN tickets \cup {t} /\ DOMAIN issuedTo' = DOMAIN issuedTo \cup {t}
  BY <1>1 DEF With
<1>3. UNCHANGED <<settings, creds, pairs>> /\ Moves(r, Idle)
  BY DEF StoreTicket, Return, Moves, factors
<1>4. CalmState => PairsInv' /\ SwitchInv'
  BY <1>1, <1>2, <1>3 DEF CalmState, PairsInv, SwitchInv, CredsOf
<1> QED BY <1>3, <1>4, IdleCalm, CalmStays

LEMMA ReadTicketCalm ==
  ASSUME LoginInv, CalmInv, NEW r \in Calls, NEW t \in DOMAIN tickets,
         NEW pc \in {"delTicket", "useCode"}, ReadTicket(r, t, pc)
  PROVE  CalmInv'
<1>1. PICK state :
        /\ state = [Idle EXCEPT !.pc = pc, !.goal = "ticket", !.ticket = t, !.user = tickets[t]]
        /\ Begin(r, state)
  BY DEF ReadTicket
<1>2. t \in Tickets
  BY TicketUser DEF LoginInv
<1>3. CalmState => CalmCall(state)
  BY <1>1, <1>2 DEF Idle, CalmCall, CalmState, PairsInv
<1>4. UNCHANGED <<settings, creds, tickets, pairs, issuedTo>>
  BY DEF ReadTicket, factors, redis, history
<1> QED BY <1>1, <1>3, <1>4, CalmQuiet DEF Moves

\* A handler goes on with the ticket it has, and to no step that relies on more.
LEMMA CalmNext ==
  ASSUME LoginInv, NEW r \in Calls, CalmState, calls[r].pc # "idle",
         NEW pc \in {"delTicket", "setRecovery", "issue", "dropFlow"},
         NEW state, state = [calls[r] EXCEPT !.pc = pc],
         pc \in {"delTicket", "issue"} => calls[r].goal = "ticket"
  PROVE  CalmCall(state)
<1>1. calls[r] \in CallState /\ CalmCall(calls[r])
  BY DEF LoginInv, CalmState
<1>2. state.pc = pc /\ state.goal = calls[r].goal /\ state.ticket = calls[r].ticket
  BY <1>1 DEF CallState
<1> QED BY <1>1, <1>2 DEF CalmCall

LEMMA UseCodeCalm ==
  ASSUME LoginInv, CalmInv, NEW r \in Calls, UseCode(r)
  PROVE  CalmInv'
<1>1. PICK pc, state :
        /\ pc \in {"delTicket", "setRecovery"}
        /\ pc = IF calls[r].goal = "ticket" THEN "delTicket" ELSE "setRecovery"
        /\ state = [calls[r] EXCEPT !.pc = pc] /\ Goto(r, state)
  BY DEF UseCode
<1>2. calls[r].pc # "idle" /\ UNCHANGED <<settings, creds, tickets, pairs, issuedTo>>
  BY DEF UseCode, redis, history
<1>3. CalmState => CalmCall(state)
  BY <1>1, <1>2, CalmNext
<1> QED BY <1>1, <1>2, <1>3, CalmQuiet DEF Moves

LEMMA DeleteTicketCalm ==
  ASSUME LoginInv, CalmInv, NEW r \in Calls, DeleteTicket(r)
  PROVE  CalmInv'
<1>1. PICK state : state = [calls[r] EXCEPT !.pc = "issue"] /\ Goto(r, state)
  BY DEF DeleteTicket
<1>2. calls[r].pc = "delTicket" /\ UNCHANGED <<settings, creds, pairs, issuedTo>>
  BY DEF DeleteTicket, factors, history
<1>3. DOMAIN tickets' \subseteq DOMAIN tickets
  BY DEF DeleteTicket, TicketsAfterUse, Without
<1>4. CalmState => calls[r].goal = "ticket"
  BY <1>2 DEF CalmState, CalmCall
<1>5. CalmState => CalmCall(state)
  BY <1>1, <1>2, <1>4, CalmNext
<1> QED BY <1>1, <1>2, <1>3, <1>5, CalmQuiet DEF Moves

LEMMA IssueTokensCalm ==
  ASSUME LoginInv, CalmInv, NEW r \in Calls, IssueTokens(r)
  PROVE  CalmInv'
<1>1. calls[r].pc = "issue" /\ Moves(r, Idle)
  BY DEF IssueTokens, Return, Moves
<1>2. UNCHANGED <<settings, creds, tickets, issuedTo>>
  BY DEF IssueTokens, factors, redis
<1>3. calls[r].ticket \notin DOMAIN tickets
  BY <1>1 DEF LoginInv, GoodCall
<1>4. /\ \A t \in Tickets : t # calls[r].ticket => pairs'[t] = pairs[t]
      /\ \A t \in Tickets : pairs[t] = 0 => pairs'[t] <= 1
      /\ calls[r].ticket = None => pairs' = pairs
      /\ calls[r].ticket # None => calls[r].ticket \in DOMAIN issuedTo
  BY PairsCounted
<1>5. ASSUME CalmState PROVE PairsInv'
  <2>1. calls[r].ticket # None => pairs[calls[r].ticket] = 0
    BY <1>1, <1>5 DEF CalmState, CalmCall
  <2> QED BY <1>2, <1>3, <1>4, <1>5, <2>1 DEF CalmState, PairsInv
<1>6. CalmState => SwitchInv'
  BY <1>2 DEF CalmState, SwitchInv, CredsOf
<1> QED BY <1>1, <1>5, <1>6, IdleCalm, CalmStays

LEMMA LoginStepCalm ==
  ASSUME LoginInv, CalmInv, NEW r \in Calls, LoginStep(r)
  PROVE  CalmInv'
<1>1. CASE VerifyTOTP(r) \/ VerifyRecoveryKey(r)
  BY <1>1, ReadTicketCalm DEF VerifyTOTP, VerifyRecoveryKey
<1>2. CASE VerifyCode(r)
  BY <1>2, ReadTicketCalm DEF VerifyCode
<1>3. CASE SendCode(r) \/ SendOtherCode(r)
  <2>1. Moves(r, Idle) /\ UNCHANGED <<settings, creds, tickets, pairs, issuedTo>>
    BY <1>3 DEF SendCode, SendOtherCode, Request, Moves, redis, history
  <2> QED BY <2>1, IdleCalm, CalmQuiet
<1>4. CASE CallFails(r)
  <2>1. Moves(r, Idle) /\ UNCHANGED <<settings, creds, tickets, pairs, issuedTo>>
    BY <1>4 DEF CallFails, Return, Moves, factors, redis, history
  <2> QED BY <2>1, IdleCalm, CalmQuiet
<1> QED BY <1>1, <1>2, <1>3, <1>4, LoginTicketCalm, LoginDecideCalm, StoreTicketCalm,
           UseCodeCalm, DeleteTicketCalm, IssueTokensCalm DEF LoginStep
\* A switch goes on only for a user with a credential; other settings do not matter.
LEMMA SettingsCalm ==
  ASSUME LoginInv, CalmInv, NEW r \in Calls, Moves(r, Idle),
         UNCHANGED <<creds, redis, history>>,
         NEW u, NEW new, settings' = [settings EXCEPT ![u] = new],
         CalmState /\ u \in Users /\ new.webauthn => settings[u].webauthn \/ CredsOf(u) # {}
  PROVE  CalmInv'
<1>1. settings \in [Users -> Settings] /\ UNCHANGED <<creds, tickets, pairs, issuedTo>>
  BY DEF LoginInv, Tables, redis, history
<1>2. CalmState => PairsInv'
  BY <1>1 DEF CalmState, PairsInv
<1>3. ASSUME CalmState PROVE SwitchInv'
  <2>1. ASSUME NEW v \in Users, settings'[v].webauthn PROVE CredsOf(v) # {}
    <3>1. CASE v = u
      BY <1>1, <1>3, <2>1, <3>1 DEF CalmState, SwitchInv
    <3>2. CASE v # u
      BY <1>1, <1>3, <2>1, <3>2 DEF CalmState, SwitchInv
    <3> QED BY <3>1, <3>2
  <2> QED BY <1>1, <2>1 DEF SwitchInv, CredsOf
<1> QED BY <1>2, <1>3, IdleCalm, CalmStays

LEMMA SetCalm ==
  ASSUME LoginInv, CalmInv, NEW r \in Calls, NEW u \in Users, NEW new, Set(r, u, new),
         new.webauthn => settings[u].webauthn
  PROVE  CalmInv'
<1>1. Moves(r, Idle) /\ settings' = [settings EXCEPT ![u] = new]
  BY DEF Set, Request, Moves
<1>2. UNCHANGED <<creds, redis, history>>
  BY DEF Set
<1> QED BY <1>1, <1>2, SettingsCalm

LEMMA OneRequestCalm ==
  ASSUME LoginInv, CalmInv, NEW r \in Calls,
         \/ SetupTOTP(r) \/ ToggleTOTP(r) \/ ToggleEmail(r)
         \/ CreateRecoveryKey(r) \/ DisableWebAuthn(r)
  PROVE  CalmInv'
<1>1. \A u \in Users : settings[u] \in Settings
  BY DEF LoginInv, Tables
<1>2. CASE SetupTOTP(r)
  <2>1. PICK u, new :
          /\ u \in Users
          /\ new = [settings[u] EXCEPT !.totp = TRUE, !.twoFA = TRUE] /\ Set(r, u, new)
    BY <1>2 DEF SetupTOTP
  <2>2. new.webauthn = settings[u].webauthn
    BY <1>1, <2>1 DEF Settings
  <2> QED BY <2>1, <2>2, SetCalm
<1>3. CASE ToggleTOTP(r)
  <2>1. PICK u, on, new :
          /\ u \in Users /\ on \in BOOLEAN
          /\ new = [settings[u] EXCEPT !.twoFA = on] /\ Set(r, u, new)
    BY <1>3 DEF ToggleTOTP
  <2>2. new.webauthn = settings[u].webauthn
    BY <1>1, <2>1 DEF Settings
  <2> QED BY <2>1, <2>2, SetCalm
<1>4. CASE ToggleEmail(r)
  <2>1. PICK u, on, new :
          /\ u \in Users /\ on \in BOOLEAN
          /\ new = [settings[u] EXCEPT !.email = on] /\ Set(r, u, new)
    BY <1>4 DEF ToggleEmail
  <2>2. new.webauthn = settings[u].webauthn
    BY <1>1, <2>1 DEF Settings
  <2> QED BY <2>1, <2>2, SetCalm
<1>5. CASE CreateRecoveryKey(r)
  <2>1. PICK u, new :
          /\ u \in Users
          /\ new = [settings[u] EXCEPT !.recovery = TRUE] /\ Set(r, u, new)
    BY <1>5 DEF CreateRecoveryKey
  <2>2. new.webauthn = settings[u].webauthn
    BY <1>1, <2>1 DEF Settings
  <2> QED BY <2>1, <2>2, SetCalm
<1>6. CASE DisableWebAuthn(r)
  <2>1. PICK u, new :
          /\ u \in Users
          /\ new = [settings[u] EXCEPT !.webauthn = FALSE] /\ Set(r, u, new)
    BY <1>6 DEF DisableWebAuthn
  <2>2. new.webauthn = FALSE
    BY <1>1, <2>1 DEF Settings
  <2> QED BY <2>1, <2>2, SetCalm
<1> QED BY <1>2, <1>3, <1>4, <1>5, <1>6

LEMMA ManageRecoveryKeyCalm ==
  ASSUME LoginInv, CalmInv, NEW r \in Calls, ManageRecoveryKey(r)
  PROVE  CalmInv'
<1>1. PICK u, goal, pc, state :
        /\ u \in Users /\ goal \in {"regenerate", "revoke"} /\ pc \in {"setRecovery", "useCode"}
        /\ state = [[Idle EXCEPT !.goal = goal, !.user = u] EXCEPT !.pc = pc]
        /\ Begin(r, state)
  BY DEF ManageRecoveryKey
<1>2. CalmCall(state)
  BY <1>1 DEF Idle, CalmCall
<1>3. UNCHANGED <<settings, creds, tickets, pairs, issuedTo>>
  BY DEF ManageRecoveryKey, factors, redis, history
<1> QED BY <1>1, <1>2, <1>3, CalmQuiet DEF Moves

LEMMA SetRecoveryKeyCalm ==
  ASSUME LoginInv, CalmInv, NEW r \in Calls, SetRecoveryKey(r)
  PROVE  CalmInv'
<1> DEFINE u == calls[r].user
<1>1. PICK new : /\ new = [settings[u] EXCEPT !.recovery = (calls[r].goal = "regenerate")]
                 /\ settings' = [settings EXCEPT ![u] = new]
  BY DEF SetRecoveryKey
<1>2. u \in Users => new.webauthn = settings[u].webauthn
  BY <1>1 DEF LoginInv, Tables, Settings
<1>3. Moves(r, Idle) /\ UNCHANGED <<creds, redis, history>>
  BY DEF SetRecoveryKey, Moves, Return
<1> QED BY <1>1, <1>2, <1>3, SettingsCalm

LEMMA EnableWebAuthnCalm ==
  ASSUME LoginInv, CalmInv, NEW r \in Calls, EnableWebAuthn(r)
  PROVE  CalmInv'
<1>1. PICK u, state :
        /\ u \in Users
        /\ CredsOf(u) # {}
        /\ state = [Idle EXCEPT !.pc = "enable", !.user = u] /\ Begin(r, state)
  BY DEF EnableWebAuthn
<1>2. CalmCall(state)
  BY <1>1 DEF Idle, CalmCall
<1>3. UNCHANGED <<settings, creds, tickets, pairs, issuedTo>>
  BY DEF EnableWebAuthn, factors, redis, history
<1> QED BY <1>1, <1>2, <1>3, CalmQuiet DEF Moves

LEMMA SwitchWebAuthnOnCalm ==
  ASSUME LoginInv, CalmInv, NEW r \in Calls, SwitchWebAuthnOn(r)
  PROVE  CalmInv'
<1> DEFINE u == calls[r].user
<1>1. PICK new : settings' = [settings EXCEPT ![u] = new]
  BY DEF SwitchWebAuthnOn
<1>2. CalmState => CredsOf(u) # {}
  BY DEF SwitchWebAuthnOn, CalmState, CalmCall
<1>3. Moves(r, Idle) /\ UNCHANGED <<creds, redis, history>>
  BY DEF SwitchWebAuthnOn, Moves, Return
<1> QED BY <1>1, <1>2, <1>3, SettingsCalm

LEMMA DeleteCredentialCalm ==
  ASSUME LoginInv, CalmInv, NEW r \in Calls, DeleteCredential(r)
  PROVE  CalmInv'
<1>1. PICK c, goal, state :
        /\ c \in DOMAIN creds /\ goal \in {"last", "more"}
        /\ goal = (IF CredsOf(creds[c]) = {c} THEN "last" ELSE "more")
        /\ state = [Idle EXCEPT !.pc = "commit", !.user = creds[c], !.cred = c, !.goal = goal]
        /\ Begin(r, state)
  BY DEF DeleteCredential
<1>2. CalmCall(state)
  BY <1>1 DEF Idle, CalmCall
<1>3. UNCHANGED <<settings, creds, tickets, pairs, issuedTo>>
  BY DEF DeleteCredential, factors, redis, history
<1> QED BY <1>1, <1>2, <1>3, CalmQuiet DEF Moves

LEMMA CommitDeleteCalm ==
  ASSUME LoginInv, CalmInv, NEW r \in Calls, CommitDelete(r)
  PROVE  CalmInv'
<1> DEFINE u == calls[r].user
           c == calls[r].cred
           last == calls[r].goal = "last"
<1>1. /\ calls[r].pc = "commit" /\ creds' = Without(creds, c)
      /\ settings' = [settings EXCEPT ![u].webauthn = settings[u].webauthn /\ ~last]
      /\ Moves(r, Idle) /\ UNCHANGED <<tickets, pairs, issuedTo>>
  BY DEF CommitDelete, SwitchAfterDelete, Moves, Return, redis, history
<1>2. CalmState => PairsInv'
  BY <1>1 DEF CalmState, PairsInv
<1>3. ASSUME CalmState, NEW v \in Users, settings'[v].webauthn
      PROVE  \E d \in DOMAIN creds' : creds'[d] = v
  <2>1. c \in DOMAIN creds /\ creds[c] = u /\ (last \/ CredsOf(u) # {c})
    BY <1>1, <1>3 DEF CalmState, CalmCall
  <2>2. settings \in [Users -> Settings]
    BY DEF LoginInv, Tables
  <2>3. settings[v].webauthn /\ (v = u => ~last)
    BY <1>1, <1>3, <2>2 DEF Settings
  <2>4. CredsOf(v) # {}
    BY <1>3, <2>3 DEF CalmState, SwitchInv
  <2>5. \E d \in DOMAIN creds : d # c /\ creds[d] = v
    BY <2>1, <2>3, <2>4 DEF CredsOf
  <2> QED BY <1>1, <2>5 DEF Without
<1>4. CalmState => SwitchInv'
  BY <1>3 DEF SwitchInv, CredsOf
<1> QED BY <1>1, <1>2, <1>4, IdleCalm, CalmStays

LEMMA SettingStepCalm ==
  ASSUME LoginInv, CalmInv, NEW r \in Calls, SettingStep(r)
  PROVE  CalmInv'
BY OneRequestCalm, ManageRecoveryKeyCalm, SetRecoveryKeyCalm, EnableWebAuthnCalm,
   SwitchWebAuthnOnCalm, DeleteCredentialCalm, CommitDeleteCalm DEF SettingStep

\* Handlers that work on flows.
LEMMA NewFlowCalm ==
  ASSUME LoginInv, CalmInv, NEW r \in Calls, NEW flow, NewFlow(r, flow)
  PROVE  CalmInv'
<1>1. Moves(r, Idle) /\ UNCHANGED <<settings, creds, tickets, pairs, issuedTo>>
  BY DEF NewFlow, Request, Moves, factors, history
<1> QED BY <1>1, IdleCalm, CalmQuiet

LEMMA FinishRegistrationCalm ==
  ASSUME LoginInv, CalmInv, NEW r \in Calls, FinishRegistration(r)
  PROVE  CalmInv'
<1>1. PICK f, c, state :
        /\ f \in DOMAIN flows /\ c \in Creds
        /\ state = [Idle EXCEPT !.pc = "insert", !.goal = "register", !.flow = f,
                                !.user = flows[f].user, !.cred = c]
        /\ Begin(r, state)
  BY DEF FinishRegistration
<1>2. CalmCall(state)
  BY <1>1 DEF Idle, CalmCall
<1>3. UNCHANGED <<settings, creds, tickets, pairs, issuedTo>>
  BY DEF FinishRegistration, factors, redis, history
<1> QED BY <1>1, <1>2, <1>3, CalmQuiet DEF Moves

LEMMA InsertCredentialCalm ==
  ASSUME LoginInv, CalmInv, NEW r \in Calls, InsertCredential(r)
  PROVE  CalmInv'
<1>1. PICK state : state = [calls[r] EXCEPT !.pc = "dropFlow"] /\ Goto(r, state)
  BY DEF InsertCredential
<1>2. /\ calls[r].pc # "idle" /\ UNCHANGED <<settings, tickets, pairs, issuedTo>>
      /\ calls[r].cred \notin DOMAIN creds
      /\ creds' = With(creds, calls[r].cred, calls[r].user)
  BY DEF InsertCredential, redis, history
<1>3. \A d \in DOMAIN creds : d \in DOMAIN creds' /\ creds'[d] = creds[d]
  BY <1>2 DEF With
<1>4. CalmState => PairsInv'
  BY <1>2 DEF CalmState, PairsInv
<1>5. CalmState => SwitchInv'
  BY <1>2, <1>3 DEF CalmState, SwitchInv, CredsOf
<1>6. calls[r] \in CallState
  BY DEF LoginInv
<1>7. state.pc = "dropFlow" /\ state.ticket = calls[r].ticket
  BY <1>1, <1>6 DEF CallState
<1>8. CalmState => CalmCall(state)'
  BY <1>2, <1>7 DEF CalmState, CalmCall
<1> QED BY <1>1, <1>2, <1>4, <1>5, <1>8, CalmStays DEF Moves

LEMMA FinishFlowCalm ==
  ASSUME LoginInv, CalmInv, NEW r \in Calls, FinishFlow(r)
  PROVE  CalmInv'
<1>1. PICK f, c, state, ticket :
        /\ f \in DOMAIN flows /\ c \in DOMAIN creds
        /\ Begin(r, state) /\ FlowOpen(f)
        /\ state.pc = "touch" /\ state.ticket = ticket
        /\ ticket = None \/ (flows[f].type = "second_factor" /\ ticket = flows[f].ticket)
  BY DEF FinishFlow, Idle
<1>2. flows[f].type = "second_factor" => flows[f].ticket \in DOMAIN tickets
  BY <1>1 DEF FlowOpen
<1>3. DOMAIN tickets \subseteq Tickets
  BY DEF LoginInv, Tables, IsTable
<1>4. CalmState => CalmCall(state)
  BY <1>1, <1>2, <1>3 DEF CalmState, PairsInv, CalmCall
<1>5. UNCHANGED <<settings, creds, tickets, pairs, issuedTo>>
  BY DEF FinishFlow, factors, redis, history
<1> QED BY <1>1, <1>4, <1>5, CalmQuiet DEF Moves

LEMMA TouchCredentialCalm ==
  ASSUME LoginInv, CalmInv, NEW r \in Calls, TouchCredential(r)
  PROVE  CalmInv'
<1>1. PICK state : state = [calls[r] EXCEPT !.pc = "dropFlow"] /\ Goto(r, state)
  BY DEF TouchCredential
<1>2. calls[r].pc # "idle" /\ UNCHANGED <<settings, creds, tickets, pairs, issuedTo>>
  BY DEF TouchCredential, factors, redis, history
<1>3. CalmState => CalmCall(state)
  BY <1>1, <1>2, CalmNext
<1> QED BY <1>1, <1>2, <1>3, CalmQuiet DEF Moves

LEMMA DropFlowCalm ==
  ASSUME LoginInv, CalmInv, NEW r \in Calls, DropFlow(r)
  PROVE  CalmInv'
<1>1. PICK state \in CallState :
        /\ Goto(r, state) /\ state.ticket \in {None, calls[r].ticket}
        /\ \/ state = Idle
           \/ state.pc = "issue" /\ state.goal = "passkey"
           \/ state.pc = "delTicket" /\ state.goal = "ticket"
           \/ state.pc = "setRecovery"
  BY DropFlowCases
<1>2. calls[r].pc # "idle" /\ UNCHANGED <<settings, creds, tickets, pairs, issuedTo>>
  BY DEF DropFlow, factors, history
<1>3. CalmState => CalmCall(state)
  BY <1>1, <1>2, IdleCalm DEF CalmState, CalmCall
<1> QED BY <1>1, <1>2, <1>3, CalmQuiet DEF Moves

LEMMA FlowStepCalm ==
  ASSUME LoginInv, CalmInv, NEW r \in Calls, FlowStep(r)
  PROVE  CalmInv'
<1>1. CASE BeginRegistration(r) \/ BeginLogin(r) \/ BeginSecondFactor(r)
  BY <1>1, NewFlowCalm DEF BeginRegistration, BeginLogin, BeginSecondFactor
<1> QED BY <1>1, FinishRegistrationCalm, InsertCredentialCalm, FinishFlowCalm,
           TouchCredentialCalm, DropFlowCalm DEF FlowStep

LEMMA CalmStep == LoginInv /\ CalmInv /\ [Next]_vars => CalmInv'
<1> SUFFICES ASSUME LoginInv, CalmInv, [Next]_vars PROVE CalmInv'
  OBVIOUS
<1>1. CASE \/ UNCHANGED vars
           \/ \E f \in DOMAIN flows : FlowExpires(f)
           \/ \E u \in codes : CodeExpires(u)
           \/ \E t \in DOMAIN tickets : TicketExpires(t)
  <2>1. UNCHANGED <<settings, creds, pairs, issuedTo, calls, overlapped>>
    BY <1>1 DEF vars, FlowExpires, CodeExpires, TicketExpires, factors, history
  <2>2. DOMAIN tickets' \subseteq DOMAIN tickets
    BY <1>1 DEF vars, FlowExpires, CodeExpires, TicketExpires, redis, Without
  <2> QED BY <2>1, <2>2
          DEF CalmInv, CalmState, Alone, PairsInv, SwitchInv, CalmCall, CredsOf, SwitchedOn
<1> QED BY <1>1, LoginStepCalm, SettingStepCalm, FlowStepCalm DEF Next, Expire

LEMMA CalmInit == Init => CalmInv
<1> SUFFICES ASSUME Init PROVE CalmState
  BY DEF CalmInv
<1>1. \A r \in Calls : calls[r] = Idle
  BY DEF Init
<1>2. Alone /\ \A r \in Calls : CalmCall(calls[r])
  BY <1>1, IdleState, IdleCalm DEF Alone
<1>3. PairsInv /\ SwitchInv
  BY DEF Init, PairsInv, SwitchInv
<1> QED BY <1>2, <1>3 DEF CalmState

\* With one request at a time, one pair of tokens at most is handed out for a
\* login ticket.
THEOREM OnePair == Spec => []OnePairPerTicket
<1>1. CalmInv => OnePairPerTicket
  BY DEF CalmInv, CalmState, PairsInv, OnePairPerTicket
<1> QED BY <1>1, LoginInvInit, LoginInvStep, CalmInit, CalmStep, PTL DEF Spec

\* With one request at a time, whoever has the WebAuthn switch on has a credential.
THEOREM SwitchIsUsable == Spec => []SwitchHasCredential
<1>1. CalmInv => SwitchHasCredential
  BY DEF CalmInv, CalmState, SwitchInv, SwitchHasCredential
<1> QED BY <1>1, LoginInvInit, LoginInvStep, CalmInit, CalmStep, PTL DEF Spec

\* With one request at a time, a password alone is enough only for a user with no
\* factor but a recovery key.
THEOREM PasswordAlone == Spec => []PasswordAloneOnlyWithoutFactors
<1>1. CalmInv => PasswordAloneOnlyWithoutFactors
  BY DEF CalmInv, CalmState, CalmCall, PasswordAloneOnlyWithoutFactors
<1> QED BY <1>1, LoginInvInit, LoginInvStep, CalmInit, CalmStep, PTL DEF Spec

=============================================================================
