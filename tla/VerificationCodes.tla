------------------------- MODULE VerificationCodes -------------------------
(***************************************************************************)
(* Codes sent by email, the files that hold them, and captchas.            *)
(*                                                                         *)
(* The store is a directory with a file per email, without locks, shared   *)
(* by four purposes: verifying an email, the email second factor, changing *)
(* an email and resetting a password.  Writing a file truncates it and     *)
(* then writes; reading an expired one removes it afterwards; a code is    *)
(* compared in one step and deleted in a later one.  A captcha is compared *)
(* (Redis GET) and deleted (DEL) in two steps as well.                     *)
(*                                                                         *)
(* Codes are drawn at random and taken to be distinct.  One account stands *)
(* for the users table: from its creation, by a registration or by a claim *)
(* of a service, its email and whether that is verified.                   *)
(***************************************************************************)
EXTENDS Naturals

CONSTANTS
  Emails,
  Long, Short,  \* codes of six digits, and of four (password reset)
  Captchas,
  Calls,        \* concurrent HTTP handlers
  None

Codes == Long \cup Short

ASSUME CodeConstants ==
  /\ Long \cap Short = {} /\ (Long \cup Short) \cap Captchas = {}
  /\ None \notin Emails \cup Codes \cup Captchas

VARIABLES
  files,       \* code store: email -> file
  mails,       \* codes that reached a mailbox: [email, code]
  captchas,    \* captchas in Redis
  account,     \* the users row, without an email before it is created
  calls,       \* locals of the handlers in flight
  made,        \* history: codes and captchas handed out
  latest,      \* history: per email, the code a user with the last mail expects to work
  uses,        \* history: how often each code and captcha was accepted, up to 2
  proven,      \* history: emails for which their code was presented, or a service vouched
  overlapped,  \* history: two handlers have been in flight at the same time
  faulted      \* history: a restart, or a failure whose error the code drops

vars == <<files, mails, captchas, account, calls, made, latest, uses, proven, overlapped, faulted>>

\* A file holds a code, or None when it is empty or not JSON; `writers` have it
\* open.
File == [code : Codes \cup {None}, old : BOOLEAN, writers : SUBSET Calls]

Idle == [pc |-> "idle", kind |-> None, email |-> None, code |-> None, captcha |-> None]

CallState ==
  [pc : {"idle", "sweep", "open", "write", "send", "delete", "setVerified", "setPassword",
         "setEmail", "pass", "create"},
   kind : {"ask", "forgot", "verify", "factor", "change", "reset", "register", "claim", None},
   email : Emails \cup {None}, code : Codes \cup {None}, captcha : Captchas \cup {None}]

TypeOK ==
  /\ DOMAIN files \subseteq Emails /\ files \in [DOMAIN files -> File]
  /\ mails \subseteq [email : Emails, code : Codes]
  /\ captchas \subseteq Captchas
  /\ account \in [email : Emails \cup {None}, verified : BOOLEAN]
  /\ calls \in [Calls -> CallState]
  /\ made \subseteq Codes \cup Captchas
  /\ latest \in [Emails -> Codes \cup {None}]
  /\ uses \in [Codes \cup Captchas -> 0..2]
  /\ proven \subseteq Emails
  /\ overlapped \in BOOLEAN /\ faulted \in BOOLEAN

Init ==
  /\ files = <<>> /\ mails = {} /\ captchas = {}
  /\ account = [email |-> None, verified |-> FALSE]
  /\ calls = [r \in Calls |-> Idle]
  /\ made = {} /\ latest = [e \in Emails |-> None] /\ uses = [c \in Codes \cup Captchas |-> 0]
  /\ proven = {} /\ overlapped = FALSE /\ faulted = FALSE

----------------------------------------------------------------------------
\* M_x is x with a plausible mistake; it is used only to show that the properties
\* notice it.

\* codeStore.Get, without the removal of an expired file.
Holds(e, c) == e \in DOMAIN files /\ files[e].code = c /\ ~files[e].old
Expired(e)  == e \in DOMAIN files /\ files[e].code # None /\ files[e].old
Blocked(e)  == \E c \in Codes : Holds(e, c)

Removed(e)     == [x \in DOMAIN files \ {e} |-> files[x]]

\* os.WriteFile truncates the file, or creates it ...
M_Truncated(e, r) ==
  [x \in DOMAIN files \cup {e} |->
     IF x \in DOMAIN files THEN [files[x] EXCEPT !.writers = @ \cup {r}]
     ELSE [code |-> None, old |-> FALSE, writers |-> {r}]]
Truncated(e, r) ==
  [x \in DOMAIN files \cup {e} |->
     IF x # e THEN files[x]
     ELSE [code |-> None, old |-> FALSE,
           writers |-> {r} \cup (IF e \in DOMAIN files THEN files[e].writers ELSE {})]]

\* ... and writes from its start.  The text of a four-digit code does not cover
\* that of a six-digit one; a file removed meanwhile is written to no effect.
Written(e, c, r) ==
  IF e \in DOMAIN files /\ r \in files[e].writers
    THEN [files EXCEPT ![e] = [code |-> IF @.code \in Long /\ c \in Short THEN None ELSE c,
                               old |-> FALSE, writers |-> @.writers \ {r}]]
    ELSE files

\* codeStore.Delete when the mail could not be sent.
M_AfterSendError(e) == files
AfterSendError(e)   == Removed(e)

\* emailCodeRegex: a password is reset with four digits.
FitsReset(c)   == c \in Short

\* tx.Model(user).Updates in ChangeEmail.
M_Changed(e) == [account EXCEPT !.email = e]
Changed(e)   == [email |-> e, verified |-> FALSE]

M_CaptchasAfter(k) == captchas
CaptchasAfter(k)   == captchas \ {k}

Used(c) == uses' = [uses EXCEPT ![c] = IF @ < 2 THEN @ + 1 ELSE @]

Begin(r, state) ==
  /\ calls[r].pc = "idle"
  /\ calls' = [calls EXCEPT ![r] = state]
  /\ overlapped' = (overlapped \/ \E q \in Calls : calls[q].pc # "idle")

Goto(r, state) == calls' = [calls EXCEPT ![r] = state] /\ UNCHANGED overlapped
Return(r)      == Goto(r, Idle)

store   == <<files, mails, made, latest>>
history == <<uses, proven>>

----------------------------------------------------------------------------
\* Sending: for a verification, a second factor or a change of email, unless
\* the email has a code already; for a password reset, past the captcha, always.
Draw(c) == c \notin made /\ made' = made \cup {c}

AskCode(r) ==
  /\ \E e \in Emails, c \in Long :
       /\ ~Blocked(e)
       /\ Draw(c)
       /\ Begin(r, [Idle EXCEPT !.pc = IF Expired(e) THEN "sweep" ELSE "open",
                                !.kind = "ask", !.email = e, !.code = c])
  /\ UNCHANGED <<files, mails, latest, captchas, account, history, faulted>>

\* codeStore.Get removes the expired file it has read, whatever it is by now.
SweepFile(r) ==
  LET call == calls[r] IN
  /\ call.pc = "sweep"
  /\ files' = Removed(call.email)
  /\ Goto(r, IF call.kind = "ask" THEN [call EXCEPT !.pc = "open"] ELSE Idle)
  /\ UNCHANGED <<mails, made, latest, captchas, account, history, faulted>>

OpenFile(r) ==
  LET call == calls[r] IN
  /\ call.pc = "open"
  /\ files' = Truncated(call.email, r)
  /\ latest' = [latest EXCEPT ![call.email] = None]
  /\ Goto(r, [call EXCEPT !.pc = "write"])
  /\ UNCHANGED <<mails, made, captchas, account, history, faulted>>

WriteFile(r) ==
  LET call == calls[r] IN
  /\ call.pc = "write"
  /\ files' = Written(call.email, call.code, r)
  /\ Goto(r, [call EXCEPT !.pc = "send"])
  /\ UNCHANGED <<mails, made, latest, captchas, account, history, faulted>>

SendMail(r) ==
  LET call == calls[r] IN
  /\ call.pc = "send"
  /\ mails' = mails \cup {[email |-> call.email, code |-> call.code]}
  /\ latest' = [latest EXCEPT ![call.email] = IF Expired(call.email) THEN None ELSE call.code]
  /\ Return(r)
  /\ UNCHANGED <<files, made, captchas, account, history, faulted>>

\* Whether the removal worked is not looked at.
SendMailFails(r) ==
  LET call == calls[r] IN
  /\ call.pc = "send"
  /\ \/ files' = AfterSendError(call.email) /\ UNCHANGED faulted
     \/ UNCHANGED files /\ faulted' = TRUE
  /\ Return(r)
  /\ UNCHANGED <<mails, made, latest, captchas, account, history>>

----------------------------------------------------------------------------
\* Presenting a code that came by mail: the handler compares it and then, unless
\* it resets a password, deletes the file before it acts on it.
PresentCode(r) ==
  /\ \E m \in mails, kind \in {"verify", "factor", "change", "reset"} :
       /\ Holds(m.email, m.code)
       /\ kind \in {"factor", "change"} => m.email = account.email
       /\ kind = "reset" => FitsReset(m.code)
       /\ Begin(r, [Idle EXCEPT !.pc = IF kind = "reset" THEN "setPassword" ELSE "delete",
                                !.kind = kind, !.email = m.email, !.code = m.code])
       /\ proven' = IF kind = "verify" THEN proven \cup {m.email} ELSE proven
  /\ UNCHANGED <<store, captchas, account, uses, faulted>>

PresentExpiredCode(r) ==
  /\ \E e \in Emails :
       Expired(e) /\ Begin(r, [Idle EXCEPT !.pc = "sweep", !.kind = "verify", !.email = e])
  /\ UNCHANGED <<store, captchas, account, history, faulted>>

SetPassword(r) ==
  LET call == calls[r] IN
  /\ call.pc = "setPassword"
  /\ IF call.email = account.email
       THEN Used(call.code) /\ Goto(r, [call EXCEPT !.pc = "delete"])
       ELSE Return(r) /\ UNCHANGED uses     \* no row: the code stays
  /\ UNCHANGED <<store, captchas, account, proven, faulted>>

\* codeStore.Delete; whether it worked is not looked at.
DeleteCode(r) ==
  LET call == calls[r] IN
  /\ call.pc = "delete"
  /\ \/ files' = Removed(call.email) /\ UNCHANGED faulted
     \/ UNCHANGED files /\ faulted' = TRUE
  /\ latest' = [latest EXCEPT ![call.email] = None]
  /\ IF call.kind = "reset" THEN UNCHANGED uses ELSE Used(call.code)
  /\ Goto(r, CASE call.kind = "verify" -> [call EXCEPT !.pc = "setVerified"]
               [] call.kind = "change" -> [call EXCEPT !.pc = "setEmail"]
               [] OTHER                -> Idle)
  /\ UNCHANGED <<mails, made, captchas, account, proven>>

\* UPDATE users SET verified WHERE email = the code's.
SetVerified(r) ==
  LET call == calls[r] IN
  /\ call.pc = "setVerified"
  /\ account' = IF account.email = call.email THEN [account EXCEPT !.verified = TRUE] ELSE account
  /\ Return(r)
  /\ UNCHANGED <<store, captchas, history, faulted>>

\* ChangeEmail with another factor than a code.
ChangeEmail(r) ==
  /\ account.email # None
  /\ Begin(r, [Idle EXCEPT !.pc = "setEmail", !.kind = "change", !.email = account.email])
  /\ UNCHANGED <<store, captchas, account, history, faulted>>

SetEmail(r) ==
  LET call == calls[r] IN
  /\ call.pc = "setEmail"
  /\ \E e \in Emails : account' = Changed(e)
  /\ Return(r)
  /\ UNCHANGED <<store, captchas, history, faulted>>

----------------------------------------------------------------------------
\* Past the look for another user with the email: POST /register while captchas
\* are off, and POST /internal/claim-user, with which a service of ops level
\* vouches for the email.
BeginAccount(r) ==
  /\ account.email = None
  /\ \E e \in Emails, kind \in {"register", "claim"} :
       /\ Begin(r, [Idle EXCEPT !.pc = "create", !.kind = kind, !.email = e])
       /\ proven' = IF kind = "claim" THEN proven \cup {e} ELSE proven
  /\ UNCHANGED <<store, captchas, account, uses, faulted>>

\* INSERT: only a claimed user starts with a verified email.
CreateAccount(r) ==
  LET call == calls[r] IN
  /\ call.pc = "create"
  /\ account' = IF account.email # None THEN account
                ELSE [email |-> call.email, verified |-> call.kind = "claim"]
  /\ Return(r)
  /\ UNCHANGED <<store, captchas, history, faulted>>

----------------------------------------------------------------------------
\* Captchas: made for anyone, presented with Register and ForgotPassword.
NewCaptcha(r) ==
  /\ \E k \in Captchas : Draw(k) /\ captchas' = captchas \cup {k}
  /\ Begin(r, Idle)
  /\ UNCHANGED <<files, mails, latest, account, history, faulted>>

PresentCaptcha(r) ==
  /\ \E k \in captchas, kind \in {"register", "forgot"} :
       Begin(r, [Idle EXCEPT !.pc = "pass", !.kind = kind, !.captcha = k])
  /\ UNCHANGED <<store, captchas, account, history, faulted>>

\* DEL, whose error is ignored; then Register goes on for a new email, and
\* ForgotPassword for a known one.
PassCaptcha(r) ==
  LET call == calls[r] IN
  /\ call.pc = "pass"
  /\ \/ captchas' = CaptchasAfter(call.captcha) /\ UNCHANGED faulted
     \/ UNCHANGED captchas /\ faulted' = TRUE
  /\ Used(call.captcha)
  /\ \/ Return(r) /\ UNCHANGED made
     \/ /\ call.kind = "register" /\ account.email = None
        /\ \E e \in Emails :
             Goto(r, [Idle EXCEPT !.pc = "create", !.kind = "register", !.email = e])
        /\ UNCHANGED made
     \/ /\ call.kind = "forgot" /\ account.email # None
        /\ \E c \in Short :
             /\ Draw(c)
             /\ Goto(r, [Idle EXCEPT !.pc = "open", !.kind = "forgot", !.code = c,
                                     !.email = account.email])
  /\ UNCHANGED <<files, mails, latest, account, proven>>

----------------------------------------------------------------------------
CodeExpires(e) ==
  /\ files[e].code # None
  /\ files' = [files EXCEPT ![e].old = TRUE]
  /\ latest' = [latest EXCEPT ![e] = None]
  /\ UNCHANGED <<mails, made, captchas, account, calls, history, overlapped, faulted>>

CaptchaExpires(k) ==
  captchas' = captchas \ {k} /\ UNCHANGED <<store, account, calls, history, overlapped, faulted>>

\* An UPDATE, the INSERT or the first access to the file fails: an error is answered.
CallFails(r) ==
  /\ calls[r].pc \in {"open", "setVerified", "setPassword", "setEmail", "create"}
  /\ Return(r)
  /\ UNCHANGED <<store, captchas, account, history, faulted>>

Restart ==
  /\ calls' = [r \in Calls |-> Idle]
  /\ files' = [e \in DOMAIN files |-> [files[e] EXCEPT !.writers = {}]]
  /\ faulted' = TRUE
  /\ UNCHANGED <<mails, made, latest, captchas, account, history, overlapped>>

Next ==
  \/ \E r \in Calls :
       \/ AskCode(r) \/ SweepFile(r) \/ OpenFile(r) \/ WriteFile(r)
       \/ SendMail(r) \/ SendMailFails(r)
       \/ PresentCode(r) \/ PresentExpiredCode(r) \/ DeleteCode(r)
       \/ SetPassword(r) \/ SetVerified(r) \/ ChangeEmail(r) \/ SetEmail(r)
       \/ BeginAccount(r) \/ CreateAccount(r)
       \/ NewCaptcha(r) \/ PresentCaptcha(r) \/ PassCaptcha(r)
       \/ CallFails(r)
  \/ \E e \in DOMAIN files : CodeExpires(e)
  \/ \E k \in captchas : CaptchaExpires(k)
  \/ Restart

Spec == Init /\ [][Next]_vars

----------------------------------------------------------------------------
\* Safety.

Sending(e) == \E r \in Calls : calls[r].email = e /\ calls[r].pc \in {"write", "send"}

\* With one request at a time and nothing dropped, the code in the last mail works
\* until it expires, is used or is replaced: every store, failed mail and removal
\* leaves the file and the mailbox in step.
LatestMailWorks ==
  ~overlapped /\ ~faulted /\ (\A r \in Calls : calls[r].pc = "idle") =>
    \A e \in Emails : latest[e] # None => Holds(e, latest[e])

\* A code that makes the senders answer "already sent" has been sent, however
\* requests interleave: a sender that fails takes its file away.
BlockingCodeWasSent ==
  ~faulted =>
    \A e \in Emails, c \in Codes :
      Holds(e, c) /\ ~Sending(e) => [email |-> e, code |-> c] \in mails

\* With one request at a time and nothing dropped, a code or a captcha is accepted
\* once (verifyCode, VerifyCode, verifyAnyFactor, ResetPassword, Verify).
AcceptedOnce ==
  ~overlapped /\ ~faulted => \A c \in Codes \cup Captchas : uses[c] <= 1

\* The account is verified only if the code sent to its present email has been
\* presented, or a service of ops level has claimed the account with that email,
\* although requests to create it, to verify and to change the email interleave.
VerifiedMeansProven == account.verified => account.email \in proven
=============================================================================
