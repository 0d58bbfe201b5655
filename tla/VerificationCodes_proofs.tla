---------------------- MODULE VerificationCodes_proofs ----------------------
(***************************************************************************)
(* Theorems about VerificationCodes, for any emails, codes, captchas and   *)
(* handlers.                                                               *)
(***************************************************************************)
EXTENDS VerificationCodes, Sequences, TLAPS

\* A handler that is past its first step has an email, and one that makes or
\* presents a code has that.
HasCode(state) ==
  \/ state.pc \in {"open", "write", "send", "delete", "setPassword"}
  \/ state.pc = "sweep" /\ state.kind = "ask"

CallInv ==
  \A r \in Calls :
    /\ calls[r].pc \notin {"idle", "pass"} => calls[r].email \in Emails
    /\ HasCode(calls[r]) => calls[r].code \in Codes
    /\ calls[r].pc = "pass" => calls[r].captcha \in Captchas

TypeInv == TypeOK /\ CallInv

----------------------------------------------------------------------------
\* Moves of one handler.

LEMMA IdleState == Idle \in CallState /\ Idle.pc = "idle"
BY DEF Idle, CallState

LEMMA Moves ==
  ASSUME TypeInv, NEW r \in Calls, NEW state \in CallState,
         calls' = [calls EXCEPT ![r] = state]
  PROVE  /\ calls' \in [Calls -> CallState]
         /\ calls'[r] = state
         /\ \A q \in Calls : q # r => calls'[q] = calls[q]
BY DEF TypeInv, TypeOK

LEMMA CallsKept ==
  ASSUME TypeInv, NEW r \in Calls, NEW state \in CallState,
         calls' = [calls EXCEPT ![r] = state],
         state.pc \notin {"idle", "pass"} => state.email \in Emails,
         HasCode(state) => state.code \in Codes,
         state.pc = "pass" => state.captcha \in Captchas
  PROVE  calls' \in [Calls -> CallState] /\ CallInv'
BY Moves DEF TypeInv, CallInv

LEMMA ReturnKeeps ==
  ASSUME TypeInv, NEW r \in Calls, calls' = [calls EXCEPT ![r] = Idle]
  PROVE  calls' \in [Calls -> CallState] /\ CallInv'
BY IdleState, CallsKept DEF HasCode

\* The next step of the same handler, with the same locals.
LEMMA PcMoves ==
  ASSUME TypeInv, NEW r \in Calls,
         NEW pc \in {"open", "write", "send", "delete", "setVerified", "setEmail"}
  PROVE  LET state == [calls[r] EXCEPT !.pc = pc] IN
         /\ state \in CallState
         /\ state.pc = pc /\ state.kind = calls[r].kind /\ state.email = calls[r].email
         /\ state.code = calls[r].code /\ state.captcha = calls[r].captcha
BY DEF TypeInv, TypeOK, CallState

LEMMA PcKeeps ==
  ASSUME TypeInv, NEW r \in Calls,
         NEW pc \in {"open", "write", "send", "delete", "setVerified", "setEmail"},
         calls' = [calls EXCEPT ![r] = [calls[r] EXCEPT !.pc = pc]],
         calls[r].pc \notin {"idle", "pass"},
         pc \in {"open", "write", "send", "delete"} => HasCode(calls[r])
  PROVE  calls' \in [Calls -> CallState] /\ CallInv'
<1> DEFINE state == [calls[r] EXCEPT !.pc = pc]
<1>1. /\ state \in CallState
      /\ state.pc = pc /\ state.email = calls[r].email /\ state.code = calls[r].code
  BY PcMoves
<1>2. state.email \in Emails
  BY <1>1 DEF TypeInv, CallInv
<1>3. HasCode(state) => state.code \in Codes
  BY <1>1 DEF TypeInv, CallInv, HasCode
<1>4. calls' = [calls EXCEPT ![r] = state]
  OBVIOUS
<1> HIDE DEF state
<1> QED BY <1>1, <1>2, <1>3, <1>4, CallsKept

----------------------------------------------------------------------------
\* Files.

IsFiles(t) == DOMAIN t \subseteq Emails /\ t \in [DOMAIN t -> File]

LEMMA SomeFiles == TypeInv => IsFiles(files)
BY DEF TypeInv, TypeOK, IsFiles

LEMMA RemovedFiles ==
  ASSUME TypeInv, NEW e
  PROVE  /\ IsFiles(Removed(e)) /\ DOMAIN Removed(e) = DOMAIN files \ {e}
         /\ \A x \in DOMAIN files \ {e} : Removed(e)[x] = files[x]
BY DEF TypeInv, TypeOK, IsFiles, Removed

LEMMA TruncatedFiles ==
  ASSUME TypeInv, NEW e \in Emails, NEW r \in Calls
  PROVE  /\ IsFiles(Truncated(e, r)) /\ DOMAIN Truncated(e, r) = DOMAIN files \cup {e}
         /\ \A x \in DOMAIN files : x # e => Truncated(e, r)[x] = files[x]
         /\ Truncated(e, r)[e].code = None /\ r \in Truncated(e, r)[e].writers
<1> DEFINE new == [code |-> None, old |-> FALSE,
                   writers |-> {r} \cup (IF e \in DOMAIN files THEN files[e].writers ELSE {})]
<1>1. DOMAIN files \subseteq Emails /\ files \in [DOMAIN files -> File]
  BY DEF TypeInv, TypeOK
<1>2. e \in DOMAIN files => files[e].writers \subseteq Calls
  BY <1>1 DEF File
<1>3. new \in File /\ new.code = None /\ r \in new.writers
  BY <1>2 DEF File
<1>4. Truncated(e, r) = [x \in DOMAIN files \cup {e} |-> IF x # e THEN files[x] ELSE new]
  BY DEF Truncated
<1> HIDE DEF new
<1> QED BY <1>1, <1>3, <1>4 DEF IsFiles

LEMMA WrittenFiles ==
  ASSUME TypeInv, NEW e \in Emails, NEW c \in Codes, NEW r \in Calls
  PROVE  /\ IsFiles(Written(e, c, r)) /\ DOMAIN Written(e, c, r) = DOMAIN files
         /\ \A x \in DOMAIN files : x # e => Written(e, c, r)[x] = files[x]
         /\ e \in DOMAIN files => Written(e, c, r)[e].code \in {files[e].code, c, None}
         /\ e \in DOMAIN files /\ r \in files[e].writers /\ files[e].code = None =>
              Written(e, c, r)[e].code = c
<1>1. DOMAIN files \subseteq Emails /\ files \in [DOMAIN files -> File]
  BY DEF TypeInv, TypeOK
<1>2. CASE e \in DOMAIN files /\ r \in files[e].writers
  <2> DEFINE new == [code |-> IF files[e].code \in Long /\ c \in Short THEN None ELSE c,
                     old |-> FALSE, writers |-> files[e].writers \ {r}]
  <2>1. files[e] \in File
    BY <1>1, <1>2
  <2>2. /\ new \in File /\ new.code \in {c, None}
        /\ files[e].code = None => new.code = c
    BY <2>1, CodeConstants DEF File, Codes
  <2>3. Written(e, c, r) = [files EXCEPT ![e] = new]
    BY <1>2 DEF Written
  <2> HIDE DEF new
  <2> QED BY <1>1, <1>2, <2>2, <2>3 DEF IsFiles
<1>3. CASE ~(e \in DOMAIN files /\ r \in files[e].writers)
  BY <1>1, <1>3 DEF Written, IsFiles
<1> QED BY <1>2, <1>3

\* The file of an email gets older.
LEMMA OlderFiles ==
  ASSUME TypeInv, NEW e \in DOMAIN files, files' = [files EXCEPT ![e].old = TRUE]
  PROVE  /\ IsFiles(files') /\ DOMAIN files' = DOMAIN files
         /\ \A x \in DOMAIN files : x # e => files'[x] = files[x]
         /\ files'[e].code = files[e].code /\ files'[e].writers = files[e].writers
<1> DEFINE new == [files[e] EXCEPT !.old = TRUE]
<1>1. DOMAIN files \subseteq Emails /\ files \in [DOMAIN files -> File]
  BY DEF TypeInv, TypeOK
<1>2. new \in File /\ new.code = files[e].code /\ new.writers = files[e].writers
  BY <1>1 DEF File
<1>3. files' = [files EXCEPT ![e] = new]
  OBVIOUS
<1> HIDE DEF new
<1> QED BY <1>1, <1>2, <1>3 DEF IsFiles

\* After a restart nobody has a file open.
LEMMA ClosedFiles ==
  ASSUME TypeInv, files' = [e \in DOMAIN files |-> [files[e] EXCEPT !.writers = {}]]
  PROVE  IsFiles(files')
<1>1. \A e \in DOMAIN files : [files[e] EXCEPT !.writers = {}] \in File
  BY DEF TypeInv, TypeOK, File
<1> QED BY <1>1 DEF IsFiles, TypeInv, TypeOK

LEMMA UsedCodes ==
  ASSUME TypeInv, NEW c \in Codes \cup Captchas, Used(c)
  PROVE  /\ uses' \in [Codes \cup Captchas -> 0..2]
         /\ uses[c] = 0 => uses'[c] = 1
         /\ \A d \in Codes \cup Captchas : d # c => uses'[d] = uses[d]
BY DEF TypeInv, TypeOK, Used

----------------------------------------------------------------------------
\* Types.

LEMMA SendingTypes ==
  ASSUME TypeInv, NEW r \in Calls,
         \/ AskCode(r) \/ SweepFile(r) \/ OpenFile(r) \/ WriteFile(r)
         \/ SendMail(r) \/ SendMailFails(r)
  PROVE  TypeInv'
<1>1. CASE AskCode(r)
  <2>1. PICK e \in Emails, c \in Long :
          /\ Draw(c)
          /\ Begin(r, [Idle EXCEPT !.pc = IF Expired(e) THEN "sweep" ELSE "open",
                                   !.kind = "ask", !.email = e, !.code = c])
    BY <1>1 DEF AskCode
  <2> DEFINE state == [Idle EXCEPT !.pc = IF Expired(e) THEN "sweep" ELSE "open",
                                   !.kind = "ask", !.email = e, !.code = c]
  <2>2. /\ state \in CallState /\ state.email = e /\ state.code = c
        /\ state.pc \in {"sweep", "open"}
    BY DEF Idle, CallState, Codes
  <2>3. calls' = [calls EXCEPT ![r] = state] /\ overlapped' \in BOOLEAN
    BY <2>1 DEF Begin
  <2> HIDE DEF state
  <2>4. calls' \in [Calls -> CallState] /\ CallInv'
    BY <2>2, <2>3, CallsKept DEF Codes
  <2>5. made' \subseteq Codes \cup Captchas
    BY <2>1 DEF Draw, TypeInv, TypeOK, Codes
  <2> QED BY <1>1, <2>3, <2>4, <2>5 DEF AskCode, history, TypeInv, TypeOK
<1>2. CASE SweepFile(r)
  <2>1. calls' \in [Calls -> CallState] /\ CallInv' /\ UNCHANGED overlapped
    BY <1>2, ReturnKeeps, PcKeeps DEF SweepFile, Goto, HasCode
  <2>2. IsFiles(files')
    BY <1>2, RemovedFiles DEF SweepFile
  <2> QED BY <1>2, <2>1, <2>2 DEF SweepFile, history, TypeInv, TypeOK, IsFiles
<1>3. CASE OpenFile(r)
  <2>1. calls' \in [Calls -> CallState] /\ CallInv' /\ UNCHANGED overlapped
    BY <1>3, PcKeeps DEF OpenFile, Goto, HasCode
  <2>2. IsFiles(files')
    BY <1>3, TruncatedFiles DEF OpenFile, TypeInv, CallInv
  <2>3. latest' \in [Emails -> Codes \cup {None}]
    BY <1>3 DEF OpenFile, TypeInv, TypeOK
  <2> QED BY <1>3, <2>1, <2>2, <2>3 DEF OpenFile, history, TypeInv, TypeOK, IsFiles
<1>4. CASE WriteFile(r)
  <2>1. calls' \in [Calls -> CallState] /\ CallInv' /\ UNCHANGED overlapped
    BY <1>4, PcKeeps DEF WriteFile, Goto, HasCode
  <2>2. IsFiles(files')
    BY <1>4, WrittenFiles DEF WriteFile, TypeInv, CallInv, HasCode
  <2> QED BY <1>4, <2>1, <2>2 DEF WriteFile, history, TypeInv, TypeOK, IsFiles
<1>5. CASE SendMail(r)
  <2>1. calls' \in [Calls -> CallState] /\ CallInv' /\ UNCHANGED overlapped
    BY <1>5, ReturnKeeps DEF SendMail, Return, Goto
  <2>2. calls[r].email \in Emails /\ calls[r].code \in Codes
    BY <1>5 DEF SendMail, TypeInv, CallInv, HasCode
  <2>3. latest' \in [Emails -> Codes \cup {None}]
    BY <1>5, <2>2 DEF SendMail, TypeInv, TypeOK
  <2>4. mails' \subseteq [email : Emails, code : Codes]
    BY <1>5, <2>2 DEF SendMail, TypeInv, TypeOK
  <2> QED BY <1>5, <2>1, <2>3, <2>4 DEF SendMail, history, TypeInv, TypeOK
<1>6. CASE SendMailFails(r)
  <2>1. calls' \in [Calls -> CallState] /\ CallInv' /\ UNCHANGED overlapped
    BY <1>6, ReturnKeeps DEF SendMailFails, Return, Goto
  <2>2. (files' = Removed(calls[r].email) \/ files' = files) /\ faulted' \in BOOLEAN
    BY <1>6 DEF SendMailFails, AfterSendError, TypeInv, TypeOK
  <2>3. IsFiles(files')
    BY <2>2, RemovedFiles, SomeFiles
  <2> QED BY <1>6, <2>1, <2>2, <2>3 DEF SendMailFails, history, TypeInv, TypeOK, IsFiles
<1> QED BY <1>1, <1>2, <1>3, <1>4, <1>5, <1>6

\* Presenting a code or an expired one, and ChangeEmail, begin a handler.
LEMMA BeginTypes ==
  ASSUME TypeInv, NEW r \in Calls, NEW state \in CallState, Begin(r, state),
         state.pc \notin {"idle", "pass"} => state.email \in Emails,
         HasCode(state) => state.code \in Codes,
         state.pc = "pass" => state.captcha \in Captchas,
         proven' \subseteq Emails, UNCHANGED <<store, captchas, account, uses, faulted>>
  PROVE  TypeInv'
<1>1. calls' = [calls EXCEPT ![r] = state] /\ overlapped' \in BOOLEAN
  BY DEF Begin
<1>2. calls' \in [Calls -> CallState] /\ CallInv'
  BY <1>1, CallsKept
<1> QED BY <1>1, <1>2 DEF store, TypeInv, TypeOK

\* What PresentCode begins.
Presented(m, kind) ==
  [Idle EXCEPT !.pc = IF kind = "reset" THEN "setPassword" ELSE "delete",
               !.kind = kind, !.email = m.email, !.code = m.code]

LEMMA PresentingTypes ==
  ASSUME TypeInv, NEW r \in Calls,
         PresentCode(r) \/ PresentExpiredCode(r) \/ ChangeEmail(r) \/ BeginAccount(r)
  PROVE  TypeInv'
<1>1. CASE PresentCode(r)
  <2>1. PICK m \in mails, kind \in {"verify", "factor", "change", "reset"} :
          /\ Begin(r, Presented(m, kind))
          /\ proven' = IF kind = "verify" THEN proven \cup {m.email} ELSE proven
    BY <1>1 DEF PresentCode, Presented
  <2>2. m.email \in Emails /\ m.code \in Codes
    BY DEF TypeInv, TypeOK
  <2>3. /\ Presented(m, kind) \in CallState
        /\ Presented(m, kind).pc \in {"delete", "setPassword"}
        /\ Presented(m, kind).email = m.email /\ Presented(m, kind).code = m.code
    BY <2>2 DEF Presented, Idle, CallState
  <2>4. proven' \subseteq Emails
    BY <2>1, <2>2 DEF TypeInv, TypeOK
  <2> QED BY <1>1, <2>1, <2>2, <2>3, <2>4, BeginTypes DEF PresentCode
<1>2. CASE PresentExpiredCode(r)
  <2>1. PICK e \in Emails : Begin(r, [Idle EXCEPT !.pc = "sweep", !.kind = "verify", !.email = e])
    BY <1>2 DEF PresentExpiredCode
  <2> DEFINE state == [Idle EXCEPT !.pc = "sweep", !.kind = "verify", !.email = e]
  <2>2. state \in CallState /\ state.pc = "sweep" /\ state.kind = "verify" /\ state.email = e
    BY DEF Idle, CallState
  <2>3. Begin(r, state)
    BY <2>1
  <2> HIDE DEF state
  <2> QED BY <1>2, <2>2, <2>3, BeginTypes DEF PresentExpiredCode, HasCode, history, TypeInv, TypeOK
<1>3. CASE ChangeEmail(r)
  <2> DEFINE state == [Idle EXCEPT !.pc = "setEmail", !.kind = "change", !.email = account.email]
  <2>1. account.email \in Emails
    BY <1>3 DEF ChangeEmail, TypeInv, TypeOK
  <2>2. state \in CallState /\ state.pc = "setEmail" /\ state.email = account.email
    BY <2>1 DEF Idle, CallState
  <2>3. Begin(r, state)
    BY <1>3 DEF ChangeEmail
  <2> HIDE DEF state
  <2> QED BY <1>3, <2>1, <2>2, <2>3, BeginTypes DEF ChangeEmail, HasCode, history, TypeInv, TypeOK
<1>4. CASE BeginAccount(r)
  <2>1. PICK e \in Emails, kind \in {"register", "claim"} :
          /\ Begin(r, [Idle EXCEPT !.pc = "create", !.kind = kind, !.email = e])
          /\ proven' = IF kind = "claim" THEN proven \cup {e} ELSE proven
    BY <1>4 DEF BeginAccount
  <2> DEFINE state == [Idle EXCEPT !.pc = "create", !.kind = kind, !.email = e]
  <2>2. state \in CallState /\ state.pc = "create" /\ state.email = e
    BY DEF Idle, CallState
  <2>3. Begin(r, state)
    BY <2>1
  <2>4. proven' \subseteq Emails
    BY <2>1 DEF TypeInv, TypeOK
  <2> HIDE DEF state
  <2> QED BY <1>4, <2>2, <2>3, <2>4, BeginTypes DEF BeginAccount, HasCode
<1> QED BY <1>1, <1>2, <1>3, <1>4

LEMMA UsingTypes ==
  ASSUME TypeInv, NEW r \in Calls,
         SetPassword(r) \/ DeleteCode(r) \/ SetVerified(r) \/ SetEmail(r) \/ CreateAccount(r)
  PROVE  TypeInv'
<1>1. CASE SetPassword(r)
  <2>1. calls' \in [Calls -> CallState] /\ CallInv' /\ UNCHANGED overlapped
    BY <1>1, ReturnKeeps, PcKeeps DEF SetPassword, Return, Goto, HasCode
  <2>2. uses' \in [Codes \cup Captchas -> 0..2]
    BY <1>1, UsedCodes DEF SetPassword, TypeInv, TypeOK, CallInv, HasCode
  <2> QED BY <1>1, <2>1, <2>2 DEF SetPassword, store, TypeInv, TypeOK
<1>2. CASE DeleteCode(r)
  <2>1. calls' \in [Calls -> CallState] /\ CallInv' /\ UNCHANGED overlapped
    BY <1>2, ReturnKeeps, PcKeeps DEF DeleteCode, Goto, HasCode
  <2>2. uses' \in [Codes \cup Captchas -> 0..2]
    BY <1>2, UsedCodes DEF DeleteCode, TypeInv, TypeOK, CallInv, HasCode
  <2>3. IsFiles(files')
    BY <1>2, RemovedFiles, SomeFiles DEF DeleteCode
  <2>4. latest' \in [Emails -> Codes \cup {None}] /\ faulted' \in BOOLEAN
    BY <1>2 DEF DeleteCode, TypeInv, TypeOK
  <2> QED BY <1>2, <2>1, <2>2, <2>3, <2>4 DEF DeleteCode, TypeInv, TypeOK, IsFiles
<1>3. CASE SetVerified(r)
  <2>1. calls' \in [Calls -> CallState] /\ CallInv' /\ UNCHANGED overlapped
    BY <1>3, ReturnKeeps DEF SetVerified, Return, Goto
  <2>2. account' \in [email : Emails \cup {None}, verified : BOOLEAN]
    BY <1>3 DEF SetVerified, TypeInv, TypeOK
  <2> QED BY <1>3, <2>1, <2>2 DEF SetVerified, store, history, TypeInv, TypeOK
<1>4. CASE SetEmail(r)
  <2>1. calls' \in [Calls -> CallState] /\ CallInv' /\ UNCHANGED overlapped
    BY <1>4, ReturnKeeps DEF SetEmail, Return, Goto
  <2>2. account' \in [email : Emails \cup {None}, verified : BOOLEAN]
    BY <1>4 DEF SetEmail, Changed, TypeInv, TypeOK
  <2> QED BY <1>4, <2>1, <2>2 DEF SetEmail, store, history, TypeInv, TypeOK
<1>5. CASE CreateAccount(r)
  <2>1. calls' \in [Calls -> CallState] /\ CallInv' /\ UNCHANGED overlapped
    BY <1>5, ReturnKeeps DEF CreateAccount, Return, Goto
  <2>2. account' \in [email : Emails \cup {None}, verified : BOOLEAN]
    BY <1>5 DEF CreateAccount, TypeInv, TypeOK, CallInv
  <2> QED BY <1>5, <2>1, <2>2 DEF CreateAccount, store, history, TypeInv, TypeOK
<1> QED BY <1>1, <1>2, <1>3, <1>4, <1>5

LEMMA CaptchaTypes ==
  ASSUME TypeInv, NEW r \in Calls, NewCaptcha(r) \/ PresentCaptcha(r) \/ PassCaptcha(r)
  PROVE  TypeInv'
<1>1. CASE NewCaptcha(r)
  <2>1. PICK k \in Captchas : Draw(k) /\ captchas' = captchas \cup {k}
    BY <1>1 DEF NewCaptcha
  <2>2. calls' = [calls EXCEPT ![r] = Idle] /\ overlapped' \in BOOLEAN
    BY <1>1 DEF NewCaptcha, Begin
  <2>3. calls' \in [Calls -> CallState] /\ CallInv'
    BY <2>2, ReturnKeeps
  <2> QED BY <1>1, <2>1, <2>2, <2>3 DEF NewCaptcha, Draw, history, TypeInv, TypeOK
<1>2. CASE PresentCaptcha(r)
  <2>1. PICK k \in captchas, kind \in {"register", "forgot"} :
          Begin(r, [Idle EXCEPT !.pc = "pass", !.kind = kind, !.captcha = k])
    BY <1>2 DEF PresentCaptcha
  <2> DEFINE state == [Idle EXCEPT !.pc = "pass", !.kind = kind, !.captcha = k]
  <2>2. state \in CallState /\ state.pc = "pass" /\ state.captcha = k /\ k \in Captchas
    BY DEF Idle, CallState, TypeInv, TypeOK
  <2>3. Begin(r, state)
    BY <2>1
  <2> HIDE DEF state
  <2> QED BY <1>2, <2>2, <2>3, BeginTypes DEF PresentCaptcha, HasCode, history, TypeInv, TypeOK
<1>3. CASE PassCaptcha(r)
  <2>1. calls[r].captcha \in Captchas
    BY <1>3 DEF PassCaptcha, TypeInv, CallInv
  <2>2. uses' \in [Codes \cup Captchas -> 0..2]
    BY <1>3, <2>1, UsedCodes DEF PassCaptcha
  <2>3. captchas' \subseteq Captchas /\ faulted' \in BOOLEAN
    BY <1>3 DEF PassCaptcha, CaptchasAfter, TypeInv, TypeOK
  <2>4. /\ calls' \in [Calls -> CallState] /\ CallInv'
        /\ UNCHANGED overlapped /\ made' \subseteq Codes \cup Captchas
    <3>1. CASE Return(r) /\ UNCHANGED made
      BY <3>1, ReturnKeeps DEF Return, Goto, TypeInv, TypeOK
    <3>2. ASSUME NEW c \in Short, Draw(c), account.email # None,
                 Goto(r, [Idle EXCEPT !.pc = "open", !.kind = "forgot", !.code = c,
                                      !.email = account.email])
          PROVE  <2>4!:
      <4> DEFINE state == [Idle EXCEPT !.pc = "open", !.kind = "forgot", !.code = c,
                                       !.email = account.email]
      <4>1. c \in Codes /\ account.email \in Emails
        BY <3>2 DEF Codes, TypeInv, TypeOK
      <4>2. /\ state \in CallState /\ state.pc = "open" /\ state.code = c
            /\ state.email = account.email
        BY <4>1 DEF Idle, CallState
      <4>3. calls' = [calls EXCEPT ![r] = state] /\ UNCHANGED overlapped
        BY <3>2 DEF Goto
      <4> HIDE DEF state
      <4>4. calls' \in [Calls -> CallState] /\ CallInv'
        BY <4>1, <4>2, <4>3, CallsKept
      <4> QED BY <3>2, <4>1, <4>3, <4>4 DEF Draw, TypeInv, TypeOK
    <3>3. ASSUME NEW e \in Emails, UNCHANGED made,
                 Goto(r, [Idle EXCEPT !.pc = "create", !.kind = "register", !.email = e])
          PROVE  <2>4!:
      <4> DEFINE state == [Idle EXCEPT !.pc = "create", !.kind = "register", !.email = e]
      <4>1. state \in CallState /\ state.pc = "create" /\ state.email = e
        BY DEF Idle, CallState
      <4>2. calls' = [calls EXCEPT ![r] = state] /\ UNCHANGED overlapped
        BY <3>3 DEF Goto
      <4> HIDE DEF state
      <4>3. calls' \in [Calls -> CallState] /\ CallInv'
        BY <4>1, <4>2, CallsKept DEF HasCode
      <4> QED BY <3>3, <4>2, <4>3 DEF TypeInv, TypeOK
    <3> QED BY <1>3, <3>1, <3>2, <3>3 DEF PassCaptcha
  <2> QED BY <1>3, <2>2, <2>3, <2>4 DEF PassCaptcha, TypeInv, TypeOK
<1> QED BY <1>1, <1>2, <1>3

LEMMA TypeStep == TypeInv /\ [Next]_vars => TypeInv'
<1> SUFFICES ASSUME TypeInv, [Next]_vars PROVE TypeInv'
  OBVIOUS
<1>1. ASSUME NEW r \in Calls, CallFails(r) PROVE TypeInv'
  <2>1. calls' \in [Calls -> CallState] /\ CallInv' /\ UNCHANGED overlapped
    BY <1>1, ReturnKeeps DEF CallFails, Return, Goto
  <2> QED BY <1>1, <2>1 DEF CallFails, store, history, TypeInv, TypeOK
<1>2. ASSUME NEW e \in DOMAIN files, CodeExpires(e) PROVE TypeInv'
  <2>1. IsFiles(files')
    BY <1>2, OlderFiles DEF CodeExpires
  <2> QED BY <1>2, <2>1 DEF CodeExpires, history, TypeInv, TypeOK, CallInv, IsFiles
<1>3. ASSUME NEW k \in captchas, CaptchaExpires(k) PROVE TypeInv'
  BY <1>3 DEF CaptchaExpires, store, history, TypeInv, TypeOK, CallInv
<1>4. CASE Restart
  <2>1. IsFiles(files')
    BY <1>4, ClosedFiles DEF Restart
  <2>2. calls' \in [Calls -> CallState] /\ CallInv'
    BY <1>4, IdleState DEF Restart, CallInv, HasCode
  <2> QED BY <1>4, <2>1, <2>2 DEF Restart, history, TypeInv, TypeOK, IsFiles
<1>5. CASE UNCHANGED vars
  BY <1>5 DEF vars, TypeInv, TypeOK, CallInv
<1> QED BY <1>1, <1>2, <1>3, <1>4, <1>5, SendingTypes, PresentingTypes, UsingTypes, CaptchaTypes
        DEF Next

LEMMA TypeInit == Init => TypeInv
<1> SUFFICES ASSUME Init PROVE TypeInv
  OBVIOUS
<1>1. DOMAIN files = {}
  <2>1. files \in Seq({}) /\ Len(files) = 0
    BY DEF Init
  <2> QED BY <2>1
<1>2. files \in [DOMAIN files -> File] /\ DOMAIN files \subseteq Emails
  BY <1>1 DEF Init
<1>3. calls \in [Calls -> CallState] /\ CallInv
  BY IdleState DEF Init, CallInv, HasCode
<1>4. /\ account \in [email : Emails \cup {None}, verified : BOOLEAN]
      /\ latest \in [Emails -> Codes \cup {None}] /\ uses \in [Codes \cup Captchas -> 0..2]
  BY CodeConstants DEF Init
<1>5. /\ mails \subseteq [email : Emails, code : Codes] /\ captchas \subseteq Captchas
      /\ made \subseteq Codes \cup Captchas /\ proven \subseteq Emails
      /\ overlapped \in BOOLEAN /\ faulted \in BOOLEAN
  BY DEF Init
<1> QED BY <1>2, <1>3, <1>4, <1>5 DEF TypeInv, TypeOK

\* The variables keep their types: in particular each file is one of a known email
\* and holds a code that was made, or none.
THEOREM TypeCorrect == Spec => []TypeOK
<1>1. TypeInv => TypeOK
  BY DEF TypeInv
<1> QED BY <1>1, TypeInit, TypeStep, PTL DEF Spec

----------------------------------------------------------------------------
\* Verified emails.

\* A handler that is about to verify an email, or to create an account that is
\* verified, has had its code presented or acts for a service.
Vouched(state) ==
  \/ state.pc = "setVerified"
  \/ state.kind \in {"verify", "claim"} /\ state.pc \notin {"idle", "sweep"}

ProvenInv ==
  /\ VerifiedMeansProven
  /\ \A r \in Calls : Vouched(calls[r]) => calls[r].email \in proven

LEMMA ProvenKept ==
  ASSUME TypeInv, ProvenInv, NEW r \in Calls, NEW state, calls' = [calls EXCEPT ![r] = state],
         Vouched(state) => state.email \in proven', proven \subseteq proven',
         account' = account \/ VerifiedMeansProven'
  PROVE  ProvenInv'
<1>1. VerifiedMeansProven'
  BY DEF ProvenInv, VerifiedMeansProven
<1>2. calls'[r] = state /\ \A q \in Calls : q # r => calls'[q] = calls[q]
  BY DEF TypeInv, TypeOK
<1> QED BY <1>1, <1>2 DEF ProvenInv

\* A handler that goes on for the same purpose is as vouched for as before.
LEMMA ProvenOnward ==
  ASSUME TypeInv, ProvenInv, NEW r \in Calls,
         NEW pc \in {"open", "write", "send", "delete", "setVerified", "setEmail"},
         calls' = [calls EXCEPT ![r] = [calls[r] EXCEPT !.pc = pc]],
         calls[r].pc \notin {"idle", "sweep"} \/ calls[r].kind = "ask",
         pc = "setVerified" => calls[r].kind = "verify",
         UNCHANGED <<account, proven>>
  PROVE  ProvenInv'
<1>1. PICK state : state = [calls[r] EXCEPT !.pc = pc]
  OBVIOUS
<1>2. state.pc = pc /\ state.kind = calls[r].kind /\ state.email = calls[r].email
  BY <1>1, PcMoves
<1>3. Vouched(state) => state.email \in proven'
  BY <1>2 DEF Vouched, ProvenInv
<1>4. calls' = [calls EXCEPT ![r] = state] /\ proven \subseteq proven'
  BY <1>1
<1> QED BY <1>3, <1>4, ProvenKept

\* The code is compared before its email is marked, a claim is authorised before
\* its row is inserted, and a change of email takes the mark away.
LEMMA VerifiedStep == TypeInv /\ ProvenInv /\ [Next]_vars => ProvenInv'
<1> SUFFICES ASSUME TypeInv, ProvenInv, [Next]_vars PROVE ProvenInv'
  OBVIOUS
<1>i. ~Vouched(Idle)
  BY DEF Vouched, Idle
<1>1. CASE UNCHANGED <<account, proven, calls>>
  BY <1>1 DEF ProvenInv, VerifiedMeansProven
<1>2. ASSUME NEW r \in Calls, SetVerified(r) \/ CreateAccount(r) \/ SetEmail(r) PROVE ProvenInv'
  <2>1. calls' = [calls EXCEPT ![r] = Idle] /\ UNCHANGED proven
    BY <1>2 DEF SetVerified, CreateAccount, SetEmail, Return, Goto, history
  <2>2. Vouched(calls[r]) => calls[r].email \in proven
    BY DEF ProvenInv
  <2>3. account' = account \/ VerifiedMeansProven'
    <3>1. CASE SetVerified(r)
      BY <2>1, <2>2, <3>1 DEF SetVerified, Vouched, VerifiedMeansProven, TypeInv, TypeOK
    <3>2. CASE CreateAccount(r)
      BY <2>1, <2>2, <3>2 DEF CreateAccount, Vouched, VerifiedMeansProven
    <3>3. CASE SetEmail(r)
      BY <3>3 DEF SetEmail, Changed, VerifiedMeansProven
    <3> QED BY <1>2, <3>1, <3>2, <3>3
  <2> QED BY <1>i, <2>1, <2>3, ProvenKept
<1>3. ASSUME NEW r \in Calls, UNCHANGED <<account, proven>>, calls' = [calls EXCEPT ![r] = Idle]
      PROVE  ProvenInv'
  BY <1>i, <1>3, ProvenKept
<1>4. ASSUME NEW r \in Calls, NEW state, Begin(r, state), ~Vouched(state),
             UNCHANGED <<account, proven>>
      PROVE  ProvenInv'
  BY <1>4, ProvenKept DEF Begin
<1>5. ASSUME NEW r \in Calls,
             \/ SendMail(r) \/ SendMailFails(r) \/ NewCaptcha(r) \/ CallFails(r)
      PROVE  ProvenInv'
  BY <1>3, <1>5 DEF SendMail, SendMailFails, NewCaptcha, CallFails, Begin, Return, Goto, history
<1>6. ASSUME NEW r \in Calls,
             SweepFile(r) \/ OpenFile(r) \/ WriteFile(r) \/ SetPassword(r) \/ DeleteCode(r)
      PROVE  ProvenInv'
  BY <1>3, <1>6, ProvenOnward
     DEF SweepFile, OpenFile, WriteFile, SetPassword, DeleteCode, Return, Goto, history
<1>7. ASSUME NEW r \in Calls, AskCode(r) \/ PresentExpiredCode(r) \/ ChangeEmail(r) \/ PresentCaptcha(r)
      PROVE  ProvenInv'
  <2>1. UNCHANGED <<account, proven>>
    BY <1>7 DEF AskCode, PresentExpiredCode, ChangeEmail, PresentCaptcha, history
  <2>2. CASE AskCode(r)
    BY <1>4, <2>1, <2>2 DEF AskCode, Vouched, Idle
  <2>3. CASE PresentExpiredCode(r)
    BY <1>4, <2>1, <2>3 DEF PresentExpiredCode, Vouched, Idle
  <2>4. CASE ChangeEmail(r)
    <3>1. PICK e : e = account.email
      OBVIOUS
    <3> QED BY <1>4, <2>1, <2>4, <3>1 DEF ChangeEmail, Vouched, Idle
  <2>5. CASE PresentCaptcha(r)
    BY <1>4, <2>1, <2>5 DEF PresentCaptcha, Vouched, Idle
  <2> QED BY <1>7, <2>2, <2>3, <2>4, <2>5
<1>8. ASSUME NEW r \in Calls, PresentCode(r) PROVE ProvenInv'
  <2>0. PICK m \in mails, kind \in {"verify", "factor", "change", "reset"} :
          /\ Begin(r, Presented(m, kind))
          /\ proven' = IF kind = "verify" THEN proven \cup {m.email} ELSE proven
    BY <1>8 DEF PresentCode, Presented
  <2>1. PICK state : state = Presented(m, kind) /\ Begin(r, state)
    BY <2>0
  <2>2. state.email = m.email /\ state.kind = kind /\ state.pc # "setVerified"
    BY <2>1 DEF Presented, Idle
  <2>3. Vouched(state) => state.email \in proven'
    BY <2>0, <2>1, <2>2 DEF Vouched
  <2> QED BY <1>8, <2>0, <2>1, <2>3, ProvenKept DEF PresentCode, Begin
<1>9. ASSUME NEW r \in Calls, BeginAccount(r) PROVE ProvenInv'
  <2>0. PICK e \in Emails, kind \in {"register", "claim"} :
          /\ Begin(r, [Idle EXCEPT !.pc = "create", !.kind = kind, !.email = e])
          /\ proven' = IF kind = "claim" THEN proven \cup {e} ELSE proven
    BY <1>9 DEF BeginAccount
  <2>1. PICK state : /\ state = [Idle EXCEPT !.pc = "create", !.kind = kind, !.email = e]
                     /\ Begin(r, state)
    BY <2>0
  <2>2. Vouched(state) => state.email \in proven'
    BY <2>0, <2>1 DEF Vouched, Idle
  <2> QED BY <1>9, <2>0, <2>1, <2>2, ProvenKept DEF BeginAccount, Begin
<1>10. ASSUME NEW r \in Calls, PassCaptcha(r) PROVE ProvenInv'
  <2>1. \/ Goto(r, Idle)
        \/ \E e \in Emails :
             Goto(r, [Idle EXCEPT !.pc = "create", !.kind = "register", !.email = e])
        \/ \E c \in Short :
             Goto(r, [Idle EXCEPT !.pc = "open", !.kind = "forgot", !.code = c,
                                  !.email = account.email])
    BY <1>10 DEF PassCaptcha, Return
  <2>2. UNCHANGED <<account, proven>>
    BY <1>10 DEF PassCaptcha
  <2>3. ASSUME NEW state, Goto(r, state), ~Vouched(state) PROVE ProvenInv'
    BY <2>2, <2>3, ProvenKept DEF Goto
  <2>4. CASE Goto(r, Idle)
    BY <1>3, <2>2, <2>4 DEF Goto
  <2>5. ASSUME NEW e \in Emails,
               Goto(r, [Idle EXCEPT !.pc = "create", !.kind = "register", !.email = e])
        PROVE  ProvenInv'
    BY <2>3, <2>5 DEF Vouched, Idle
  <2>6. ASSUME NEW c \in Short,
               Goto(r, [Idle EXCEPT !.pc = "open", !.kind = "forgot", !.code = c,
                                    !.email = account.email])
        PROVE  ProvenInv'
    <3>1. PICK e : e = account.email
      OBVIOUS
    <3> QED BY <2>3, <2>6, <3>1 DEF Vouched, Idle
  <2> QED BY <2>1, <2>4, <2>5, <2>6
<1>11. CASE Restart
  BY <1>i, <1>11 DEF Restart, ProvenInv, VerifiedMeansProven, history
<1> QED BY <1>1, <1>2, <1>5, <1>6, <1>7, <1>8, <1>9, <1>10, <1>11
        DEF Next, CodeExpires, CaptchaExpires, history, vars

\* An account is verified only for an email whose code was presented, or with which
\* a service of ops level claimed it (verifyCode in email_verification_controller.go,
\* ClaimUserInternal in auth_controller.go, ChangeEmail).
THEOREM VerifiedProven == Spec => []VerifiedMeansProven
<1>1. Init => ProvenInv
  BY DEF Init, ProvenInv, VerifiedMeansProven, Vouched, Idle
<1>2. ProvenInv => VerifiedMeansProven
  BY DEF ProvenInv
<1> QED BY <1>1, <1>2, TypeInit, TypeStep, VerifiedStep, PTL DEF Spec

----------------------------------------------------------------------------
\* Codes that block.

\* The code was mailed, or somebody is about to mail it.
Authored(e, c) ==
  \/ [email |-> e, code |-> c] \in mails
  \/ \E r \in Calls : calls[r].pc = "send" /\ calls[r].email = e /\ calls[r].code = c

FilesAuthored ==
  \A e \in DOMAIN files : files[e].code # None => Authored(e, files[e].code)

\* As long as nothing is dropped, a code in a file is mailed or removed by the
\* handler that wrote it.
AuthorInv == ~faulted => FilesAuthored

LEMMA OtherCalls ==
  ASSUME TypeInv, NEW r \in Calls, NEW state, calls' = [calls EXCEPT ![r] = state]
  PROVE  calls'[r] = state /\ \A q \in Calls : q # r => calls'[q] = calls[q]
BY DEF TypeInv, TypeOK

\* No code is new in a file, and who is about to send still is.
LEMMA AuthorsKept ==
  ASSUME FilesAuthored, mails \subseteq mails',
         \A e \in DOMAIN files' : files'[e].code # None =>
           e \in DOMAIN files /\ files'[e].code = files[e].code,
         \A q \in Calls : calls[q].pc = "send" => calls'[q] = calls[q]
  PROVE  FilesAuthored'
<1> SUFFICES ASSUME NEW e \in DOMAIN files', files'[e].code # None
             PROVE  \/ [email |-> e, code |-> files'[e].code] \in mails'
                    \/ \E q \in Calls : /\ calls'[q].pc = "send" /\ calls'[q].email = e
                                        /\ calls'[q].code = files'[e].code
  BY DEF FilesAuthored, Authored
<1>1. e \in DOMAIN files /\ Authored(e, files[e].code) /\ files'[e].code = files[e].code
  BY DEF FilesAuthored
<1>2. CASE [email |-> e, code |-> files[e].code] \in mails
  BY <1>1, <1>2
<1>3. ASSUME NEW q \in Calls, calls[q].pc = "send" /\ calls[q].email = e /\ calls[q].code = files[e].code
      PROVE  calls'[q].pc = "send" /\ calls'[q].email = e /\ calls'[q].code = files'[e].code
  BY <1>1, <1>3
<1> QED BY <1>1, <1>2, <1>3 DEF Authored

\* What handlers do that are not sending.
LEMMA AuthorsAside ==
  ASSUME TypeInv, FilesAuthored, NEW r \in Calls, calls[r].pc # "send",
         NEW state, calls' = [calls EXCEPT ![r] = state],
         UNCHANGED mails,
         \A e \in DOMAIN files' : files'[e].code # None =>
           e \in DOMAIN files /\ files'[e].code = files[e].code
  PROVE  FilesAuthored'
BY OtherCalls, AuthorsKept

LEMMA AuthorStep == TypeInv /\ AuthorInv /\ [Next]_vars => AuthorInv'
<1> SUFFICES ASSUME TypeInv, AuthorInv, [Next]_vars, ~faulted' PROVE FilesAuthored'
  BY DEF AuthorInv
<1>0. ~faulted => FilesAuthored
  BY DEF AuthorInv
<1>1. ASSUME NEW r \in Calls, SweepFile(r) \/ DeleteCode(r) \/ SendMailFails(r), ~faulted
      PROVE  FilesAuthored'
  <2>1. \/ files' = Removed(calls[r].email)
        \/ files' = files
    BY <1>1 DEF SweepFile, DeleteCode, SendMailFails, AfterSendError
  <2>2. \A e \in DOMAIN files' : e \in DOMAIN files /\ files'[e].code = files[e].code
    BY <2>1, RemovedFiles
  <2>3. CASE SweepFile(r) \/ DeleteCode(r)
    BY <1>0, <1>1, <2>2, <2>3, AuthorsAside DEF SweepFile, DeleteCode, Goto
  <2>4. CASE SendMailFails(r)
    <3> DEFINE e == calls[r].email
    <3>1. files' = Removed(e) /\ UNCHANGED mails /\ calls' = [calls EXCEPT ![r] = Idle]
      BY <2>4 DEF SendMailFails, AfterSendError, Return, Goto
    <3>2. \A q \in Calls : q # r => calls'[q] = calls[q]
      BY <3>1, OtherCalls
    <3>3. \A x \in DOMAIN files' : x \in DOMAIN files /\ x # e /\ files'[x] = files[x]
      BY <3>1, RemovedFiles
    <3> SUFFICES ASSUME NEW x \in DOMAIN files', files'[x].code # None
                 PROVE  \/ [email |-> x, code |-> files'[x].code] \in mails'
                        \/ \E q \in Calls : /\ calls'[q].pc = "send" /\ calls'[q].email = x
                                            /\ calls'[q].code = files'[x].code
      BY DEF FilesAuthored, Authored
    <3>4. Authored(x, files[x].code) /\ files'[x].code = files[x].code /\ x # e
      BY <1>0, <1>1, <3>3 DEF FilesAuthored
    <3> QED BY <3>1, <3>2, <3>4 DEF Authored
  <2> QED BY <1>1, <2>3, <2>4
<1>2. ASSUME NEW r \in Calls, OpenFile(r), ~faulted PROVE FilesAuthored'
  <2>1. files' = Truncated(calls[r].email, r) /\ calls[r].email \in Emails
    BY <1>2 DEF OpenFile, TypeInv, CallInv
  <2>2. \A e \in DOMAIN files' : files'[e].code # None =>
          e \in DOMAIN files /\ files'[e].code = files[e].code
    <3> DEFINE email == calls[r].email
    <3> HIDE DEF email
    <3>1. files' = Truncated(email, r) /\ email \in Emails
      BY <2>1 DEF email
    <3>2. /\ DOMAIN files' = DOMAIN files \cup {email} /\ files'[email].code = None
          /\ \A x \in DOMAIN files : x # email => files'[x] = files[x]
      BY <3>1, TruncatedFiles
    <3> QED BY <3>2
  <2> QED BY <1>0, <1>2, <2>2, AuthorsAside DEF OpenFile, Goto
<1>3. ASSUME NEW r \in Calls, WriteFile(r), ~faulted PROVE FilesAuthored'
  <2> DEFINE e == calls[r].email
             c == calls[r].code
  <2>1. /\ e \in Emails /\ c \in Codes /\ files' = Written(e, c, r) /\ UNCHANGED mails
        /\ calls' = [calls EXCEPT ![r] = [calls[r] EXCEPT !.pc = "send"]]
        /\ calls[r].pc = "write"
    BY <1>3 DEF WriteFile, Goto, TypeInv, CallInv, HasCode
  <2>2. /\ calls'[r].pc = "send" /\ calls'[r].email = e /\ calls'[r].code = c
        /\ \A q \in Calls : q # r => calls'[q] = calls[q]
    <3>1. calls'[r] = [calls[r] EXCEPT !.pc = "send"] /\ calls[r] \in CallState
      BY <2>1, OtherCalls DEF TypeInv, TypeOK
    <3> QED BY <2>1, <3>1, OtherCalls DEF CallState
  <2>3. /\ DOMAIN files' = DOMAIN files
        /\ \A x \in DOMAIN files : x # e => files'[x] = files[x]
        /\ e \in DOMAIN files => files'[e].code \in {files[e].code, c, None}
    <3> HIDE DEF e, c
    <3> QED BY <2>1, WrittenFiles
  <2> SUFFICES ASSUME NEW x \in DOMAIN files', files'[x].code # None
               PROVE  \/ [email |-> x, code |-> files'[x].code] \in mails'
                      \/ \E q \in Calls : /\ calls'[q].pc = "send" /\ calls'[q].email = x
                                          /\ calls'[q].code = files'[x].code
    BY DEF FilesAuthored, Authored
  <2>4. CASE x = e /\ files'[x].code = c
    BY <2>2, <2>4
  <2>5. CASE files'[x].code = files[x].code
    <3>1. Authored(x, files[x].code)
      BY <1>0, <1>3, <2>3, <2>5 DEF FilesAuthored
    <3> QED BY <2>1, <2>2, <2>5, <3>1 DEF Authored
  <2> QED BY <2>3, <2>4, <2>5
<1>4. ASSUME NEW r \in Calls, SendMail(r), ~faulted PROVE FilesAuthored'
  <2>1. /\ mails' = mails \cup {[email |-> calls[r].email, code |-> calls[r].code]}
        /\ UNCHANGED files /\ calls' = [calls EXCEPT ![r] = Idle]
    BY <1>4 DEF SendMail, Return, Goto
  <2>2. \A q \in Calls : q # r => calls'[q] = calls[q]
    BY <2>1, OtherCalls
  <2> SUFFICES ASSUME NEW x \in DOMAIN files', files'[x].code # None
               PROVE  \/ [email |-> x, code |-> files'[x].code] \in mails'
                      \/ \E q \in Calls : /\ calls'[q].pc = "send" /\ calls'[q].email = x
                                          /\ calls'[q].code = files'[x].code
    BY DEF FilesAuthored, Authored
  <2>3. Authored(x, files[x].code)
    BY <1>0, <1>4, <2>1 DEF FilesAuthored
  <2> QED BY <2>1, <2>2, <2>3 DEF Authored
<1>5. ASSUME NEW r \in Calls, ~faulted,
             \/ AskCode(r) \/ PresentCode(r) \/ PresentExpiredCode(r) \/ SetPassword(r)
             \/ SetVerified(r) \/ ChangeEmail(r) \/ SetEmail(r)
             \/ BeginAccount(r) \/ CreateAccount(r)
             \/ NewCaptcha(r) \/ PresentCaptcha(r) \/ PassCaptcha(r) \/ CallFails(r)
      PROVE  FilesAuthored'
  <2>1. UNCHANGED <<files, mails>>
    BY <1>5 DEF AskCode, PresentCode, PresentExpiredCode, SetPassword, SetVerified, ChangeEmail,
         SetEmail, BeginAccount, CreateAccount, NewCaptcha, PresentCaptcha, PassCaptcha, CallFails,
         store
  <2>2. calls[r].pc # "send" /\ \E state : calls' = [calls EXCEPT ![r] = state]
    BY <1>5 DEF AskCode, PresentCode, PresentExpiredCode, SetPassword, SetVerified, ChangeEmail,
         SetEmail, BeginAccount, CreateAccount, NewCaptcha, PresentCaptcha, PassCaptcha, CallFails,
         Begin, Goto, Return
  <2> QED BY <1>0, <1>5, <2>1, <2>2, AuthorsAside
<1>6. ASSUME NEW e \in DOMAIN files, CodeExpires(e), ~faulted PROVE FilesAuthored'
  <2>1. \A x \in DOMAIN files' : x \in DOMAIN files /\ files'[x].code = files[x].code
    BY <1>6, OlderFiles DEF CodeExpires
  <2> QED BY <1>0, <1>6, <2>1, AuthorsKept DEF CodeExpires
<1>7. ASSUME NEW k \in captchas, CaptchaExpires(k), ~faulted PROVE FilesAuthored'
  BY <1>0, <1>7, AuthorsKept DEF CaptchaExpires, store
<1>8. CASE UNCHANGED vars
  BY <1>0, <1>8, AuthorsKept DEF vars
<1>9. ~faulted
  BY DEF Next, vars, AskCode, SweepFile, OpenFile, WriteFile, SendMail, SendMailFails, PresentCode,
     PresentExpiredCode, DeleteCode, SetPassword, SetVerified, ChangeEmail, SetEmail, BeginAccount,
     CreateAccount, NewCaptcha, PresentCaptcha, PassCaptcha, CallFails, CodeExpires, CaptchaExpires, Restart
<1> QED BY <1>1, <1>2, <1>3, <1>4, <1>5, <1>6, <1>7, <1>8, <1>9 DEF Next, Restart

\* A code that makes AskCode answer "already sent" has been sent, however handlers
\* overlap (sendVerificationCode in email_verification_controller.go removes the file when the mail fails).
THEOREM BlockingSent == Spec => []BlockingCodeWasSent
<1>1. Init => AuthorInv
  <2> SUFFICES ASSUME Init PROVE FilesAuthored
    BY DEF AuthorInv
  <2>1. files \in Seq({}) /\ Len(files) = 0
    BY DEF Init
  <2>2. DOMAIN files = {}
    BY <2>1
  <2> QED BY <2>2 DEF FilesAuthored
<1>2. AuthorInv => BlockingCodeWasSent
  <2> SUFFICES ASSUME AuthorInv, ~faulted, NEW e \in Emails, NEW c \in Codes,
                      Holds(e, c), ~Sending(e)
               PROVE  [email |-> e, code |-> c] \in mails
    BY DEF BlockingCodeWasSent
  <2>1. c # None
    BY CodeConstants
  <2>2. Authored(e, c)
    BY <2>1 DEF AuthorInv, FilesAuthored, Holds
  <2> QED BY <2>2 DEF Authored, Sending
<1> QED BY <1>1, <1>2, TypeInit, TypeStep, AuthorStep, PTL DEF Spec

----------------------------------------------------------------------------
\* One request at a time.

Calm == ~overlapped /\ ~faulted

Busy(r) == calls[r].pc # "idle"

Alone == \A q, r \in Calls : Busy(q) /\ Busy(r) => q = r

\* The directory and the mailboxes are in step, and a code is in one file.
Shelf ==
  /\ \A e \in Emails : latest[e] # None => Holds(e, latest[e])
  /\ \A e, f \in DOMAIN files : files[e].code # None /\ files[e].code = files[f].code => e = f
  /\ \A e \in DOMAIN files : files[e].code # None => files[e].code \in made

\* A password has been set with the code in the file, which is about to go.
Resetting(e) ==
  \E r \in Calls : calls[r].pc = "delete" /\ calls[r].kind = "reset" /\ calls[r].email = e

\* What can still be presented has not been used.
Counts ==
  /\ \A c \in Codes \cup Captchas : uses[c] <= 1 /\ (uses[c] # 0 => c \in made)
  /\ \A k \in captchas : uses[k] = 0 /\ k \in made
  /\ \A e \in DOMAIN files : files[e].code # None => uses[files[e].code] = 0 \/ Resetting(e)

Fresh(c) == c \in made /\ uses[c] = 0 /\ \A e \in DOMAIN files : files[e].code # c

\* What a handler knows of its code.
HandlerInv(r) ==
  LET call == calls[r] IN
  /\ call.pc \in {"sweep", "write", "send"} => latest[call.email] = None
  /\ (call.pc = "sweep" /\ call.kind = "ask") \/ call.pc \in {"open", "write"} => Fresh(call.code)
  /\ call.pc = "write" =>
       call.email \in DOMAIN files /\ r \in files[call.email].writers /\ files[call.email].code = None
  /\ call.pc \in {"send", "setPassword", "delete"} =>
       call.email \in DOMAIN files /\ files[call.email].code = call.code
  /\ call.pc = "setPassword" \/ (call.pc = "delete" /\ call.kind # "reset") => uses[call.code] = 0
  /\ call.pc = "setPassword" => call.kind = "reset"
  /\ call.pc = "pass" => uses[call.captcha] = 0 /\ call.captcha \in made

Orderly == Alone /\ Shelf /\ Counts /\ \A r \in Calls : HandlerInv(r)

CalmInv == Calm => Orderly

\* Once disturbed, always disturbed.
LEMMA CalmStays == ASSUME [Next]_vars, Calm' PROVE Calm
<1>1. ASSUME NEW r \in Calls,
             \/ AskCode(r) \/ PresentCode(r) \/ PresentExpiredCode(r) \/ ChangeEmail(r)
             \/ BeginAccount(r) \/ NewCaptcha(r) \/ PresentCaptcha(r)
      PROVE  ~overlapped /\ ~faulted
  <2>1. (\E state : Begin(r, state)) /\ UNCHANGED faulted
    BY <1>1 DEF AskCode, PresentCode, PresentExpiredCode, ChangeEmail, BeginAccount, NewCaptcha,
         PresentCaptcha
  <2> QED BY <2>1 DEF Begin, Calm
<1>2. ASSUME NEW r \in Calls,
             \/ SweepFile(r) \/ OpenFile(r) \/ WriteFile(r) \/ SendMail(r) \/ SendMailFails(r)
             \/ DeleteCode(r) \/ SetPassword(r) \/ SetVerified(r) \/ SetEmail(r)
             \/ CreateAccount(r) \/ PassCaptcha(r) \/ CallFails(r)
      PROVE  ~overlapped /\ ~faulted
  <2>1. UNCHANGED overlapped
    BY <1>2 DEF SweepFile, OpenFile, WriteFile, SendMail, SendMailFails, DeleteCode, SetPassword,
         SetVerified, SetEmail, CreateAccount, PassCaptcha, CallFails, Goto, Return
  <2>2. UNCHANGED faulted \/ faulted' = TRUE
    BY <1>2 DEF SweepFile, OpenFile, WriteFile, SendMail, SendMailFails, DeleteCode, SetPassword,
         SetVerified, SetEmail, CreateAccount, PassCaptcha, CallFails
  <2> QED BY <2>1, <2>2 DEF Calm
<1> QED BY <1>1, <1>2 DEF Next, CodeExpires, CaptchaExpires, Restart, vars, Calm

\* A handler begins while no other is in flight, and goes on while no other is.
LEMMA NoOther ==
  ASSUME Alone, NEW r \in Calls, Busy(r)
  PROVE  \A q \in Calls : q # r => ~Busy(q)
BY DEF Alone

LEMMA BeginsAlone ==
  ASSUME TypeInv, NEW r \in Calls, NEW state, Begin(r, state), ~overlapped'
  PROVE  /\ \A q \in Calls : ~Busy(q)
         /\ calls'[r] = state /\ \A q \in Calls : q # r => calls'[q] = calls[q]
BY DEF Begin, Busy, TypeInv, TypeOK

\* What is left to show of a step of the one handler in flight.
LEMMA OneMoves ==
  ASSUME NEW r \in Calls, \A q \in Calls : q # r => ~Busy(q) /\ calls'[q] = calls[q],
         Shelf', Counts', HandlerInv(r)'
  PROVE  Orderly'
<1>1. \A q \in Calls : q # r => calls'[q].pc = "idle"
  BY DEF Busy
<1>2. Alone'
  BY <1>1 DEF Alone, Busy
<1>3. \A q \in Calls : q # r => HandlerInv(q)'
  BY <1>1 DEF HandlerInv
<1> QED BY <1>2, <1>3 DEF Orderly

\* Nobody resets a password at an email but the handler in flight.
LEMMA ResettingAlone ==
  ASSUME NEW r \in Calls, \A q \in Calls : q # r => ~Busy(q), NEW e,
         calls[r].pc # "delete" \/ calls[r].kind # "reset" \/ calls[r].email # e
  PROVE  ~Resetting(e)
BY DEF Resetting, Busy

\* Steps that begin with the store as it is, and steps that end so.
LEMMA ShelfKept ==
  ASSUME Shelf, UNCHANGED <<files, latest>>, made \subseteq made'
  PROVE  Shelf'
BY DEF Shelf, Holds

\* A file goes, and what was expected of it.
LEMMA ShelfRemoved ==
  ASSUME TypeInv, Shelf, NEW e \in Emails, files' = Removed(e), UNCHANGED made,
         latest'[e] = None, \A f \in Emails : f # e => latest'[f] = latest[f]
  PROVE  Shelf'
<1>1. DOMAIN files' = DOMAIN files \ {e} /\ \A x \in DOMAIN files \ {e} : files'[x] = files[x]
  BY RemovedFiles
<1>2. ASSUME NEW f \in Emails, latest'[f] # None
      PROVE  f \in DOMAIN files' /\ files'[f].code = latest'[f] /\ ~files'[f].old
  BY <1>1, <1>2 DEF Shelf, Holds
<1>3. \A f \in DOMAIN files' : files'[f].code # None => files'[f].code \in made'
  BY <1>1 DEF Shelf
<1>4. \A f, g \in DOMAIN files' : files'[f].code # None /\ files'[f].code = files'[g].code => f = g
  BY <1>1 DEF Shelf
<1> QED BY <1>2, <1>3, <1>4 DEF Shelf, Holds

\* The code in any other file than that of the handler's email is unused.
LEMMA Unused ==
  ASSUME Counts, NEW r \in Calls, \A q \in Calls : q # r => ~Busy(q),
         NEW e \in DOMAIN files, files[e].code # None,
         calls[r].pc # "delete" \/ calls[r].kind # "reset" \/ calls[r].email # e
  PROVE  uses[files[e].code] = 0
BY ResettingAlone DEF Counts

----------------------------------------------------------------------------
\* The steps, one request at a time: sending.

LEMMA AskCodeOrderly ==
  ASSUME TypeInv, Orderly, NEW r \in Calls, AskCode(r), Calm'
  PROVE  Orderly'
<1>1. PICK e \in Emails, c \in Long :
        /\ Draw(c)
        /\ Begin(r, [Idle EXCEPT !.pc = IF Expired(e) THEN "sweep" ELSE "open",
                                 !.kind = "ask", !.email = e, !.code = c])
  BY DEF AskCode
<1> DEFINE state == [Idle EXCEPT !.pc = IF Expired(e) THEN "sweep" ELSE "open",
                                 !.kind = "ask", !.email = e, !.code = c]
<1>2. /\ state.email = e /\ state.code = c /\ state.pc \in {"sweep", "open"}
      /\ state.pc = "sweep" => Expired(e)
  BY DEF Idle
<1>3. Begin(r, state)
  BY <1>1
<1> HIDE DEF state
<1>4. /\ \A q \in Calls : ~Busy(q)
      /\ calls'[r] = state /\ \A q \in Calls : q # r => calls'[q] = calls[q]
  BY <1>3, BeginsAlone DEF Calm
<1>5. UNCHANGED <<files, latest, captchas, uses>> /\ made' = made \cup {c} /\ c \notin made
  BY <1>1 DEF AskCode, Draw, history
<1>6. Shelf'
  BY <1>5, ShelfKept DEF Orderly
<1>7. Counts'
  <2>1. \A f \in DOMAIN files : files[f].code # None => uses[files[f].code] = 0
    BY <1>4, Unused DEF Orderly, Busy
  <2> QED BY <1>5, <2>1 DEF Orderly, Counts
<1>8. c \in Codes \cup Captchas /\ c # None
  BY CodeConstants DEF Codes
<1>9. Fresh(c)'
  BY <1>5, <1>8 DEF Orderly, Shelf, Counts, Fresh
<1>10. state.pc = "sweep" => latest[e] = None
  BY <1>2 DEF Orderly, Shelf, Holds, Expired
<1>11. HandlerInv(r)'
  BY <1>2, <1>4, <1>5, <1>9, <1>10 DEF HandlerInv
<1> QED BY <1>4, <1>6, <1>7, <1>11, OneMoves

\* What holds of a handler that goes on while no other is in flight.
LEMMA GoesOn ==
  ASSUME TypeInv, Orderly, NEW r \in Calls, Busy(r), NEW state, Goto(r, state)
  PROVE  /\ \A q \in Calls : q # r => ~Busy(q) /\ calls'[q] = calls[q]
         /\ calls'[r] = state /\ HandlerInv(r) /\ calls[r] \in CallState
BY NoOther, OtherCalls DEF Orderly, Goto, TypeInv, TypeOK

LEMMA NextPc ==
  ASSUME NEW state \in CallState, NEW pc
  PROVE  /\ [state EXCEPT !.pc = pc].pc = pc
         /\ [state EXCEPT !.pc = pc].kind = state.kind
         /\ [state EXCEPT !.pc = pc].email = state.email
         /\ [state EXCEPT !.pc = pc].code = state.code
         /\ [state EXCEPT !.pc = pc].captcha = state.captcha
BY DEF CallState

LEMMA SweepFileOrderly ==
  ASSUME TypeInv, Orderly, NEW r \in Calls, SweepFile(r), Calm'
  PROVE  Orderly'
<1> DEFINE e == calls[r].email
           state == IF calls[r].kind = "ask" THEN [calls[r] EXCEPT !.pc = "open"] ELSE Idle
<1>1. /\ calls[r].pc = "sweep" /\ Busy(r) /\ e \in Emails
      /\ files' = Removed(e) /\ UNCHANGED <<latest, made, captchas, uses>> /\ Goto(r, state)
  BY DEF SweepFile, Busy, TypeInv, CallInv, history
<1> HIDE DEF state
<1>2. /\ \A q \in Calls : q # r => ~Busy(q) /\ calls'[q] = calls[q]
      /\ calls'[r] = state /\ HandlerInv(r) /\ calls[r] \in CallState
  BY <1>1, GoesOn
<1>3. latest[e] = None /\ (calls[r].kind = "ask" => Fresh(calls[r].code))
  BY <1>1, <1>2 DEF HandlerInv
<1>4. Shelf'
  <2> HIDE DEF e
  <2> QED BY <1>1, <1>3, ShelfRemoved DEF Orderly
<1>5. DOMAIN files' \subseteq DOMAIN files /\ \A x \in DOMAIN files' : files'[x] = files[x]
  BY <1>1, RemovedFiles
<1>6. Counts'
  <2>1. \A f \in DOMAIN files : files[f].code # None => uses[files[f].code] = 0
    BY <1>1, <1>2, Unused DEF Orderly
  <2> QED BY <1>1, <1>5, <2>1 DEF Orderly, Counts
<1>7. ASSUME calls[r].kind = "ask" PROVE Fresh(calls[r].code)'
  <2>1. calls'[r].code = calls[r].code
    BY <1>2, <1>7, NextPc DEF state
  <2> QED BY <1>1, <1>3, <1>5, <1>7, <2>1 DEF Fresh
<1>8. HandlerInv(r)'
  BY <1>1, <1>2, <1>7, IdleState, NextPc DEF HandlerInv, state
<1> QED BY <1>2, <1>4, <1>6, <1>8, OneMoves

LEMMA OpenFileOrderly ==
  ASSUME TypeInv, Orderly, NEW r \in Calls, OpenFile(r), Calm'
  PROVE  Orderly'
<1> DEFINE e == calls[r].email
           c == calls[r].code
           state == [calls[r] EXCEPT !.pc = "write"]
<1>1. /\ calls[r].pc = "open" /\ Busy(r) /\ e \in Emails
      /\ files' = Truncated(e, r) /\ latest' = [latest EXCEPT ![e] = None]
      /\ UNCHANGED <<made, captchas, uses>> /\ Goto(r, state)
  BY DEF OpenFile, Busy, TypeInv, CallInv, history
<1>2. /\ \A q \in Calls : q # r => ~Busy(q) /\ calls'[q] = calls[q]
      /\ calls'[r] = state /\ HandlerInv(r) /\ calls[r] \in CallState
  <2> HIDE DEF state
  <2> QED BY <1>1, GoesOn
<1>3. state.pc = "write" /\ state.email = e /\ state.code = c
  BY <1>2, NextPc
<1> HIDE DEF e, c, state
<1>4. Fresh(c)
  BY <1>1, <1>2 DEF HandlerInv, c
<1>5. /\ DOMAIN files' = DOMAIN files \cup {e}
      /\ \A x \in DOMAIN files : x # e => files'[x] = files[x]
      /\ files'[e].code = None /\ r \in files'[e].writers
  BY <1>1, TruncatedFiles
<1>6. latest'[e] = None /\ \A f \in Emails : f # e => latest'[f] = latest[f]
  BY <1>1 DEF TypeInv, TypeOK
<1>7. \A x \in DOMAIN files' : files'[x].code # None =>
        x \in DOMAIN files /\ x # e /\ files'[x] = files[x]
  BY <1>5
<1>8. Shelf'
  <2>1. \A f \in Emails : latest'[f] # None =>
          f \in DOMAIN files' /\ files'[f].code = latest'[f] /\ ~files'[f].old
    BY <1>5, <1>6 DEF Orderly, Shelf, Holds
  <2>2. \A f, g \in DOMAIN files' : files'[f].code # None /\ files'[f].code = files'[g].code => f = g
    BY <1>7 DEF Orderly, Shelf
  <2>3. \A f \in DOMAIN files' : files'[f].code # None => files'[f].code \in made'
    BY <1>1, <1>7 DEF Orderly, Shelf
  <2> QED BY <2>1, <2>2, <2>3 DEF Shelf, Holds
<1>9. Counts'
  <2>1. \A f \in DOMAIN files : files[f].code # None => uses[files[f].code] = 0
    BY <1>1, <1>2, Unused DEF Orderly
  <2> QED BY <1>1, <1>7, <2>1 DEF Orderly, Counts
<1>10. c # None
  BY <1>1, CodeConstants DEF TypeInv, CallInv, HasCode, c
<1>11. c \in made' /\ uses'[c] = 0 /\ \A x \in DOMAIN files' : files'[x].code # c
  BY <1>1, <1>4, <1>7, <1>10 DEF Fresh
<1>12. HandlerInv(r)'
  BY <1>2, <1>3, <1>5, <1>6, <1>11 DEF HandlerInv, Fresh
<1> QED BY <1>2, <1>8, <1>9, <1>12, OneMoves

LEMMA WriteFileOrderly ==
  ASSUME TypeInv, Orderly, NEW r \in Calls, WriteFile(r), Calm'
  PROVE  Orderly'
<1> DEFINE e == calls[r].email
           c == calls[r].code
           state == [calls[r] EXCEPT !.pc = "send"]
<1>1. /\ calls[r].pc = "write" /\ Busy(r) /\ e \in Emails /\ c \in Codes
      /\ files' = Written(e, c, r)
      /\ UNCHANGED <<latest, made, captchas, uses>> /\ Goto(r, state)
  BY DEF WriteFile, Busy, TypeInv, CallInv, HasCode, history
<1>2. /\ \A q \in Calls : q # r => ~Busy(q) /\ calls'[q] = calls[q]
      /\ calls'[r] = state /\ HandlerInv(r) /\ calls[r] \in CallState
  <2> HIDE DEF state
  <2> QED BY <1>1, GoesOn
<1>3. state.pc = "send" /\ state.email = e /\ state.code = c
  BY <1>2, NextPc
<1>4. /\ latest[e] = None /\ Fresh(c)
      /\ e \in DOMAIN files /\ r \in files[e].writers /\ files[e].code = None
  BY <1>1, <1>2 DEF HandlerInv
<1> HIDE DEF e, c, state
<1>5. /\ DOMAIN files' = DOMAIN files
      /\ \A x \in DOMAIN files : x # e => files'[x] = files[x]
      /\ files'[e].code = c
  BY <1>1, <1>4, WrittenFiles
<1>6. Shelf'
  <2>1. \A f \in Emails : latest'[f] # None =>
          f \in DOMAIN files' /\ files'[f].code = latest'[f] /\ ~files'[f].old
    BY <1>1, <1>4, <1>5 DEF Orderly, Shelf, Holds
  <2>2. \A f, g \in DOMAIN files' : files'[f].code # None /\ files'[f].code = files'[g].code => f = g
    BY <1>4, <1>5 DEF Orderly, Shelf, Fresh
  <2>3. \A f \in DOMAIN files' : files'[f].code # None => files'[f].code \in made'
    BY <1>1, <1>4, <1>5 DEF Orderly, Shelf, Fresh
  <2> QED BY <2>1, <2>2, <2>3 DEF Shelf, Holds
<1>7. Counts'
  <2>1. \A f \in DOMAIN files : files[f].code # None => uses[files[f].code] = 0
    BY <1>1, <1>2, Unused DEF Orderly
  <2> QED BY <1>1, <1>4, <1>5, <2>1 DEF Orderly, Counts, Fresh
<1>8. HandlerInv(r)'
  BY <1>1, <1>2, <1>3, <1>4, <1>5 DEF HandlerInv
<1> QED BY <1>2, <1>6, <1>7, <1>8, OneMoves

LEMMA IdleHandler ==
  ASSUME NEW r \in Calls, calls'[r] = Idle
  PROVE  HandlerInv(r)'
BY IdleState DEF HandlerInv

LEMMA SendMailOrderly ==
  ASSUME TypeInv, Orderly, NEW r \in Calls, SendMail(r), Calm'
  PROVE  Orderly'
<1> DEFINE e == calls[r].email
           c == calls[r].code
<1>1. /\ calls[r].pc = "send" /\ Busy(r) /\ e \in Emails /\ c \in Codes
      /\ latest' = [latest EXCEPT ![e] = IF Expired(e) THEN None ELSE c]
      /\ UNCHANGED <<files, made, captchas, uses>> /\ Goto(r, Idle)
  BY DEF SendMail, Busy, TypeInv, CallInv, HasCode, Return, history
<1>2. /\ \A q \in Calls : q # r => ~Busy(q) /\ calls'[q] = calls[q]
      /\ calls'[r] = Idle /\ HandlerInv(r)
  BY <1>1, GoesOn
<1>3. e \in DOMAIN files /\ files[e].code = c /\ c # None
  BY <1>1, <1>2, CodeConstants DEF HandlerInv
<1> HIDE DEF e, c
<1>4. /\ latest'[e] = IF Expired(e) THEN None ELSE c
      /\ \A f \in Emails : f # e => latest'[f] = latest[f]
  BY <1>1 DEF TypeInv, TypeOK
<1>5. Shelf'
  <2>1. latest'[e] # None => Holds(e, latest'[e])
    BY <1>3, <1>4 DEF Holds, Expired
  <2>2. \A f \in Emails : latest'[f] # None => Holds(f, latest'[f])
    BY <1>4, <2>1 DEF Orderly, Shelf
  <2> QED BY <1>1, <2>2 DEF Orderly, Shelf, Holds
<1>6. Counts'
  <2>1. \A f \in DOMAIN files : files[f].code # None => uses[files[f].code] = 0
    BY <1>1, <1>2, Unused DEF Orderly
  <2> QED BY <1>1, <2>1 DEF Orderly, Counts
<1> QED BY <1>2, <1>5, <1>6, IdleHandler, OneMoves

LEMMA SendMailFailsOrderly ==
  ASSUME TypeInv, Orderly, NEW r \in Calls, SendMailFails(r), Calm'
  PROVE  Orderly'
<1> DEFINE e == calls[r].email
<1>1. /\ calls[r].pc = "send" /\ Busy(r) /\ e \in Emails
      /\ files' = Removed(e)
      /\ UNCHANGED <<latest, made, captchas, uses>> /\ Goto(r, Idle)
  BY DEF SendMailFails, AfterSendError, Busy, TypeInv, CallInv, Return, history, Calm
<1>2. /\ \A q \in Calls : q # r => ~Busy(q) /\ calls'[q] = calls[q]
      /\ calls'[r] = Idle /\ HandlerInv(r)
  BY <1>1, GoesOn
<1>3. latest[e] = None
  BY <1>1, <1>2 DEF HandlerInv
<1> HIDE DEF e
<1>4. Shelf'
  BY <1>1, <1>3, ShelfRemoved DEF Orderly
<1>5. DOMAIN files' \subseteq DOMAIN files /\ \A x \in DOMAIN files' : files'[x] = files[x]
  BY <1>1, RemovedFiles
<1>6. Counts'
  <2>1. \A f \in DOMAIN files : files[f].code # None => uses[files[f].code] = 0
    BY <1>1, <1>2, Unused DEF Orderly
  <2> QED BY <1>1, <1>5, <2>1 DEF Orderly, Counts
<1> QED BY <1>2, <1>4, <1>6, IdleHandler, OneMoves

----------------------------------------------------------------------------
\* The steps, one request at a time: presenting codes and captchas.

\* A handler begins that changes nothing but itself.
LEMMA BeginOrderly ==
  ASSUME TypeInv, Orderly, NEW r \in Calls, NEW state, Begin(r, state), Calm',
         UNCHANGED <<store, captchas, uses>>,
         (\A q \in Calls : ~Busy(q)) /\ calls'[r] = state => HandlerInv(r)'
  PROVE  Orderly'
<1>1. /\ \A q \in Calls : ~Busy(q)
      /\ calls'[r] = state /\ \A q \in Calls : q # r => calls'[q] = calls[q]
  BY BeginsAlone DEF Calm
<1>2. UNCHANGED <<files, latest, made, captchas, uses>>
  BY DEF store
<1>3. Shelf'
  BY <1>2, ShelfKept DEF Orderly
<1>4. Counts'
  <2>1. \A f \in DOMAIN files : files[f].code # None => uses[files[f].code] = 0
    BY <1>1, Unused DEF Orderly, Busy
  <2> QED BY <1>2, <2>1 DEF Orderly, Counts
<1> QED BY <1>1, <1>3, <1>4, OneMoves

LEMMA PresentOrderly ==
  ASSUME TypeInv, Orderly, NEW r \in Calls, Calm',
         \/ PresentCode(r) \/ PresentExpiredCode(r) \/ ChangeEmail(r) \/ BeginAccount(r)
         \/ PresentCaptcha(r)
  PROVE  Orderly'
<1>1. CASE PresentCode(r)
  <2>1. PICK m \in mails, kind \in {"verify", "factor", "change", "reset"} :
          Holds(m.email, m.code) /\ Begin(r, Presented(m, kind))
    BY <1>1 DEF PresentCode, Presented
  <2> DEFINE pc == IF kind = "reset" THEN "setPassword" ELSE "delete"
             state == Presented(m, kind)
  <2>3. state.pc = pc /\ state.kind = kind /\ state.email = m.email /\ state.code = m.code
    BY DEF Presented, Idle
  <2>4. m.email \in DOMAIN files /\ files[m.email].code = m.code /\ m.code # None
    BY <2>1, CodeConstants DEF Holds, TypeInv, TypeOK
  <2>5. (\A q \in Calls : ~Busy(q)) => uses[m.code] = 0
    BY <2>4, Unused DEF Orderly, Busy
  <2>6. UNCHANGED <<store, captchas, uses>>
    BY <1>1 DEF PresentCode
  <2> HIDE DEF state
  <2>7. (\A q \in Calls : ~Busy(q)) /\ calls'[r] = state => HandlerInv(r)'
    BY <2>3, <2>4, <2>5, <2>6 DEF HandlerInv, store
  <2> QED BY <2>1, <2>6, <2>7, BeginOrderly DEF state
<1>2. CASE PresentExpiredCode(r)
  <2>1. PICK e \in Emails : /\ Expired(e)
                            /\ Begin(r, [Idle EXCEPT !.pc = "sweep", !.kind = "verify", !.email = e])
    BY <1>2 DEF PresentExpiredCode
  <2> DEFINE state == [Idle EXCEPT !.pc = "sweep", !.kind = "verify", !.email = e]
  <2>2. state.pc = "sweep" /\ state.kind = "verify" /\ state.email = e
    BY DEF Idle
  <2>3. Begin(r, state)
    BY <2>1
  <2>4. latest[e] = None
    BY <2>1 DEF Orderly, Shelf, Holds, Expired
  <2>5. UNCHANGED <<store, captchas, uses>>
    BY <1>2 DEF PresentExpiredCode, history
  <2> HIDE DEF state
  <2>6. calls'[r] = state => HandlerInv(r)'
    BY <2>2, <2>4, <2>5 DEF HandlerInv, store
  <2> QED BY <2>3, <2>5, <2>6, BeginOrderly
<1>3. CASE ChangeEmail(r)
  <2> DEFINE state == [Idle EXCEPT !.pc = "setEmail", !.kind = "change", !.email = account.email]
  <2>1. state.pc = "setEmail"
    BY DEF Idle
  <2>2. Begin(r, state) /\ UNCHANGED <<store, captchas, uses>>
    BY <1>3 DEF ChangeEmail, history
  <2> HIDE DEF state
  <2>3. calls'[r] = state => HandlerInv(r)'
    BY <2>1 DEF HandlerInv
  <2> QED BY <2>2, <2>3, BeginOrderly
<1>4. CASE PresentCaptcha(r)
  <2>1. PICK k \in captchas, kind \in {"register", "forgot"} :
          Begin(r, [Idle EXCEPT !.pc = "pass", !.kind = kind, !.captcha = k])
    BY <1>4 DEF PresentCaptcha
  <2> DEFINE state == [Idle EXCEPT !.pc = "pass", !.kind = kind, !.captcha = k]
  <2>2. state.pc = "pass" /\ state.captcha = k
    BY DEF Idle
  <2>3. Begin(r, state) /\ UNCHANGED <<store, captchas, uses>>
    BY <1>4, <2>1 DEF PresentCaptcha, history
  <2>4. uses[k] = 0 /\ k \in made
    BY DEF Orderly, Counts
  <2> HIDE DEF state
  <2>5. calls'[r] = state => HandlerInv(r)'
    BY <2>2, <2>3, <2>4 DEF HandlerInv, store
  <2> QED BY <2>3, <2>5, BeginOrderly
<1>5. CASE BeginAccount(r)
  <2>1. PICK e \in Emails, kind \in {"register", "claim"} :
          Begin(r, [Idle EXCEPT !.pc = "create", !.kind = kind, !.email = e])
    BY <1>5 DEF BeginAccount
  <2> DEFINE state == [Idle EXCEPT !.pc = "create", !.kind = kind, !.email = e]
  <2>2. state.pc = "create"
    BY DEF Idle
  <2>3. Begin(r, state) /\ UNCHANGED <<store, captchas, uses>>
    BY <1>5, <2>1 DEF BeginAccount
  <2> HIDE DEF state
  <2>4. calls'[r] = state => HandlerInv(r)'
    BY <2>2 DEF HandlerInv
  <2> QED BY <2>3, <2>4, BeginOrderly
<1> QED BY <1>1, <1>2, <1>3, <1>4, <1>5

LEMMA SetPasswordOrderly ==
  ASSUME TypeInv, Orderly, NEW r \in Calls, SetPassword(r), Calm'
  PROVE  Orderly'
<1> DEFINE e == calls[r].email
           c == calls[r].code
           state == [calls[r] EXCEPT !.pc = "delete"]
<1>1. /\ calls[r].pc = "setPassword" /\ Busy(r) /\ e \in Emails /\ c \in Codes
      /\ UNCHANGED <<files, latest, made, captchas>>
      /\ \/ Used(c) /\ Goto(r, state)
         \/ Goto(r, Idle) /\ UNCHANGED uses
  BY DEF SetPassword, Busy, TypeInv, CallInv, HasCode, Return, store
<1>2. HandlerInv(r) /\ calls[r] \in CallState
  BY <1>1, GoesOn
<1>3. /\ e \in DOMAIN files /\ files[e].code = c /\ uses[c] = 0
      /\ calls[r].kind = "reset"
  BY <1>1, <1>2 DEF HandlerInv
<1>4. Shelf'
  BY <1>1, ShelfKept DEF Orderly
<1>5. CASE Goto(r, Idle) /\ UNCHANGED uses
  <2>1. /\ \A q \in Calls : q # r => ~Busy(q) /\ calls'[q] = calls[q]
        /\ calls'[r] = Idle
    BY <1>1, <1>5, GoesOn
  <2>2. Counts'
    <3>1. \A f \in DOMAIN files : files[f].code # None => uses[files[f].code] = 0
      BY <1>1, <2>1, Unused DEF Orderly
    <3> QED BY <1>1, <1>5, <3>1 DEF Orderly, Counts
  <2> QED BY <1>4, <2>1, <2>2, IdleHandler, OneMoves
<1>6. CASE Used(c) /\ Goto(r, state)
  <2>1. /\ \A q \in Calls : q # r => ~Busy(q) /\ calls'[q] = calls[q]
        /\ calls'[r] = state
    <3> HIDE DEF state
    <3> QED BY <1>1, <1>6, GoesOn
  <2>2. state.pc = "delete" /\ state.email = e /\ state.code = c /\ state.kind = calls[r].kind
    BY <1>2, NextPc
  <2> HIDE DEF e, c, state
  <2>3. /\ uses'[c] = 1
        /\ \A d \in Codes \cup Captchas : d # c => uses'[d] = uses[d]
    BY <1>1, <1>3, <1>6, UsedCodes
  <2>4. Counts'
    <3>1. \A f \in DOMAIN files : f = e => Resetting(f)'
      BY <1>3, <2>1, <2>2 DEF Resetting
    <3>2. ASSUME NEW f \in DOMAIN files, files[f].code # None, f # e
          PROVE  uses'[files[f].code] = 0
      <4>1. uses[files[f].code] = 0
        BY <1>1, <2>1, <3>2, Unused DEF Orderly
      <4>2. files[f].code # c /\ files[f].code \in Codes
        BY <1>3, <3>2 DEF Orderly, Shelf, TypeInv, TypeOK, File
      <4> QED BY <2>3, <4>1, <4>2
    <3>3. \A k \in captchas : k \in Codes \cup Captchas /\ k # c
      BY <1>1, CodeConstants DEF TypeInv, TypeOK, Codes
    <3>4. c \in made /\ c \in Codes \cup Captchas
      BY <1>1, <1>3, CodeConstants DEF Orderly, Shelf
    <3>5. \A d \in Codes \cup Captchas : uses'[d] <= 1 /\ (uses'[d] # 0 => d \in made')
      BY <1>1, <2>3, <3>4 DEF Orderly, Counts
    <3>6. \A k \in captchas' : uses'[k] = 0 /\ k \in made'
      BY <1>1, <2>3, <3>3 DEF Orderly, Counts
    <3>7. \A f \in DOMAIN files' : files'[f].code # None =>
            uses'[files'[f].code] = 0 \/ Resetting(f)'
      <4>1. \A f \in DOMAIN files : files[f].code # None =>
              uses'[files[f].code] = 0 \/ Resetting(f)'
        BY <3>1, <3>2
      <4> QED BY <1>1, <4>1
    <3> QED BY <3>5, <3>6, <3>7 DEF Counts
  <2>5. HandlerInv(r)'
    BY <1>1, <1>3, <2>1, <2>2 DEF HandlerInv
  <2> QED BY <1>4, <2>1, <2>4, <2>5, OneMoves
<1> QED BY <1>1, <1>5, <1>6

LEMMA DeleteCodeOrderly ==
  ASSUME TypeInv, Orderly, NEW r \in Calls, DeleteCode(r), Calm'
  PROVE  Orderly'
<1> DEFINE e == calls[r].email
           c == calls[r].code
           state == CASE calls[r].kind = "verify" -> [calls[r] EXCEPT !.pc = "setVerified"]
                      [] calls[r].kind = "change" -> [calls[r] EXCEPT !.pc = "setEmail"]
                      [] OTHER                    -> Idle
<1>1. /\ calls[r].pc = "delete" /\ Busy(r) /\ e \in Emails /\ c \in Codes
      /\ files' = Removed(e) /\ latest' = [latest EXCEPT ![e] = None]
      /\ UNCHANGED <<made, captchas>>
      /\ IF calls[r].kind = "reset" THEN UNCHANGED uses ELSE Used(c)
      /\ Goto(r, state)
  BY DEF DeleteCode, Busy, TypeInv, CallInv, HasCode, Calm
<1>2. /\ \A q \in Calls : q # r => ~Busy(q) /\ calls'[q] = calls[q]
      /\ calls'[r] = state /\ HandlerInv(r) /\ calls[r] \in CallState
  <2> HIDE DEF state
  <2> QED BY <1>1, GoesOn
<1>3. state.pc \in {"idle", "setVerified", "setEmail"}
  BY <1>2, NextPc, IdleState
<1>4. /\ e \in DOMAIN files /\ files[e].code = c
      /\ calls[r].kind # "reset" => uses[c] = 0
  BY <1>1, <1>2 DEF HandlerInv
<1> HIDE DEF e, c, state
<1>5. DOMAIN files' = DOMAIN files \ {e} /\ \A x \in DOMAIN files' : files'[x] = files[x]
  BY <1>1, RemovedFiles
<1>6. latest'[e] = None /\ \A f \in Emails : f # e => latest'[f] = latest[f]
  BY <1>1 DEF TypeInv, TypeOK
<1>7. Shelf'
  BY <1>1, <1>6, ShelfRemoved DEF Orderly
<1>8. /\ \A d \in Codes \cup Captchas : d # c => uses'[d] = uses[d]
      /\ uses'[c] = uses[c] \/ (uses[c] = 0 /\ uses'[c] = 1)
  <2>1. CASE calls[r].kind = "reset"
    BY <1>1, <2>1
  <2>2. CASE calls[r].kind # "reset"
    BY <1>1, <1>4, <2>2, UsedCodes
  <2> QED BY <2>1, <2>2
<1>9. Counts'
  <2>1. c \in made /\ c # None /\ c \in Codes \cup Captchas
    BY <1>1, <1>4, CodeConstants DEF Orderly, Shelf
  <2>2. \A d \in Codes \cup Captchas : uses'[d] <= 1 /\ (uses'[d] # 0 => d \in made')
    BY <1>1, <1>8, <2>1 DEF Orderly, Counts
  <2>3. \A k \in captchas' : uses'[k] = 0 /\ k \in made'
    <3>1. \A k \in captchas : k \in Codes \cup Captchas /\ k # c
      BY <1>1, CodeConstants DEF TypeInv, TypeOK, Codes
    <3> QED BY <1>1, <1>8, <3>1 DEF Orderly, Counts
  <2>4. ASSUME NEW f \in DOMAIN files', files'[f].code # None PROVE uses'[files'[f].code] = 0
    <3>1. f \in DOMAIN files /\ f # e /\ files'[f] = files[f]
      BY <1>5
    <3>2. uses[files[f].code] = 0
      BY <1>1, <1>2, <2>4, <3>1, Unused DEF Orderly, e
    <3>3. files[f].code # c /\ files[f].code \in Codes
      BY <1>4, <2>4, <3>1 DEF Orderly, Shelf, TypeInv, TypeOK, File
    <3> QED BY <1>8, <3>1, <3>2, <3>3
  <2> QED BY <2>2, <2>3, <2>4 DEF Counts
<1>10. HandlerInv(r)'
  BY <1>2, <1>3 DEF HandlerInv
<1> QED BY <1>2, <1>7, <1>9, <1>10, OneMoves

\* The last step of a handler that leaves the codes alone.
LEMMA EndOrderly ==
  ASSUME TypeInv, Orderly, NEW r \in Calls, Calm',
         SetVerified(r) \/ SetEmail(r) \/ CreateAccount(r) \/ CallFails(r)
  PROVE  Orderly'
<1>1. /\ Busy(r) /\ calls[r].pc # "delete" /\ Goto(r, Idle)
      /\ UNCHANGED <<files, latest, made, captchas, uses>>
  BY DEF SetVerified, SetEmail, CreateAccount, CallFails, Busy, Return, store, history
<1>2. /\ \A q \in Calls : q # r => ~Busy(q) /\ calls'[q] = calls[q]
      /\ calls'[r] = Idle
  BY <1>1, GoesOn
<1>3. Shelf'
  BY <1>1, ShelfKept DEF Orderly
<1>4. Counts'
  <2>1. \A f \in DOMAIN files : files[f].code # None => uses[files[f].code] = 0
    BY <1>1, <1>2, Unused DEF Orderly
  <2> QED BY <1>1, <2>1 DEF Orderly, Counts
<1> QED BY <1>2, <1>3, <1>4, IdleHandler, OneMoves

LEMMA NewCaptchaOrderly ==
  ASSUME TypeInv, Orderly, NEW r \in Calls, NewCaptcha(r), Calm'
  PROVE  Orderly'
<1>1. PICK k \in Captchas : Draw(k) /\ captchas' = captchas \cup {k}
  BY DEF NewCaptcha
<1>2. /\ \A q \in Calls : ~Busy(q)
      /\ calls'[r] = Idle /\ \A q \in Calls : q # r => calls'[q] = calls[q]
  BY BeginsAlone DEF NewCaptcha, Calm
<1>3. UNCHANGED <<files, latest, uses>> /\ made' = made \cup {k} /\ k \notin made
  BY <1>1 DEF NewCaptcha, Draw, history
<1>4. Shelf'
  BY <1>3, ShelfKept DEF Orderly
<1>5. Counts'
  <2>1. \A f \in DOMAIN files : files[f].code # None => uses[files[f].code] = 0
    BY <1>2, Unused DEF Orderly, Busy
  <2> QED BY <1>1, <1>3, <2>1 DEF Orderly, Counts
<1> QED BY <1>2, <1>4, <1>5, IdleHandler, OneMoves

LEMMA PassCaptchaOrderly ==
  ASSUME TypeInv, Orderly, NEW r \in Calls, PassCaptcha(r), Calm'
  PROVE  Orderly'
<1> DEFINE k == calls[r].captcha
<1>1. /\ calls[r].pc = "pass" /\ Busy(r) /\ k \in Captchas
      /\ captchas' = captchas \ {k} /\ Used(k)
      /\ UNCHANGED <<files, latest>>
  BY DEF PassCaptcha, CaptchasAfter, Busy, TypeInv, CallInv, Calm
<1>2. HandlerInv(r) /\ \A q \in Calls : q # r => ~Busy(q)
  BY <1>1, NoOther DEF Orderly
<1>3. uses[k] = 0 /\ k \in made
  BY <1>1, <1>2 DEF HandlerInv
<1> HIDE DEF k
<1>4. /\ uses'[k] = 1
      /\ \A d \in Codes \cup Captchas : d # k => uses'[d] = uses[d]
  BY <1>1, <1>3, UsedCodes
<1>5. \A d \in Codes : d # k
  BY <1>1, CodeConstants DEF Codes
<1>6. made \subseteq made' => Counts'
  <2> SUFFICES ASSUME made \subseteq made' PROVE Counts'
    OBVIOUS
  <2>1. \A d \in Codes \cup Captchas : uses'[d] <= 1 /\ (uses'[d] # 0 => d \in made')
    BY <1>3, <1>4 DEF Orderly, Counts
  <2>2. \A d \in captchas' : uses'[d] = 0 /\ d \in made'
    BY <1>1, <1>4 DEF Orderly, Counts, TypeInv, TypeOK
  <2>3. ASSUME NEW f \in DOMAIN files', files'[f].code # None PROVE uses'[files'[f].code] = 0
    <3>1. f \in DOMAIN files /\ files'[f] = files[f] /\ files[f].code \in Codes
      BY <1>1, <2>3 DEF TypeInv, TypeOK, File
    <3>2. uses[files[f].code] = 0
      BY <1>1, <1>2, <2>3, <3>1, Unused DEF Orderly
    <3> QED BY <1>4, <1>5, <3>1, <3>2
  <2> QED BY <2>1, <2>2, <2>3 DEF Counts
<1>7. CASE Goto(r, Idle) /\ UNCHANGED made
  <2>1. /\ \A q \in Calls : q # r => ~Busy(q) /\ calls'[q] = calls[q]
        /\ calls'[r] = Idle
    BY <1>1, <1>7, GoesOn
  <2>2. Shelf'
    BY <1>1, <1>7, ShelfKept DEF Orderly
  <2> QED BY <1>6, <1>7, <2>1, <2>2, IdleHandler, OneMoves
<1>8. ASSUME NEW c \in Short, Draw(c),
             Goto(r, [Idle EXCEPT !.pc = "open", !.kind = "forgot", !.code = c,
                                  !.email = account.email])
      PROVE  Orderly'
  <2> DEFINE state == [Idle EXCEPT !.pc = "open", !.kind = "forgot", !.code = c,
                                   !.email = account.email]
  <2>1. state.pc = "open" /\ state.code = c
    BY DEF Idle
  <2>2. Goto(r, state)
    BY <1>8
  <2> HIDE DEF state
  <2>3. /\ \A q \in Calls : q # r => ~Busy(q) /\ calls'[q] = calls[q]
        /\ calls'[r] = state
    BY <1>1, <2>2, GoesOn
  <2>4. c \in Codes /\ c \notin made /\ made' = made \cup {c} /\ c # None
    BY <1>8, CodeConstants DEF Draw, Codes
  <2>5. uses'[c] = 0
    BY <1>4, <1>5, <2>4 DEF Orderly, Counts
  <2>6. \A f \in DOMAIN files' : files'[f].code # c
    BY <1>1, <2>4 DEF Orderly, Shelf
  <2>7. HandlerInv(r)'
    BY <2>1, <2>3, <2>4, <2>5, <2>6 DEF HandlerInv, Fresh
  <2>8. Shelf'
    BY <1>1, <2>4, ShelfKept DEF Orderly
  <2> QED BY <1>6, <2>3, <2>4, <2>7, <2>8, OneMoves
<1>9. ASSUME NEW e \in Emails, UNCHANGED made,
             Goto(r, [Idle EXCEPT !.pc = "create", !.kind = "register", !.email = e])
      PROVE  Orderly'
  <2> DEFINE state == [Idle EXCEPT !.pc = "create", !.kind = "register", !.email = e]
  <2>1. state.pc = "create"
    BY DEF Idle
  <2>2. Goto(r, state)
    BY <1>9
  <2> HIDE DEF state
  <2>3. /\ \A q \in Calls : q # r => ~Busy(q) /\ calls'[q] = calls[q]
        /\ calls'[r] = state
    BY <1>1, <2>2, GoesOn
  <2>4. HandlerInv(r)'
    BY <2>1, <2>3 DEF HandlerInv
  <2>5. Shelf'
    BY <1>1, <1>9, ShelfKept DEF Orderly
  <2> QED BY <1>6, <1>9, <2>3, <2>4, <2>5, OneMoves
<1> QED BY <1>7, <1>8, <1>9 DEF PassCaptcha, Return

----------------------------------------------------------------------------
\* Time, and the theorems.

LEMMA CodeExpiresOrderly ==
  ASSUME TypeInv, Orderly, NEW e \in DOMAIN files, CodeExpires(e)
  PROVE  Orderly'
<1>1. /\ files' = [files EXCEPT ![e].old = TRUE] /\ latest' = [latest EXCEPT ![e] = None]
      /\ UNCHANGED <<made, captchas, calls, uses>> /\ e \in Emails
  BY DEF CodeExpires, history, TypeInv, TypeOK
<1>2. /\ DOMAIN files' = DOMAIN files
      /\ \A x \in DOMAIN files : x # e => files'[x] = files[x]
      /\ files'[e].code = files[e].code /\ files'[e].writers = files[e].writers
  BY <1>1, OlderFiles
<1>3. latest'[e] = None /\ \A f \in Emails : f # e => latest'[f] = latest[f]
  BY <1>1 DEF TypeInv, TypeOK
<1>4. \A x \in DOMAIN files : files'[x].code = files[x].code /\ files'[x].writers = files[x].writers
  BY <1>2
<1>5. Shelf'
  <2>1. \A f \in Emails : latest'[f] # None =>
          f \in DOMAIN files' /\ files'[f].code = latest'[f] /\ ~files'[f].old
    BY <1>2, <1>3 DEF Orderly, Shelf, Holds
  <2>2. \A f, g \in DOMAIN files' : files'[f].code # None /\ files'[f].code = files'[g].code => f = g
    BY <1>2, <1>4 DEF Orderly, Shelf
  <2>3. \A f \in DOMAIN files' : files'[f].code # None => files'[f].code \in made'
    BY <1>1, <1>2, <1>4 DEF Orderly, Shelf
  <2> QED BY <2>1, <2>2, <2>3 DEF Shelf, Holds
<1>6. Counts'
  <2>1. ASSUME NEW f \in DOMAIN files', files'[f].code # None
        PROVE  uses'[files'[f].code] = 0 \/ Resetting(f)'
    <3>1. uses[files[f].code] = 0 \/ Resetting(f)
      BY <1>2, <1>4, <2>1 DEF Orderly, Counts
    <3> QED BY <1>1, <1>2, <1>4, <3>1 DEF Resetting
  <2> QED BY <1>1, <2>1 DEF Orderly, Counts
<1>7. ASSUME NEW r \in Calls PROVE HandlerInv(r)'
  <2>1. HandlerInv(r)
    BY DEF Orderly
  <2>2. calls[r].pc \in {"sweep", "write", "send"} => calls[r].email \in Emails
    BY DEF TypeInv, CallInv
  <2>3. latest[calls[r].email] = None /\ calls[r].email \in Emails => latest'[calls[r].email] = None
    BY <1>3
  <2>4. Fresh(calls[r].code) => Fresh(calls[r].code)'
    BY <1>1, <1>2, <1>4 DEF Fresh
  <2> QED BY <1>1, <1>2, <1>4, <2>1, <2>2, <2>3, <2>4 DEF HandlerInv
<1>8. Alone'
  BY <1>1 DEF Orderly, Alone, Busy
<1> QED BY <1>5, <1>6, <1>7, <1>8 DEF Orderly

LEMMA CaptchaExpiresOrderly ==
  ASSUME Orderly, NEW k \in captchas, CaptchaExpires(k)
  PROVE  Orderly'
<1>1. UNCHANGED <<files, latest, made, calls, uses>> /\ captchas' = captchas \ {k}
  BY DEF CaptchaExpires, store, history
<1>2. Shelf' /\ Counts' /\ Alone'
  BY <1>1 DEF Orderly, Shelf, Holds, Counts, Resetting, Alone, Busy
<1>3. \A r \in Calls : HandlerInv(r)'
  BY <1>1 DEF Orderly, HandlerInv, Fresh
<1> QED BY <1>2, <1>3 DEF Orderly

LEMMA CalmStep == TypeInv /\ CalmInv /\ [Next]_vars => CalmInv'
<1> SUFFICES ASSUME TypeInv, CalmInv, [Next]_vars, Calm' PROVE Orderly'
  BY DEF CalmInv
<1>1. Orderly
  BY CalmStays DEF CalmInv
<1>2. ~Restart
  BY DEF Restart, Calm
<1>3. CASE UNCHANGED vars
  BY <1>1, <1>3 DEF vars, Orderly, Shelf, Holds, Counts, Resetting, Alone, Busy, HandlerInv, Fresh
<1>4. ASSUME NEW r \in Calls,
             \/ AskCode(r) \/ SweepFile(r) \/ OpenFile(r) \/ WriteFile(r)
             \/ SendMail(r) \/ SendMailFails(r)
      PROVE  Orderly'
  BY <1>1, <1>4, AskCodeOrderly, SweepFileOrderly, OpenFileOrderly, WriteFileOrderly,
     SendMailOrderly, SendMailFailsOrderly
<1>5. ASSUME NEW r \in Calls,
             \/ PresentCode(r) \/ PresentExpiredCode(r) \/ ChangeEmail(r) \/ PresentCaptcha(r)
             \/ SetPassword(r) \/ DeleteCode(r) \/ SetVerified(r) \/ SetEmail(r) \/ CallFails(r)
             \/ BeginAccount(r) \/ CreateAccount(r) \/ NewCaptcha(r) \/ PassCaptcha(r)
      PROVE  Orderly'
  BY <1>1, <1>5, PresentOrderly, SetPasswordOrderly, DeleteCodeOrderly, EndOrderly,
     NewCaptchaOrderly, PassCaptchaOrderly
<1> QED BY <1>1, <1>2, <1>3, <1>4, <1>5, CodeExpiresOrderly, CaptchaExpiresOrderly DEF Next

LEMMA CalmInit == Init => CalmInv
<1> SUFFICES ASSUME Init PROVE Orderly
  BY DEF CalmInv
<1>1. files \in Seq({}) /\ Len(files) = 0
  BY DEF Init
<1>2. DOMAIN files = {}
  BY <1>1
<1>3. Shelf /\ Counts
  BY <1>2 DEF Init, Shelf, Counts
<1>4. Alone /\ \A r \in Calls : HandlerInv(r)
  BY IdleState DEF Init, Alone, Busy, HandlerInv
<1> QED BY <1>3, <1>4 DEF Orderly

\* With one request at a time and nothing dropped, the code in the last mail works
\* (codeStore in email_service.go and its five callers).
THEOREM LatestWorks == Spec => []LatestMailWorks
<1>1. CalmInv => LatestMailWorks
  BY DEF CalmInv, Calm, Orderly, Shelf, LatestMailWorks
<1> QED BY <1>1, CalmInit, TypeInit, CalmStep, TypeStep, PTL DEF Spec

\* With one request at a time and nothing dropped, a code or a captcha is accepted
\* once (verifyCode and its callers, Verify in captcha_service.go).
THEOREM AcceptedOnlyOnce == Spec => []AcceptedOnce
<1>1. CalmInv => AcceptedOnce
  BY DEF CalmInv, Calm, Orderly, Counts, AcceptedOnce
<1> QED BY <1>1, CalmInit, TypeInit, CalmStep, TypeStep, PTL DEF Spec

=============================================================================
