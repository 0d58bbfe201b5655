-------------------------- MODULE Dispatch_proofs --------------------------
(***************************************************************************)
(* Theorems about Dispatch, for any services, rules and hooks.  There is   *)
(* one request, so what is known of it depends on how far it has come; the *)
(* invariants say so, one part for each property.                          *)
(***************************************************************************)
EXTENDS Dispatch, TLAPS

----------------------------------------------------------------------------
\* The invariants.

InHooks == {"phase", "hooks", "phase over"}

\* There is no answer until the request is over for the caller, and one from then on.
AnswerInv ==
  /\ pc \notin {"post", "done"} => answers = <<>>
  /\ pc \in {"post", "done"} => \E a \in Answer : answers = <<a>>

\* A relayed request has a service to go to.
RelayTarget == pc = "relay level" => target \in Services

\* A relayed request is not past the relay middleware.
RelayInv ==
  /\ pc = "relay" => target = None /\ reached = {} /\ ran = <<>>
  /\ pc = "pre" => target = None
  /\ RelayNeverFallsBack

\* The need is at least what has been asked, and is met before the first forward.
LevelInv ==
  /\ pc \in {"relay", "relay level", "pre"} => asked = <<>> /\ reached = {}
  /\ pc = "pre levels" =>
       /\ todo \subseteq routes /\ reached = {}
       /\ \A r \in routes \ todo : r.service \in DOMAIN asked
  /\ pc = "pre forward" =>
       /\ todo \subseteq routes /\ need <= caller
       /\ \A r \in routes : r.service \in DOMAIN asked
  /\ pc \in {"pre levels", "pre forward"} => \A q \in DOMAIN asked : asked[q] <= need
  /\ StrictestLevelDecides

\* The hooks called so far have let the request through, if it is still with them.
Passed(run) ==
  /\ run.result # "denied"
  /\ run.hook.failClosed => run.result \in {"ok", "patched"}

DenialInv ==
  /\ pc \notin InHooks \cup {"post", "done"} => ran = <<>>
  /\ pc \in InHooks => \A i \in DOMAIN ran : Passed(ran[i])
  /\ DenialIsFinal

\* The hooks called so far come before those still due.
OrderInv ==
  /\ pc \notin InHooks \cup {"post", "done"} => ran = <<>> /\ phase = 1
  /\ pc = "phase" => \A i \in DOMAIN ran : ran[i].hook.phase < phase
  /\ pc = "hooks" =>
       /\ \A h \in todo : h \in HookRules /\ h.phase = phase
       /\ \A i \in DOMAIN ran :
            \/ ran[i].hook.phase < phase
            \/ /\ ran[i].hook.phase = phase
               /\ \A h \in todo : ran[i].hook # h /\ ran[i].hook.order <= h.order
  /\ pc = "phase over" => \A i \in DOMAIN ran : ran[i].hook.phase <= phase
  /\ HooksInOrder

PostInv ==
  /\ pc # "done" => posted = {}
  /\ PostOnlyAfterSuccess

----------------------------------------------------------------------------
\* Sequences.

LEMMA ElementType ==
  ASSUME NEW S, NEW s \in Seq(S), NEW i \in DOMAIN s
  PROVE  s[i] \in S
  OBVIOUS

LEMMA AppendType ==
  ASSUME NEW S, NEW s \in Seq(S), NEW e \in S
  PROVE  Append(s, e) \in Seq(S)
  OBVIOUS

LEMMA EmptyDomain == \A x \in DOMAIN <<>> : FALSE
<1>1. <<>> \in Seq({}) /\ Len(<<>>) = 0
  OBVIOUS
<1>2. DOMAIN <<>> = 1..0
  BY <1>1
<1> QED BY <1>2

\* What is in a sequence after Append was there before, or has been appended.
LEMMA AppendCases ==
  ASSUME NEW S, NEW s \in Seq(S), NEW e \in S, NEW i \in DOMAIN Append(s, e)
  PROVE  \/ i \in DOMAIN s /\ Append(s, e)[i] = s[i] /\ i < Len(s) + 1
         \/ i = Len(s) + 1 /\ Append(s, e)[i] = e
  OBVIOUS

\* A first answer is the only one.
LEMMA FirstAnswer ==
  ASSUME NEW a, NEW next, answers = <<>>, Answered(a, next)
  PROVE  answers' = <<a>> /\ pc' = next
  BY DEF Answered

----------------------------------------------------------------------------
\* Every variable keeps its type.

LEMMA NextPhase ==
  ASSUME NEW p \in Phases, p < 3, NEW q, q = p \/ q = p + 1
  PROVE  q \in Phases
  BY DEF Phases

LEMMA AnsweredType ==
  ASSUME answers \in Seq(Answer), NEW a \in Answer, NEW next, Answered(a, next)
  PROVE  answers' \in Seq(Answer) /\ pc' = next
  BY AppendType DEF Answered

\* A hook's answer leaves a payload and counts as one of the results.
LEMMA OutcomeType ==
  ASSUME TypeOK, NEW h \in HookRules, NEW o \in HookOutcomes(h)
  PROVE  o.fields \in [Fields -> Value] /\ o.result \in Result
<1>1. CASE o \in {[fields |-> fields, result |-> r] : r \in {"failed", "ok", "denied", "unusable"}}
  <2>1. PICK r \in {"failed", "ok", "denied", "unusable"} : o = [fields |-> fields, result |-> r]
    BY <1>1
  <2>2. r \in Result /\ fields \in [Fields -> Value]
    BY DEF Result, TypeOK
  <2> QED BY <2>1, <2>2
<1>2. CASE \E p \in Patches : o \in Patched(h, p)
  <2>1. PICK p \in Patches : o \in Patched(h, p)
    BY <1>2
  <2>2. PICK F \in SUBSET Fields : p \in [F -> {"none", "good", "bad", "wrong type"}]
    BY <2>1 DEF Patches
  <2> DEFINE open     == {f \in DOMAIN p : MayPatch(h, f)}
             wrong    == {f \in open : p[f] = "wrong type"}
             after(G) == [f \in Fields |-> IF f \in G THEN p[f] ELSE fields[f]]
  <2>3. ASSUME NEW G \in SUBSET (open \ wrong) PROVE after(G) \in [Fields -> Value]
    BY <2>2, <2>3 DEF TypeOK, Value
  <2>4. \/ wrong = {} /\ o = [fields |-> after(open), result |-> "patched"]
        \/ \E G \in SUBSET (open \ wrong) : o = [fields |-> after(G), result |-> "unusable"]
    BY <2>1 DEF Patched
  <2>5. CASE wrong = {} /\ o = [fields |-> after(open), result |-> "patched"]
    <3>1. open \in SUBSET (open \ wrong)
      BY <2>5
    <3>2. after(open) \in [Fields -> Value]
      BY <3>1, <2>3
    <3> QED BY <2>5, <3>2 DEF Result
  <2>6. CASE \E G \in SUBSET (open \ wrong) : o = [fields |-> after(G), result |-> "unusable"]
    <3>1. PICK G \in SUBSET (open \ wrong) : o = [fields |-> after(G), result |-> "unusable"]
      BY <2>6
    <3>2. after(G) \in [Fields -> Value]
      BY <2>3
    <3>3. o.fields = after(G) /\ o.result = "unusable"
      BY <3>1
    <3> QED BY <3>2, <3>3 DEF Result
  <2> QED BY <2>4, <2>5, <2>6
<1> QED BY <1>1, <1>2 DEF HookOutcomes

LEMMA TypeStep == TypeOK /\ RelayTarget /\ [Next]_vars => TypeOK'
<1> SUFFICES ASSUME TypeOK, RelayTarget, [Next]_vars PROVE TypeOK'
  OBVIOUS
<1> USE DispatchConstants DEF TypeOK
<1>1. CASE MatchRelay
  BY <1>1 DEF MatchRelay
<1>2. CASE Relay
  <2>1. answers' \in Seq(Answer) /\ pc' \in {"done", AfterRelayFails}
    <3>1. {"unauthorised", "relayed", "bad gateway"} \subseteq Answer
      BY DEF Answer
    <3> QED BY <1>2, <3>1, AnsweredType DEF Relay
  <2>2. DOMAIN asked' \subseteq Services /\ asked' \in [DOMAIN asked' -> Levels]
    BY <1>2 DEF Relay, RelayTarget
  <2> QED BY <1>2, <2>1, <2>2 DEF Relay, AfterRelayFails
<1>3. CASE MatchPre
  BY <1>3 DEF MatchPre
<1>4. ASSUME NEW r \in PreRules, ReadLevel(r) PROVE TypeOK'
  <2>1. need' \in Levels
    BY <1>4 DEF ReadLevel, NeedAfter, Levels
  <2>2. DOMAIN asked' \subseteq Services /\ asked' \in [DOMAIN asked' -> Levels]
    BY <1>4 DEF ReadLevel
  <2> QED BY <1>4, <2>1, <2>2 DEF ReadLevel, Tried
<1>5. CASE Authorise
  <2>1. "unauthorised" \in Answer
    BY DEF Answer
  <2>2. answers' \in Seq(Answer) /\ pc' \in {"done", "pre forward"}
    BY <1>5, <2>1, AnsweredType DEF Authorise
  <2> QED BY <1>5, <2>2 DEF Authorise
<1>6. ASSUME NEW r \in PreRules, Forward(r) PROVE TypeOK'
  <2>1. "forwarded" \in Answer
    BY DEF Answer
  <2>2. answers' \in Seq(Answer) /\ pc' \in {"done", pc}
    BY <1>6, <2>1, AnsweredType DEF Forward, AfterForward
  <2> QED BY <1>6, <2>2 DEF Forward, Tried
<1>7. CASE FailOpen
  BY <1>7 DEF FailOpen, AfterAllFailed
<1>8. CASE Bind
  <2>1. "refused" \in Answer
    BY DEF Answer
  <2>2. answers' \in Seq(Answer) /\ pc' \in {"post", "phase"}
    BY <1>8, <2>1, AnsweredType DEF Bind
  <2> QED BY <1>8, <2>2 DEF Bind
<1>9. CASE MatchHooks
  BY <1>9 DEF MatchHooks
<1>10. ASSUME NEW h \in HookRules, CallHook(h) PROVE TypeOK'
  <2>1. PICK o \in HookOutcomes(h) :
          /\ fields' = o.fields
          /\ ran' = Append(ran, [hook |-> h, result |-> o.result])
          /\ \/ Answered("denied", "post")
             \/ UNCHANGED <<answers, pc>>
    BY <1>10 DEF CallHook
  <2>2. o.fields \in [Fields -> Value] /\ o.result \in Result
    BY OutcomeType
  <2>3. [hook |-> h, result |-> o.result] \in [hook : HookRules, result : Result]
    BY <2>2
  <2>4. ran' \in Seq([hook : HookRules, result : Result])
    BY <2>1, <2>3, AppendType
  <2>5. answers' \in Seq(Answer) /\ pc' \in {"post", pc}
    <3>1. "denied" \in Answer
      BY DEF Answer
    <3> QED BY <2>1, <3>1, AnsweredType
  <2> QED BY <1>10, <2>1, <2>2, <2>4, <2>5 DEF CallHook, Tried
<1>11. CASE HooksOver
  BY <1>11 DEF HooksOver
<1>12. CASE Verify
  <2>1. "refused" \in Answer
    BY DEF Answer
  <2>2. answers' \in Seq(Answer) /\ pc' \in {"post", "phase"}
    BY <1>12, <2>1, AnsweredType DEF Verify
  <2>3. phase' \in Phases
    <3>1. phase < 3 /\ (phase' = phase \/ phase' = phase + 1)
      BY <1>12 DEF Verify
    <3> QED BY <3>1, NextPhase
  <2> QED BY <1>12, <2>2, <2>3 DEF Verify
<1>13. CASE Issue
  <2>1. {"denied", "refused", "ticket", "tokens"} \subseteq Answer
    BY DEF Answer
  <2>2. answers' \in Seq(Answer) /\ pc' = "post"
    BY <1>13, <2>1, AnsweredType DEF Issue
  <2> QED BY <1>13, <2>2 DEF Issue
<1>14. CASE DispatchPost
  BY <1>14 DEF DispatchPost
<1>15. CASE UNCHANGED vars
  BY <1>15 DEF vars
<1> QED BY <1>1, <1>2, <1>3, <1>4, <1>5, <1>6, <1>7, <1>8, <1>9, <1>10, <1>11, <1>12,
           <1>13, <1>14, <1>15 DEF Next

LEMMA TargetStep == RelayTarget /\ [Next]_vars => RelayTarget'
<1> SUFFICES ASSUME RelayTarget, [Next]_vars PROVE RelayTarget'
  OBVIOUS
<1> USE DEF RelayTarget
<1>1. CASE MatchRelay
  BY <1>1 DEF MatchRelay
<1>2. CASE Relay
  BY <1>2 DEF Relay, Answered, AfterRelayFails
<1>3. CASE MatchPre \/ Authorise \/ FailOpen
  BY <1>3 DEF MatchPre, Authorise, FailOpen, Answered, AfterAllFailed
<1>4. ASSUME NEW r \in PreRules, ReadLevel(r) \/ Forward(r) PROVE RelayTarget'
  BY <1>4 DEF ReadLevel, Forward, Answered, AfterForward
<1>5. CASE Bind \/ MatchHooks \/ HooksOver
  BY <1>5 DEF Bind, MatchHooks, HooksOver, Answered
<1>6. CASE Verify \/ Issue \/ DispatchPost
  BY <1>6 DEF Verify, Issue, DispatchPost, Answered
<1>7. ASSUME NEW h \in HookRules, CallHook(h) PROVE RelayTarget'
  BY <1>7 DEF CallHook, Answered
<1>8. CASE UNCHANGED vars
  BY <1>8 DEF vars
<1> QED BY <1>1, <1>2, <1>3, <1>4, <1>5, <1>6, <1>7, <1>8 DEF Next

LEMMA InitType == Init => TypeOK /\ RelayTarget
  BY DispatchConstants DEF Init, TypeOK, RelayTarget, Levels, Phases, Value

\* Every reachable state is of the model's type.
THEOREM TypeCorrect == Spec => []TypeOK
<1>1. QED BY InitType, TypeStep, TargetStep, PTL DEF Spec

----------------------------------------------------------------------------
\* One answer.

LEMMA AnswerStep == TypeOK /\ AnswerInv /\ [Next]_vars => AnswerInv'
<1> SUFFICES ASSUME TypeOK, AnswerInv, [Next]_vars PROVE AnswerInv'
  OBVIOUS
<1>a. ASSUME NEW a \in Answer, NEW next \in {"post", "done"}, answers = <<>>, Answered(a, next)
      PROVE  AnswerInv'
  BY <1>a, FirstAnswer DEF AnswerInv
<1>u. {"relayed", "bad gateway", "unauthorised", "forwarded", "denied", "refused", "ticket",
       "tokens"} \subseteq Answer
  BY DEF Answer
<1>1. CASE MatchRelay \/ MatchPre \/ FailOpen \/ MatchHooks \/ HooksOver
  BY <1>1 DEF MatchRelay, MatchPre, FailOpen, MatchHooks, HooksOver, AfterAllFailed, AnswerInv
<1>2. CASE Relay
  <2>1. answers = <<>>
    BY <1>2 DEF Relay, AnswerInv
  <2> QED BY <1>2, <2>1, <1>a, <1>u DEF Relay, AfterRelayFails
<1>3. CASE Authorise
  <2>1. answers = <<>>
    BY <1>3 DEF Authorise, AnswerInv
  <2>2. CASE Answered("unauthorised", "done")
    BY <2>1, <2>2, <1>a, <1>u
  <2>3. CASE pc' = "pre forward" /\ UNCHANGED answers
    BY <2>1, <2>3 DEF AnswerInv
  <2> QED BY <1>3, <2>2, <2>3 DEF Authorise
<1>4. ASSUME NEW r \in PreRules, ReadLevel(r) PROVE AnswerInv'
  BY <1>4 DEF ReadLevel, AnswerInv
<1>5. ASSUME NEW r \in PreRules, Forward(r) PROVE AnswerInv'
  <2>1. answers = <<>>
    BY <1>5 DEF Forward, AnswerInv
  <2>2. CASE Answered("forwarded", AfterForward)
    BY <2>1, <2>2, <1>a, <1>u DEF AfterForward
  <2>3. CASE UNCHANGED <<answers, pc>>
    BY <2>3 DEF AnswerInv
  <2> QED BY <1>5, <2>2, <2>3 DEF Forward
<1>6. CASE Bind
  <2>1. answers = <<>>
    BY <1>6 DEF Bind, AnswerInv
  <2>2. CASE Answered("refused", "post")
    BY <2>1, <2>2, <1>a, <1>u
  <2>3. CASE pc' = "phase" /\ UNCHANGED answers
    BY <2>1, <2>3 DEF AnswerInv
  <2> QED BY <1>6, <2>2, <2>3 DEF Bind
<1>7. ASSUME NEW h \in HookRules, CallHook(h) PROVE AnswerInv'
  <2>1. answers = <<>>
    BY <1>7 DEF CallHook, AnswerInv
  <2>2. CASE Answered("denied", "post")
    BY <2>1, <2>2, <1>a, <1>u
  <2>3. CASE UNCHANGED <<answers, pc>>
    BY <2>3 DEF AnswerInv
  <2> QED BY <1>7, <2>2, <2>3 DEF CallHook
<1>8. CASE Verify
  <2>1. answers = <<>>
    BY <1>8 DEF Verify, AnswerInv
  <2>2. CASE Answered("refused", "post")
    BY <2>1, <2>2, <1>a, <1>u
  <2>3. CASE pc' = "phase" /\ UNCHANGED answers
    BY <2>1, <2>3 DEF AnswerInv
  <2> QED BY <1>8, <2>2, <2>3 DEF Verify
<1>9. CASE Issue
  <2>1. answers = <<>>
    BY <1>9 DEF Issue, AnswerInv
  <2> QED BY <1>9, <2>1, <1>a, <1>u DEF Issue
<1>10. CASE DispatchPost
  BY <1>10 DEF DispatchPost, AnswerInv
<1>11. CASE UNCHANGED vars
  BY <1>11 DEF vars, AnswerInv
<1> QED BY <1>1, <1>2, <1>3, <1>4, <1>5, <1>6, <1>7, <1>8, <1>9, <1>10, <1>11 DEF Next

LEMMA AnswersKnown == Spec => []AnswerInv
<1>1. Init => AnswerInv
  BY DEF Init, AnswerInv
<1> QED BY <1>1, AnswerStep, TypeCorrect, PTL DEF Spec

\* The caller gets one response (OneAnswer), for any number of services, routes and
\* hooks.
THEOREM OneAnswerOnly == Spec => []OneAnswer
<1>1. ASSUME AnswerInv PROVE OneAnswer
  <2>1. CASE pc \in {"post", "done"}
    <3>1. PICK a \in Answer : answers = <<a>>
      BY <1>1, <2>1 DEF AnswerInv
    <3>2. Len(answers) = 1
      BY <3>1
    <3> QED BY <3>2 DEF OneAnswer
  <2>2. CASE pc \notin {"post", "done"}
    <3>1. Len(answers) = 0
      BY <1>1, <2>2 DEF AnswerInv
    <3> QED BY <2>2, <3>1 DEF OneAnswer
  <2> QED BY <2>1, <2>2
<1> QED BY <1>1, AnswersKnown, PTL

----------------------------------------------------------------------------
\* Relay.

LEMMA RelayStep == TypeOK /\ RelayInv /\ [Next]_vars => RelayInv'
<1> SUFFICES ASSUME TypeOK, RelayInv, [Next]_vars PROVE RelayInv'
  OBVIOUS
<1> USE DEF RelayInv, RelayNeverFallsBack
<1>1. CASE MatchRelay
  BY <1>1 DEF MatchRelay
<1>2. CASE Relay
  BY <1>2 DEF Relay, Answered, AfterRelayFails
<1>3. CASE MatchPre \/ Authorise \/ FailOpen
  BY <1>3 DEF MatchPre, Authorise, FailOpen, Answered, AfterAllFailed
<1>4. ASSUME NEW r \in PreRules, ReadLevel(r) \/ Forward(r) PROVE RelayInv'
  BY <1>4 DEF ReadLevel, Forward, Answered, AfterForward
<1>5. CASE Bind \/ MatchHooks \/ HooksOver
  BY <1>5 DEF Bind, MatchHooks, HooksOver, Answered
<1>6. CASE Verify \/ Issue \/ DispatchPost
  BY <1>6 DEF Verify, Issue, DispatchPost, Answered
<1>7. ASSUME NEW h \in HookRules, CallHook(h) PROVE RelayInv'
  BY <1>7 DEF CallHook, Answered
<1>8. CASE UNCHANGED vars
  BY <1>8 DEF vars
<1> QED BY <1>1, <1>2, <1>3, <1>4, <1>5, <1>6, <1>7, <1>8 DEF Next

\* A relayed path belongs to its service, whatever the others register.
THEOREM RelayIsFinal == Spec => []RelayNeverFallsBack
<1>1. Init => RelayInv
  BY DEF Init, RelayInv, RelayNeverFallsBack
<1>2. RelayInv => RelayNeverFallsBack
  BY DEF RelayInv
<1> QED BY <1>1, <1>2, RelayStep, TypeCorrect, PTL DEF Spec

----------------------------------------------------------------------------
\* Levels.

LEMMA LevelStep == TypeOK /\ LevelInv /\ [Next]_vars => LevelInv'
<1> SUFFICES ASSUME TypeOK, LevelInv, [Next]_vars PROVE LevelInv'
  OBVIOUS
<1>0. /\ caller \in Int /\ need \in Int
      /\ \A q \in DOMAIN asked : asked[q] \in Int
  <2>1. /\ caller \in Levels /\ need \in Levels
        /\ \A q \in DOMAIN asked : asked[q] \in Levels
    BY DEF TypeOK
  <2> QED BY <2>1 DEF Levels
<1>1. CASE MatchRelay
  BY <1>1 DEF MatchRelay, LevelInv, StrictestLevelDecides
<1>2. CASE Relay
  <2>1. PICK l \in Levels :
          /\ asked' = [s \in {target} |-> l]
          /\ \/ caller < l /\ UNCHANGED reached
             \/ caller >= l /\ reached' = reached \cup {target}
          /\ pc' = "done" /\ caller' = caller
    BY <1>2 DEF Relay, Answered, AfterRelayFails
  <2>2. reached = {}
    BY <1>2 DEF Relay, LevelInv
  <2>3. StrictestLevelDecides'
    BY <2>1, <2>2, <1>0 DEF StrictestLevelDecides, Levels
  <2> QED BY <2>1, <2>3 DEF LevelInv
<1>3. CASE MatchPre
  <2>1. asked = <<>> /\ reached = {}
    BY <1>3 DEF MatchPre, LevelInv
  <2>2. /\ todo' = routes' /\ UNCHANGED <<asked, reached>> /\ pc' \in {"bind", "pre levels"}
    BY <1>3 DEF MatchPre
  <2>3. \A q \in DOMAIN asked' : FALSE
    BY <2>1, <2>2, EmptyDomain
  <2> QED BY <2>1, <2>2, <2>3 DEF LevelInv, StrictestLevelDecides
<1>4. ASSUME NEW r \in PreRules, ReadLevel(r) PROVE LevelInv'
  <2>1. PICK l \in Levels :
          /\ need' = NeedAfter(l)
          /\ asked' = [s \in DOMAIN asked \cup {r.service} |->
                         IF s = r.service THEN l ELSE asked[s]]
    BY <1>4 DEF ReadLevel
  <2>2. need' \in Int /\ l <= need' /\ need <= need'
    BY <2>1, <1>0 DEF NeedAfter, Levels
  <2>3. \A q \in DOMAIN asked' : asked'[q] <= need'
    <3> SUFFICES ASSUME NEW q \in DOMAIN asked' PROVE asked'[q] <= need'
      OBVIOUS
    <3>1. CASE q = r.service
      BY <2>1, <2>2, <3>1
    <3>2. CASE q # r.service
      <4>1. q \in DOMAIN asked /\ asked'[q] = asked[q]
        BY <2>1, <3>2
      <4>2. asked[q] <= need
        BY <1>4, <4>1 DEF ReadLevel, LevelInv
      <4> QED BY <4>1, <4>2, <2>2, <1>0
    <3> QED BY <3>1, <3>2
  <2>4. /\ todo \subseteq routes /\ reached = {}
        /\ \A x \in routes \ todo : x.service \in DOMAIN asked
    BY <1>4 DEF ReadLevel, LevelInv
  <2>5. /\ todo' = todo \ {r} /\ UNCHANGED <<pc, routes, reached, caller>> /\ pc = "pre levels"
    BY <1>4 DEF ReadLevel, Tried
  <2>6. \A x \in routes' \ todo' : x.service \in DOMAIN asked'
    BY <2>1, <2>4, <2>5
  <2> QED BY <2>3, <2>4, <2>5, <2>6 DEF LevelInv, StrictestLevelDecides
<1>5. CASE Authorise
  <2>1. CASE pc' = "done"
    BY <1>5, <2>1 DEF Authorise, LevelInv, StrictestLevelDecides
  <2>2. CASE caller >= need /\ todo' = routes /\ pc' = "pre forward"
    <3>1. /\ \A x \in routes : x.service \in DOMAIN asked
          /\ \A q \in DOMAIN asked : asked[q] <= need
          /\ reached = {}
      BY <1>5 DEF Authorise, LevelInv
    <3>2. UNCHANGED <<caller, routes, need, asked, reached>>
      BY <1>5 DEF Authorise
    <3>3. need' <= caller'
      BY <2>2, <3>2, <1>0
    <3> QED BY <2>2, <3>1, <3>2, <3>3 DEF LevelInv, StrictestLevelDecides
  <2> QED BY <1>5, <2>1, <2>2 DEF Authorise, Answered
<1>6. ASSUME NEW r \in PreRules, Forward(r) PROVE LevelInv'
  <2>1. /\ todo \subseteq routes /\ need <= caller
        /\ \A x \in routes : x.service \in DOMAIN asked
        /\ \A q \in DOMAIN asked : asked[q] <= need
    BY <1>6 DEF Forward, LevelInv
  <2>2. /\ reached' = reached \cup {r.service} /\ r \in routes
        /\ todo' \subseteq todo /\ pc' \in {"pre forward", "done"}
        /\ UNCHANGED <<caller, routes, need, asked>>
    BY <1>6, <2>1 DEF Forward, Answered, AfterForward, Tried
  <2>3. \A q \in DOMAIN asked : asked[q] <= caller
    BY <2>1, <1>0
  <2>4. StrictestLevelDecides'
    BY <2>1, <2>2, <2>3 DEF LevelInv, StrictestLevelDecides
  <2> QED BY <2>1, <2>2, <2>4 DEF LevelInv
<1>7. CASE FailOpen \/ Bind \/ MatchHooks \/ HooksOver \/ Verify \/ Issue \/ DispatchPost
  <2>1. UNCHANGED <<caller, asked, reached>> /\ pc' \in {"bind", "phase", "hooks", "phase over", "post", "done"}
    BY <1>7 DEF FailOpen, Bind, MatchHooks, HooksOver, Verify, Issue, DispatchPost,
                Answered, AfterAllFailed
  <2> QED BY <2>1 DEF LevelInv, StrictestLevelDecides
<1>8. ASSUME NEW h \in HookRules, CallHook(h) PROVE LevelInv'
  <2>1. UNCHANGED <<caller, asked, reached>> /\ pc' \in {"hooks", "post"}
    BY <1>8 DEF CallHook, Answered
  <2> QED BY <2>1 DEF LevelInv, StrictestLevelDecides
<1>9. CASE UNCHANGED vars
  BY <1>9 DEF vars, LevelInv, StrictestLevelDecides
<1> QED BY <1>1, <1>2, <1>3, <1>4, <1>5, <1>6, <1>7, <1>8, <1>9 DEF Next

\* No service sees a request before its level was compared, and the strictest level
\* asked for decides, whatever rules and levels are read in between.
THEOREM LevelsAreMet == Spec => []StrictestLevelDecides
<1>1. Init => LevelInv
  BY DEF Init, LevelInv, StrictestLevelDecides
<1>2. LevelInv => StrictestLevelDecides
  BY DEF LevelInv
<1> QED BY <1>1, <1>2, LevelStep, TypeCorrect, PTL DEF Spec

----------------------------------------------------------------------------
\* Hooks.

\* What a call of a hook does, in one place.
LEMMA CallHookEffect ==
  ASSUME TypeOK, NEW h \in HookRules, CallHook(h)
  PROVE  \E o \in HookOutcomes(h) :
           LET e == [hook |-> h, result |-> o.result] IN
           /\ o.result \in Result /\ e \in [hook : HookRules, result : Result]
           /\ fields' = o.fields /\ ran' = Append(ran, e)
           /\ \/ Stops(h, o.result) /\ Answered("denied", "post")
              \/ ~Stops(h, o.result) /\ UNCHANGED <<answers, pc>>
<1>1. PICK o \in HookOutcomes(h) :
        /\ fields' = o.fields
        /\ ran' = Append(ran, [hook |-> h, result |-> o.result])
        /\ \/ Stops(h, o.result) /\ Answered("denied", "post")
           \/ ~Stops(h, o.result) /\ UNCHANGED <<answers, pc>>
  BY DEF CallHook
<1>2. o.result \in Result
  BY OutcomeType
<1> QED BY <1>1, <1>2

LEMMA DenialStep == TypeOK /\ AnswerInv /\ DenialInv /\ [Next]_vars => DenialInv'
<1> SUFFICES ASSUME TypeOK, AnswerInv, DenialInv, [Next]_vars PROVE DenialInv'
  OBVIOUS
<1>e. pc \notin {"post", "done"} => answers = <<>>
  BY DEF AnswerInv
\* Before the hooks there is nothing to remember.
<1>1. ASSUME UNCHANGED ran, ran = <<>> PROVE DenialInv'
  BY <1>1 DEF DenialInv, DenialIsFinal
<1>2. CASE MatchRelay \/ Relay \/ MatchPre \/ Authorise \/ FailOpen \/ Bind
  BY <1>2, <1>1 DEF MatchRelay, Relay, MatchPre, Authorise, FailOpen, Bind, DenialInv, InHooks
<1>3. ASSUME NEW r \in PreRules, ReadLevel(r) \/ Forward(r) PROVE DenialInv'
  BY <1>3, <1>1 DEF ReadLevel, Forward, DenialInv, InHooks
<1>4. CASE MatchHooks \/ HooksOver
  <2>1. UNCHANGED <<ran, answers>> /\ pc \in InHooks /\ pc' \in InHooks
    BY <1>4 DEF MatchHooks, HooksOver, InHooks
  <2> QED BY <2>1 DEF DenialInv, DenialIsFinal
<1>5. CASE Verify \/ Issue
  <2>1. UNCHANGED ran /\ pc = "phase over" /\ pc' \in {"phase", "post"}
    BY <1>5 DEF Verify, Issue, Answered
  <2>2. \A i \in DOMAIN ran : Passed(ran[i])
    BY <2>1 DEF DenialInv, InHooks
  <2> QED BY <2>1, <2>2 DEF DenialInv, DenialIsFinal, InHooks, Passed
<1>6. ASSUME NEW h \in HookRules, CallHook(h) PROVE DenialInv'
  <2>0. pc = "hooks" /\ answers = <<>>
    BY <1>6, <1>e DEF CallHook
  <2>1. PICK o \in HookOutcomes(h) :
          LET e == [hook |-> h, result |-> o.result] IN
          /\ o.result \in Result /\ e \in [hook : HookRules, result : Result]
          /\ fields' = o.fields /\ ran' = Append(ran, e)
          /\ \/ Stops(h, o.result) /\ Answered("denied", "post")
             \/ ~Stops(h, o.result) /\ UNCHANGED <<answers, pc>>
    BY <1>6, CallHookEffect
  <2> DEFINE e == [hook |-> h, result |-> o.result]
  <2>2. CASE Answered("denied", "post")
    <3>1. answers' = <<"denied">> /\ pc' = "post"
      BY <2>0, <2>2, FirstAnswer
    <3>2. ~ \E a \in {"ticket", "tokens"} : answers' = <<a>>
      BY <3>1
    <3> QED BY <3>1, <3>2 DEF DenialInv, DenialIsFinal, InHooks
  <2>3. CASE ~Stops(h, o.result) /\ UNCHANGED <<answers, pc>>
    <3>1. Passed(e)
      BY <2>1, <2>3 DEF Passed, Stops, Result
    <3>2. ASSUME NEW i \in DOMAIN ran' PROVE Passed(ran'[i])
      <4>1. \/ i \in DOMAIN ran /\ ran'[i] = ran[i]
            \/ ran'[i] = e
        <5>1. ran' = Append(ran, e) /\ e \in [hook : HookRules, result : Result]
          BY <2>1
        <5>2. ran \in Seq([hook : HookRules, result : Result])
          BY DEF TypeOK
        <5>3. i \in DOMAIN Append(ran, e)
          BY <3>2, <5>1
        <5> QED BY <5>1, <5>2, <5>3, AppendCases
      <4>2. \A j \in DOMAIN ran : Passed(ran[j])
        BY <2>0 DEF DenialInv, InHooks
      <4> QED BY <4>1, <4>2, <3>1
    <3>3. answers' = <<>> /\ pc' = "hooks"
      BY <2>0, <2>3
    <3>4. ~ \E a \in {"ticket", "tokens"} : answers' = <<a>>
      BY <3>3
    <3> QED BY <3>2, <3>3, <3>4 DEF DenialInv, DenialIsFinal, InHooks
  <2> QED BY <2>1, <2>2, <2>3
<1>7. CASE DispatchPost
  BY <1>7 DEF DispatchPost, DenialInv, DenialIsFinal, InHooks
<1>8. CASE UNCHANGED vars
  BY <1>8 DEF vars, DenialInv, DenialIsFinal
<1> QED BY <1>2, <1>3, <1>4, <1>5, <1>6, <1>7, <1>8 DEF Next

\* No login succeeds past a hook that denied it, or past a fail_closed hook that
\* failed, for any hooks in any phases.
THEOREM DenialsStand == Spec => []DenialIsFinal
<1>1. Init => DenialInv
  BY DEF Init, DenialInv, DenialIsFinal, InHooks
<1>2. DenialInv => DenialIsFinal
  BY DEF DenialInv
<1> QED BY <1>1, <1>2, DenialStep, AnswersKnown, TypeCorrect, PTL DEF Spec

----------------------------------------------------------------------------
\* Patches.

\* A hook's answer changes fields of its allowlist only, and only if it may patch.
LEMMA OutcomePatch ==
  ASSUME TypeOK, NEW h \in HookRules, NEW o \in HookOutcomes(h), NEW f \in Fields,
         o.fields[f] # fields[f]
  PROVE  h.capability = "patch" /\ f \in h.allow /\ o.result \in {"patched", "unusable"}
<1>1. CASE o \in {[fields |-> fields, result |-> r] : r \in {"failed", "ok", "denied", "unusable"}}
  BY <1>1
<1>2. CASE h.capability = "patch" /\ \E p \in Patches : o \in Patched(h, p)
  <2>1. PICK p \in Patches : o \in Patched(h, p)
    BY <1>2
  <2> DEFINE open     == {g \in DOMAIN p : MayPatch(h, g)}
             wrong    == {g \in open : p[g] = "wrong type"}
             after(G) == [g \in Fields |-> IF g \in G THEN p[g] ELSE fields[g]]
  <2>2. \/ wrong = {} /\ o = [fields |-> after(open), result |-> "patched"]
        \/ \E G \in SUBSET (open \ wrong) : o = [fields |-> after(G), result |-> "unusable"]
    BY <2>1 DEF Patched
  <2>3. PICK G \in SUBSET open :
          o.fields = after(G) /\ o.result \in {"patched", "unusable"}
    <3>1. CASE o = [fields |-> after(open), result |-> "patched"]
      BY <3>1
    <3>2. CASE \E G \in SUBSET (open \ wrong) : o = [fields |-> after(G), result |-> "unusable"]
      <4>1. PICK G \in SUBSET (open \ wrong) : o = [fields |-> after(G), result |-> "unusable"]
        BY <3>2
      <4>2. G \in SUBSET open /\ o.fields = after(G) /\ o.result = "unusable"
        BY <4>1
      <4> QED BY <4>2
    <3> QED BY <2>2, <3>1, <3>2
  <2>4. f \in G
    BY <2>3
  <2>5. MayPatch(h, f)
    BY <2>3, <2>4
  <2> QED BY <1>2, <2>3, <2>5 DEF MayPatch
<1> QED BY <1>1, <1>2 DEF HookOutcomes

LEMMA PatchInit == Init => PatchesAreAllowed
  BY DEF Init, PatchesAreAllowed

LEMMA PatchStep == TypeOK /\ PatchesAreAllowed /\ [Next]_vars => PatchesAreAllowed'
<1> SUFFICES ASSUME TypeOK, PatchesAreAllowed, [Next]_vars PROVE PatchesAreAllowed'
  OBVIOUS
<1>1. ASSUME UNCHANGED <<fields, ran>> PROVE PatchesAreAllowed'
  BY <1>1 DEF PatchesAreAllowed
<1>2. CASE MatchRelay \/ Relay \/ MatchPre \/ Authorise \/ FailOpen
  BY <1>1, <1>2 DEF MatchRelay, Relay, MatchPre, Authorise, FailOpen
<1>3. ASSUME NEW r \in PreRules, ReadLevel(r) \/ Forward(r) PROVE PatchesAreAllowed'
  BY <1>1, <1>3 DEF ReadLevel, Forward
<1>4. CASE Bind \/ MatchHooks \/ HooksOver \/ Verify \/ Issue \/ DispatchPost
  BY <1>1, <1>4 DEF Bind, MatchHooks, HooksOver, Verify, Issue, DispatchPost
<1>5. ASSUME NEW h \in HookRules, CallHook(h) PROVE PatchesAreAllowed'
  <2>1. PICK o \in HookOutcomes(h) :
          LET e == [hook |-> h, result |-> o.result] IN
          /\ o.result \in Result /\ e \in [hook : HookRules, result : Result]
          /\ fields' = o.fields /\ ran' = Append(ran, e)
    BY <1>5, CallHookEffect
  <2> DEFINE e == [hook |-> h, result |-> o.result]
             Allowed(run, f) == /\ run.hook.capability = "patch" /\ f \in run.hook.allow
                                /\ run.result \in {"patched", "unusable"}
  <2>2. ran \in Seq([hook : HookRules, result : Result])
    BY DEF TypeOK
  <2>3. \A i \in DOMAIN ran : i \in DOMAIN ran' /\ ran'[i] = ran[i]
    BY <2>1, <2>2
  <2>4. Len(ran) + 1 \in DOMAIN ran' /\ ran'[Len(ran) + 1] = e
    BY <2>1, <2>2
  <2>5. ASSUME NEW f \in Fields, fields'[f] # "sent"
        PROVE  \E i \in DOMAIN ran' : Allowed(ran'[i], f)
    <3>1. CASE fields'[f] = fields[f]
      <4>1. PICK i \in DOMAIN ran : Allowed(ran[i], f)
        BY <2>5, <3>1 DEF PatchesAreAllowed
      <4> QED BY <4>1, <2>3
    <3>2. CASE fields'[f] # fields[f]
      <4>1. Allowed(e, f)
        BY <2>1, <3>2, OutcomePatch
      <4> QED BY <4>1, <2>4
    <3> QED BY <3>1, <3>2
  <2> QED BY <2>5 DEF PatchesAreAllowed
<1>6. CASE UNCHANGED vars
  BY <1>1, <1>6 DEF vars
<1> QED BY <1>2, <1>3, <1>4, <1>5, <1>6 DEF Next

\* What the payload has been changed to, a hook with the right to change it has sent.
THEOREM PatchesAllowed == Spec => []PatchesAreAllowed
<1>1. QED BY PatchInit, PatchStep, TypeCorrect, PTL DEF Spec

----------------------------------------------------------------------------
\* The order of the hooks.

LEMMA OrderStep == TypeOK /\ OrderInv /\ [Next]_vars => OrderInv'
<1> SUFFICES ASSUME TypeOK, OrderInv, [Next]_vars PROVE OrderInv'
  OBVIOUS
<1>t. /\ phase \in Int /\ ran \in Seq([hook : HookRules, result : Result])
      /\ \A h \in HookRules : h.phase \in Int /\ h.order \in Int
  <2>1. phase \in Phases /\ ran \in Seq([hook : HookRules, result : Result])
    BY DEF TypeOK
  <2>2. \A h \in HookRules : h.phase \in Phases /\ h.order \in Nat
    BY DispatchConstants DEF HookRule
  <2> QED BY <2>1, <2>2 DEF Phases
<1>0. \A i \in DOMAIN ran : ran[i].hook \in HookRules
  <2>1. \A i \in DOMAIN ran : ran[i] \in [hook : HookRules, result : Result]
    BY <1>t, ElementType
  <2> QED BY <2>1
<1>s. ASSUME UNCHANGED ran PROVE HooksInOrder'
  <2>1. HooksInOrder /\ ran' = ran
    BY <1>s DEF OrderInv
  <2> SUFFICES ASSUME NEW i \in DOMAIN ran', NEW j \in DOMAIN ran', i < j
               PROVE  LET x == ran'[i].hook
                          y == ran'[j].hook
                      IN x # y /\ (x.phase < y.phase \/ (x.phase = y.phase /\ x.order <= y.order))
    BY DEF HooksInOrder
  <2>2. i \in DOMAIN ran /\ j \in DOMAIN ran /\ ran'[i] = ran[i] /\ ran'[j] = ran[j]
    BY <2>1
  <2> QED BY <2>1, <2>2 DEF HooksInOrder
\* Before the hooks, and after them.
<1>1. ASSUME UNCHANGED <<ran, phase>>, ran = <<>>, phase = 1, pc' # "hooks" PROVE OrderInv'
  <2>1. \A i \in DOMAIN ran' : FALSE
    BY <1>1, EmptyDomain
  <2>2. HooksInOrder'
    BY <1>1, <1>s
  <2> QED BY <1>1, <2>1, <2>2 DEF OrderInv
<1>2. ASSUME UNCHANGED ran, pc' \in {"post", "done"} PROVE OrderInv'
  BY <1>2, <1>s DEF OrderInv, InHooks
<1>3. CASE MatchRelay \/ Relay \/ MatchPre \/ Authorise \/ FailOpen \/ Bind
  <2>1. UNCHANGED <<ran, phase>> /\ pc \notin InHooks \cup {"post", "done"} /\ pc' # "hooks"
    BY <1>3 DEF MatchRelay, Relay, MatchPre, Authorise, FailOpen, Bind, InHooks, Answered,
                AfterRelayFails, AfterAllFailed
  <2> QED BY <2>1, <1>1 DEF OrderInv
<1>4. ASSUME NEW r \in PreRules, ReadLevel(r) \/ Forward(r) PROVE OrderInv'
  <2>1. UNCHANGED <<ran, phase>> /\ pc \notin InHooks \cup {"post", "done"} /\ pc' # "hooks"
    BY <1>4 DEF ReadLevel, Forward, InHooks, Answered, AfterForward
  <2> QED BY <2>1, <1>1 DEF OrderInv
<1>5. CASE MatchHooks
  BY <1>5, <1>s DEF MatchHooks, OrderInv, InHooks
<1>6. ASSUME NEW h \in HookRules, CallHook(h) PROVE OrderInv'
  <2>1. PICK o \in HookOutcomes(h) :
          LET e == [hook |-> h, result |-> o.result] IN
          /\ e \in [hook : HookRules, result : Result]
          /\ ran' = Append(ran, e)
          /\ pc' \in {"hooks", "post"}
    BY <1>6, CallHookEffect DEF CallHook, Answered
  <2> DEFINE e == [hook |-> h, result |-> o.result]
  <2>2. /\ h \in todo /\ \A g \in todo : h.order <= g.order
        /\ todo' = todo \ {h} /\ phase' = phase /\ pc = "hooks"
    BY <1>6 DEF CallHook, Due, Tried
  <2>3. /\ \A g \in todo : g \in HookRules /\ g.phase = phase
        /\ \A i \in DOMAIN ran :
             \/ ran[i].hook.phase < phase
             \/ /\ ran[i].hook.phase = phase
                /\ \A g \in todo : ran[i].hook # g /\ ran[i].hook.order <= g.order
        /\ HooksInOrder
    BY <2>2 DEF OrderInv
  <2>4. ASSUME NEW i \in DOMAIN ran'
        PROVE  \/ i \in DOMAIN ran /\ ran'[i] = ran[i] /\ i < Len(ran) + 1
               \/ i = Len(ran) + 1 /\ ran'[i] = e
    <3>1. ran' = Append(ran, e) /\ e \in [hook : HookRules, result : Result]
      BY <2>1
    <3>2. i \in DOMAIN Append(ran, e)
      BY <2>4, <3>1
    <3> QED BY <1>t, <3>1, <3>2, AppendCases
  <2>5. ASSUME NEW i \in DOMAIN ran'
        PROVE  \/ ran'[i].hook.phase < phase
               \/ /\ ran'[i].hook.phase = phase
                  /\ \A g \in todo' : ran'[i].hook # g /\ ran'[i].hook.order <= g.order
    <3>1. CASE i \in DOMAIN ran /\ ran'[i] = ran[i]
      BY <3>1, <2>2, <2>3
    <3>2. CASE ran'[i] = e
      BY <3>2, <2>2, <2>3
    <3> QED BY <3>1, <3>2, <2>4
  <2>6. HooksInOrder'
    <3> SUFFICES ASSUME NEW i \in DOMAIN ran', NEW j \in DOMAIN ran', i < j
                 PROVE  LET x == ran'[i].hook
                            y == ran'[j].hook
                        IN x # y /\ (x.phase < y.phase \/ (x.phase = y.phase /\ x.order <= y.order))
      BY DEF HooksInOrder
    <3>1. i \in DOMAIN ran /\ ran'[i] = ran[i]
      <4>1. Len(ran) + 1 \in Int /\ \A k \in DOMAIN ran' : k \in Int /\ k <= Len(ran) + 1
        BY <1>t, <2>1, <2>4
      <4> QED BY <4>1, <2>4
    <3>2. CASE j \in DOMAIN ran /\ ran'[j] = ran[j]
      BY <3>1, <3>2, <2>3 DEF HooksInOrder
    <3>3. CASE ran'[j] = e
      <4>1. \/ ran[i].hook.phase < phase
            \/ /\ ran[i].hook.phase = phase
               /\ ran[i].hook # h /\ ran[i].hook.order <= h.order
        BY <3>1, <2>2, <2>3
      <4>2. h.phase = phase /\ phase \in Int
        BY <2>2, <2>3, <1>t
      <4> QED BY <3>1, <3>3, <4>1, <4>2
    <3> QED BY <3>2, <3>3, <2>4
  <2>7. \A g \in todo' : g \in HookRules /\ g.phase = phase'
    BY <2>2, <2>3
  <2> QED BY <2>1, <2>2, <2>5, <2>6, <2>7 DEF OrderInv, InHooks
<1>7. CASE HooksOver
  <2>1. UNCHANGED <<ran, phase>> /\ pc = "hooks" /\ pc' = "phase over"
    BY <1>7 DEF HooksOver
  <2>2. \A i \in DOMAIN ran : ran[i].hook.phase <= phase
    <3>1. \A i \in DOMAIN ran : ran[i].hook.phase < phase \/ ran[i].hook.phase = phase
      BY <2>1 DEF OrderInv
    <3>2. phase \in Int /\ \A i \in DOMAIN ran : ran[i].hook.phase \in Int
      BY <1>t, <1>0
    <3> QED BY <3>1, <3>2
  <2> QED BY <2>1, <2>2, <1>s DEF OrderInv, InHooks
<1>8. CASE Verify
  <2>1. CASE Answered("refused", "post")
    BY <1>8, <2>1, <1>2 DEF Verify, Answered
  <2>2. CASE phase' = phase + 1 /\ pc' = "phase"
    <3>1. UNCHANGED ran /\ \A i \in DOMAIN ran : ran[i].hook.phase <= phase
      BY <1>8 DEF Verify, OrderInv
    <3>2. \A i \in DOMAIN ran : ran[i].hook.phase < phase'
      BY <3>1, <2>2, <1>t, <1>0
    <3> QED BY <2>2, <3>1, <3>2, <1>s DEF OrderInv, InHooks
  <2> QED BY <1>8, <2>1, <2>2 DEF Verify
<1>9. CASE Issue \/ DispatchPost
  BY <1>9, <1>2 DEF Issue, DispatchPost, Answered
<1>10. CASE UNCHANGED vars
  BY <1>10, <1>s DEF vars, OrderInv
<1> QED BY <1>3, <1>4, <1>5, <1>6, <1>7, <1>8, <1>9, <1>10 DEF Next

\* Hooks are called in order and once, whatever order a registry lists them in.
THEOREM HooksOrdered == Spec => []HooksInOrder
<1>1. Init => OrderInv
  <2> SUFFICES ASSUME Init PROVE OrderInv
    OBVIOUS
  <2>1. ran = <<>> /\ phase = 1 /\ pc = "relay"
    BY DEF Init
  <2>2. \A i \in DOMAIN ran : FALSE
    BY <2>1, EmptyDomain
  <2> QED BY <2>1, <2>2 DEF OrderInv, HooksInOrder
<1>2. OrderInv => HooksInOrder
  BY DEF OrderInv
<1> QED BY <1>1, <1>2, OrderStep, TypeCorrect, PTL DEF Spec

----------------------------------------------------------------------------
\* Post-routes.

LEMMA PostStep == AnswerInv /\ PostInv /\ [Next]_vars => PostInv'
<1> SUFFICES ASSUME AnswerInv, PostInv, [Next]_vars PROVE PostInv'
  OBVIOUS
<1>1. ASSUME UNCHANGED posted, pc # "done" PROVE PostInv'
  BY <1>1 DEF PostInv, PostOnlyAfterSuccess
<1>2. CASE MatchRelay \/ Relay \/ MatchPre \/ Authorise \/ FailOpen \/ Bind \/ MatchHooks
             \/ HooksOver \/ Verify \/ Issue
  BY <1>1, <1>2 DEF MatchRelay, Relay, MatchPre, Authorise, FailOpen, Bind, MatchHooks,
                    HooksOver, Verify, Issue
<1>3. ASSUME NEW r \in PreRules, ReadLevel(r) \/ Forward(r) PROVE PostInv'
  BY <1>1, <1>3 DEF ReadLevel, Forward
<1>4. ASSUME NEW h \in HookRules, CallHook(h) PROVE PostInv'
  BY <1>1, <1>4 DEF CallHook
<1>5. CASE DispatchPost
  <2>1. PICK a \in Answer : answers = <<a>>
    BY <1>5 DEF DispatchPost, AnswerInv
  <2>2. \A i \in DOMAIN answers : answers[i] = a
    BY <2>1
  <2>3. posted' # {} => Success(a)
    BY <1>5, <2>2 DEF DispatchPost
  <2>4. answers' = <<a>> /\ pc' = "done"
    BY <1>5, <2>1 DEF DispatchPost
  <2> QED BY <2>3, <2>4 DEF PostInv, PostOnlyAfterSuccess, Success
<1>6. CASE UNCHANGED vars
  BY <1>6 DEF vars, PostInv, PostOnlyAfterSuccess
<1> QED BY <1>2, <1>3, <1>4, <1>5, <1>6 DEF Next

\* Services with a post-route learn of successful logins only.
THEOREM PostsFollowSuccess == Spec => []PostOnlyAfterSuccess
<1>1. Init => PostInv
  BY DEF Init, PostInv, PostOnlyAfterSuccess
<1>2. PostInv => PostOnlyAfterSuccess
  BY DEF PostInv
<1> QED BY <1>1, <1>2, PostStep, AnswersKnown, PTL DEF Spec
=============================================================================
