------------------------------ MODULE Dispatch ------------------------------
(***************************************************************************)
(* One login request on its way through the service extension layer: the   *)
(* relay middleware, the orchestration middleware with its pre-routes, the *)
(* handler of POST /oauth/login-ticket with its three hook phases, and the *)
(* post-routes.                                                            *)
(*                                                                         *)
(* Requests share nothing but the registries, so one is enough.  Services  *)
(* register, change their rules and expire meanwhile, and nothing holds    *)
(* from one read of a registry to the next: a read returns any rules that  *)
(* can match the path, or any level.  A call to a service can fail or time *)
(* out; a call that fails may have reached the service all the same.       *)
(***************************************************************************)
EXTENDS Integers, Sequences, FiniteSets

CONSTANTS
  Services,
  PreRules,   \* route rules with a pre_url that match the path: [id, service]
  HookRules,  \* the registered hooks
  Fields,     \* what a hook may patch; it has "factor", the required second factor
  None

Phases == 1..3   \* auth.input, auth.risk, auth.post_verify
Levels == 0..2   \* none, user, ops

\* What the registration of hooks lets through.
HookRule ==
  {h \in [id : Nat, phase : Phases, order : Nat, capability : {"observe", "patch", "veto"},
          failClosed : BOOLEAN, allow : SUBSET Fields] :
     h.capability = "patch" => h.allow # {}}

ASSUME DispatchConstants ==
  /\ \A r \in PreRules : r.service \in Services
  /\ HookRules \subseteq HookRule
  /\ "factor" \in Fields
  /\ None \notin Services

VARIABLES
  caller,   \* level of the request's credential
  pc,
  target,   \* service of the relay rule that matches, or None
  routes,   \* the pre-routes that match
  todo,     \* those of the routes, or of the hooks of a phase, not yet tried
  need,     \* level required of the caller so far
  body,     \* "sent", or "read" once forwardTo has read it
  phase,    \* hook phase
  fields,   \* hook payload
  ran,      \* history: [hook, result], in the order of the calls
  asked,    \* history: service -> level it asked for
  reached,  \* history: services the request was forwarded to
  posted,   \* history: services that were sent the response
  answers   \* history: responses written

vars == <<caller, pc, target, routes, todo, need, body, phase, fields,
          ran, asked, reached, posted, answers>>

\* "refused" stands for every other error of the handler.
Answer == {"relayed", "bad gateway", "unauthorised", "forwarded",
           "denied", "refused", "ticket", "tokens"}
Result == {"failed", "ok", "denied", "patched", "unusable"}
Value  == {"sent", "none", "good", "bad"}

TypeOK ==
  /\ caller \in Levels /\ need \in Levels
  /\ pc \in {"relay", "relay level", "pre", "pre levels", "pre forward",
             "bind", "phase", "hooks", "phase over", "post", "done"}
  /\ target \in Services \cup {None}
  /\ routes \subseteq PreRules
  /\ todo \subseteq PreRules \cup HookRules
  /\ body \in {"sent", "read"}
  /\ phase \in Phases /\ fields \in [Fields -> Value]
  /\ ran \in Seq([hook : HookRules, result : Result])
  /\ DOMAIN asked \subseteq Services /\ asked \in [DOMAIN asked -> Levels]
  /\ reached \subseteq Services /\ posted \subseteq Services
  /\ answers \in Seq(Answer)

Init ==
  /\ caller \in Levels
  /\ pc = "relay" /\ target = None /\ routes = {} /\ todo = {} /\ need = 0
  /\ body = "sent" /\ phase = 1 /\ fields = [f \in Fields |-> "sent"]
  /\ ran = <<>> /\ asked = <<>> /\ reached = {} /\ posted = {} /\ answers = <<>>

----------------------------------------------------------------------------
\* M_x is x with a plausible mistake; it is used only to show that the properties
\* notice it.

\* A middleware that has answered aborts the chain.
M_AfterForward == "bind"
AfterForward   == "done"

\* maxSecurityForRules, one rule at a time.
M_NeedAfter(l) == l
NeedAfter(l)   == IF l > need THEN l ELSE need

\* The relay middleware aborts also when the service does not answer.
M_AfterRelayFails == "pre"
AfterRelayFails   == "done"

\* The captured status that makes the post-routes run.
Success(a)   == a \in {"ticket", "tokens"}

\* Match orders the rules of a phase by priority and service.
M_Due == todo
Due   == {h \in todo : \A g \in todo : h.order <= g.order}

M_MayPatch(h, f) == f \in Fields
MayPatch(h, f)   == f \in h.allow

\* runRule: what goes wrong counts if the rule says so.
M_Stops(h, result) == result = "denied" \/ (h.failClosed /\ result = "failed")
Stops(h, result)   == result = "denied" \/ (h.failClosed /\ result \in {"failed", "unusable"})

Tried(r) == todo \ {r}

\* When no pre-route has answered, the request goes on to the handler.
M_AfterAllFailed == "pre forward"
AfterAllFailed   == "bind"

\* applyHookPatch looks at the fields in no particular order and stops at one of a
\* wrong type: those it has seen by then are changed.
Patches == UNION {[F -> {"none", "good", "bad", "wrong type"}] : F \in SUBSET Fields}

Patched(h, p) ==
  LET open     == {f \in DOMAIN p : MayPatch(h, f)}
      wrong    == {f \in open : p[f] = "wrong type"}
      after(F) == [f \in Fields |-> IF f \in F THEN p[f] ELSE fields[f]]
  IN IF wrong = {} THEN {[fields |-> after(open), result |-> "patched"]}
     ELSE {[fields |-> after(F), result |-> "unusable"] : F \in SUBSET (open \ wrong)}

\* What the answer of a hook does to the payload, and how it counts.
HookOutcomes(h) ==
  {[fields |-> fields, result |-> r] : r \in {"failed", "ok", "denied", "unusable"}} \cup
  (IF h.capability = "patch" THEN UNION {Patched(h, p) : p \in Patches} ELSE {})

Answered(a, next) ==
  /\ answers' = Append(answers, a)
  /\ pc' = next

----------------------------------------------------------------------------
\* RelayMiddleware: match, compare the levels, forward or answer 502.
MatchRelay ==
  /\ pc = "relay"
  /\ \/ target' = None /\ pc' = "pre"
     \/ target' \in Services /\ pc' = "relay level"
  /\ UNCHANGED <<caller, routes, todo, need, body, phase, fields, ran, asked, reached,
                 posted, answers>>

Relay ==
  /\ pc = "relay level"
  /\ \E l \in Levels :
       /\ asked' = [s \in {target} |-> l]
       /\ \/ caller < l /\ Answered("unauthorised", "done") /\ UNCHANGED <<body, reached>>
          \/ /\ caller >= l
             /\ body' = "read" /\ reached' = reached \cup {target}
             /\ Answered("relayed", "done") \/ Answered("bad gateway", AfterRelayFails)
  /\ UNCHANGED <<caller, target, routes, todo, need, phase, fields, ran, posted>>

\* OrchestrationMiddleware: match the pre-routes, take the highest level their
\* services ask for, forward to one after the other until one answers.
MatchPre ==
  /\ pc = "pre"
  /\ routes' \in SUBSET PreRules
  /\ todo' = routes'
  /\ pc' = IF routes' = {} THEN "bind" ELSE "pre levels"
  /\ UNCHANGED <<caller, target, need, body, phase, fields, ran, asked, reached, posted, answers>>

ReadLevel(r) ==
  /\ pc = "pre levels"
  /\ r \in todo
  /\ \E l \in Levels :
       /\ need' = NeedAfter(l)
       /\ asked' = [s \in DOMAIN asked \cup {r.service} |-> IF s = r.service THEN l ELSE asked[s]]
  /\ todo' = Tried(r)
  /\ UNCHANGED <<caller, pc, target, routes, body, phase, fields, ran, reached, posted, answers>>

Authorise ==
  /\ pc = "pre levels"
  /\ todo = {}
  /\ \/ caller < need /\ Answered("unauthorised", "done") /\ UNCHANGED todo
     \/ caller >= need /\ todo' = routes /\ pc' = "pre forward" /\ UNCHANGED answers
  /\ UNCHANGED <<caller, target, routes, need, body, phase, fields, ran, asked, reached, posted>>

Forward(r) ==
  /\ pc = "pre forward"
  /\ r \in todo
  /\ body' = "read" /\ reached' = reached \cup {r.service}
  /\ todo' = Tried(r)
  /\ \/ Answered("forwarded", AfterForward)
     \/ UNCHANGED <<answers, pc>>
  /\ UNCHANGED <<caller, target, routes, need, phase, fields, ran, asked, posted>>

FailOpen ==
  /\ pc = "pre forward"
  /\ todo = {}
  /\ pc' = AfterAllFailed
  /\ UNCHANGED <<caller, target, routes, todo, need, body, phase, fields, ran, asked, reached,
                 posted, answers>>

----------------------------------------------------------------------------
\* LoginTicket: bind the body; before the email is looked at, before the password
\* is verified and after it, run the hooks of a phase.
Bind ==
  /\ pc = "bind"
  /\ \/ Answered("refused", "post")
     \/ body = "sent" /\ pc' = "phase" /\ UNCHANGED answers
  /\ UNCHANGED <<caller, target, routes, todo, need, body, phase, fields, ran, asked, reached, posted>>

MatchHooks ==
  /\ pc = "phase"
  /\ todo' \in SUBSET {h \in HookRules : h.phase = phase}
  /\ pc' = "hooks"
  /\ UNCHANGED <<caller, target, routes, need, body, phase, fields, ran, asked, reached,
                 posted, answers>>

CallHook(h) ==
  /\ pc = "hooks"
  /\ h \in Due
  /\ \E o \in HookOutcomes(h) :
       /\ fields' = o.fields
       /\ ran' = Append(ran, [hook |-> h, result |-> o.result])
       /\ \/ Stops(h, o.result) /\ Answered("denied", "post")
          \/ ~Stops(h, o.result) /\ UNCHANGED <<answers, pc>>
  /\ todo' = Tried(h)
  /\ UNCHANGED <<caller, target, routes, need, body, phase, asked, reached, posted>>

HooksOver ==
  /\ pc = "hooks"
  /\ todo = {}
  /\ pc' = "phase over"
  /\ UNCHANGED <<caller, target, routes, todo, need, body, phase, fields, ran, asked, reached,
                 posted, answers>>

\* The email or the credentials may be refused.
Verify ==
  /\ pc = "phase over"
  /\ phase < 3
  /\ \/ Answered("refused", "post") /\ UNCHANGED phase
     \/ phase' = phase + 1 /\ pc' = "phase" /\ UNCHANGED answers
  /\ UNCHANGED <<caller, target, routes, todo, need, body, fields, ran, asked, reached, posted>>

\* A factor that the user does not have is denied; one that the user has gives a
\* ticket; if no hook asks for one, it depends on what the user has.  Redis or the
\* database may fail to take the ticket or the tokens.
Issue ==
  /\ pc = "phase over"
  /\ phase = 3
  /\ \/ fields["factor"] = "bad" /\ Answered("denied", "post")
     \/ fields["factor"] # "bad" /\ Answered("ticket", "post")
     \/ fields["factor"] \in {"sent", "none"} /\ Answered("tokens", "post")
     \/ fields["factor"] # "bad" /\ Answered("refused", "post")
  /\ UNCHANGED <<caller, target, routes, todo, need, body, phase, fields, ran, asked, reached, posted>>

----------------------------------------------------------------------------
\* After the handler: the response goes to the services with a post-route, each in
\* a goroutine that nobody waits for.
DispatchPost ==
  /\ pc = "post"
  /\ \E receivers \in SUBSET Services :
       posted' = IF \E i \in DOMAIN answers : Success(answers[i]) THEN receivers ELSE {}
  /\ pc' = "done"
  /\ UNCHANGED <<caller, target, routes, todo, need, body, phase, fields, ran, asked, reached, answers>>

Next ==
  \/ MatchRelay \/ Relay \/ MatchPre \/ Authorise \/ FailOpen
  \/ \E r \in PreRules : ReadLevel(r) \/ Forward(r)
  \/ Bind \/ MatchHooks \/ HooksOver \/ Verify \/ Issue \/ DispatchPost
  \/ \E h \in HookRules : CallHook(h)

\* Every call to a service has a timeout of ten seconds.
Spec == Init /\ [][Next]_vars /\ WF_vars(Next)

----------------------------------------------------------------------------
\* Safety.

\* The caller gets one response: none of the middlewares writes a second one after
\* another has answered, and none lets a request through without an answer.
OneAnswer ==
  /\ Len(answers) <= 1
  /\ pc = "done" => Len(answers) = 1

\* No service sees a request before the level it asks for was compared with the
\* caller's; when several services have a pre-route, the strictest decides for all.
StrictestLevelDecides ==
  \A s \in reached : s \in DOMAIN asked /\ \A q \in DOMAIN asked : asked[q] <= caller

\* A path that is relayed belongs to its service: whether it answers or not, the
\* request comes to no other service, no hook and no handler.
RelayNeverFallsBack ==
  target # None => /\ pc \in {"relay level", "done"}
                   /\ reached \subseteq {target} /\ ran = <<>>

\* Services with a post-route learn of the request only if the login succeeded:
\* not when it was denied or refused, and not when another service answered it.
PostOnlyAfterSuccess ==
  posted # {} => \E a \in {"ticket", "tokens"} : answers = <<a>>

\* Hooks are called phase by phase, and within a phase by priority; none is called
\* twice for a request.
HooksInOrder ==
  \A i, j \in DOMAIN ran : i < j =>
    LET h == ran[i].hook
        g == ran[j].hook
    IN h # g /\ (h.phase < g.phase \/ (h.phase = g.phase /\ h.order <= g.order))

\* No login succeeds past a hook that denied it, or past a fail_closed hook that
\* failed or gave an answer that could not be used.
DenialIsFinal ==
  (\E a \in {"ticket", "tokens"} : answers = <<a>>) =>
    \A i \in DOMAIN ran : /\ ran[i].result # "denied"
                          /\ ran[i].hook.failClosed => ran[i].result \in {"ok", "patched"}

\* What a hook changed in the payload, it was allowed to change: also when its patch
\* was given up half way.
PatchesAreAllowed ==
  \A f \in Fields : fields[f] # "sent" =>
    \E i \in DOMAIN ran : /\ ran[i].hook.capability = "patch" /\ f \in ran[i].hook.allow
                          /\ ran[i].result \in {"patched", "unusable"}

\* What the comment on OrchestrationMiddleware and knowledge/0008 say: when no
\* pre-route answers, the main service handles the request normally.  It does not
\* hold: forwardTo has read the body and nobody puts it back.
FailOpenLeavesTheRequest ==
  pc = "bind" => body = "sent"

----------------------------------------------------------------------------
\* Liveness.

\* Every request is answered, whatever the services do: the rules read from a
\* registry are a copy, and each is tried once.
EveryRequestIsAnswered == <>(pc = "done")
=============================================================================
