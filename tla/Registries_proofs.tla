------------------------- MODULE Registries_proofs -------------------------
(***************************************************************************)
(* Theorems about Registries, for any number of services, rules and keys.  *)
(***************************************************************************)
EXTENDS Registries, Sequences, FiniteSetTheorems, TLAPS

\* The service has the key, or Redis has it for the service.
HasKey(s, k) ==
  \/ s \in DOMAIN presence /\ presence[s].key = k
  \/ s \in DOMAIN presenceDb /\ presenceDb[s].key = k

\* A key is given out once, so that nobody but one service ever has it: revoking it
\* for that service, in memory and in Redis, takes it out of the world.
KeyInv ==
  /\ IsTable(presence, Services, Record) /\ IsTable(presenceDb, Services, Record)
  /\ made \subseteq Keys /\ revoked \subseteq made
  /\ lost \in BOOLEAN
  /\ beat \in Services \cup {None}
  /\ \A s \in Services, k \in Keys : HasKey(s, k) => k \in made
  /\ \A s, q \in Services, k \in Keys : HasKey(s, k) /\ HasKey(q, k) => s = q
  /\ ~lost => \A s \in Services, k \in revoked : ~HasKey(s, k)
  /\ ~lost => \A s \in DOMAIN presence \cap DOMAIN presenceDb :
                presence[s].key = presenceDb[s].key

----------------------------------------------------------------------------
\* Tables.

LEMMA WithTable ==
  ASSUME NEW K, NEW R, NEW t, IsTable(t, K, R), NEW k \in K, NEW v \in R
  PROVE  IsTable(With(t, k, v), K, R)
  BY DEF IsTable, With

LEMMA WithoutTable ==
  ASSUME NEW K, NEW R, NEW t, IsTable(t, K, R), NEW S
  PROVE  IsTable(Without(t, S), K, R)
  BY DEF IsTable, Without

LEMMA EmptyDomain == \A x \in DOMAIN <<>> : FALSE
<1>1. <<>> \in Seq({}) /\ Len(<<>>) = 0
  OBVIOUS
<1>2. DOMAIN <<>> = 1..0
  BY <1>1
<1> QED BY <1>2

----------------------------------------------------------------------------
\* The steps.

\* What writes neither records nor the history of keys.
LEMMA QuietStep ==
  ASSUME KeyInv, UNCHANGED <<presence, presenceDb, made, revoked>>,
         beat' \in Services \cup {None}, lost' \in BOOLEAN, ~lost' => ~lost
  PROVE  KeyInv'
  BY DEF KeyInv, HasKey

\* Keys may be forgotten at any place, if memory and Redis still agree.
LEMMA ForgetStep ==
  ASSUME KeyInv, UNCHANGED <<made, revoked>>,
         IsTable(presence', Services, Record), IsTable(presenceDb', Services, Record),
         \A s \in Services, k \in Keys : HasKey(s, k)' => HasKey(s, k),
         beat' \in Services \cup {None}, lost' \in BOOLEAN, ~lost' => ~lost,
         ~lost' => \A s \in DOMAIN presence' \cap DOMAIN presenceDb' :
                     presence'[s].key = presenceDb'[s].key
  PROVE  KeyInv'
<1>1. \A s \in Services, k \in Keys : HasKey(s, k)' => k \in made'
  BY DEF KeyInv
<1>2. \A s, q \in Services, k \in Keys : HasKey(s, k)' /\ HasKey(q, k)' => s = q
  BY DEF KeyInv
<1>3. ~lost' => \A s \in Services, k \in revoked' : ~HasKey(s, k)'
  BY DEF KeyInv
<1> QED BY <1>1, <1>2, <1>3 DEF KeyInv

LEMMA RegisterStep ==
  ASSUME KeyInv, NEW s \in Services, Register(s)
  PROVE  KeyInv'
<1> DEFINE record == [key |-> KeptKey(s), expired |-> FALSE]
<1>1. /\ presence' = With(presence, s, record)
      /\ \/ presenceDb' = With(presenceDb, s, record) /\ UNCHANGED lost
         \/ UNCHANGED presenceDb /\ lost' = TRUE
      /\ UNCHANGED <<made, revoked, beat>>
  BY DEF Register, SetRecord
<1>2. record \in Record
  BY DEF KeyInv, IsTable, Record, KeptKey
<1>3. IsTable(presence', Services, Record) /\ IsTable(presenceDb', Services, Record)
  BY <1>1, <1>2, WithTable DEF KeyInv
<1>4. \A k \in Keys : record.key = k => HasKey(s, k)
  BY RegistryConstants DEF KeptKey, HasKey
<1>5. \A q \in Services, k \in Keys : HasKey(q, k)' => HasKey(q, k)
  BY <1>1, <1>4 DEF HasKey, With
<1>6. ~lost' => \A q \in DOMAIN presence' \cap DOMAIN presenceDb' :
                  presence'[q].key = presenceDb'[q].key
  BY <1>1 DEF KeyInv, With
<1> QED BY <1>1, <1>3, <1>5, <1>6, ForgetStep DEF KeyInv

LEMMA RegisterAuthKeyStep ==
  ASSUME KeyInv, NEW s \in Services, RegisterAuthKey(s)
  PROVE  KeyInv'
<1>1. PICK k \in Keys \ made :
        LET record == [presence[s] EXCEPT !.key = k] IN
        /\ presence' = With(presence, s, record)
        /\ \/ presenceDb' = With(presenceDb, s, record) /\ UNCHANGED lost
           \/ UNCHANGED presenceDb /\ lost' = TRUE
        /\ made' = made \cup {k}
        /\ s \in DOMAIN presence /\ UNCHANGED <<revoked, beat>>
  BY DEF RegisterAuthKey, SetRecord
<1> DEFINE record == [presence[s] EXCEPT !.key = k]
<1>2. record \in Record /\ record.key = k
  BY <1>1 DEF KeyInv, IsTable, Record
<1>3. IsTable(presence', Services, Record) /\ IsTable(presenceDb', Services, Record)
  BY <1>1, <1>2, WithTable DEF KeyInv
<1>4. \A q \in Services, x \in Keys : HasKey(q, x)' => HasKey(q, x) \/ (q = s /\ x = k)
  BY <1>1, <1>2 DEF HasKey, With
<1>5. \A q \in Services : ~HasKey(q, k)
  BY DEF KeyInv
<1>6. \A q \in Services, x \in Keys : HasKey(q, x)' => x \in made'
  BY <1>1, <1>4 DEF KeyInv
<1>7. \A p, q \in Services, x \in Keys : HasKey(p, x)' /\ HasKey(q, x)' => p = q
  BY <1>4, <1>5 DEF KeyInv
<1>8. ~lost' => \A q \in Services, x \in revoked' : ~HasKey(q, x)'
  BY <1>1, <1>4 DEF KeyInv
<1>9. ~lost' => \A q \in DOMAIN presence' \cap DOMAIN presenceDb' :
                  presence'[q].key = presenceDb'[q].key
  <2> SUFFICES ASSUME ~lost', NEW q \in DOMAIN presence' \cap DOMAIN presenceDb'
               PROVE  presence'[q].key = presenceDb'[q].key
    OBVIOUS
  <2>1. presence' = With(presence, s, record) /\ presenceDb' = With(presenceDb, s, record) /\ ~lost
    BY <1>1
  <2> HIDE DEF record
  <2>2. CASE q = s
    BY <2>1, <2>2 DEF With
  <2>3. CASE q # s
    BY <2>1, <2>3 DEF With, KeyInv
  <2> QED BY <2>2, <2>3
<1> QED BY <1>1, <1>3, <1>6, <1>7, <1>8, <1>9 DEF KeyInv

LEMMA HeartbeatRevokesStep ==
  ASSUME KeyInv, HeartbeatRevokes
  PROVE  KeyInv'
<1>s. PICK s \in Services : s = beat
  BY DEF HeartbeatRevokes, KeyInv
<1> DEFINE record == [presence[s] EXCEPT !.key = None]
<1>0. s \in Services /\ beat' = None /\ UNCHANGED made
  BY DEF HeartbeatRevokes
<1>1. CASE s \notin DOMAIN presence
  BY <1>s, <1>0, <1>1, QuietStep DEF HeartbeatRevokes, KeyInv
<1>2. CASE s \in DOMAIN presence
  <2>1. /\ presence' = With(presence, s, record)
        /\ \/ presenceDb' = With(presenceDb, s, record) /\ UNCHANGED lost
           \/ UNCHANGED presenceDb /\ lost' = TRUE
        /\ revoked' = revoked \cup ({presence[s].key} \ {None})
    BY <1>s, <1>2 DEF HeartbeatRevokes, SetRecord, DbAfterRevoke
  <2>2. record \in Record /\ record.key = None /\ presence[s].key \in Keys \cup {None}
    BY <1>2 DEF KeyInv, IsTable, Record
  <2>3. IsTable(presence', Services, Record) /\ IsTable(presenceDb', Services, Record)
    BY <1>0, <2>1, <2>2, WithTable DEF KeyInv
  <2>4. revoked' \subseteq made'
    BY <1>0, <1>2, <2>1, <2>2 DEF KeyInv, HasKey
  <2> HIDE DEF record
  <2>5. \A q \in Services, k \in Keys : HasKey(q, k)' => HasKey(q, k)
    BY <2>1, <2>2, RegistryConstants DEF HasKey, With
  <2>6. ~lost' => \A k \in Keys : ~HasKey(s, k)'
    BY <2>1, <2>2, RegistryConstants DEF HasKey, With
  <2>7. ~lost' => \A q \in Services, k \in revoked' : ~HasKey(q, k)'
    <3> SUFFICES ASSUME ~lost', NEW q \in Services, NEW k \in revoked', HasKey(q, k)'
                 PROVE  FALSE
      OBVIOUS
    <3>1. k \in Keys /\ ~lost
      BY <1>0, <2>1, <2>4 DEF KeyInv
    <3>2. HasKey(q, k) /\ q # s
      BY <2>5, <2>6, <3>1
    <3>3. k \notin revoked
      BY <3>1, <3>2 DEF KeyInv
    <3>4. k = presence[s].key
      BY <2>1, <3>3
    <3>5. HasKey(s, k)
      BY <1>2, <3>4 DEF HasKey
    <3> QED BY <1>0, <3>1, <3>2, <3>5 DEF KeyInv
  <2>8. ~lost' => \A q \in DOMAIN presence' \cap DOMAIN presenceDb' :
                    presence'[q].key = presenceDb'[q].key
    <3> SUFFICES ASSUME ~lost', NEW q \in DOMAIN presence' \cap DOMAIN presenceDb'
                 PROVE  presence'[q].key = presenceDb'[q].key
      OBVIOUS
    <3>1. presence' = With(presence, s, record) /\ presenceDb' = With(presenceDb, s, record) /\ ~lost
      BY <2>1
    <3>2. CASE q = s
      BY <3>1, <3>2 DEF With
    <3>3. CASE q # s
      BY <3>1, <3>3 DEF With, KeyInv
    <3> QED BY <3>2, <3>3
  <2>9. \A q \in Services, k \in Keys : HasKey(q, k)' => k \in made'
    BY <1>0, <2>5 DEF KeyInv
  <2>10. \A p, q \in Services, k \in Keys : HasKey(p, k)' /\ HasKey(q, k)' => p = q
    BY <2>5 DEF KeyInv
  <2>11. made' \subseteq Keys /\ lost' \in BOOLEAN /\ beat' \in Services \cup {None}
    BY <1>0, <2>1 DEF KeyInv
  <2> QED BY <2>3, <2>4, <2>7, <2>8, <2>9, <2>10, <2>11 DEF KeyInv
<1> QED BY <1>1, <1>2

LEMMA ExpiryStep ==
  ASSUME KeyInv, NEW s \in Services, RecordExpires(s)
  PROVE  KeyInv'
<1>1. /\ s \in DOMAIN presence
      /\ presence' = [presence EXCEPT ![s].expired = TRUE]
      /\ \/ presenceDb' = presenceDb
         \/ s \in DOMAIN presenceDb /\ presenceDb' = [presenceDb EXCEPT ![s].expired = TRUE]
      /\ UNCHANGED <<beat, made, revoked, lost>>
  BY DEF RecordExpires
<1>2. /\ DOMAIN presence' = DOMAIN presence
      /\ \A q \in DOMAIN presence : presence'[q] \in Record /\ presence'[q].key = presence[q].key
  BY <1>1, ZenonT(60) DEF KeyInv, IsTable, Record
<1>3. /\ DOMAIN presenceDb' = DOMAIN presenceDb
      /\ \A q \in DOMAIN presenceDb :
           presenceDb'[q] \in Record /\ presenceDb'[q].key = presenceDb[q].key
  BY <1>1, ZenonT(60) DEF KeyInv, IsTable, Record
<1>4. IsTable(presence', Services, Record) /\ IsTable(presenceDb', Services, Record)
  BY <1>1, <1>2, <1>3 DEF KeyInv, IsTable
<1>5. \A q \in Services, k \in Keys : HasKey(q, k)' => HasKey(q, k)
  BY <1>2, <1>3 DEF HasKey
<1>6. ~lost' => \A q \in DOMAIN presence' \cap DOMAIN presenceDb' :
                  presence'[q].key = presenceDb'[q].key
  BY <1>1, <1>2, <1>3 DEF KeyInv
<1>7. beat' \in Services \cup {None} /\ lost' \in BOOLEAN /\ (~lost' => ~lost)
  BY <1>1 DEF KeyInv
<1> QED BY <1>1, <1>4, <1>5, <1>6, <1>7, ForgetStep

LEMMA EvictStep ==
  ASSUME KeyInv, NEW s \in Services, Evict(s)
  PROVE  KeyInv'
<1>1. /\ presence' = Without(presence, {s})
      /\ presenceDb' \in {presenceDb, Without(presenceDb, {s})}
      /\ UNCHANGED <<beat, made, revoked, lost>>
  BY DEF Evict
<1>2. IsTable(presence', Services, Record) /\ IsTable(presenceDb', Services, Record)
  BY <1>1, WithoutTable DEF KeyInv
<1>3. \A q \in Services, k \in Keys : HasKey(q, k)' => HasKey(q, k)
  BY <1>1 DEF HasKey, Without
<1>4. ~lost' => \A q \in DOMAIN presence' \cap DOMAIN presenceDb' :
                  presence'[q].key = presenceDb'[q].key
  BY <1>1 DEF KeyInv, Without
<1>5. beat' \in Services \cup {None} /\ lost' \in BOOLEAN /\ (~lost' => ~lost)
  BY <1>1 DEF KeyInv
<1> QED BY <1>1, <1>2, <1>3, <1>4, <1>5, ForgetStep

LEMMA RedisForgetsStep ==
  ASSUME KeyInv, NEW s \in Services, RedisForgets(s)
  PROVE  KeyInv'
<1>1. /\ presenceDb' = presenceDb \/ presenceDb' = Without(presenceDb, {s})
      /\ UNCHANGED <<presence, beat, made, revoked>>
  BY DEF RedisForgets
<1>2. lost' \in BOOLEAN /\ (~lost' => ~lost)
  BY DEF RedisForgets, KeyInv
<1>3. IsTable(presence', Services, Record) /\ IsTable(presenceDb', Services, Record)
  BY <1>1, WithoutTable DEF KeyInv
<1>4. \A q \in Services, k \in Keys : HasKey(q, k)' => HasKey(q, k)
  BY <1>1 DEF HasKey, Without
<1>5. ~lost' => \A q \in DOMAIN presence' \cap DOMAIN presenceDb' :
                  presence'[q].key = presenceDb'[q].key
  BY <1>1, <1>2 DEF KeyInv, Without
<1> QED BY <1>1, <1>2, <1>3, <1>4, <1>5, ForgetStep DEF KeyInv

LEMMA RestartStep ==
  ASSUME KeyInv, Restart
  PROVE  KeyInv'
<1>1. PICK read \in SUBSET Services :
        /\ presence' = [s \in Restored \cap read |-> presenceDb[s]]
        /\ \E gone \in SUBSET (Stale \cap read) : presenceDb' = Without(presenceDb, gone)
        /\ lost' = (lost \/ read # Services)
        /\ beat' = None /\ UNCHANGED <<made, revoked>>
  BY DEF Restart
<1>2. PICK gone : presenceDb' = Without(presenceDb, gone)
  BY <1>1
<1>3. Restored \subseteq DOMAIN presenceDb
  BY DEF Restored
<1>4. IsTable(presence', Services, Record)
  BY <1>1, <1>3 DEF KeyInv, IsTable
<1>5. IsTable(presenceDb', Services, Record)
  BY <1>2, WithoutTable DEF KeyInv
<1>6. \A q \in Services, k \in Keys : HasKey(q, k)' => HasKey(q, k)
  BY <1>1, <1>2, <1>3 DEF HasKey, Without
<1>7. \A q \in DOMAIN presence' \cap DOMAIN presenceDb' : presence'[q].key = presenceDb'[q].key
  BY <1>1, <1>2 DEF Without
<1>8. lost' \in BOOLEAN /\ (~lost' => ~lost)
  BY <1>1 DEF KeyInv
<1> QED BY <1>1, <1>4, <1>5, <1>6, <1>7, <1>8, ForgetStep

LEMMA KeyStep == KeyInv /\ [Next]_vars => KeyInv'
<1> SUFFICES ASSUME KeyInv, [Next]_vars PROVE KeyInv'
  OBVIOUS
<1>1. ASSUME NEW s \in Services,
             Register(s) \/ RegisterAuthKey(s) \/ Evict(s) \/ RecordExpires(s) \/ RedisForgets(s)
      PROVE  KeyInv'
  BY <1>1, RegisterStep, RegisterAuthKeyStep, EvictStep, ExpiryStep, RedisForgetsStep
<1>2. ASSUME NEW s \in Services, CheckRegistration(s) PROVE KeyInv'
  BY <1>2, QuietStep DEF CheckRegistration, people, KeyInv
<1>3. ASSUME NEW s \in Services, NEW d \in Dests, DeleteRelay(s, d) PROVE KeyInv'
  <2>1. UNCHANGED <<people, routes, routeDb, pending, contested>> /\ (UNCHANGED lost \/ lost' = TRUE)
    BY <1>3 DEF DeleteRelay, StoreRelays
  <2> QED BY <2>1, QuietStep DEF people, KeyInv
<1>4. ASSUME NEW p \in pending, UpsertRelays(p) \/ UpsertRoutes(p) PROVE KeyInv'
  BY <1>4, QuietStep DEF UpsertRelays, UpsertRoutes, StoreRelays, StoreRoutes, people, KeyInv
<1>5. CASE HeartbeatCopy \/ HeartbeatGood
  BY <1>5, QuietStep, RegistryConstants DEF HeartbeatCopy, HeartbeatGood, KeyInv
<1>6. CASE HeartbeatRevokes
  BY <1>6, HeartbeatRevokesStep
<1>7. CASE Restart
  BY <1>7, RestartStep
<1>8. CASE UNCHANGED vars
  BY <1>8, QuietStep DEF vars, KeyInv
<1> QED BY <1>1, <1>2, <1>3, <1>4, <1>5, <1>6, <1>7, <1>8 DEF Next

LEMMA KeyInit == Init => KeyInv
<1> SUFFICES ASSUME Init PROVE KeyInv
  OBVIOUS
<1>1. (\A s \in DOMAIN presence : FALSE) /\ (\A s \in DOMAIN presenceDb : FALSE)
  BY EmptyDomain DEF Init
<1>2. IsTable(presence, Services, Record) /\ IsTable(presenceDb, Services, Record)
  BY <1>1, EmptyDomain DEF Init, IsTable
<1> QED BY <1>1, <1>2 DEF Init, KeyInv, HasKey

\* A key belongs to one service, in memory and in Redis, and as long as Redis keeps
\* what it was given both have it and neither has a revoked one (presence.go).
THEOREM KeysHaveOneOwner == Spec => []KeyInv
<1>1. QED BY KeyInit, KeyStep, PTL DEF Spec

\* While Redis keeps what it was given, a key that was revoked is never accepted
\* again, across registrations and restarts.
THEOREM RevokedForGood == Spec => []RevokedKeyStaysRevoked
<1>1. ASSUME KeyInv PROVE RevokedKeyStaysRevoked
  <2> SUFFICES ASSUME ~lost, NEW s \in DOMAIN presence, presence[s].key \in revoked
               PROVE  FALSE
    BY DEF RevokedKeyStaysRevoked
  <2>1. s \in Services
    BY <1>1 DEF KeyInv, IsTable
  <2>2. HasKey(s, presence[s].key)
    BY DEF HasKey
  <2> QED BY <1>1, <2>1, <2>2 DEF KeyInv
<1> QED BY <1>1, KeysHaveOneOwner, PTL

\* While Redis keeps what it was given, a service loses its key only for a new one
\* or by a revocation: not by registering once more, and not by a restart.
THEOREM KeysKept == Spec => KeysAreKept
<1> DEFINE Kept(s) == presence'[s].key # presence[s].key /\ ~lost' =>
             presence'[s].key \notin made \cup {None} \/ presence[s].key \in revoked'
<1>1. ASSUME KeyInv, Next PROVE \A s \in DOMAIN presence \cap DOMAIN presence' : Kept(s)
  <2> SUFFICES ASSUME NEW q \in DOMAIN presence \cap DOMAIN presence' PROVE Kept(q)
    OBVIOUS
  <2>t. q \in Services /\ presence[q] \in Record
    BY <1>1 DEF KeyInv, IsTable
  <2>1. ASSUME NEW s \in Services, Register(s) PROVE Kept(q)
    <3>1. presence' = With(presence, s, [key |-> KeptKey(s), expired |-> FALSE])
      BY <2>1 DEF Register, SetRecord
    <3>2. presence'[q].key = presence[q].key
      BY <3>1 DEF With, KeptKey
    <3> QED BY <3>2
  <2>2. ASSUME NEW s \in Services, RegisterAuthKey(s) PROVE Kept(q)
    <3>1. PICK k \in Keys \ made : presence' = With(presence, s, [presence[s] EXCEPT !.key = k])
      BY <2>2 DEF RegisterAuthKey, SetRecord
    <3>2. CASE q = s
      <4>1. presence'[q].key = k
        BY <3>1, <3>2, <2>t DEF With, Record
      <4> QED BY <4>1, RegistryConstants
    <3>3. CASE q # s
      BY <3>1, <3>3 DEF With
    <3> QED BY <3>2, <3>3
  <2>3. ASSUME NEW s \in Services, Evict(s) \/ RecordExpires(s) \/ RedisForgets(s) PROVE Kept(q)
    <3>1. presence'[q].key = presence[q].key
      BY <2>3, <2>t DEF Evict, RecordExpires, RedisForgets, Without, Record
    <3> QED BY <3>1
  <2>4. CASE UNCHANGED presence
    BY <2>4
  <2>5. CASE HeartbeatRevokes
    <3>1. CASE beat \in DOMAIN presence
      <4>1. /\ presence' = With(presence, beat, [presence[beat] EXCEPT !.key = None])
            /\ revoked' = revoked \cup ({presence[beat].key} \ {None})
        BY <2>5, <3>1 DEF HeartbeatRevokes, SetRecord
      <4>2. CASE q = beat
        <5>1. presence'[q].key = None
          BY <4>1, <4>2, <2>t DEF With, Record
        <5> QED BY <4>1, <4>2, <5>1
      <4>3. CASE q # beat
        BY <4>1, <4>3 DEF With
      <4> QED BY <4>2, <4>3
    <3>2. CASE beat \notin DOMAIN presence
      BY <2>5, <3>2, <2>4 DEF HeartbeatRevokes
    <3> QED BY <3>1, <3>2
  <2>6. CASE Restart
    <3>1. PICK read \in SUBSET Services :
            /\ presence' = [s \in Restored \cap read |-> presenceDb[s]]
            /\ lost' = (lost \/ read # Services)
      BY <2>6 DEF Restart
    <3>2. q \in DOMAIN presenceDb /\ presence'[q] = presenceDb[q]
      BY <3>1 DEF Restored
    <3>3. ~lost' => presence'[q].key = presence[q].key
      BY <1>1, <3>1, <3>2 DEF KeyInv
    <3> QED BY <3>3
  <2>7. ASSUME NEW s \in Services, \/ CheckRegistration(s)
                                   \/ \E d \in Dests : DeleteRelay(s, d)
        PROVE  Kept(q)
    BY <2>4, <2>7 DEF CheckRegistration, DeleteRelay, people
  <2>8. ASSUME NEW p \in pending, UpsertRelays(p) \/ UpsertRoutes(p) PROVE Kept(q)
    BY <2>4, <2>8 DEF UpsertRelays, UpsertRoutes, people
  <2>9. CASE HeartbeatCopy \/ HeartbeatGood
    BY <2>4, <2>9 DEF HeartbeatCopy, HeartbeatGood
  <2> HIDE DEF Kept
  <2> QED BY <1>1, <2>1, <2>2, <2>3, <2>5, <2>6, <2>7, <2>8, <2>9 DEF Next
<1>2. KeyInv /\ [Next]_vars =>
        [\A s \in DOMAIN presence \cap DOMAIN presence' : Kept(s)]_vars
  BY <1>1
<1> QED BY <1>2, KeysHaveOneOwner, PTL DEF Spec, KeysAreKept
----------------------------------------------------------------------------
\* The rules.

RuleTypes ==
  /\ index \subseteq Services
  /\ IsTable(relays, Dests, Relay) /\ IsTable(relayDb, Services, SUBSET Stored)
  /\ IsTable(routes, Services, RuleSets) /\ IsTable(routeDb, Services, RuleSets)
  /\ pending \subseteq [service : Services, relays : (SUBSET Stored) \cup {None},
                        routes : RuleSets \cup {None}]
  /\ contested \subseteq Dests

\* What is read back at a start: the last of the services that list a destination.
Listing(d) == {s \in DOMAIN relayDb : \E x \in relayDb[s] : x.dest = d}

\* While Redis keeps what it was given, a record that has not expired is there as
\* it is in memory, and so are the rules, but for destinations that were taken over
\* and for rules that a start passed over: those are in Redis only.
Recorded ==
  \A s \in DOMAIN presence :
    ~presence[s].expired => s \in index \cap DOMAIN presenceDb /\ presenceDb[s] = presence[s]

ListedIsRelayed ==
  \A s \in DOMAIN relayDb \ WithColon : \A x \in relayDb[s] :
    \/ x.dest \in contested
    \/ x.dest \in DOMAIN relays /\ relays[x.dest] = [service |-> s, source |-> x.source]

RelayedIsListed ==
  \A d \in DOMAIN relays \ contested :
    /\ relays[d].service \in DOMAIN relayDb
    /\ [dest |-> d, source |-> relays[d].source] \in relayDb[relays[d].service]

RoutesAreStored == Without(routes, WithColon) = Without(routeDb, WithColon)

InStep == Recorded /\ RoutesAreStored /\ ListedIsRelayed /\ RelayedIsListed

RulesInv == RuleTypes /\ (~lost => InStep)

\* The last in an order of finitely many services exists.
LEMMA LastExists ==
  ASSUME NEW S, IsFiniteSet(S), S # {}, NEW rank, \A s \in S : rank[s] \in Int
  PROVE  \E s \in S : \A q \in S : rank[q] <= rank[s]
<1> DEFINE from(s) == {q \in S : rank[q] >= rank[s]}
           above == {from(s) : s \in S}
<1>1. above \subseteq FiniteSubsetsOf(S)
  BY FS_Subset DEF FiniteSubsetsOf
<1>2. above # {}
  OBVIOUS
<1>3. PICK s \in S : \A q \in S : ~(<<from(q), from(s)>> \in StrictSubsetOrdering(S))
  <2>1. IsWellFoundedOn(StrictSubsetOrdering(S), FiniteSubsetsOf(S))
    BY FS_StrictSubsetOrderingWellFounded
  <2>2. \E x \in above : \A y \in above : ~(<<y, x>> \in StrictSubsetOrdering(S))
    BY <1>1, <1>2, <2>1, WFMin
  <2> QED BY <2>2
<1>4. ASSUME NEW q \in S, rank[q] > rank[s] PROVE FALSE
  <2>1. from(q) \subseteq from(s) /\ s \in from(s) /\ s \notin from(q)
    BY <1>4
  <2>2. <<from(q), from(s)>> \in StrictSubsetOrdering(S)
    BY <2>1 DEF StrictSubsetOrdering
  <2> QED BY <1>3, <2>2
<1> QED BY <1>4

LEMMA UpsertedTable ==
  ASSUME RuleTypes, NEW s \in Services, NEW rules \in SUBSET Stored
  PROVE  /\ IsTable(Upserted(s, rules), Dests, Relay)
         /\ \A d \in DOMAIN Upserted(s, rules) :
              \/ Upserted(s, rules)[d].service = s
              \/ /\ d \in DOMAIN relays /\ relays[d].service # s
                 /\ Upserted(s, rules)[d] = relays[d]
         /\ \A d \in DOMAIN relays :
              relays[d].service # s => d \in DOMAIN Upserted(s, rules)
<1> DEFINE others == {d \in DOMAIN relays : relays[d].service # s}
           Listed(d) == \E x \in rules : x.dest = d
           source(d) == (CHOOSE x \in rules : x.dest = d).source
           table == Upserted(s, rules)
<1>1. /\ DOMAIN table = others \cup {x.dest : x \in rules}
      /\ table = [d \in DOMAIN table |->
                    IF Listed(d) THEN [service |-> s, source |-> source(d)] ELSE relays[d]]
  BY DEF Upserted
<1>2. DOMAIN table \subseteq Dests
  BY <1>1 DEF RuleTypes, IsTable, Stored
<1>3. ASSUME NEW d \in DOMAIN table
      PROVE  /\ table[d] \in Relay
             /\ \/ table[d].service = s
                \/ d \in others /\ table[d] = relays[d]
  <2>1. CASE Listed(d)
    <3>1. source(d) \in Sources
      BY <2>1 DEF Stored
    <3> HIDE DEF source, Listed
    <3>2. table[d] = [service |-> s, source |-> source(d)]
      BY <1>1, <2>1
    <3> QED BY <3>1, <3>2 DEF Relay
  <2>2. CASE ~Listed(d)
    <3>1. d \in others
      BY <1>1, <2>2
    <3>2. table[d] = relays[d]
      BY <1>1, <2>2
    <3> QED BY <3>1, <3>2 DEF RuleTypes, IsTable
  <2> QED BY <2>1, <2>2
<1> HIDE DEF table
<1>4. IsTable(table, Dests, Relay)
  BY <1>1, <1>2, <1>3 DEF IsTable
<1> QED BY <1>1, <1>3, <1>4 DEF table

\* RulesOf: what is written to Redis is what the table has for the service.
LEMMA RulesOfTable ==
  ASSUME NEW table, IsTable(table, Dests, Relay), NEW s \in Services
  PROVE  /\ RulesOf(s, table) \subseteq Stored
         /\ \A x \in RulesOf(s, table) :
              x.dest \in DOMAIN table /\ table[x.dest] = [service |-> s, source |-> x.source]
         /\ \A d \in DOMAIN table : table[d].service = s =>
              [dest |-> d, source |-> table[d].source] \in RulesOf(s, table)
BY DEF IsTable, Relay, Stored, RulesOf

\* Load leaves a rule for each destination that some list has, and it comes from
\* such a list.
LEMMA LoadedTable ==
  ASSUME RuleTypes, NEW read \in SUBSET Services, NEW rank \in Ranks
  PROVE  /\ IsTable(Loaded(read, rank), Dests, Relay)
         /\ \A d \in Dests :
              d \in DOMAIN Loaded(read, rank) <=> Listing(d) \cap read # {}
         /\ \A d \in DOMAIN Loaded(read, rank) :
              \E s \in Listing(d) \cap read : \E x \in relayDb[s] :
                x.dest = d /\ Loaded(read, rank)[d] = [service |-> s, source |-> x.source]
<1> DEFINE listing(d) == {s \in read \cap DOMAIN relayDb : \E x \in relayDb[s] : x.dest = d}
           last(d) == CHOOSE s \in listing(d) : \A q \in listing(d) : rank[q] <= rank[s]
           rule(d) == CHOOSE x \in relayDb[last(d)] : x.dest = d
           table == Loaded(read, rank)
<1>1. table = [d \in {e \in Dests : listing(e) # {}} |->
                 [service |-> last(d), source |-> rule(d).source]]
  BY DEF Loaded
<1>2. \A d : listing(d) = Listing(d) \cap read
  BY DEF Listing
<1>3. ASSUME NEW d \in Dests, listing(d) # {}
      PROVE  /\ last(d) \in listing(d)
             /\ rule(d) \in relayDb[last(d)] /\ rule(d).dest = d
             /\ rule(d).source \in Sources
  <2>1. IsFiniteSet(listing(d))
    BY FS_Subset, RegistryConstants
  <2>2. \A s \in listing(d) : rank[s] \in Int
    BY DEF Ranks
  <2>3. \E s \in listing(d) : \A q \in listing(d) : rank[q] <= rank[s]
    BY <1>3, <2>1, <2>2, LastExists
  <2>4. last(d) \in listing(d)
    BY <2>3
  <2>5. rule(d) \in relayDb[last(d)] /\ rule(d).dest = d
    BY <2>4
  <2>6. relayDb[last(d)] \subseteq Stored
    BY <2>4 DEF RuleTypes, IsTable
  <2> QED BY <2>4, <2>5, <2>6 DEF Stored
<1> HIDE DEF table, last, rule
<1>4. IsTable(table, Dests, Relay)
  BY <1>1, <1>3 DEF IsTable, Relay
<1>5. \A d \in Dests : d \in DOMAIN table <=> Listing(d) \cap read # {}
  BY <1>1, <1>2
<1>6. ASSUME NEW d \in DOMAIN table
      PROVE  \E s \in Listing(d) \cap read : \E x \in relayDb[s] :
               x.dest = d /\ table[d] = [service |-> s, source |-> x.source]
  <2>1. d \in Dests /\ listing(d) # {} /\ table[d] = [service |-> last(d), source |-> rule(d).source]
    BY <1>1
  <2>2. last(d) \in Listing(d) \cap read /\ rule(d) \in relayDb[last(d)] /\ rule(d).dest = d
    BY <1>2, <1>3, <2>1
  <2> QED BY <2>1, <2>2
<1> QED BY <1>4, <1>5, <1>6 DEF table

\* What changes no rules, in memory or in Redis, and keeps the records in step.
LEMMA RecordsStep ==
  ASSUME RulesInv, UNCHANGED tables, index' \subseteq Services, pending' \subseteq pending,
         ~lost' => ~lost /\ (Recorded => Recorded')
  PROVE  RulesInv'
BY DEF RulesInv, RuleTypes, InStep, RoutesAreStored, ListedIsRelayed, RelayedIsListed, tables

\* A service's record is written.
LEMMA SetRecordStep ==
  ASSUME RulesInv, UNCHANGED <<tables, pending>>, NEW s \in Services, NEW record,
         SetRecord(s, record, With(presenceDb, s, record))
  PROVE  RulesInv'
<1>1. presence' = With(presence, s, record)
  BY DEF SetRecord
<1>2. ASSUME ~lost' PROVE ~lost /\ (Recorded => Recorded')
  <2>1. presenceDb' = With(presenceDb, s, record) /\ index' = index \cup {s} /\ ~lost
    BY <1>2 DEF SetRecord, IndexWith
  <2>2. ASSUME Recorded, NEW q \in DOMAIN presence', ~presence'[q].expired
        PROVE  q \in index' \cap DOMAIN presenceDb' /\ presenceDb'[q] = presence'[q]
    <3>1. CASE q = s
      BY <1>1, <2>1, <3>1 DEF With
    <3>2. CASE q # s
      BY <1>1, <2>1, <2>2, <3>2 DEF With, Recorded
    <3> QED BY <3>1, <3>2
  <2> QED BY <2>1, <2>2 DEF Recorded
<1>3. index' \subseteq Services
  BY DEF SetRecord, IndexWith, RulesInv, RuleTypes
<1> QED BY <1>2, <1>3, RecordsStep

LEMMA HeartbeatRules ==
  ASSUME KeyInv, RulesInv, HeartbeatRevokes
  PROVE  RulesInv'
<1>1. UNCHANGED <<tables, pending>> /\ beat \in Services
  BY DEF HeartbeatRevokes, KeyInv
<1>2. CASE beat \in DOMAIN presence
  BY <1>1, <1>2, SetRecordStep DEF HeartbeatRevokes, DbAfterRevoke, SetRecord
<1>3. CASE beat \notin DOMAIN presence
  <2>1. UNCHANGED <<presence, presenceDb, index, lost>>
    BY <1>3 DEF HeartbeatRevokes
  <2>2. index' \subseteq Services /\ (Recorded => Recorded')
    BY <2>1 DEF Recorded, RulesInv, RuleTypes
  <2> QED BY <1>1, <2>1, <2>2, RecordsStep
<1> QED BY <1>2, <1>3

LEMMA RecordGoes ==
  ASSUME KeyInv, RulesInv, NEW s \in Services, Evict(s) \/ RecordExpires(s)
  PROVE  RulesInv'
<1>1. CASE Evict(s)
  <2>1. /\ presence' = Without(presence, {s})
        /\ presenceDb' \in {presenceDb, Without(presenceDb, {s})}
        /\ index' \in {index, index \ {s}} /\ UNCHANGED <<tables, pending, lost>>
    BY <1>1 DEF Evict
  <2>2. Recorded => Recorded'
    BY <2>1 DEF Recorded, Without
  <2>3. index' \subseteq Services
    BY <2>1 DEF RulesInv, RuleTypes
  <2> QED BY <2>1, <2>2, <2>3, RecordsStep
<1>2. CASE RecordExpires(s)
  <2>1. /\ presence' = [presence EXCEPT ![s].expired = TRUE]
        /\ \/ presenceDb' = presenceDb
           \/ presenceDb' = [presenceDb EXCEPT ![s].expired = TRUE]
        /\ UNCHANGED <<index, tables, pending, lost>> /\ s \in DOMAIN presence
    BY <1>2 DEF RecordExpires
  <2>2. DOMAIN presence' = DOMAIN presence /\ presence'[s].expired
    BY <2>1 DEF KeyInv, IsTable, Record
  <2>3. \A q : q # s => presence'[q] = presence[q] \/ q \notin DOMAIN presence
    BY <2>1
  <2>4. \A q \in DOMAIN presenceDb : q # s => q \in DOMAIN presenceDb' /\ presenceDb'[q] = presenceDb[q]
    BY <2>1
  <2>5. Recorded => Recorded'
    BY <2>1, <2>2, <2>3, <2>4 DEF Recorded
  <2>6. index' \subseteq Services
    BY <2>1 DEF RulesInv, RuleTypes
  <2> QED BY <2>1, <2>5, <2>6, RecordsStep
<1> QED BY <1>1, <1>2

LEMMA RedisForgetsRules ==
  ASSUME RulesInv, NEW s \in Services, RedisForgets(s)
  PROVE  RulesInv'
<1>1. UNCHANGED <<presence, index, relays, routes, contested, pending>>
  BY DEF RedisForgets
<1>2. IsTable(relayDb', Services, SUBSET Stored) /\ IsTable(routeDb', Services, RuleSets)
  BY WithoutTable DEF RedisForgets, RulesInv, RuleTypes
<1>3. RuleTypes'
  BY <1>1, <1>2 DEF RulesInv, RuleTypes
<1>4. ASSUME ~lost' PROVE InStep'
  <2>1. /\ ~lost /\ UNCHANGED <<relayDb, routeDb>>
        /\ presenceDb' = Without(presenceDb, {s}) /\ presenceDb[s].expired
    BY <1>4 DEF RedisForgets
  <2>2. Recorded'
    BY <1>1, <2>1 DEF RulesInv, InStep, Recorded, Without
  <2> QED BY <1>1, <2>1, <2>2 DEF RulesInv, InStep, RoutesAreStored, ListedIsRelayed, RelayedIsListed
<1> QED BY <1>3, <1>4 DEF RulesInv

\* The table and the service's list are written, from the table the rules are in.
LEMMA RelaysStep ==
  ASSUME RulesInv, NEW s \in Services, NEW table, relays' = table, IsTable(table, Dests, Relay),
         StoreRelays(s, RulesOf(s, table)),
         UNCHANGED <<presence, presenceDb, index, routes, routeDb>>,
         pending' \subseteq pending,
         contested \subseteq contested', contested' \subseteq Dests,
         \A d \in DOMAIN table :
           \/ table[d].service = s
           \/ d \in DOMAIN relays /\ relays[d].service # s /\ table[d] = relays[d],
         \A d \in DOMAIN relays : relays[d].service # s =>
           d \in DOMAIN table /\ (table[d].service = s => d \in contested')
  PROVE  RulesInv'
<1>1. /\ RulesOf(s, table) \subseteq Stored
      /\ \A x \in RulesOf(s, table) :
           x.dest \in DOMAIN table /\ table[x.dest] = [service |-> s, source |-> x.source]
      /\ \A d \in DOMAIN table : table[d].service = s =>
           [dest |-> d, source |-> table[d].source] \in RulesOf(s, table)
  BY RulesOfTable
<1>2. IsTable(relayDb', Services, SUBSET Stored)
  BY <1>1, WithTable DEF StoreRelays, RulesInv, RuleTypes
<1>3. RuleTypes'
  BY <1>2 DEF RulesInv, RuleTypes
<1>4. ASSUME ~lost' PROVE InStep'
  <2>1. ~lost /\ relayDb' = With(relayDb, s, RulesOf(s, table)) /\ InStep
    BY <1>4 DEF StoreRelays, RulesInv
  <2>2. /\ s \in DOMAIN relayDb' /\ relayDb'[s] = RulesOf(s, table)
        /\ \A q : q # s => (q \in DOMAIN relayDb' <=> q \in DOMAIN relayDb)
        /\ \A q \in DOMAIN relayDb : q # s => relayDb'[q] = relayDb[q]
    BY <2>1 DEF With
  <2>3. ASSUME NEW q \in DOMAIN relayDb' \ WithColon, NEW x \in relayDb'[q], x.dest \notin contested'
        PROVE  x.dest \in DOMAIN table /\ table[x.dest] = [service |-> q, source |-> x.source]
    <3>1. CASE q = s
      BY <1>1, <2>2, <2>3, <3>1
    <3>2. CASE q # s
      <4>1. x.dest \in DOMAIN relays /\ relays[x.dest] = [service |-> q, source |-> x.source]
        BY <2>1, <2>2, <2>3, <3>2 DEF InStep, ListedIsRelayed
      <4>2. relays[x.dest].service # s
        BY <3>2, <4>1
      <4> QED BY <2>3, <4>1, <4>2
    <3> QED BY <3>1, <3>2
  <2>4. ASSUME NEW d \in DOMAIN table, d \notin contested'
        PROVE  /\ table[d].service \in DOMAIN relayDb'
               /\ [dest |-> d, source |-> table[d].source] \in relayDb'[table[d].service]
    <3>1. CASE table[d].service = s
      BY <1>1, <2>2, <2>4, <3>1
    <3>2. CASE table[d].service # s
      <4>1. d \in DOMAIN relays \ contested /\ table[d] = relays[d]
        BY <2>4, <3>2
      <4> QED BY <2>1, <2>2, <3>2, <4>1 DEF InStep, RelayedIsListed
    <3> QED BY <3>1, <3>2
  <2>5. ListedIsRelayed' /\ RelayedIsListed'
    BY <2>3, <2>4 DEF ListedIsRelayed, RelayedIsListed
  <2> QED BY <2>1, <2>5 DEF InStep, Recorded, RoutesAreStored
<1> QED BY <1>3, <1>4 DEF RulesInv

LEMMA UpsertRelaysRules ==
  ASSUME RulesInv, NEW p \in pending, UpsertRelays(p)
  PROVE  RulesInv'
<1> DEFINE s == p.service
           table == Upserted(s, p.relays)
           taken == {d \in DOMAIN relays : relays[d].service # s /\ table[d].service = s}
<1>1. s \in Services /\ p.relays \in SUBSET Stored
  <2>1. p \in [service : Services, relays : (SUBSET Stored) \cup {None}, routes : RuleSets \cup {None}]
    BY DEF RulesInv, RuleTypes
  <2> QED BY <2>1 DEF UpsertRelays
<1>2. /\ relays' = table /\ StoreRelays(s, RulesOf(s, table))
      /\ contested' = contested \cup taken /\ pending' = pending \ {p}
      /\ UNCHANGED <<presence, presenceDb, index, routes, routeDb>>
  BY DEF UpsertRelays, people
<1>3. /\ IsTable(table, Dests, Relay)
      /\ \A d \in DOMAIN table :
           \/ table[d].service = s
           \/ d \in DOMAIN relays /\ relays[d].service # s /\ table[d] = relays[d]
      /\ \A d \in DOMAIN relays : relays[d].service # s => d \in DOMAIN table
  BY <1>1, UpsertedTable DEF RulesInv
<1> HIDE DEF table, s
<1>4. /\ contested \subseteq contested' /\ contested' \subseteq Dests /\ pending' \subseteq pending
      /\ \A d \in DOMAIN relays : relays[d].service # s /\ table[d].service = s => d \in contested'
  BY <1>2 DEF RulesInv, RuleTypes, IsTable
<1> QED BY <1>1, <1>2, <1>3, <1>4, RelaysStep

LEMMA DeleteRelayRules ==
  ASSUME RulesInv, NEW s \in Services, NEW d \in Dests, DeleteRelay(s, d)
  PROVE  RulesInv'
<1> DEFINE table == Without(relays, {d})
<1>1. /\ relays' = table /\ StoreRelays(s, RulesOf(s, table))
      /\ relays[d].service = s
      /\ UNCHANGED <<presence, presenceDb, index, routes, routeDb, pending, contested>>
  BY DEF DeleteRelay, StoredAfterDelete, people
<1>2. IsTable(table, Dests, Relay)
  BY WithoutTable DEF RulesInv, RuleTypes
<1>3. \A e \in DOMAIN table : e \in DOMAIN relays /\ table[e] = relays[e]
  BY DEF Without
<1>4. \A e \in DOMAIN relays : relays[e].service # s => e \in DOMAIN table /\ table[e] = relays[e]
  BY <1>1 DEF Without
<1> HIDE DEF table
<1>5. /\ pending' \subseteq pending /\ contested \subseteq contested' /\ contested' \subseteq Dests
  BY <1>1 DEF RulesInv, RuleTypes
<1>6. \A e \in DOMAIN table :
        \/ table[e].service = s
        \/ e \in DOMAIN relays /\ relays[e].service # s /\ table[e] = relays[e]
  BY <1>3
<1>7. \A e \in DOMAIN relays : relays[e].service # s =>
        e \in DOMAIN table /\ (table[e].service = s => e \in contested')
  BY <1>4
<1> QED BY <1>1, <1>2, <1>5, <1>6, <1>7, RelaysStep

LEMMA UpsertRoutesRules ==
  ASSUME RulesInv, NEW p \in pending, UpsertRoutes(p)
  PROVE  RulesInv'
<1>1. p.service \in Services /\ p.routes \in RuleSets
  BY DEF UpsertRoutes, RulesInv, RuleTypes
<1>2. /\ routes' = With(routes, p.service, p.routes)
      /\ \/ routeDb' = With(routeDb, p.service, p.routes) /\ UNCHANGED lost
         \/ UNCHANGED routeDb /\ lost' = TRUE
      /\ pending' \subseteq pending
      /\ UNCHANGED <<presence, presenceDb, index, relays, relayDb, contested>>
  BY DEF UpsertRoutes, StoreRoutes, people
<1>3. IsTable(routes', Services, RuleSets) /\ IsTable(routeDb', Services, RuleSets)
  BY <1>1, <1>2, WithTable DEF RulesInv, RuleTypes
<1>4. RuleTypes'
  BY <1>2, <1>3 DEF RulesInv, RuleTypes
<1>5. ASSUME ~lost' PROVE InStep'
  <2>1. /\ InStep /\ routeDb' = With(routeDb, p.service, p.routes)
        /\ routes' = With(routes, p.service, p.routes)
    BY <1>2, <1>5 DEF RulesInv
  <2>2. RoutesAreStored'
    <3>1. DOMAIN routes \ WithColon = DOMAIN routeDb \ WithColon
      BY <2>1 DEF InStep, RoutesAreStored, Without
    <3>2. \A q \in DOMAIN routes \ WithColon : routes[q] = routeDb[q]
      BY <2>1, <3>1 DEF InStep, RoutesAreStored, Without
    <3>3. DOMAIN routes' \ WithColon = DOMAIN routeDb' \ WithColon
      BY <2>1, <3>1 DEF With
    <3>4. \A q \in DOMAIN routes' \ WithColon : routes'[q] = routeDb'[q]
      BY <2>1, <3>1, <3>2 DEF With
    <3> QED BY <3>3, <3>4 DEF RoutesAreStored, Without
  <2> QED BY <1>2, <2>1, <2>2 DEF InStep, Recorded, ListedIsRelayed, RelayedIsListed
<1> QED BY <1>4, <1>5 DEF RulesInv

\* A start at which Redis answers for every service, and had what it was given,
\* brings the rules back as they were, but for destinations that were taken over.
LEMMA RestartRules ==
  ASSUME KeyInv, RulesInv, Restart
  PROVE  /\ RulesInv'
         /\ ~lost' =>
              /\ \A s \in DOMAIN presence :
                   ~presence[s].expired => s \in DOMAIN presence' /\ presence'[s] = presence[s]
              /\ routes' = Without(routes, WithColon)
              /\ \A d \in DOMAIN relays \ contested :
                   relays[d].service \notin WithColon => d \in DOMAIN relays' /\ relays'[d] = relays[d]
              /\ DOMAIN relays' \subseteq DOMAIN relays \cup contested
<1>1. PICK read \in SUBSET Services :
        /\ presence' = [s \in Restored \cap read |-> presenceDb[s]]
        /\ \E gone \in SUBSET (Stale \cap read) : presenceDb' = Without(presenceDb, gone)
        /\ \E unlisted \in SUBSET (Stale \cap read) : index' = index \ unlisted
        /\ relays' \in {Loaded(Recognized(read), rank) : rank \in Ranks}
        /\ routes' = [s \in DOMAIN routeDb \cap Recognized(read) |-> routeDb[s]]
        /\ lost' = (lost \/ read # Services)
        /\ pending' = {} /\ UNCHANGED <<relayDb, routeDb, contested>>
  BY DEF Restart
<1>2. PICK rank \in Ranks : relays' = Loaded(Recognized(read), rank)
  BY <1>1
<1>3. /\ IsTable(relays', Dests, Relay)
      /\ \A d \in Dests : d \in DOMAIN relays' <=> Listing(d) \cap Recognized(read) # {}
      /\ \A d \in DOMAIN relays' : \E s \in Listing(d) \cap Recognized(read) : \E x \in relayDb[s] :
           x.dest = d /\ relays'[d] = [service |-> s, source |-> x.source]
  <2>1. Recognized(read) \in SUBSET Services
    BY DEF Recognized
  <2> QED BY <1>2, <2>1, LoadedTable, ZenonT(60) DEF RulesInv
<1>4. IsTable(routes', Services, RuleSets)
  BY <1>1 DEF IsTable, RulesInv, RuleTypes
<1>5. RuleTypes'
  BY <1>1, <1>3, <1>4 DEF RulesInv, RuleTypes
<1>6. ASSUME ~lost'
      PROVE  /\ InStep'
             /\ \A s \in DOMAIN presence :
                  ~presence[s].expired => s \in DOMAIN presence' /\ presence'[s] = presence[s]
             /\ routes' = Without(routes, WithColon)
             /\ \A d \in DOMAIN relays \ contested :
                  relays[d].service \notin WithColon => d \in DOMAIN relays' /\ relays'[d] = relays[d]
             /\ DOMAIN relays' \subseteq DOMAIN relays \cup contested
  <2>1. read = Services /\ InStep
    BY <1>1, <1>6 DEF RulesInv
  <2>2. /\ DOMAIN presence \subseteq Services /\ DOMAIN relayDb \subseteq Services
        /\ DOMAIN routeDb \subseteq Services /\ DOMAIN relays \subseteq Dests
        /\ routeDb = [s \in DOMAIN routeDb |-> routeDb[s]]
    BY DEF KeyInv, RulesInv, RuleTypes, IsTable
  <2>3. \A s \in DOMAIN presence :
          ~presence[s].expired => s \in DOMAIN presence' /\ presence'[s] = presence[s]
    BY <1>1, <2>1, <2>2 DEF InStep, Recorded, Restored
  <2>4. DOMAIN routeDb \cap Recognized(read) = DOMAIN routeDb \ WithColon
    BY <2>1, <2>2 DEF Recognized
  <2>5. routes' = Without(routeDb, WithColon) /\ routes' = Without(routes, WithColon)
    BY <1>1, <2>1, <2>4 DEF InStep, RoutesAreStored, Without
  <2>6. Recorded'
    <3>1. DOMAIN presence' \subseteq Restored /\ \A s \in DOMAIN presence' : presence'[s] = presenceDb[s]
      BY <1>1
    <3>2. Restored \cap Stale = {} /\ Restored \subseteq index \cap DOMAIN presenceDb
      BY DEF Restored, Stale
    <3>3. \A s \in Restored : s \in index' \cap DOMAIN presenceDb' /\ presenceDb'[s] = presenceDb[s]
      BY <1>1, <3>2 DEF Without
    <3> QED BY <3>1, <3>3 DEF Recorded
  <2>7. ASSUME NEW d \in DOMAIN relays', d \notin contested
        PROVE  /\ d \in DOMAIN relays /\ relays'[d] = relays[d]
               /\ relays[d].service \in DOMAIN relayDb
               /\ [dest |-> d, source |-> relays[d].source] \in relayDb[relays[d].service]
    <3>1. PICK s \in Listing(d) \cap Recognized(read) :
            \E x \in relayDb[s] : x.dest = d /\ relays'[d] = [service |-> s, source |-> x.source]
      BY <1>3
    <3>2. PICK x \in relayDb[s] : x.dest = d /\ relays'[d] = [service |-> s, source |-> x.source]
      BY <3>1
    <3>3. s \in DOMAIN relayDb \ WithColon
      BY DEF Listing, Recognized
    <3>4. d \in DOMAIN relays /\ relays[d] = [service |-> s, source |-> x.source]
      BY <2>1, <2>7, <3>2, <3>3 DEF InStep, ListedIsRelayed
    <3> QED BY <2>1, <2>7, <3>2, <3>4 DEF InStep, RelayedIsListed
  <2>8. ASSUME NEW s \in DOMAIN relayDb \ WithColon, NEW x \in relayDb[s], x.dest \notin contested
        PROVE  x.dest \in DOMAIN relays' /\ x.dest \in DOMAIN relays
               /\ relays[x.dest] = [service |-> s, source |-> x.source]
    <3>1. x.dest \in DOMAIN relays /\ relays[x.dest] = [service |-> s, source |-> x.source]
      BY <2>1, <2>8 DEF InStep, ListedIsRelayed
    <3>2. s \in Listing(x.dest) \cap Recognized(read) /\ x.dest \in Dests
      BY <2>1, <2>2, <3>1 DEF Listing, Recognized
    <3> QED BY <1>3, <3>1, <3>2
  <2>9. \A d \in DOMAIN relays \ contested :
          relays[d].service \notin WithColon => d \in DOMAIN relays' /\ relays'[d] = relays[d]
    <3> SUFFICES ASSUME NEW d \in DOMAIN relays \ contested, relays[d].service \notin WithColon
                 PROVE  d \in DOMAIN relays' /\ relays'[d] = relays[d]
      OBVIOUS
    <3>1. /\ relays[d].service \in DOMAIN relayDb
          /\ [dest |-> d, source |-> relays[d].source] \in relayDb[relays[d].service]
      BY <2>1 DEF InStep, RelayedIsListed
    <3> DEFINE x == [dest |-> d, source |-> relays[d].source]
    <3>2. x \in relayDb[relays[d].service] /\ x.dest = d
      BY <3>1
    <3>3. relays[d].service \in DOMAIN relayDb \ WithColon /\ d \notin contested
      BY <3>1
    <3> HIDE DEF x
    <3>4. x.dest \in DOMAIN relays'
      BY <2>8, <3>2, <3>3
    <3>5. d \in DOMAIN relays'
      BY <3>2, <3>4
    <3> QED BY <2>7, <3>5
  <2>10. ListedIsRelayed'
    BY <1>1, <2>7, <2>8, ZenonT(60) DEF ListedIsRelayed
  <2>11. RelayedIsListed'
    BY <1>1, <2>7 DEF RelayedIsListed
  <2>12. DOMAIN relays' \subseteq DOMAIN relays \cup contested
    BY <2>7
  <2>13. RoutesAreStored'
    <3>1. \A t : Without(Without(t, WithColon), WithColon) = Without(t, WithColon)
      BY DEF Without
    <3>2. routeDb' = routeDb
      BY <1>1
    <3> QED BY <2>5, <3>1, <3>2 DEF RoutesAreStored
  <2> QED BY <2>3, <2>5, <2>6, <2>9, <2>10, <2>11, <2>12, <2>13 DEF InStep
<1> QED BY <1>5, <1>6 DEF RulesInv

LEMMA RulesStep == KeyInv /\ RulesInv /\ [Next]_vars => RulesInv'
<1> SUFFICES ASSUME KeyInv, RulesInv, [Next]_vars PROVE RulesInv'
  OBVIOUS
<1>1. ASSUME NEW s \in Services, Register(s) \/ RegisterAuthKey(s) PROVE RulesInv'
  BY <1>1, SetRecordStep DEF Register, RegisterAuthKey
<1>2. ASSUME NEW s \in Services, Evict(s) \/ RecordExpires(s) PROVE RulesInv'
  BY <1>2, RecordGoes
<1>3. ASSUME NEW s \in Services, CheckRegistration(s) PROVE RulesInv'
  <2>1. UNCHANGED <<people, tables, lost>>
    BY <1>3 DEF CheckRegistration
  <2>2. pending' \subseteq [service : Services, relays : (SUBSET Stored) \cup {None},
                            routes : RuleSets \cup {None}]
    BY <1>3 DEF CheckRegistration, RulesInv, RuleTypes
  <2>3. RuleTypes'
    BY <2>1, <2>2 DEF people, tables, RulesInv, RuleTypes
  <2> QED BY <2>1, <2>3 DEF people, tables, RulesInv, InStep, Recorded, RoutesAreStored, ListedIsRelayed, RelayedIsListed
<1>4. ASSUME NEW s \in Services, NEW d \in Dests, DeleteRelay(s, d) PROVE RulesInv'
  BY <1>4, DeleteRelayRules
<1>5. ASSUME NEW s \in Services, RedisForgets(s) PROVE RulesInv'
  BY <1>5, RedisForgetsRules
<1>6. ASSUME NEW p \in pending, UpsertRelays(p) \/ UpsertRoutes(p) PROVE RulesInv'
  BY <1>6, UpsertRelaysRules, UpsertRoutesRules
<1>7. CASE HeartbeatCopy \/ HeartbeatGood \/ UNCHANGED vars
  <2>1. UNCHANGED <<presence, presenceDb, index, tables, pending, lost>>
    BY <1>7 DEF HeartbeatCopy, HeartbeatGood, vars, tables
  <2>2. index' \subseteq Services /\ (Recorded => Recorded')
    BY <2>1 DEF Recorded, RulesInv, RuleTypes
  <2> QED BY <2>1, <2>2, RecordsStep
<1>8. CASE HeartbeatRevokes
  BY <1>8, HeartbeatRules
<1>9. CASE Restart
  BY <1>9, RestartRules
<1> QED BY <1>1, <1>2, <1>3, <1>4, <1>5, <1>6, <1>7, <1>8, <1>9 DEF Next

LEMMA RulesInit == Init => RulesInv
<1> SUFFICES ASSUME Init PROVE RulesInv
  OBVIOUS
<1>1. \A t : t = <<>> => t \in [DOMAIN t -> {}] /\ DOMAIN t = {}
  BY EmptyDomain
<1>2. /\ DOMAIN presence = {} /\ DOMAIN relays = {} /\ DOMAIN relayDb = {}
      /\ IsTable(relays, Dests, Relay) /\ IsTable(relayDb, Services, SUBSET Stored)
      /\ IsTable(routes, Services, RuleSets) /\ IsTable(routeDb, Services, RuleSets)
  BY <1>1 DEF Init, IsTable
<1>3. RuleTypes
  BY <1>2 DEF Init, RuleTypes
<1>4. InStep
  BY <1>2 DEF Init, InStep, Recorded, RoutesAreStored, ListedIsRelayed, RelayedIsListed
<1> QED BY <1>3, <1>4 DEF RulesInv

\* While Redis keeps what it was given, it has every record that has not expired
\* and every rule that is in force, and of other rules only some for destinations
\* that were taken over and those of names with a colon that a start passed over
\* (persist, Upsert and Delete of the four registries).
THEOREM RedisInStep == Spec => []RulesInv
<1>1. QED BY RulesInit, RulesStep, KeysHaveOneOwner, PTL DEF Spec

\* The registries, in memory and in Redis, keep their types; in particular a load
\* leaves each destination to one of the services that list it.
THEOREM TypeCorrect == Spec => []TypeOK
<1>1. KeyInv /\ RulesInv => TypeOK
  BY DEF KeyInv, RulesInv, RuleTypes, TypeOK
<1> QED BY <1>1, KeysHaveOneOwner, RedisInStep, PTL

\* Unless Redis fails or forgets, a restart brings back every record, and every rule
\* of a service whose name has no colon (Load of the four registries).
THEOREM RestartRestores == Spec => RestartKeepsRegistrations
<1>1. KeyInv /\ RulesInv /\ [Next]_vars =>
        [~lost' /\ Restart =>
           /\ \A s \in DOMAIN presence :
                ~presence[s].expired => s \in DOMAIN presence' /\ presence'[s] = presence[s]
           /\ routes' = Without(routes, WithColon)
           /\ \A d \in DOMAIN relays \ contested :
                relays[d].service \notin WithColon => d \in DOMAIN relays' /\ relays'[d] = relays[d]]_vars
  BY RestartRules
<1> QED BY <1>1, KeysHaveOneOwner, RedisInStep, PTL DEF Spec, RestartKeepsRegistrations

\* Unless Redis fails or forgets, a restart brings no relay rule back that was
\* deleted or replaced (Delete and Upsert in relay_controller.go).
THEOREM RestartRevivesNothing == Spec => RestartRevivesNoRule
<1>1. KeyInv /\ RulesInv /\ [Next]_vars =>
        [~lost' /\ Restart => DOMAIN relays' \subseteq DOMAIN relays \cup contested]_vars
  BY RestartRules
<1> QED BY <1>1, KeysHaveOneOwner, RedisInStep, PTL DEF Spec, RestartRevivesNoRule
=============================================================================
