----------------------------- MODULE Registries -----------------------------
(***************************************************************************)
(* The in-process registries of the service extension layer: who is        *)
(* present, with which internal key, which paths are relayed to whom, and  *)
(* the route and hook rules of each service.                               *)
(*                                                                         *)
(* A registry is a map under a mutex; every change is written to Redis     *)
(* before the mutex is released, errors are dropped, and the map is read   *)
(* back when the process starts.  So a change and its write are one step   *)
(* here: a process that stops between them has told nobody of the change.  *)
(* Not under one lock are the check that a service is present and the      *)
(* registration of its rules, and the heartbeat worker's copy of a record, *)
(* its request to the service and the revocation of the key.               *)
(*                                                                         *)
(* Route rules and hook rules are kept in the same way, so one registry    *)
(* stands for both.                                                        *)
(***************************************************************************)
EXTENDS Naturals, FiniteSets

CONSTANTS
  Services,
  Checked,   \* the service the heartbeat worker checks (super client)
  WithColon, \* the services whose name has a colon
  Dests,     \* paths relayed to a service, after normalizeDest
  Sources,   \* addresses they are relayed to
  RuleSets,  \* what a service can register as its routes or hooks
  Keys,      \* internal keys
  MaxPending, \* bound: registrations past the check at a time
  None

ASSUME RegistryConstants ==
  /\ Checked \in Services /\ WithColon \subseteq Services
  /\ IsFiniteSet(Services) /\ None \notin Services \cup Keys
  /\ MaxPending \in Nat

VARIABLES
  presence, presenceDb,  \* name -> record, in memory and in Redis
  index,                 \* Redis set of the names that have a record
  relays,                \* destination -> rule, in memory
  relayDb,               \* Redis: service -> its rules
  routes, routeDb,       \* service -> its rules, in memory and in Redis
  pending,               \* registrations past the check that the service is present
  beat,                  \* service the heartbeat worker has a record of and asks
  made,                  \* history: keys handed out
  revoked,               \* history: keys revoked
  lost,                  \* history: a write to Redis or a read at start has failed, or a TTL ended
  contested              \* history: destinations taken over from another service

vars == <<presence, presenceDb, index, relays, relayDb, routes, routeDb, pending, beat,
          made, revoked, lost, contested>>

\* A record that is registered without a time to live is one that does not expire.
Record == [key : Keys \cup {None}, expired : BOOLEAN]
Relay  == [service : Services, source : Sources]
Stored == [dest : Dests, source : Sources]

IsTable(t, K, R) == DOMAIN t \subseteq K /\ t \in [DOMAIN t -> R]

TypeOK ==
  /\ IsTable(presence, Services, Record) /\ IsTable(presenceDb, Services, Record)
  /\ index \subseteq Services
  /\ IsTable(relays, Dests, Relay) /\ IsTable(relayDb, Services, SUBSET Stored)
  /\ IsTable(routes, Services, RuleSets) /\ IsTable(routeDb, Services, RuleSets)
  /\ pending \subseteq [service : Services, relays : (SUBSET Stored) \cup {None},
                        routes : RuleSets \cup {None}]
  /\ beat \in Services \cup {None}
  /\ made \subseteq Keys /\ revoked \subseteq Keys
  /\ lost \in BOOLEAN /\ contested \subseteq Dests

Init ==
  /\ presence = <<>> /\ presenceDb = <<>> /\ index = {}
  /\ relays = <<>> /\ relayDb = <<>> /\ routes = <<>> /\ routeDb = <<>>
  /\ pending = {} /\ beat = None
  /\ made = {} /\ revoked = {} /\ lost = FALSE /\ contested = {}

----------------------------------------------------------------------------
\* M_x is x with a plausible mistake; it is used only to show that the properties
\* notice it.

With(t, k, v)  == [x \in DOMAIN t \cup {k} |-> IF x = k THEN v ELSE t[x]]
Without(t, S)  == [x \in DOMAIN t \ S |-> t[x]]

RulesOf(s, table) == {[dest |-> d, source |-> table[d].source] :
                        d \in {e \in DOMAIN table : table[e].service = s}}

\* The table after Upsert: the service's rules give way to the new ones, which
\* replace those of other services too.  A set of rules has one for a destination.
Upserted(s, rules) ==
  LET others == {d \in DOMAIN relays : relays[d].service # s} IN
  [d \in others \cup {x.dest : x \in rules} |->
     IF \E x \in rules : x.dest = d
       THEN [service |-> s, source |-> (CHOOSE x \in rules : x.dest = d).source]
       ELSE relays[d]]

\* What Delete leaves in Redis for the service.
M_StoredAfterDelete(s, table) == IF s \in DOMAIN relayDb THEN relayDb[s] ELSE {}
StoredAfterDelete(s, table)   == RulesOf(s, table)

\* persist adds the name to the index with the record.
IndexWith(s)   == index \cup {s}

\* Register changes a record that is there and keeps its key.
KeptKey(s)   == IF s \in DOMAIN presence THEN presence[s].key ELSE None

\* RevokeAuthKey writes the record without its key to Redis.
M_DbAfterRevoke(s) == presenceDb
DbAfterRevoke(s)   == With(presenceDb, s, [presence[s] EXCEPT !.key = None])

\* Load passes over a record that has expired.
Restored == {s \in index \cap DOMAIN presenceDb : ~presenceDb[s].expired}
Stale    == index \ Restored

\* Load of the rules finds a service by the end of its Redis key, and passes over an
\* end that has a colon in it.  (Load of the records goes by the index of names.)
Recognized(read) == read \ WithColon

\* The rules Load leaves when it reads the lists of some services, in an order in
\* which rank grows: the last one to list a destination has it.
Loaded(read, rank) ==
  LET listing(d) == {s \in read \cap DOMAIN relayDb : \E x \in relayDb[s] : x.dest = d}
      last(d)    == CHOOSE s \in listing(d) : \A q \in listing(d) : rank[q] <= rank[s]
  IN
  [d \in {e \in Dests : listing(e) # {}} |->
     [service |-> last(d),
      source |-> (CHOOSE x \in relayDb[last(d)] : x.dest = d).source]]

Ranks == {f \in [Services -> 1..Cardinality(Services)] :
            \A s, q \in Services : f[s] = f[q] => s = q}

people == <<presence, presenceDb, index, beat, made, revoked>>
tables == <<relays, relayDb, routes, routeDb, contested>>

----------------------------------------------------------------------------
\* A write to Redis succeeds, or its error is dropped.
M_SetRecord(s, record, db) ==
  /\ presence' = With(presence, s, record)
  /\ UNCHANGED <<presenceDb, index, lost>>
SetRecord(s, record, db) ==
  /\ presence' = With(presence, s, record)
  /\ \/ presenceDb' = db /\ index' = IndexWith(s) /\ UNCHANGED lost
     \/ UNCHANGED <<presenceDb, index>> /\ lost' = TRUE

StoreRelays(s, rules) ==
  \/ relayDb' = With(relayDb, s, rules) /\ UNCHANGED lost
  \/ UNCHANGED relayDb /\ lost' = TRUE

StoreRoutes(s, rules) ==
  \/ routeDb' = With(routeDb, s, rules) /\ UNCHANGED lost
  \/ UNCHANGED routeDb /\ lost' = TRUE

\* POST /services/presence: a record that is there keeps its key.

Register(s) ==
  /\ LET record == [key |-> KeptKey(s), expired |-> FALSE] IN
     SetRecord(s, record, With(presenceDb, s, record))
  /\ UNCHANGED <<tables, pending, beat, made, revoked>>

\* POST /services/auth-key.
RegisterAuthKey(s) ==
  /\ s \in DOMAIN presence
  /\ \E k \in Keys \ made :
       LET record == [presence[s] EXCEPT !.key = k] IN
       /\ SetRecord(s, record, With(presenceDb, s, record))
       /\ made' = made \cup {k}
  /\ UNCHANGED <<tables, pending, beat, revoked>>

\* The heartbeat worker: copy a record that has a key; ask the service; when the
\* answer is not 200, revoke the key the service has by now.
HeartbeatCopy ==
  /\ beat = None
  /\ Checked \in DOMAIN presence
  /\ presence[Checked].key # None
  /\ beat' = Checked
  /\ UNCHANGED <<presence, presenceDb, index, made, revoked, tables, pending, lost>>

HeartbeatGood ==
  /\ beat # None
  /\ beat' = None
  /\ UNCHANGED <<presence, presenceDb, index, made, revoked, tables, pending, lost>>

HeartbeatRevokes ==
  /\ beat # None
  /\ beat' = None
  /\ LET s == beat IN
     IF s \in DOMAIN presence
       THEN /\ SetRecord(s, [presence[s] EXCEPT !.key = None], DbAfterRevoke(s))
            /\ revoked' = revoked \cup ({presence[s].key} \ {None})
       ELSE UNCHANGED <<presence, presenceDb, index, revoked, lost>>
  /\ UNCHANGED <<tables, pending, made>>

\* Get: a record found expired is dropped, from Redis in two commands.
Evict(s) ==
  /\ s \in DOMAIN presence
  /\ presence[s].expired
  /\ presence' = Without(presence, {s})
  /\ presenceDb' \in {presenceDb, Without(presenceDb, {s})}
  /\ index' \in {index, index \ {s}}
  /\ UNCHANGED <<tables, pending, beat, made, revoked, lost>>

----------------------------------------------------------------------------
\* POST /services/relay and /services/route, /services/hook: the service must be
\* present; the registration comes after the check, under another lock.
Present(s) == s \in DOMAIN presence /\ ~presence[s].expired

CheckRegistration(s) ==
  /\ Present(s)
  /\ Cardinality(pending) < MaxPending
  /\ \/ \E new \in SUBSET Stored :
          /\ \A x, y \in new : x.dest = y.dest => x = y
          /\ pending' = pending \cup {[service |-> s, relays |-> new, routes |-> None]}
     \/ \E new \in RuleSets :
          pending' = pending \cup {[service |-> s, relays |-> None, routes |-> new]}
  /\ UNCHANGED <<people, tables, lost>>

UpsertRelays(p) ==
  LET table == Upserted(p.service, p.relays) IN
  /\ p.relays # None
  /\ relays' = table
  /\ StoreRelays(p.service, RulesOf(p.service, table))
  /\ contested' = contested \cup
       {d \in DOMAIN relays : relays[d].service # p.service /\ table[d].service = p.service}
  /\ pending' = pending \ {p}
  /\ UNCHANGED <<people, routes, routeDb>>

UpsertRoutes(p) ==
  /\ p.routes # None
  /\ routes' = With(routes, p.service, p.routes)
  /\ StoreRoutes(p.service, p.routes)
  /\ pending' = pending \ {p}
  /\ UNCHANGED <<people, relays, relayDb, contested>>

\* DELETE /services/relay: no check that the service is present.
DeleteRelay(s, d) ==
  /\ d \in DOMAIN relays
  /\ relays[d].service = s
  /\ LET table == Without(relays, {d}) IN
     /\ relays' = table
     /\ StoreRelays(s, StoredAfterDelete(s, table))
  /\ UNCHANGED <<people, routes, routeDb, pending, contested>>

----------------------------------------------------------------------------
\* The time a record was registered for ends; Redis may keep it a little longer.
RecordExpires(s) ==
  /\ s \in DOMAIN presence
  /\ ~presence[s].expired
  /\ presence' = [presence EXCEPT ![s].expired = TRUE]
  /\ presenceDb' = IF s \in DOMAIN presenceDb /\ presenceDb[s] = presence[s]
                     THEN [presenceDb EXCEPT ![s].expired = TRUE] ELSE presenceDb
  /\ UNCHANGED <<index, beat, made, revoked, tables, pending, lost>>

\* A Redis TTL ends: 24 hours or 7 days for a record, 30 days for rules, after
\* the last write, although the map in memory goes on.
RedisForgets(s) ==
  /\ \/ s \in DOMAIN presenceDb /\ presenceDb' = Without(presenceDb, {s})
        /\ lost' = (lost \/ ~presenceDb[s].expired)
        /\ UNCHANGED <<relayDb, routeDb>>
     \/ s \in DOMAIN relayDb /\ relayDb' = Without(relayDb, {s})
        /\ lost' = TRUE /\ UNCHANGED <<presenceDb, routeDb>>
     \/ s \in DOMAIN routeDb /\ routeDb' = Without(routeDb, {s})
        /\ lost' = TRUE /\ UNCHANGED <<presenceDb, relayDb>>
  /\ UNCHANGED <<presence, index, beat, made, revoked, relays, routes, contested, pending>>

\* The process stops and starts: Load, in each registry, before the first request.
\* What Redis does not answer for is left out.
Restart ==
  /\ \E read \in SUBSET Services :
       /\ presence' = [s \in Restored \cap read |-> presenceDb[s]]
       /\ \E gone \in SUBSET (Stale \cap read) : presenceDb' = Without(presenceDb, gone)
       /\ \E unlisted \in SUBSET (Stale \cap read) : index' = index \ unlisted
       /\ relays' \in {Loaded(Recognized(read), rank) : rank \in Ranks}
       /\ routes' = [s \in DOMAIN routeDb \cap Recognized(read) |-> routeDb[s]]
       /\ lost' = (lost \/ read # Services)
  /\ pending' = {} /\ beat' = None
  /\ UNCHANGED <<relayDb, routeDb, made, revoked, contested>>

Next ==
  \/ \E s \in Services : \/ Register(s) \/ RegisterAuthKey(s) \/ Evict(s)
                         \/ CheckRegistration(s)
                         \/ RecordExpires(s) \/ RedisForgets(s)
                         \/ \E d \in Dests : DeleteRelay(s, d)
  \/ \E p \in pending : UpsertRelays(p) \/ UpsertRoutes(p)
  \/ HeartbeatCopy \/ HeartbeatGood \/ HeartbeatRevokes
  \/ Restart

Spec == Init /\ [][Next]_vars

----------------------------------------------------------------------------
\* Safety.

\* Unless Redis fails or forgets, a restart brings back every record that was
\* acknowledged, keys included, and every rule of a service whose name has no colon:
\* the writes under the lock are complete.  The rules of a name with a colon are
\* lost, although they were acknowledged and Redis has them: Load passes over their
\* keys.  A destination that was taken over may go back to the service that lost it,
\* since that service's list in Redis still has it.
RestartKeepsRegistrations ==
  [][~lost' /\ Restart =>
       /\ \A s \in DOMAIN presence :
            ~presence[s].expired => s \in DOMAIN presence' /\ presence'[s] = presence[s]
       /\ routes' = Without(routes, WithColon)
       /\ \A d \in DOMAIN relays \ contested :
            relays[d].service \notin WithColon => d \in DOMAIN relays' /\ relays'[d] = relays[d]]_vars

\* Unless Redis fails or forgets, a restart brings back no relay rule that was
\* deleted or replaced, but for destinations that were taken over.
RestartRevivesNoRule ==
  [][~lost' /\ Restart => DOMAIN relays' \subseteq DOMAIN relays \cup contested]_vars

\* Unless Redis fails or forgets, a key that the heartbeat revoked is never
\* accepted again, whatever is registered afterwards and across restarts.
RevokedKeyStaysRevoked ==
  ~lost => \A s \in DOMAIN presence : presence[s].key \notin revoked

\* Unless Redis fails or forgets, a service loses its key only when it gets a new
\* one, when the heartbeat revokes it or when its record expires, and not when it
\* registers itself once more or when the process restarts.
KeysAreKept ==
  [][\A s \in DOMAIN presence \cap DOMAIN presence' :
       presence'[s].key # presence[s].key /\ ~lost' =>
         presence'[s].key \notin made \cup {None} \/ presence[s].key \in revoked']_vars
=============================================================================
