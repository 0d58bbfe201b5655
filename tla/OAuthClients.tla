---------------------------- MODULE OAuthClients ----------------------------
(***************************************************************************)
(* The table oauth2_clients: the clients each process seeds at its start,  *)
(* in one transaction (EnsureBuiltInClients), and those that services      *)
(* register (POST /oauth/register, RegisterServiceClient), while other     *)
(* processes do the same on the same database.                             *)
(*                                                                         *)
(* client_id has a unique index.  A transaction reads the snapshot of its  *)
(* first statement (InnoDB, REPEATABLE READ); its rows are locked until it *)
(* ends, and a statement on such a row waits.  Rows are never deleted.     *)
(***************************************************************************)
EXTENDS ConfigFile, Sequences

CONSTANTS
  Services,       \* names under which services register
  ServiceClients, \* oauth2.service_clients, where the operator lists any
  CarriesSuper,   \* entries of it whose secret is the super client's
  PublicId, SuperId

ASSUME ClientConstants ==
  /\ ServiceClients \in Seq(Services) /\ CarriesSuper \subseteq Services
  /\ PublicId # SuperId /\ {PublicId, SuperId} \cap Services = {}

VARIABLES
  clients,  \* oauth2_clients: id -> secret
  inactive, \* the rows whose is_active is 0 (no code clears it: an operator has)
  seed,     \* the seeding transaction of each process
  request,  \* the registration each process is serving
  handed    \* history: the credentials that have been handed out

ovars == <<clients, inactive, seed, request, handed>>

NoSeed    == [pc |-> "no", snapshot |-> <<>>, rows |-> <<>>, next |-> 0]
NoRequest == [pc |-> "idle", id |-> None]

\* Secrets.  The super client's row has a placeholder; its secret is that of the
\* configuration.
SuperSecretKey == "oauth2.super_client_secret"
Placeholder    == <<"(config)">>
NewSecret(p, s) == <<"client", s, p>>

SecretIn(keys) == IF SuperSecretKey \in DOMAIN keys THEN keys[SuperSecretKey] ELSE Empty
SuperSecret(p) == SecretIn(loaded[p])
IsSuperClientSecret(p, secret) == SuperSecret(p) # Empty /\ secret = SuperSecret(p)

Configured(p) ==
  IF "oauth2.service_clients" \in DOMAIN loaded[p]
     /\ loaded[p]["oauth2.service_clients"] = Own("oauth2.service_clients")
    THEN ServiceClients ELSE <<>>

EntrySecret(id) == IF id \in CarriesSuper THEN Own(SuperSecretKey) ELSE Own(id)

ClientsInit(rows, off) ==
  /\ clients = rows
  /\ inactive = off
  /\ seed = [p \in Procs |-> NoSeed]
  /\ request = [p \in Procs |-> NoRequest]
  /\ handed = {}

\* AuthenticateClient, for a client other than the super client.
AuthenticateClient(id, secret) ==
  id \in DOMAIN clients \ inactive /\ clients[id] = secret

LockedByOther(p, id) == \E q \in Procs \ {p} : id \in DOMAIN seed[q].rows

Rollback(p) == seed' = [seed EXCEPT ![p] = NoSeed]

----------------------------------------------------------------------------
\* EnsureBuiltInClients.

\* BEGIN, and the first SELECT makes the snapshot.
SeedBegin(p) ==
  /\ seed[p].pc = "no"
  /\ seed' = [seed EXCEPT ![p] = [pc |-> "built-in", snapshot |-> clients, rows |-> <<>>, next |-> 1]]
  /\ UNCHANGED <<clients, inactive, request, handed>>

\* upsertBuiltInPublicClient, upsertBuiltInSuperClient: a row that the snapshot has
\* is updated, else it is inserted, which fails if another process has.
BuiltIns == [id \in {PublicId, SuperId} |-> IF id = PublicId THEN Empty ELSE Placeholder]

SeedBuiltIns(p) ==
  LET tx == seed[p] IN
  /\ tx.pc = "built-in"
  /\ \A id \in DOMAIN BuiltIns : ~LockedByOther(p, id)
  /\ IF DOMAIN BuiltIns \cap DOMAIN clients \subseteq DOMAIN tx.snapshot
       THEN seed' = [seed EXCEPT ![p].pc = "service", ![p].rows = BuiltIns]
       ELSE Rollback(p)
  /\ UNCHANGED <<clients, inactive, request, handed>>

\* An entry that is left alone: one with the super client's secret, and one whose
\* row is there already.
Skipped(p, id) ==
  \/ IsSuperClientSecret(p, EntrySecret(id))
  \/ id \in DOMAIN seed[p].snapshot \cup DOMAIN seed[p].rows

\* ensureConfiguredServiceClients, one entry.  If the row has come since the
\* snapshot, the insertion fails, and the SELECT after it, which reads the snapshot
\* again, does not find it: the transaction is rolled back, built-in clients and all.
SeedService(p) ==
  LET tx == seed[p]
      id == Configured(p)[tx.next]
      next == [seed EXCEPT ![p].next = @ + 1]
  IN
  /\ tx.pc = "service"
  /\ tx.next \in DOMAIN Configured(p)
  /\ \/ Skipped(p, id) /\ seed' = next
     \/ /\ ~Skipped(p, id) /\ ~LockedByOther(p, id)
        /\ IF id \in DOMAIN clients
             THEN Rollback(p)
             ELSE seed' = [next EXCEPT ![p].rows = With(@, id, EntrySecret(id))]
  /\ UNCHANGED <<clients, inactive, request, handed>>

SeedCommit(p) ==
  /\ seed[p].pc = "service"
  /\ seed[p].next \notin DOMAIN Configured(p)
  /\ clients' = Over(seed[p].rows, clients)
  /\ inactive' = inactive \ DOMAIN seed[p].rows
  /\ Rollback(p)
  /\ UNCHANGED <<request, handed>>

\* A statement fails: everything is rolled back.
SeedFails(p) ==
  /\ seed[p].pc # "no"
  /\ Rollback(p)
  /\ UNCHANGED <<clients, inactive, request, handed>>

----------------------------------------------------------------------------
\* POST /oauth/register, by the super client.

Answer(p, id, secret) ==
  /\ handed' = handed \cup {[id |-> id, secret |-> secret, inactive |-> id \in inactive]}
  /\ request' = [request EXCEPT ![p] = NoRequest]

\* A row that is there is handed out, active or not, unless it has the super
\* client's secret: then the request is refused.
M_AnswerExisting(p, id) == Answer(p, id, clients[id])
AnswerExisting(p, id) ==
  IF IsSuperClientSecret(p, clients[id])
    THEN request' = [request EXCEPT ![p] = NoRequest] /\ UNCHANGED handed
    ELSE Answer(p, id, clients[id])

RegisterServiceClient(p) ==
  /\ request[p].pc = "idle"
  /\ SuperId \in DOMAIN clients \ inactive
  /\ \E s \in Services :
       IF s \in DOMAIN clients
         THEN AnswerExisting(p, s)
         ELSE request' = [request EXCEPT ![p] = [pc |-> "create", id |-> s]] /\ UNCHANGED handed
  /\ UNCHANGED <<clients, inactive, seed>>

\* What the request that comes second answers: it reads the row again.
M_AnswerRaced(p, id) == Answer(p, id, NewSecret(p, id))
AnswerRaced(p, id)   == AnswerExisting(p, id)

\* Create, which waits for a transaction that has the row and then fails if that
\* one was committed.
CreateClient(p) ==
  LET id == request[p].id IN
  /\ request[p].pc = "create"
  /\ \A q \in Procs : id \notin DOMAIN seed[q].rows
  /\ IF id \in DOMAIN clients
       THEN AnswerRaced(p, id) /\ UNCHANGED <<clients, inactive>>
       ELSE /\ clients' = With(clients, id, NewSecret(p, id))
            /\ UNCHANGED inactive
            /\ Answer(p, id, NewSecret(p, id))
  /\ UNCHANGED seed

RequestFails(p) ==
  /\ request[p].pc = "create"
  /\ request' = [request EXCEPT ![p] = NoRequest]
  /\ UNCHANGED <<clients, inactive, seed, handed>>

SeedStep(p) == SeedBuiltIns(p) \/ SeedService(p) \/ SeedCommit(p) \/ SeedFails(p)

RequestStep(p) == CreateClient(p) \/ RequestFails(p)

\* The process stops: a transaction that was not committed is rolled back.
ClientsStop(p) ==
  /\ Rollback(p)
  /\ request' = [request EXCEPT ![p] = NoRequest]
  /\ UNCHANGED <<clients, inactive, handed>>

----------------------------------------------------------------------------
\* Safety.

\* Every credential that has been handed out works for good (AuthenticateClient
\* accepts it), although two requests for one name may find no row, configured
\* clients are seeded at the same time, and processes restart with a configuration
\* that has another secret for the name.  What is handed out of a row that an
\* operator has switched off does not.
CredentialsWork ==
  \A h \in handed : h.inactive \/ AuthenticateClient(h.id, h.secret)

\* The super client's secret is never handed out, whatever an older version or the
\* operator's list has put into a service's row.
SuperSecretStays ==
  \A p \in Procs : loaded[p] # None =>
    \A h \in handed : ~IsSuperClientSecret(p, h.secret)
=============================================================================
