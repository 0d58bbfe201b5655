------------------------------ MODULE Startup ------------------------------
(***************************************************************************)
(* The start of server processes that share a database: each brings its    *)
(* config.yaml up to date and loads it (ConfigFile), connects in the       *)
(* background, and when it is connected repairs schema_migrations, runs    *)
(* the migrations and seeds the OAuth2 clients (OAuthClients), which it    *)
(* then serves (main.go, database.go, StartupController.EnsureMigrations). *)
(*                                                                         *)
(* In a process three goroutines run: main, which registers the callback,  *)
(* connect, and the callback.  An ALTER TABLE commits by itself.           *)
(***************************************************************************)
EXTENDS OAuthClients, FiniteSets

CONSTANTS
  Worlds,      \* what the processes find, which of them run already, and
               \* how many starts of each have been used up
  MaxRetries,  \* database.max_retries
  NextRound    \* the processes with database.next_round_delay_min > 0

\* (0 would mean that a round never ends.)
ASSUME RetryConstants == MaxRetries \in Nat \ {0} /\ NextRound \subseteq Procs

\* schema_migrations: with the service column of older versions or without, its
\* primary key ("legacy": over that column too), and how many rows it has.
Table == [service : BOOLEAN, pk : {"legacy", "version", "none"}, rows : Nat]

\* Processes that run already have loaded a current file.
ASSUME WorldsAssumption ==
  \A w \in Worlds :
    /\ w.table = None \/ w.table \in Table
    /\ w.running \subseteq Procs
    /\ DOMAIN w.files = Procs /\ DOMAIN w.backups = Procs
    /\ w.inactive \subseteq DOMAIN w.clients
    /\ \A p \in w.running :
         /\ w.files[p] \notin {None, Torn}
         /\ w.files[p].version \in Nat /\ w.files[p].version >= ConfigVersion

\* A file that is there has the settings of its version, or was torn.
ASSUME FilesAssumption ==
  \A w \in Worlds : \A p \in Procs : w.files[p] \in {None, Torn} \/ OfItsVersion(w.files[p])

\* The processes that serve requests for one database have one super client's
\* secret, or none yet; what has been generated is in nobody's row.
SecretOf(f) == IF f \in {None, Torn} THEN Empty ELSE SecretIn(f.keys)

ASSUME SecretsAssumption ==
  \A w \in Worlds :
    /\ \A p, q \in w.running \cup {r \in Procs : w.used[r] < MaxStarts} :
         SecretOf(w.files[p]) = SecretOf(w.files[q])
    /\ \A id \in DOMAIN w.clients : ~IsGenerated(w.clients[id])

VARIABLES
  handle,     \* database.DB: "nil", "broken" (of a connection that failed) or "up"
  onConnect,  \* database.OnConnect has the callback
  main,       \* where main is
  conn,       \* where connect is, and its failures in this round
  callback,   \* where the callback is, and what it has read
  table,      \* schema_migrations
  level,      \* the schema: "old", "dirty" or "current"
  raced,      \* history: two processes were in the repair at once
  repaired    \* history: a repair has gone through

dvars == <<handle, onConnect, main, conn>>
tvars == <<table, level, raced, repaired>>
vars  == <<cvars, ovars, dvars, callback, tvars>>

NoCallback == [pc |-> "off", service |-> FALSE, pk |-> "none"]

Init ==
  \E w \in Worlds :
    LET Phase(p, up, down) == IF p \in w.running THEN up ELSE down IN
    /\ ConfigInit(w.files, w.backups, w.used, w.running)
    /\ ClientsInit(w.clients, w.inactive)
    /\ handle = [p \in Procs |-> Phase(p, "up", "nil")]
    /\ onConnect = [p \in Procs |-> Phase(p, TRUE, FALSE)]
    /\ main = [p \in Procs |-> Phase(p, "serve", "config")]
    /\ conn = [p \in Procs |-> [pc |-> Phase(p, "done", "off"), failures |-> 0]]
    /\ callback = [p \in Procs |-> [NoCallback EXCEPT !.pc = Phase(p, "over", "off")]]
    /\ table = w.table
    /\ level = w.level
    /\ raced = FALSE
    /\ repaired = FALSE

----------------------------------------------------------------------------
\* InitializeConfig and Load; then database.Init starts connect.
Configure(p) ==
  /\ ConfigStep(p)
  /\ IF start'[p].pc = "up"
       THEN main' = [main EXCEPT ![p] = "register"] /\ conn' = [conn EXCEPT ![p].pc = "open"]
       ELSE UNCHANGED <<main, conn>>
  /\ UNCHANGED <<ovars, handle, onConnect, callback, tvars>>

\* gorm.Open fails: what it returns is assigned to DB all the same.  After
\* MaxRetries more attempts the round is over.
OpenFails(p) ==
  /\ conn[p].pc = "open"
  /\ handle' = [handle EXCEPT ![p] = "broken"]
  /\ conn' = [conn EXCEPT ![p] =
       IF @.failures < MaxRetries      THEN [pc |-> "open", failures |-> @.failures + 1]
       ELSE IF p \in NextRound         THEN [pc |-> "open", failures |-> 0]
       ELSE [pc |-> "gave up", failures |-> 0]]
  /\ UNCHANGED <<cvars, ovars, onConnect, main, callback, tvars>>

OpenSucceeds(p) ==
  /\ conn[p].pc = "open"
  /\ handle' = [handle EXCEPT ![p] = "up"]
  /\ conn' = [conn EXCEPT ![p].pc = "walk"]
  /\ UNCHANGED <<cvars, ovars, onConnect, main, callback, tvars>>

Started(p) == callback' = [callback EXCEPT ![p] = [NoCallback EXCEPT !.pc = "dial"]]

\* The list is read once; what is appended later is not run.
M_InTime(p) == onConnect[p] /\ conn[p].failures = 0
InTime(p)   == onConnect[p]

WalkOnConnect(p) ==
  /\ conn[p].pc = "walk"
  /\ IF InTime(p) THEN Started(p) ELSE UNCHANGED callback
  /\ conn' = [conn EXCEPT ![p] = [pc |-> "done", failures |-> 0]]
  /\ UNCHANGED <<cvars, ovars, handle, onConnect, main, tvars>>

\* RegisterOnConnect: DB is read, and then the list is appended to, without a lock.
RegisterOnConnect(p) ==
  /\ \/ /\ main[p] = "register"
        /\ IF handle[p] # "nil"
             THEN Started(p) /\ main' = [main EXCEPT ![p] = "serve"]
             ELSE main' = [main EXCEPT ![p] = "append"] /\ UNCHANGED callback
        /\ UNCHANGED onConnect
     \/ /\ main[p] = "append"
        /\ onConnect' = [onConnect EXCEPT ![p] = TRUE]
        /\ main' = [main EXCEPT ![p] = "serve"]
        /\ UNCHANGED callback
  /\ UNCHANGED <<cvars, ovars, handle, conn, tvars>>

----------------------------------------------------------------------------
\* EnsureMigrations.

CbAt(p, pc)      == callback[p].pc = pc
CbGoto(p, state) == callback' = [callback EXCEPT ![p] = state]
CbPc(p, pc)      == CbGoto(p, [callback[p] EXCEPT !.pc = pc])

Altering == {"service", "key", "drop legacy", "drop service", "drop key", "add key"}
Repairing(p) == callback[p].pc \in Altering

\* With a port of its own in the configuration, the address that EnsureMigrations
\* dials (Host) is not the one that connect dials (Addr): there is no database.
PortIsInHost(p) ==
  "database.port" \in DOMAIN loaded[p] => loaded[p]["database.port"] # Own("database.port")

Dial(p) ==
  /\ CbAt(p, "dial")
  /\ PortIsInHost(p)
  /\ table' = IF table = None THEN [service |-> FALSE, pk |-> "version", rows |-> 0] ELSE table
  /\ CbPc(p, "service")
  /\ raced' = (raced \/ \E q \in Procs \ {p} : Repairing(q))
  /\ UNCHANGED <<cvars, ovars, dvars, level, repaired>>

\* normalizeSchemaMigrationsTable: what to do once the service column is gone.
M_NextForKey(pk) == IF pk = "legacy" THEN "drop key" ELSE "up"
NextForKey(pk) ==
  CASE pk = "version" -> "up"
    [] pk = "legacy"  -> "drop key"
    [] pk = "none"    -> "add key"

ReadColumn(p) ==
  /\ CbAt(p, "service")
  /\ CbGoto(p, [callback[p] EXCEPT !.pc = "key", !.service = table.service])
  /\ UNCHANGED <<cvars, ovars, dvars, tvars>>

\* The columns of the primary key; with a service column, the rows are counted.
ReadKey(p) ==
  LET cb == callback[p] IN
  /\ cb.pc = "key"
  /\ IF cb.service
       THEN /\ table.rows <= 1
            /\ CbGoto(p, [cb EXCEPT !.pk = table.pk,
                 !.pc = IF table.pk = "legacy" THEN "drop legacy" ELSE "drop service"])
       ELSE CbGoto(p, [cb EXCEPT !.pk = table.pk, !.pc = NextForKey(table.pk)])
  /\ repaired' = (repaired \/ callback'[p].pc = "up")
  /\ UNCHANGED <<cvars, ovars, dvars, table, level, raced>>

\* ALTER TABLE ... DROP PRIMARY KEY, with the service column and without.
DropKey(p) ==
  /\ callback[p].pc \in {"drop legacy", "drop key"}
  /\ table.pk # "none"
  /\ table' = [table EXCEPT !.pk = "none"]
  /\ CbGoto(p, [callback[p] EXCEPT !.pk = "none",
       !.pc = IF CbAt(p, "drop key") THEN "add key" ELSE "drop service"])
  /\ UNCHANGED <<cvars, ovars, dvars, level, raced, repaired>>

DropService(p) ==
  /\ CbAt(p, "drop service")
  /\ table.service
  /\ table' = [table EXCEPT !.service = FALSE]
  /\ CbPc(p, NextForKey(callback[p].pk))
  /\ repaired' = (repaired \/ callback'[p].pc = "up")
  /\ UNCHANGED <<cvars, ovars, dvars, level, raced>>

AddKey(p) ==
  /\ CbAt(p, "add key")
  /\ table.pk = "none"
  /\ table' = [table EXCEPT !.pk = "version"]
  /\ CbPc(p, "up")
  /\ repaired' = TRUE
  /\ UNCHANGED <<cvars, ovars, dvars, level, raced>>

\* Up of golang-migrate, under its lock: a schema is dirty while it is changed, and
\* a dirty one is left alone.
Up(p) ==
  /\ \/ /\ CbAt(p, "up") /\ level = "old"
        /\ \A q \in Procs : ~CbAt(q, "applying")
        /\ level' = "dirty" /\ CbPc(p, "applying")
     \/ /\ CbAt(p, "applying")
        /\ level' = "current" /\ CbPc(p, "seed")
     \/ /\ CbAt(p, "up") /\ level = "current"
        /\ level' = level /\ CbPc(p, "seed")
  /\ UNCHANGED <<cvars, ovars, dvars, table, raced, repaired>>

\* A statement fails, because it cannot be done or because of the database: a
\* warning is logged and the callback goes on to the clients.
EnsureMigrationsFails(p) ==
  /\ callback[p].pc \in Altering \cup {"dial", "up", "applying"}
  /\ CbPc(p, "seed")
  /\ UNCHANGED <<cvars, ovars, dvars, tvars>>

\* EnsureBuiltInClients, through database.DB; then the cleanup tasks are started.
Seed(p) ==
  \/ /\ CbAt(p, "seed")
     /\ \/ /\ handle[p] = "up" /\ level # "old"
           /\ SeedBegin(p) /\ CbPc(p, "seeding")
        \/ CbPc(p, "over") /\ UNCHANGED ovars
     /\ UNCHANGED <<cvars, dvars, tvars>>
  \/ /\ CbAt(p, "seeding")
     /\ SeedStep(p)
     /\ IF seed'[p].pc = "no" THEN CbPc(p, "over") ELSE UNCHANGED callback
     /\ UNCHANGED <<cvars, dvars, tvars>>

----------------------------------------------------------------------------
\* Requests are served once main has started the server; DatabaseMiddleware lets
\* them pass when DB is set.
Serve(p) ==
  /\ main[p] = "serve" /\ handle[p] = "up"
  /\ RegisterServiceClient(p) \/ RequestStep(p)
  /\ UNCHANGED <<cvars, dvars, callback, tvars>>

Stop(p) ==
  /\ ConfigStop(p)
  /\ ClientsStop(p)
  /\ handle' = [handle EXCEPT ![p] = "nil"]
  /\ onConnect' = [onConnect EXCEPT ![p] = FALSE]
  /\ main' = [main EXCEPT ![p] = "config"]
  /\ conn' = [conn EXCEPT ![p] = [pc |-> "off", failures |-> 0]]
  /\ callback' = [callback EXCEPT ![p] = NoCallback]
  /\ UNCHANGED tvars

Restart(p) == ConfigRestart(p) /\ UNCHANGED <<ovars, dvars, callback, tvars>>

CallbackStep(p) ==
  \/ Dial(p) \/ ReadColumn(p) \/ ReadKey(p) \/ DropKey(p) \/ DropService(p) \/ AddKey(p)
  \/ Up(p) \/ EnsureMigrationsFails(p) \/ Seed(p)

Next ==
  \E p \in Procs :
    \/ Configure(p) \/ RegisterOnConnect(p)
    \/ OpenFails(p) \/ OpenSucceeds(p) \/ WalkOnConnect(p)
    \/ CallbackStep(p)
    \/ Serve(p)
    \/ Stop(p) \/ Restart(p)

Spec == Init /\ [][Next]_vars

\* The goroutines of a process run, and one of the attempts to connect succeeds,
\* if connect does not give up before.
Fairness ==
  \A p \in Procs : WF_vars(OpenSucceeds(p)) /\ WF_vars(WalkOnConnect(p)) /\ WF_vars(CallbackStep(p))

FairSpec == Spec /\ Fairness

----------------------------------------------------------------------------
\* Safety.

\* Once a repair of schema_migrations has gone through, the table has the form that
\* golang-migrate expects, from whatever form it started and although earlier
\* repairs stopped between two ALTERs, unless two processes were in it at once (the
\* second may drop the key that the first has added).
RepairedUnlessRaced ==
  repaired /\ ~raced => ~table.service /\ table.pk = "version"

----------------------------------------------------------------------------
\* Liveness, under FairSpec.

\* A callback that was registered before connect was done with its list runs to
\* its end, cleanup tasks included, unless connect gives up or the process stops.
CallbackRuns ==
  \A p \in Procs :
    onConnect[p] /\ conn[p].pc \in {"open", "walk"}
      ~> \/ CbAt(p, "over") \/ conn[p].pc = "gave up" \/ start[p].pc = "down"
=============================================================================
