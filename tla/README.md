# HRPAuth in TLA+

Specifications of the HRPAuth main service: what its handlers, tables, Redis keys and files do when
requests interleave, statements fail, values expire and the process restarts. TLC checks them on
small instances; TLAPS proves the main properties of all of them for every instance.

All paths below are those of the repository. "Statement" means one SQL statement, one Redis command
or one file operation; it is the unit of atomicity throughout, except where the code holds a
transaction or a mutex.

## 1. Inventory

HRPAuth is a Go (gin) service over MySQL and Redis. Requests are served concurrently, each in its own
goroutine; nothing is shared between handlers but the database, Redis, the directory of codes, and
four registries in memory. Background tasks are the OAuth2 cleanup, the account cleanup and the
heartbeat worker.

| Component | State | Operations | What is hard | What makes it correct | Module |
|---|---|---|---|---|---|
| OAuth2 grants and tokens (`services/oauth2_service.go`) | `oauth2_authorization_codes`, `oauth2_access_tokens`, `oauth2_refresh_tokens` | issue a code, exchange it, rotate, revoke, resolve, clean up | SELECT, conditional UPDATE and INSERT are three statements; a cascade between two tables; expiry between them | one pair for a grant; a pair belongs to the user and client of its grant; dead tokens stay dead; garbage goes | `OAuthTokens`, `GrantLedger` |
| Accounts (`auth_service.go`, `auth_controller.go`, `user_*_controller.go`) | `users`, `deleted_accounts` | register, claim, change email or name, delete, restore, clean up | uniqueness by COUNT before INSERT, without an index and with errors dropped; uids are reused; the cleanup works from an old list | emails and names unique while handlers do not overlap and no query fails; a handler touches only the row of its user | `Accounts` |
| Login and second factors (`oauth2_controller.go`, `totp_controller.go`, `email_2fa_controller.go`, `webauthn_*`, `user_security_controller.go`) | tickets and WebAuthn flows in Redis, factor switches, `webauthn_credentials` | password, four factors, recovery keys, set-up and removal of each | GET and DEL of a ticket are two commands; a switch in one table depends on rows in another | a ticket gives one pair, without overlap; `LoginTicket` gives no tokens for a password alone when a factor is on | `Login` |
| Verification codes and captchas (`email_service.go`, `captcha_service.go`, `email_verification_controller.go`) | one file for each email, captchas in Redis | ask, mail, present, use | no lock: truncate, write, read and remove interleave; four purposes share a file | a verified email was proven, or claimed by a service; without overlap, the last mail works and a code is accepted once | `VerificationCodes` |
| Registries (`registry/`, `presence_`, `relay_`, `route_`, `hook_controller.go`) | who is present and with which key; relay, route and hook rules; their copies in Redis | register, give and revoke keys, set and delete rules, evict, load at start | check and registration under different locks; a heartbeat on a copied record; restart from what Redis has | a restart loses nothing, but for the rules of names with a colon, and revives nothing; a revoked key stays revoked | `Registries` |
| Dispatch (`orchestration_middleware.go`, `hook_runtime.go`, the middleware in `relay_controller.go`) | one request | relay, level check, pre-routes, hooks, handler, post-routes | four parties that can answer; rules that change in between; services that fail or time out | one answer; no request before its level check; a denial is final | `Dispatch` |
| OAuth2 client registration (`oauth2_service.go`) | `oauth2_clients`, with `is_active` | seed the built-in and configured clients at start, get or create a service's client | the seeding is one transaction over an old snapshot; two requests, or a request and another process's seeding, find no row for one name | every credential handed out of an active row works for good; the super client's secret is not handed out | `OAuthClients` |
| SDK package store (`sdk_package_store.go`, `sdk_package_controller.go`) | directory tree, one lock | upload, delete, list, read | stops and failures between file operations; reads without the lock; archives with several manifests; names that are not checked on DELETE | what is published is whole until a DELETE takes from it, and is what its manifest says; the limit holds; no residue; the lock is given back | `SdkPackages` |
| Startup and configuration (`startup_controller.go`, `config/`) | `config.yaml`, its backup and temporary file; `schema_migrations` | create, back up, migrate and load the file; repair the table and migrate the schema | stops between file operations and between ALTERs; thirteen migrations in a row; backups of earlier upgrades; two processes in the repair | no setting or secret is lost, and no original unless an earlier backup stands in its place; a finished repair leaves the right table | `ConfigFile`, `Startup` |
| Connections (`database/`, `redis/`) | `DB`, `OnConnect` | connect in rounds, register a callback | both are read and written by two goroutines without a lock | a callback that was registered in time runs | `Startup` |
| Tokens, hashing, TOTP (`utils/`), responses, routing (`main.go`) | none | pure | - | - | abstracted to a fresh value or a check that passes or not |

Interactions. Deleting an account removes its codes, tokens and credentials through foreign keys
(`OAuthTokens` has the account's rows disappear between the statements of an exchange). Login issues
its pair with the same `issueUserTokens` as the token endpoint. `Login` and `VerificationCodes` meet
at the email factor, whose code is a member of a set in the former and a file in the latter.
`Dispatch` stands in front of the login handler and reads `Registries` one lock at a time; since
nothing holds from one read to the next, it takes each read to return anything. `Startup` composes
`ConfigFile` and `OAuthClients` with the connection and the repair of the schema, and runs them in
processes that share a database: what a process seeds depends on the file it has loaded, and it
serves registrations while another starts.

`PROJECT.json` has every component, the mapping from definitions to lines and, under `hazards`, what
in this code a test would hardly reach, with the properties that watch it.

## 2. Plan

Done, in this order: `OAuthTokens` with the abstract `GrantLedger`, `Accounts`, `Login`,
`VerificationCodes`, `Registries`, `Dispatch`, `SdkPackages`, `ConfigFile`, `OAuthClients` and
`Startup`, which composes the last two; and a `_proofs` module for each component.

What would come next, if more is wanted:

1. A composition of `Registries` and the relay part of `Dispatch`, to relate the level that was
   declared with the level that is enforced. The code forgets the declared level with the presence
   record, so the property needs a history of declarations.
2. `client_credentials` tokens and their scopes, which share tables with the tokens of users.

## 3. Modules and code

Conventions. A table, a registry or a directory is a function whose domain is the keys that have a
row. A handler in flight is a record in `calls` with a `pc` that names its next statement and the
locals it carries there; `Return` ends it. An action is one statement with what the handler computes
before the next one. A handler whose check fails changes nothing, and its guard leaves the step
out unless the failure itself changes state. Variables marked "history" exist only for properties.
A definition `M_x` before `x` is `x` with a plausible mistake and is used by nothing: putting it in
place of `x` makes the property named in `PROJECT.json` fail.

### OAuthTokens, GrantLedger

`codes`, `access` and `refresh` are the three tables; a pair of tokens has one name, because
`issueUserTokens` inserts both rows in a transaction and the refresh row references the access row.
`ExchangeCheck`/`ClaimCode`/`IssueUserTokens` and `RefreshCheck`/`ClaimRefresh`/`IssueUserTokens` are
the SELECT with its checks, the conditional UPDATE and the insertion. `DeleteAccount` is the
transaction of `user_info_controller.go` with what the foreign keys cascade to;
`CleanupExpiredAccessTokens` takes refresh rows along for the same reason. `Tick` moves the clock
between any two statements. `Expired` (`time.Now().After`) and `Unexpired` (`expires_at > ?`) are the
two comparisons the code uses: at the moment of expiry itself a row is neither. Lifetimes are in ticks.

`GrantLedger` is the promise without tables or requests: a grant is offered, claimed by one request,
and settled by one pair or lost. `GrantStatus` is the refinement mapping.

Not in it: `client_credentials` tokens, on which no other row depends, and scopes.

### Accounts

`users` is keyed by `uid`, as the table is; `uuid` is unique by index; emails and names are values that
stand for all their spellings under the case-insensitive collation. Registration and the claim of a user
by a service run through `countEmail`, `countName`, `readMax`, `create` in the order of each handler.
Deletion, renaming, change of email and the restoring login each resolve their user first and write by
`uid` or by `uuid` as the code does. The queries that look for another holder drop their errors, so one
that fails finds nobody; `Check` has that outcome, and `unseen` (history) keeps the emails and names for
which it came. `ReadMaxUid` gives 1 when its query fails. `ScanMarked` and `DeleteUserCascade` are the
cleanup, with its list in `sweep`. `LegacyTables` are the tables at start; a deletion mark exists there
only, because no operation of the present code sets one.

### Login

One step for each command on Redis or MySQL, and reading what the next write is based on in the step
before. The choice of factors in `LoginDecide` is made from the settings read by `LoginTicket`. Four
endpoints take a ticket; the WebAuthn ones take a flow, and a flow begun for a ticket remembers it.
Whether the passcode, signature or key is right is free; a wrong one changes nothing.

### VerificationCodes

A file has a code or nothing, an age, and the handlers that have it open: `os.WriteFile` is
`OpenFile`, which truncates, and `WriteFile`. A mail that cannot be sent removes the file as it is by
then. `SweepFile` is the removal of an expired file by a reader that had opened it. There is one
account, at first nobody's. `BeginAccount` and `CreateAccount` make it by registration, or by the claim
of a service, which inserts it with its email verified; `proven` (history) has the emails whose code was
presented and those a service vouched for. `faulted` records a restart or an error that the code drops,
`overlapped` that two handlers were in flight at once.

### Registries

A change of a map and its write to Redis happen under one mutex and are one step; the write may fail,
and the code drops the error (`lost`). The check that a service is present and the registration of
its rules are two steps (`pending`), as are the heartbeat's copy, answer and revocation (`beat`).
`Restart` rebuilds the maps as `Load` does: names from the index, rule lists in the order of SCAN,
which is any order. It finds a service's rules by the end of their Redis key and passes over an end
with a colon (`Recognized`, `WithColon`), although any name may register; records go by the index and
come back whatever the name. Route and hook rules are kept by the same code and have one variable.

### Dispatch

One request from the relay middleware to the post-routes. `MatchRelay`, `MatchPre` and `MatchHooks`
return any subset of the rules that can match the path, each level any level. A patch is applied
field by field in any order up to the first value of a wrong type. The answer "refused" stands for every
error of the handler, of its own checks and of storing the ticket or issuing the tokens (`Issue`).

### SdkPackages

One step for each system call. `disk` maps the names of directories to their two files, each absent,
opened and not yet written (`Torn`), or complete. `Upload` is the validation, which touches nothing;
`Lock` to `RemoveFails` are `Put` and `Delete` under the mutex, the deferred removal and unlock included;
`RemoveFile`, `RemoveDir` and `RemoveEnds` are `os.RemoveAll`, which may stop half way. `Delete` takes
any name: a package's, a temporary directory's, or `Base`, which stands for those that `filepath.Join`
turns into the store or its parent (`Targets`); `Forget` takes what it removes off the promises.
`ListReadDir` comes before the lock, as in the code. `Restart` keeps the disk. An archive is a tar or a
zip, and a sequence of entries with the attributes the validation looks at: the tar reader refuses links
and skips directories, also one at the path of the manifest, the zip reader does neither. `Describe`
pairs its digest with its manifest, the last one at the root. `GetMeta` and `OpenArchive` read one
published directory without the lock and change nothing; `StoredIsWhole` is what they rest on.

### ConfigFile, OAuthClients, Startup

`ConfigFile` follows `InitializeConfig` and `Load` file operation by file operation. The chain of
migrations is a recursive function over versions, with one operator for each migration that does more
than add a key. A setting has one of four values: the operator's, a default, a generated one, or
empty; of keys that a migration treats alike the model has one. `memcache.host` stands for the keys of
that section that are dropped. A process may find a backup for its file's version, left by an earlier
upgrade; `found` (history) remembers it.

`OAuthClients` has the seeding transaction with its snapshot, its locked rows and its rollback, and
`RegisterServiceClient` with the three places where it answers. A secret is named by who made it.
`inactive` has the rows whose `is_active` is 0: `AuthenticateClient` refuses them, registration does not
look, and the seeding switches the built-in ones on again.

`Startup` adds three goroutines for each process: `main`, `connect` and the callback, which dials,
repairs `schema_migrations` one ALTER at a time, runs golang-migrate (`Up`, external) and seeds.
`Stop` may come at any step, log.Fatal and a kill alike; the tables and files stay. `Worlds` are the
states in which processes may find files and tables.

## 4. Runs

| Run | Instance | Shows |
|---|---|---|
| `oauth_tokens` | 2 users, 2 clients, 1 code, 2 pairs, 2 handlers | a grant gives at most one pair, of its own user and client, and is spent from the claim on; dead tokens stay dead; the system implements `GrantLedger` |
| `oauth_cleanup` | 1 user, 1 code, 2 pairs, 2 clients, 1 handler | liveness: garbage is collected although statements fail and the process restarts; codes that can be claimed are kept |
| `oauth_cleanup_doc` | 1 pair, refresh tokens that live longer | refuted, see section 7 |
| `accounts` | 2 handlers, 3 uuids, 2 emails, 2 names, 3 uids; one account, marked or not | emails and names stay unique until handlers overlap or the query for that value fails, cleanup and restarts included; a deletion reaches the row of its own user although uids are reused |
| `accounts_unique_doc` | the same, no mark | refuted, see section 7 |
| `login` | 2 handlers, 1 user, ticket and flow, 2 authenticators | the ticket is gone before tokens are issued; without overlap also: one pair a ticket, a switch has a credential, no tokens from `LoginTicket` past a factor |
| `codes` | 2 handlers, 2 emails, one code of each length, 1 captcha | a blocking code was sent, a verified email was proven or claimed; without overlap also: the last mail works, nothing is accepted twice |
| `registries` | 2 services, one with a colon in its name, 1 relayed path, 2 keys | while Redis keeps what it was given: restarts lose no record, no rule of a name without a colon, and revive nothing; revoked keys stay revoked |
| `dispatch` | 2 services with a pre-route, 4 hooks | the safety properties of a request, and that it is answered |
| `dispatch_fail_open_doc` | the same | refuted, see section 7 |
| `packages` | 2 handlers, 2 names, 2 temporary directories, limit 2, 9 archives, 7 of them refused, deletions of any name | what is published is whole until a DELETE takes from it, and self-contained; the limit holds; no residue without mishaps; listings are complete; every handler answers |
| `startup` | 2 processes in 19 worlds: ten kinds of files, three of earlier backups, five of tables | no setting or secret is lost, and no original without an earlier backup; credentials of active rows work and are not the super client's; repairs are finished; a registered callback runs |

Bounds, and why they are enough to meet the cases. Every race described in the code is between two
handlers, or a handler and a task: two handlers suffice to overlap, and a third party (cleanup,
deletion, expiry, restart) is always present besides. Two pairs are a pair and the one it is rotated
into, with two requests for each link. Three uids, with `MAX(uid)+1`, let a uid be freed and given to
another user twice. One ticket, one code of a kind and one captcha are enough because they never
interact with others of their kind; two emails are needed for a change of address, two authenticators
for two deletions that each see the other's row, two keys for a revoked key beside a new one, two
services for a path that is taken over. Two temporary directories and a limit of two let one upload
meet the residue of another and the store be full with and without residue; the two acceptable
archives have two names; one has a second manifest under another path, the other, a zip, a link with
an entry below it, which a tar is refused for.

The worlds of `startup` are chosen one by one: for each migration that does more than add a key a
file it has something to do on, files newer than the program, without a version and missing; backups
that are the file itself, another one, and torn; a table in each form a stopped repair can leave; rows
that carry the super client's secret, or one that the configuration no longer has, or that are switched
off. `MaxStarts` is 2: one start that is interrupted anywhere and the one
after it. `MaxRetries` is 1 and one process has `next_round_delay_min`, so that a connection can fail,
give up, or go to a second round.

`MaxTime`, `MaxUid`, `MaxPairs`, `MaxPending` and `MaxStarts` bound the clock, the uids, the pairs
counted for a ticket, the registrations past their check and the starts. `RedisKept` stops exploring
behind a failure of Redis, since the properties of that run speak of what Redis kept; the failing writes
themselves are steps of the model. `OneExcuse` stops `accounts` once a query has failed and handlers have
overlapped as well: uniqueness is promised after neither. What this cuts off of `DeletesOwnRow`, and a
third service in `registries` (several without a colon, in any order of SCAN, would take more than five
minutes), is left to the proofs. Symmetry is used on handlers and on values that no definition chooses
among, and in no run with a liveness property.

Deadlock is checked except in the two `dispatch` runs, in which the one request ends, and in
`startup`, in which a process that has used up its starts stays down.

"While requests do not overlap" is a precondition of some properties of `Login` and `VerificationCodes`,
because GET-then-DEL and read-then-remove are not atomic: what the code promises for requests one after
the other, with expiry, failures and every order of calls, is what is checked. The same holds for unique
emails and names in `Accounts`, where a value whose query has failed is exempted as well. The overlaps
themselves are in the models, no property catches what they lead to, and the hazards in `PROJECT.json`
say so; the properties without that precondition (`TicketGoneBeforeTokens`, `BlockingCodeWasSent`,
`VerifiedMeansProven`, `DeletesOwnRow`) hold across them.

## 5. Fairness

Safety assumes none. `oauth_cleanup` assumes that the cleanup task goes on (weak fairness of
`Cleanup`: a ticker in a goroutine that is started with the process) and that a statement tried again
and again succeeds some time (strong fairness of the two statements: a database that refuses one
DELETE for ever cleans nothing). It assumes nothing of requests. `dispatch` assumes weak fairness of
the one request: every call to a service is made by a client with a timeout of ten seconds, and the
database driver answers or fails. `packages` assumes that a handler that does not wait goes on (weak
fairness of `Proceed`; file operations return or fail) and that one that waits again and again gets the
lock (strong fairness of `Lock` and `ListLock`: Go's `sync.RWMutex` lets neither readers nor writers
starve). `startup` assumes that the goroutines of a process are scheduled (weak fairness of the walk
over `OnConnect` and of the callback) and that one attempt to connect succeeds as long as `connect`
goes on trying; a process that gives up or stops is exempted by the property.

## 6. Proofs

The proof modules keep the constants arbitrary: any number of users, handlers, codes, pairs, uids,
services, keys, rules and hooks, any archives, and any worlds a process of `Startup` may start in.
The assumptions are the named ones next to the constants: distinct kinds of values, `FirstParty` is a
client, natural times to live, finitely many services, `LegacyTables` are tables with unique uuids,
hooks are what their registration lets through, the target of a link is no manifest, what is switched
off is a row. Two are about the worlds of `Startup`.
`FilesAssumption`: a file that a process finds is torn or has the settings of its own version only,
each the operator's or empty; the program never reads the keys it has dropped. `SecretsAssumption`: the
processes that can still serve one database were left one super client's secret, or all of them none, and
no row carries a secret that only a start of the model generates. Two different secrets would each
overwrite the other's row at every start, which is a mistake of the operator and not of the program.

`OAuthTokens_proofs`. `GrantYieldsOnePair` is not inductive: a handler that holds a claimed grant will
issue a pair for it, so one must know that it alone holds the grant and that there is no pair yet.
`SingleUseInv` says so: histories agree with the tables; a handler's client and user are those of
its grant; a grant is held by at most one handler, and while held it is spent and without a pair; a
grant with a pair is spent. The conditional UPDATE is what keeps it: it succeeds only on a grant that
is not spent, hence neither held nor exchanged, and spends it in the same statement (`ClaimStep`).
Deletion and cleanup only remove rows, which keeps "spent" true. From it follow `OnePairPerGrant`,
`PairsMatchGrants` and `ExchangedGrantsAreSpent`. `NoOrphans` is inductive with the types: the
foreign keys are checked with the insertion and cascade with the deletion. `DeadTokens` needs that a
pair's name is never given again, which the random values stand for. `CleanupSparesCodes` compares
the WHERE clause of the cleanup with that of the claim. `ServiceImplementsLedger` is the refinement:
`StatusTable` turns the cases of `GrantStatus` into facts that exclude each other (`SingleUseInv` makes
them), and each step then claims (`ClaimLedger`), settles or logs in (`SettleStep`), offers
(`OfferStep`), or only takes grants away from the tables and the requests (`LoseStep`: deletions,
cleanup, failures, restarts, and what changes nothing). `PairsNeverFork` reads off what the ledger
promises.

`Accounts_proofs`. `Identity` proves `IdentityInv`, which is about tables that started without
deletion marks, as the present code leaves them (no operation sets one): a uuid keeps its uid for
life, a handler holds the uid of the uuid it resolved, and a deleted uid is on record in
`deleted_accounts`. Hence `DeletesOwn`: a deletion by a uid that has been given to someone else runs
into the record of the first deletion and is rolled back. `Sequential` (for unique legacy rows)
proves that until two handlers have overlapped, what one has looked up by a query that did not fail still
holds at its next statement, whatever the cleanup does, and with it `SequentialUnique`: a duplicate
needs an overlap, or the failure of a query for that very value.

`Registries_proofs`. `RevokedKeyStaysRevoked` needs to know that nobody else has the key that is revoked,
in memory or in Redis: `KeyInv` says that a key has one owner, that what anybody has was made, and, as
long as Redis keeps what it was given, that memory and Redis agree and hold no revoked key. A revocation
then takes the key out of both, and a restart can bring back only what Redis has. `KeysKept` follows from
the agreement. `RulesInv` says the same of the rules: while Redis keeps what it was given, it has every
record that has not expired and every rule in force, and what it lists besides are rules for destinations
that were taken over (`contested`) and of names with a colon that a restart has passed over
(`RoutesAreStored`, `ListedIsRelayed`). Records all come back, rules where the name has no colon:
`RestartRestores` and `RestartRevivesNothing` follow, since a load leaves each destination to the last of
the services that list it (`LoadedTable`). That a last one exists is where `Services` must be finite:
every non-empty set of subsets of a finite set has a smallest one (`LastExists`).

`Dispatch_proofs`. There is one request, so an invariant says what is known at each `pc`: no answer
before the end and one after it (`AnswerInv`); a relayed request goes nowhere else (`RelayInv`, and
`RelayTarget`, without which the types are not inductive); `need` is at least every level asked for,
and met before the first forward (`LevelInv`); the hooks so far have passed (`DenialInv`) and come
before those that are due (`OrderInv`); nothing is posted before the end (`PostInv`). Each is
inductive with the types and, where success matters, with `AnswerInv`; the safety properties of the
`dispatch` run follow one by one. Rules, levels and outcomes are read anew at each step, so the
theorems cover every interleaving with the registries.

`Login_proofs`. `LoginInv` adds to the types what a handler carries: a ticket it holds was made by
`LoginTicket`, and one for which it is about to issue tokens is no longer in Redis. That is
`TicketGone`, and holds whatever overlaps. `CalmInv` holds until handlers have overlapped: one handler
at most is in flight; a ticket that gave a pair is out of Redis and in nobody's hands; the WebAuthn
switch has a credential, also between the count and the write of a handler that is about to change one
of them; and what `LoginDecide` has read of the settings is still so. `OnePair`, `SwitchIsUsable` and
`PasswordAlone` follow.

`VerificationCodes_proofs`. `VerifiedMeansProven` needs `ProvenInv`: a handler that is about to mark an
email, or to insert a claimed account, has one that was proven, and a change of address leaves the
account unverified, while registrations, claims, codes and changes overlap. `BlockingSent` needs
`AuthorInv`: as long as no error is dropped, a code in a file was mailed or belongs to a handler that
is about to mail it and will remove it if that fails. `LatestWorks` and `AcceptedOnlyOnce` share
`CalmInv`: with one request at a time a code is in one file, what is in a file or in Redis has not been
used except by the handler that is about to remove it, and each handler knows the state of its file.

`SdkPackages_proofs`. `StoreInv` says who holds the lock and at which steps, what the upload at work has
checked (its archive is acceptable and its name that of the manifest) and how far its directory is, that
what is published is whole, and that what a listing has to show is among the entries it has read. A
published directory can only come from `Rename`, which moves a directory whose two files are complete,
and only a DELETE, of its name or of `Base`, takes from what is there. `Limited` counts: the check and
the creation of a directory are under one lock, a rename replaces one name by another, and nothing else
creates. `ResidueFree` needs that a handler holds the lock for as long as it has a directory.
`SelfContained` adds `NamedInv`: what is published under a name has a manifest that gives this name. Of
several manifests in one archive both the validation and an extraction end up with the last
(`ManifestExtracted`). A path that `safePath` lets through has no `..`, so that it cannot climb out of
the package (`SafePathStays`). That no entry is reached through a link is proved of tar archives, whose
reader refuses links.

`Startup_proofs`. `RepairDone`: until two processes have been in the repair at once, what the one
that is there has read is still so, and the ALTERs it has left are those the table needs
(`Accurate`); wherever it stops, the next one reads a form that has a way to the end. `CredentialsLast`:
rows that a transaction holds and that are not yet in the table are nobody else's, and those it
changes are the built-in clients', so the secret of a row that was handed out never changes and nothing
switches it off. `OriginalKept` and
`SecretsKept` use `DiskInv`, which says for each stage of a start what is on disk: the temporary file
is complete before it is renamed, a backup that was found is as it was found (`Kept`), where there was
none the original is backed up before it is replaced (`FirstBackup`), and a file whose secrets have been
loaded is not written again. They assume `NotFiles`: what stands for no file and
for a torn one is not a file.

`SettingsKept` is about the chain of fourteen migrations. Each is a step of the relation `Upgrades`: a
setting that is not empty is kept unless this migration moves or drops it, nothing is added in the
operator's name, and the super client's secret is kept or, where it was missing, generated. `UpTo` says
what has become of the original after the steps up to a version, and `MigrationFaithful` follows it from
step to step. `MigrateConfig` is a recursive function, but over fourteen versions: its values are written
out (`ChainExists`, `ChainSteps`), so that no induction is needed. `FileInv` then says that the file a
process has is the original, an upgrade of it, or the default that was created where there was none, and
that what a migration has in hand was read from the original. `SuperSecretKept` rests on `SuperInv`. All
who may serve share the secret they were left (`SharedSecret`); a secret that was handed out for a
client is neither that one nor a generated one; and a process that serves has its file loaded. Had they
been left none, each start may generate its own, which is why the invariant speaks of all of them.

Type correctness is proved (`TypeCorrect`, and inside `RepairInv` and `ClientsInv`) rather than run. Every
safety property that the passing runs check is stated by a theorem; TLC checks the same properties
on the instances above.

Left to TLC: the liveness properties `GarbageIsCollected`, `EveryRequestIsAnswered`, `EveryCallReturns`
and `CallbackRuns`, which need fairness and ENABLED and are beyond the prover.

## 7. Where code and documentation differ

Shown by a run:

- `oauth_cleanup_doc`: the cleanup of access tokens deletes, through the cascade, refresh tokens that
  could still be exchanged. `knowledge/0009-token-system.md:222` names access tokens and codes only.
- `accounts_unique_doc`: two registrations of one email that overlap both succeed, against
  `controllers/auth_controller.go:171` and `knowledge/0010-data-models.md:89`.
- `dispatch_fail_open_doc`: when the pre-routes fail, the handler gets a request whose body has been
  read (`controllers/orchestration_middleware.go:119`), against the comment at line 44.

Seen while modelling; the models have the behaviour of the code:

- Rotation revokes the refresh token only (`oauth2_service.go:491`); `knowledge/0009:191` says the
  access token as well.
- An account is deleted at once (`user_info_controller.go:154`), against the comment above it and
  `archive/endpoints/user-info.md:129`. The record in `deleted_accounts` stays, so that the owner of a
  reused uid cannot delete the account.
- The account cleanup deletes what was marked when it read its list, even if a login has restored the
  account since (`auth_service.go:110`).
- The checks of registration, claiming and renaming drop their errors (`auth_controller.go:162`, `:173`,
  `:255`, `:260`, `user_security_controller.go:137`, `auth_service.go:135`; `MAX(uid)` at `:186`,
  `:267`): one failed query lets a duplicate email or name be written without any overlap.
- `AuthorizeDecision` (`oauth2_controller.go:188`) gives an authorization code for a password alone,
  whatever factors are on; only `LoginTicket` asks for them.
- A ticket or a code that two overlapping requests present can be accepted by both. The error of
  `deleteFlow` is dropped.
- The rules of a service whose name has a colon stay in Redis and are not loaded at a start
  (`relay_controller.go:110`, `route_controller.go:89`, `hook_controller.go:115`); registration accepts
  any name that is not empty (`presence_controller.go:36`).
- The heartbeat revokes the key a service has when the answer comes, not the one it tried.
- A destination taken over stays in the Redis list of the service that lost it, so that a restart may
  give it back. Levels are read as 0 once a presence record has expired, while rules live for 30 days.
- A client that is seeded while another process registers it: the comment at `oauth2_service.go:261`
  expects the SELECT after the failed INSERT to find the row. It reads the snapshot of the transaction,
  so the whole seeding is rolled back, built-in clients included, until the next start. A service
  that takes the name of a built-in client gets that client's row; this is outside the model.
- A client row that is switched off is handed out by registration (`oauth2_service.go:319`) though its
  credentials are refused (`:373`). No code switches a row off; an operator may.
- A default `config.yaml` that was cut short makes every later start fail, and a backup that was cut
  short is kept by the next start, which goes on to migrate; the comments at `startup_controller.go:160`
  and `:189` promise a backup. (The model has stops of the process, not of the machine: nothing is synced
  to disk.) A backup from an earlier upgrade is kept (`migrations.go:257`), so a file of the same version
  that was edited after it is migrated without a copy.
- Keys of a `memcache` section other than `code_ttl` and `storage_dir` are dropped (`migrations.go:285`).
  A version 1.0 file with a `memcache` section but without `code_ttl` gets none, and the default file
  lacks `service_clients` and its allowlist.
- `EnsureMigrations` dials `database.host` (`startup_controller.go:235`), `connect` the host with
  `database.port` (`database.go:23`): with a port, migrations fail and the clients are seeded on the
  schema there is.
- `gorm.Open` leaves a handle even when it fails, so `DatabaseMiddleware` lets requests pass and a
  callback registered after a failure runs at once, on a connection that does not work
  (`knowledge/0005:24`). A callback appended after `connect` has walked the list is lost.
- Two processes in the repair of `schema_migrations` can drop the key the other has added; the next
  start repairs it. `max_retries = 0` retries for ever.
- A package archive may have several manifests at its root (`./manifest.json`); the last one counts,
  against `knowledge/0012:185`; the check for one manifest counts distinct paths, and the last entry has
  overwritten the others by then. A zip may hold links and entries below them, since only the tar reader
  looks (`sdk_package_controller.go:307`), against `knowledge/0012:68` and `:188`; nothing in the service
  extracts a package to disk.
- DELETE of a package checks no name (`sdk_package_controller.go:168`, `sdk_package_store.go:389`): one
  that is blank, `.` or `..` removes the store or its parent, that of a temporary directory the upload at
  work. Temporary directories left by a stop count against the limit and can be listed, and a package
  that was half removed blocks uploads of its name until a DELETE succeeds.
- `knowledge/0008:389` calls `observe` a notification; `runRule` accepts a denial from any hook.

## 8. Not modelled

Hashing, random values, TOTP, signatures and the counter of authenticators, SMTP, HTTP routing, CORS,
JSON envelopes, path matching and headers: arithmetic or input and output, abstracted to a value, or
to an outcome that is free. `client_credentials` tokens and scopes: rows on which nothing else
depends. The `mbe` and callback columns of a profile are single updates that nothing reads back in
these handlers. The contents of `config.yaml` beyond what migrations move, fill or drop: each section
is parsed into values that later code reads and nothing writes. `redis.Init` builds a client and
nothing more. The SQL of the migrations is the external step `Up`.

## 9. Running

`tlc -config MCOAuthTokens.cfg MCOAuthTokens.tla` and likewise for each run of `PROJECT.json`;
`tlapm` on each `_proofs` module for the proofs. The longest runs, `packages`, `startup` and
`registries`, take about two and a half minutes on two workers, the others between some seconds and a
minute and a half.
