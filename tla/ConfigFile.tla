----------------------------- MODULE ConfigFile -----------------------------
(***************************************************************************)
(* What a process does with config.yaml before anything else: it creates a *)
(* default file, or upgrades an old one version by version after making a  *)
(* backup, and then loads it (StartupController.InitializeConfig,          *)
(* config/migrations.go, config.Load).                                     *)
(*                                                                         *)
(* The unit of atomicity is one file operation; os.WriteFile is two, it    *)
(* opens and truncates and then writes.  A process may stop between any    *)
(* two: it is killed, or an operation fails and main calls log.Fatalf.     *)
(*                                                                         *)
(* Versions "1.0", "2", ..., "14" are 1 .. 14; 0 is a file without a       *)
(* version, or with one the chain does not know.  A setting is what the    *)
(* operator wrote, the program's default, a generated secret or the empty  *)
(* value.  Of keys that a step treats alike the model has one.             *)
(***************************************************************************)
EXTENDS Naturals

CONSTANTS
  Procs,      \* server processes, each in a directory of its own
  MaxStarts,  \* bound on the number of starts of a process
  Torn,       \* a file that was truncated and not yet written
  None

VARIABLES
  file,      \* config.yaml of each process
  backup,    \* config.yaml.bak.<version of the original>
  tmp,       \* config.yaml.tmp
  start,     \* where each process is in its start, and the map it works on
  loaded,    \* config.AppConfig
  original,  \* history: the file the process found at its first start
  found,     \* history: the backup for that version that was there before, or None
  known,     \* history: the secrets it loaded first
  cutShort   \* history: it stopped while it wrote the backup

disk  == <<file, backup, tmp>>
cvars == <<disk, start, loaded, original, found, known, cutShort>>

ConfigVersion == 14

Own(k)          == <<"own", k>>
DefaultOf(k)    == <<"default", k>>
Generated(k, n) == <<"generated", k, n>>
Empty           == <<"empty">>

IsGenerated(value) == value[1] = "generated"

Secrets == {"manage.token", "oauth2.super_client_secret"}

With(t, k, v) == [x \in DOMAIN t \cup {k} |-> IF x = k THEN v ELSE t[x]]
Over(new, t)  == [x \in DOMAIN new \cup DOMAIN t |-> IF x \in DOMAIN new THEN new[x] ELSE t[x]]
Without(t, S) == [x \in DOMAIN t \ S |-> t[x]]

----------------------------------------------------------------------------
\* The chain of migrations.  Each takes the keys of a file to those of the next
\* version; fresh has the tokens this start would generate.  A definition named
\* M_x is the definition x with a plausible mistake, used only to show that the
\* properties notice it.

\* if _, exists := section[key]; !exists { ... }
Defaults(S) == [k \in S |-> DefaultOf(k)]
Fill(c, S)  == Over(c, Defaults(S))

\* The same for a section as a whole.
FillSection(c, S) == IF DOMAIN c \cap S = {} THEN Fill(c, S) ELSE c

\* if value == "" or 0 { ... }
FillEmpty(c, S, value) ==
  Over([k \in {x \in S : x \notin DOMAIN c \/ c[x] = Empty} |-> value[k]], c)

\* A key of a section that takes the place of another; what was there is lost.
Replace(c, from, to) ==
  IF from \in DOMAIN c THEN With(Without(c, {from}), to, c[from]) ELSE Without(c, {to})

\* A key that is moved unless its new place is taken.
M_Move(c, from, to) == Replace(c, from, to)
Move(c, from, to) ==
  IF from \in DOMAIN c /\ to \notin DOMAIN c THEN Replace(c, from, to) ELSE c

\* The section that is renamed; what it has besides the two keys is dropped.
Memcache == {"memcache.code_ttl", "memcache.storage_dir", "memcache.host"}

MigrateV1ToV2(c) ==
  LET keys  == {"verification_code.code_ttl", "verification_code.storage_dir"}
      moved == Replace(Replace(c, "memcache.code_ttl", "verification_code.code_ttl"),
                       "memcache.storage_dir", "verification_code.storage_dir")
      named == IF Memcache \cap DOMAIN c # {} THEN Without(moved, Memcache) ELSE FillSection(c, keys)
  IN FillSection(named, {"redis.host", "redis.prefix"})

\* redis.prefix is filled only where there is a redis section.
MigrateV2ToV3(c, fresh) ==
  LET redis == {"redis.host", "redis.prefix"} \cap DOMAIN c IN
  FillEmpty(
    FillEmpty(Fill(Move(c, "yggdrasil.security.password_cost", "security.password_cost"),
                   {"security.password_cost"}),
              {"manage.token"}, fresh),
    IF redis = {} THEN {} ELSE {"redis.prefix"}, Defaults({"redis.prefix"}))

MigrateV3ToV4(c, fresh) ==
  LET url == "callback.url" IN
  FillEmpty(
    FillEmpty(
      FillEmpty(c, {"oauth2.super_client_secret"}, fresh),
      {"oauth2.access_token_ttl_sec"}, Defaults({"oauth2.access_token_ttl_sec"})),
    IF url \in DOMAIN c /\ c[url] # Empty THEN {"oauth2.issuer"} ELSE {},
    [k \in {"oauth2.issuer"} |-> c[url]])

MigrateV7ToV8(c, fresh) ==
  LET key  == "core_api.internal_key"
      core == FillEmpty(c, {key}, fresh)
      api  == FillEmpty(core, {"yggdrasil_api.base_url"}, Defaults({"yggdrasil_api.base_url"}))
  IN Without(FillEmpty(api, {"yggdrasil_api.internal_key"}, [k \in {"yggdrasil_api.internal_key"} |-> core[key]]),
             {"yggdrasil.security.password_cost", "yggdrasil.security.max_texture_file_size",
              "storage.orphan_file_expiry_days"})

MigrateV9ToV10(c) == Without(c, {"core_api.internal_key", "yggdrasil_api.internal_key"})

\* The versions that only add a section or a key.
EarlyAdditions(v) ==
  CASE v = 5  -> {"yggdrasil.security.max_texture_file_size"}
    [] v = 6  -> {"storage.orphan_file_expiry_days"}
    [] v = 7  -> {"oauth2.super_client_extra_scopes"}

LateAdditions(v) ==
  CASE v = 9  -> {"sdk_packages.max_packages"}
    [] v = 11 -> {"database.max_retries"}
    [] v = 12 -> {"database.port"}
    [] v = 13 -> {"oauth2.service_clients"}
    [] v = 14 -> {"oauth2.service_scope_allowlist"}

StepTo(v, c, fresh) ==
  CASE v = 2  -> MigrateV1ToV2(c)
    [] v = 3  -> MigrateV2ToV3(c, fresh)
    [] v = 4  -> MigrateV3ToV4(c, fresh)
    [] v = 8  -> MigrateV7ToV8(c, fresh)
    [] v = 10 -> MigrateV9ToV10(c)
    [] v \in 5 .. 7 -> Fill(c, EarlyAdditions(v))
    [] OTHER  -> Fill(c, LateAdditions(v))

\* MigrateConfig, for a version on the chain.
MigrateConfig(config, fresh) ==
  LET upTo[v \in config.version .. ConfigVersion] ==
        IF v = config.version THEN config.keys ELSE StepTo(v, upTo[v - 1], fresh)
  IN [version |-> ConfigVersion, keys |-> upTo[ConfigVersion]]

\* generateManageToken, in the nth start of a process.
Fresh(n) ==
  [k \in Secrets \cup {"core_api.internal_key"} |-> Generated(k, n)]

\* buildDefaultConfig.
DefaultConfig(n) ==
  [version |-> ConfigVersion,
   keys |-> Over(
     [k \in Secrets |-> Generated(k, n)],
     Defaults({"verification_code.code_ttl", "verification_code.storage_dir", "redis.host",
               "redis.prefix", "security.password_cost", "oauth2.issuer", "callback.url",
               "oauth2.access_token_ttl_sec", "oauth2.super_client_extra_scopes",
               "yggdrasil_api.base_url", "sdk_packages.max_packages",
               "database.max_retries", "database.port"}))]

\* A file that a process may find: with settings of its own version only, each the
\* operator's or empty.  (What an earlier version of the program wrote into it
\* counts as the operator's.)
OfItsVersion(f) ==
  /\ f.version \in Nat
  /\ \A k \in DOMAIN f.keys : f.keys[k] \in {Own(k), Empty}
  /\ f.version = 1 => {"verification_code.code_ttl", "verification_code.storage_dir"}
                         \cap DOMAIN f.keys = {}
  /\ f.version > 1 => Memcache \cap DOMAIN f.keys = {}
  /\ f.version > 2 => "yggdrasil.security.password_cost" \notin DOMAIN f.keys

----------------------------------------------------------------------------
SecretsIn(keys) == [k \in Secrets |-> IF k \in DOMAIN keys THEN keys[k] ELSE Empty]

\* The processes in running are up, with their files; used counts starts.  An
\* earlier upgrade from the same version may have left a backup.
ConfigInit(files, backups, used, running) ==
  /\ file = files
  /\ original = files
  /\ backup = backups
  /\ found = backups
  /\ tmp = [p \in Procs |-> None]
  /\ start = [p \in Procs |->
       [pc |-> IF p \in running THEN "up" ELSE "down", read |-> None, n |-> used[p]]]
  /\ loaded = [p \in Procs |-> IF p \in running THEN files[p].keys ELSE None]
  /\ known = [p \in Procs |-> IF p \in running THEN SecretsIn(files[p].keys) ELSE None]
  /\ cutShort = [p \in Procs |-> FALSE]

At(p, pc)      == start[p].pc = pc
Continue(p, s) == start' = [start EXCEPT ![p] = s]
GoOn(p, pc)    == Continue(p, [start[p] EXCEPT !.pc = pc])

\* os.Stat, and the default file if there is none.
Stat(p) ==
  /\ At(p, "stat")
  /\ GoOn(p, IF file[p] = None THEN "create" ELSE "read")
  /\ UNCHANGED <<disk, loaded, original, found, known, cutShort>>

CreateDefault(p) ==
  /\ \/ At(p, "create") /\ file' = [file EXCEPT ![p] = Torn] /\ GoOn(p, "fill")
     \/ At(p, "fill") /\ file' = [file EXCEPT ![p] = DefaultConfig(start[p].n)] /\ GoOn(p, "load")
  /\ UNCHANGED <<backup, tmp, loaded, original, found, known, cutShort>>

Version(f) == IF f = Torn THEN 0 ELSE f.version

\* The file is up to date or newer: nothing is done.  Otherwise it is upgraded,
\* after a backup.  (A file without a version on the chain, or a torn one, gets
\* a backup too, and then the start fails.)
M_AfterRead(f) == IF Version(f) < ConfigVersion THEN "migrate" ELSE "load"
AfterRead(f)   == IF Version(f) < ConfigVersion THEN "backup" ELSE "load"

ReadConfig(p) ==
  /\ At(p, "read")
  /\ Continue(p, [start[p] EXCEPT !.pc = AfterRead(file[p]), !.read = file[p]])
  /\ UNCHANGED <<disk, loaded, original, found, known, cutShort>>

\* BackupConfigFile keeps a backup that is there, complete or not.
BackupConfigFile(p) ==
  \/ /\ At(p, "backup")
     /\ IF backup[p] # None
          THEN GoOn(p, "migrate") /\ UNCHANGED backup
          ELSE backup' = [backup EXCEPT ![p] = Torn] /\ GoOn(p, "backup open")
     /\ UNCHANGED <<file, tmp, loaded, original, found, known, cutShort>>
  \/ /\ At(p, "backup open")
     /\ backup' = [backup EXCEPT ![p] = file[p]]
     /\ GoOn(p, "migrate")
     /\ UNCHANGED <<file, tmp, loaded, original, found, known, cutShort>>

\* MigrateConfig, then the temporary file is opened and written.
WriteMigrated(p) ==
  /\ \/ /\ At(p, "migrate")
        /\ Version(start[p].read) # 0
        /\ Continue(p, [start[p] EXCEPT !.pc = "tmp open",
                                        !.read = MigrateConfig(start[p].read, Fresh(start[p].n))])
        /\ tmp' = [tmp EXCEPT ![p] = Torn]
     \/ /\ At(p, "tmp open")
        /\ tmp' = [tmp EXCEPT ![p] = start[p].read]
        /\ GoOn(p, "rename")
  /\ UNCHANGED <<file, backup, loaded, original, found, known, cutShort>>

\* os.Rename.
ReplaceConfig(p) ==
  /\ At(p, "rename")
  /\ file' = [file EXCEPT ![p] = tmp[p]]
  /\ tmp' = [tmp EXCEPT ![p] = None]
  /\ GoOn(p, "load")
  /\ UNCHANGED <<backup, loaded, original, found, known, cutShort>>

\* config.Load reads the file again; without a version the process ends.
M_Parse(p) == FillEmpty(file[p].keys, Secrets, Fresh(start[p].n))
Parse(p)   == file[p].keys

Load(p) ==
  /\ At(p, "load")
  /\ Version(file[p]) # 0
  /\ loaded' = [loaded EXCEPT ![p] = Parse(p)]
  /\ known' = [known EXCEPT ![p] = IF @ = None THEN SecretsIn(Parse(p)) ELSE @]
  /\ Continue(p, [start[p] EXCEPT !.pc = "up", !.read = None])
  /\ UNCHANGED <<disk, original, found, cutShort>>

ConfigStep(p) ==
  \/ Stat(p) \/ CreateDefault(p) \/ ReadConfig(p) \/ BackupConfigFile(p)
  \/ WriteMigrated(p) \/ ReplaceConfig(p) \/ Load(p)

\* The process is killed, or ends with log.Fatalf; what is on disk stays.
ConfigStop(p) ==
  /\ start[p].pc # "down"
  /\ start' = [start EXCEPT ![p] = [@ EXCEPT !.pc = "down", !.read = None]]
  /\ loaded' = [loaded EXCEPT ![p] = None]
  /\ cutShort' = [cutShort EXCEPT ![p] = @ \/ At(p, "backup open")]
  /\ UNCHANGED <<disk, original, found, known>>

ConfigRestart(p) ==
  /\ At(p, "down")
  /\ start[p].n < MaxStarts
  /\ start' = [start EXCEPT ![p] = [@ EXCEPT !.pc = "stat", !.n = @ + 1]]
  /\ UNCHANGED <<disk, loaded, original, found, known, cutShort>>

----------------------------------------------------------------------------
\* Safety.

\* Where a setting of an older file is found in the present one.
Home(k) ==
  CASE k = "memcache.code_ttl"                  -> "verification_code.code_ttl"
    [] k = "memcache.storage_dir"               -> "verification_code.storage_dir"
    [] k = "yggdrasil.security.password_cost"   -> "security.password_cost"
    [] OTHER                                    -> k

Obsolete == {"memcache.host", "yggdrasil.security.max_texture_file_size",
             "storage.orphan_file_expiry_days", "core_api.internal_key", "yggdrasil_api.internal_key"}

\* A migrated file has every setting the operator made, under its present name
\* (one made under the present name comes first), nobody else's, and the secrets
\* that its version did not have yet.
Faithful(old, new) ==
  /\ \A k \in DOMAIN old.keys \ Obsolete :
       old.keys[k] # Empty =>
         /\ Home(k) \in DOMAIN new.keys
         /\ new.keys[Home(k)] = IF Home(k) \in DOMAIN old.keys THEN old.keys[Home(k)] ELSE old.keys[k]
  /\ \A k \in DOMAIN new.keys :
       new.keys[k] = Own(k) => k \in DOMAIN old.keys /\ old.keys[k] = Own(k)
  /\ \A k \in Secrets :
       old.version < 3 => k \in DOMAIN new.keys /\ new.keys[k] # Empty

\* Whatever version the file has and wherever the process stops, config.yaml is
\* at each moment the file the operator left or a faithful migration of it, never
\* a part of one (checkAndMigrateConfig).
SettingsSurvive ==
  \A p \in Procs :
    original[p] # None =>
      \/ file[p] = original[p]
      \/ /\ file[p] # Torn /\ file[p].version = ConfigVersion
         /\ Faithful(original[p], file[p])

\* A backup for the file's version that is there is never overwritten, whatever it
\* holds (BackupConfigFile).  If there was none, the file the operator left is never
\* lost: it is in place, or its backup is complete, unless the process stopped while
\* it wrote the backup.  (In both cases the next start goes on to migrate: a file
\* that was put back and edited after an earlier upgrade is replaced without a copy.)
OriginalIsKept ==
  \A p \in Procs :
    original[p] # None =>
      IF found[p] # None
        THEN backup[p] = found[p]
        ELSE file[p] = original[p] \/ backup[p] = original[p] \/ cutShort[p]

\* The Manage Token and the super client's secret are the same after every
\* restart, although they may have been generated at a start that stopped half
\* way: nothing is loaded that is not on disk for good.
SecretsStay ==
  \A p \in Procs :
    loaded[p] # None => SecretsIn(loaded[p]) = known[p]
=============================================================================
