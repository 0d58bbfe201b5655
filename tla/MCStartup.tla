----------------------------- MODULE MCStartup -----------------------------
(***************************************************************************)
(* A small instance of Startup for TLC: p1 has one of several old files,   *)
(* p2 a current one.                                                       *)
(***************************************************************************)
EXTENDS Startup, TLC

CONSTANTS p1, p2, s1, s2

File(v, own, empty) ==
  [version |-> v, keys |-> [k \in own |-> Own(k)] @@ [k \in empty |-> Empty]]

Current == {"manage.token", SuperSecretKey, "oauth2.service_clients", "verification_code.code_ttl",
            "redis.host", "redis.prefix", "security.password_cost", "sdk_packages.max_packages"}

\* Files of several versions: with sections that are renamed, moved, replaced and
\* dropped, and with settings left empty; one that lists clients; one with a
\* port; one that is newer than the program; one without a version.
V1  == File(1, {"memcache.code_ttl", "memcache.host", "callback.url",
                "yggdrasil.security.password_cost"}, {})
V2  == File(2, {"verification_code.code_ttl", "redis.host", "security.password_cost",
                "yggdrasil.security.password_cost"}, {"redis.prefix", "manage.token"})
V3  == File(3, {"manage.token", "redis.prefix", "oauth2.issuer"}, {SuperSecretKey, "oauth2.access_token_ttl_sec"})
V7  == File(7, {"manage.token", SuperSecretKey, "storage.orphan_file_expiry_days",
                "yggdrasil.security.max_texture_file_size", "oauth2.super_client_extra_scopes"}, {})
V11 == File(11, {"manage.token", SuperSecretKey, "database.max_retries", "database.port"}, {})
V13 == File(13, Current, {})
V14 == File(14, Current, {})
NoSecret == File(14, {"manage.token"}, {SuperSecretKey})
V15 == File(15, Current, {})
V0  == File(0, Current, {})

SchemaTable(service, pk, rows) == [service |-> service, pk |-> pk, rows |-> rows]
Normal == SchemaTable(FALSE, "version", 1)
Legacy == SchemaTable(TRUE, "legacy", 1)

BuiltInRows == PublicId :> Empty @@ SuperId :> Placeholder

World(f, tab, lev, rows, starts, running) ==
  [files |-> p1 :> f @@ p2 :> V14, backups |-> [p \in Procs |-> None], table |-> tab, level |-> lev,
   clients |-> rows, inactive |-> {}, used |-> [p \in Procs |-> MaxStarts - starts[p]],
   running |-> running]

\* One process that starts twice; one that starts while the other serves requests;
\* two that start at once.
Alone(f, tab, lev, rows)  == World(f, tab, lev, rows, p1 :> 2 @@ p2 :> 0, {})
Joining(f, rows)          == World(f, Normal, "current", rows, p1 :> 1 @@ p2 :> 0, {p2})
Together(tab, lev, rows)  == World(V14, tab, lev, rows, p1 :> 1 @@ p2 :> 1, {})

\* An earlier upgrade has left a backup.
WithBackup(w, b) == [w EXCEPT !.backups[p1] = b]

SomeWorlds ==
  { WithBackup(Alone(V3, Normal, "current", BuiltInRows), b) :
      b \in {V3, File(3, {"redis.prefix"}, {}), Torn} }
  \cup
  {Alone(f, Normal, "current", BuiltInRows) : f \in {V1, V2, V3, V7, NoSecret, V0, None}}
  \cup
  { Alone(V11, Normal, "old", <<>>),
    Alone(V14, None, "old", <<>>),
    Alone(V14, Legacy, "old", <<>>),
    Alone(V14, SchemaTable(TRUE, "legacy", 2), "old", <<>>),
    Alone(V14, SchemaTable(FALSE, "legacy", 1), "current", BuiltInRows),
    [Alone(V13, Normal, "current", s1 :> <<"rotated">> @@ BuiltInRows) EXCEPT !.inactive = {s1, SuperId}],
    Alone(V15, Normal, "current", s2 :> Own(SuperSecretKey) @@ BuiltInRows),
    Joining(V14, BuiltInRows),
    Together(Legacy, "old", <<>>) }

Listed == <<s1, s2>>
=============================================================================
