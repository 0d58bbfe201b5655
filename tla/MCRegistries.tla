---------------------------- MODULE MCRegistries ----------------------------
(***************************************************************************)
(* Small instances of Registries for TLC: two services, of which one is    *)
(* checked by the heartbeat worker, that can take one relayed path from    *)
(* each other.                                                             *)
(***************************************************************************)
EXTENDS Registries, TLC

Symmetry == Permutations(Keys)

\* The properties are about what happens while Redis keeps what it was given, so
\* what follows a failure is not explored further.
RedisKept == ~lost
=============================================================================
