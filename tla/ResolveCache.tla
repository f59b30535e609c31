---------------------------- MODULE ResolveCache ----------------------------
(***************************************************************************)
(* The cache of resolved URLs in src/resolver/src/cache.rs: a table in an  *)
(* SQLite file, with one row for a source_url that says what was found and *)
(* when.  Each operation is one step: it holds the connection's mutex from *)
(* its beginning to its end.  The columns that nothing here depends on     *)
(* (titles, codecs, sizes), the migrations of the schema and a database    *)
(* that fails are left out.                                                *)
(***************************************************************************)
EXTENDS Naturals

CONSTANTS
    Urls,
    TTL,        \* DEFAULT_TTL, ten minutes, in the clock's units
    CleanupAge, \* CLEANUP_AGE, an hour
    MaxClock,   \* bounds the time considered
    None

ASSUME CacheAssumption ==
    /\ None \notin Urls
    /\ TTL \in Nat \ {0} /\ CleanupAge \in Nat /\ CleanupAge >= TTL
    /\ MaxClock \in Nat

VARIABLES
    clock,      \* the time of day
    table       \* the rows

cacheVars == <<clock, table>>

CacheInit ==
    /\ clock = 0
    /\ table = [u \in Urls |-> None]

Tick ==
    /\ clock < MaxClock
    /\ clock' = clock + 1
    /\ UNCHANGED table

Older(row, age) == row # None /\ row.at + age < clock

\* What get returns; at the age of TTL a row is not returned any more.
get(u) ==
    IF table[u] # None /\ table[u].at + TTL > clock THEN table[u].link ELSE None

cleanup_stale(rows) ==
    [u \in Urls |-> IF Older(rows[u], CleanupAge) THEN None ELSE rows[u]]

\* The row is that of the result's source_url, whatever URL was asked for.
insert(link) ==
    table' = cleanup_stale(
        [table EXCEPT ![link.source] = [link |-> link, at |-> clock]])

delete_expired(u) ==
    table' = [table EXCEPT ![u] = IF get(u) = None THEN None ELSE @]
delete(u) == table' = [table EXCEPT ![u] = None]
=============================================================================
