----------------------------- MODULE LeaseCache -----------------------------
(***************************************************************************)
(* Cache<T> of dumbarp-api/src/cache.rs: the last good answer of every     *)
(* source, held through failed fetches for less than stale_after.  Used by *)
(* routerd (leases per daemon, or the gateway's list) and by the gateway.  *)
(* A cache is a function from sources to an entry or None.                 *)
(***************************************************************************)
EXTENDS Integers

CONSTANTS
    None,   \* no entry
    Failed  \* the result of a fetch that did not succeed

\* Seeded fault: an entry is kept up to and including stale_after.
HoldsInclusive(entry, now, stale) ==
    entry # None /\ now - entry.last <= stale

\* An entry that a failed fetch leaves in place.
Holds(entry, now, stale) == entry # None /\ now - entry.last < stale

\* Seeded fault: a failed fetch drops the entry at once.
ApplyRoundForgetful(cache, results, now, stale) ==
    [s \in DOMAIN cache |->
        IF results[s] # Failed THEN [value |-> results[s], last |-> now]
                               ELSE None]

\* Seeded fault: the expiry is stored where the time of the answer belongs.
ApplyRoundExpiry(cache, results, now, stale) ==
    [s \in DOMAIN cache |->
        CASE results[s] # Failed -> [value |-> results[s], last |-> now + stale]
          [] results[s] = Failed /\ Holds(cache[s], now, stale) -> cache[s]
          [] OTHER -> None]

\* One round: an answer replaces the entry, a failure keeps it while it is
\* fresh and removes it otherwise.
ApplyRound(cache, results, now, stale) ==
    [s \in DOMAIN cache |->
        CASE results[s] # Failed -> [value |-> results[s], last |-> now]
          [] results[s] = Failed /\ Holds(cache[s], now, stale) -> cache[s]
          [] OTHER -> None]

\* The view the round returns, and snapshot(): whatever is in the cache.
View(cache) ==
    [s \in DOMAIN cache |-> IF cache[s] = None THEN None ELSE cache[s].value]
=============================================================================
