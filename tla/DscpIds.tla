------------------------------ MODULE DscpIds -------------------------------
(***************************************************************************)
(* Which dumbarpd id each daemon steers by (dumbarp-routerd/src/           *)
(* reconcile.rs, resolve_ids and validate_id).  The loop over the          *)
(* advertised list is given in closed form: names in the list are          *)
(* distinct, so a daemon's candidate depends on nothing an earlier turn    *)
(* changed, and an id is claimed by the first daemon that has it as its    *)
(* candidate.                                                              *)
(***************************************************************************)
EXTENDS Integers

CONSTANTS
    None,       \* no id
    DscpIdMax   \* DSCP_ID_MAX

\* `advertised` gives places in the list to [name, id]; a place may be empty.
\* `remembered` is a function from names to [id, seen] or None.

RememberedIsFresh(r, now, stale) == r # None /\ now - r.seen < stale

\* The id a daemon would like: its own, or the one it last advertised.
Candidate(a, remembered, now, stale) ==
    IF a.id # None THEN a.id
    ELSE IF RememberedIsFresh(remembered[a.name], now, stale)
         THEN remembered[a.name].id
         ELSE None

InRange(id) == id # None /\ id > 0 /\ id <= DscpIdMax

\* Seeded fault: claims are not recorded.
AcceptsUnclaimed(advertised, k, remembered, now, stale) ==
    InRange(Candidate(advertised[k], remembered, now, stale))

\* validate_id on the k-th daemon: in range and not claimed before it.
Accepts(advertised, k, remembered, now, stale) ==
    LET id == Candidate(advertised[k], remembered, now, stale)
    IN /\ InRange(id)
       /\ \A j \in DOMAIN advertised :
             j < k => Candidate(advertised[j], remembered, now, stale) # id

\* resolve_ids' result: names to ids, None where a daemon is left out.
ResolveIds(advertised, remembered, now, stale) ==
    [n \in DOMAIN remembered |->
        IF \E k \in DOMAIN advertised :
               /\ advertised[k].name = n
               /\ Accepts(advertised, k, remembered, now, stale)
        THEN LET k == CHOOSE k \in DOMAIN advertised : advertised[k].name = n
             IN Candidate(advertised[k], remembered, now, stale)
        ELSE None]

\* Seeded fault: reusing a remembered id renews it.
RememberRenewing(advertised, remembered, now, stale) ==
    [n \in DOMAIN remembered |->
        LET id == ResolveIds(advertised, remembered, now, stale)[n]
        IN IF id # None THEN [id |-> id, seen |-> now]
           ELSE IF RememberedIsFresh(remembered[n], now, stale)
                THEN remembered[n]
                ELSE None]

\* The remembered ids afterwards: an accepted advertisement is noted, and
\* what is too old is forgotten.
Remember(advertised, remembered, now, stale) ==
    [n \in DOMAIN remembered |->
        IF \E k \in DOMAIN advertised :
               /\ advertised[k].name = n
               /\ advertised[k].id # None
               /\ Accepts(advertised, k, remembered, now, stale)
        THEN [id |-> ResolveIds(advertised, remembered, now, stale)[n],
              seen |-> now]
        ELSE IF RememberedIsFresh(remembered[n], now, stale)
             THEN remembered[n]
             ELSE None]
=============================================================================
