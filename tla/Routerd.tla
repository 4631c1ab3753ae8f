------------------------------ MODULE Routerd -------------------------------
(***************************************************************************)
(* routerd's reconcile pass over its own [[daemons]]                       *)
(* (dumbarp-routerd/src/reconcile.rs, reconcile_via_daemons): fetch every  *)
(* daemon's leases, merge them with the cache, settle the dumbarpd ids,    *)
(* bring the datapath's DSCP_IDS map to them and hand the source rules to  *)
(* the RouteManager.  The RouteManager is used by what it promises (module *)
(* Steering): a table comes to hold the wanted pair, or nothing, or keeps  *)
(* what it has.                                                            *)
(***************************************************************************)
EXTENDS Integers, Sequences

CONSTANTS
    Daemons,        \* sequence of daemon names, in the order of the config
    Ips,            \* source addresses
    Leases,         \* the answers a daemon may give: [id, ips]
    SourceBased,    \* source_based_routing
    DscpIdMax,      \* the largest id
    Period,         \* refresh_interval_secs, in ticks
    Stale,          \* stale_after_secs, in ticks
    MaxTime,        \* bound: ticks of the clock
    MaxFaults,      \* bound: failed map and netlink operations
    None, Failed

VARIABLES
    now,        \* the monotonic clock
    pc,         \* where the pass is
    cache,      \* RouterState.cache
    known,      \* RouterState.known_ids
    ids,        \* the ids of the last round
    desired,    \* ip -> the [daemon, fwmark] asked for, or None
    dscp,       \* keys of the DSCP_IDS map
    todo,       \* the ids that the loop of sync_ids has yet to go through
    installed,  \* ip -> the [daemon, fwmark] steered by, or None
    faults,     \* failed operations so far
    clean,      \* the last complete pass met no failed operation
    heard,      \* history: daemon -> its last answer and when, or None
    told,       \* history: <<daemon, id>> -> when it was last advertised
    roundAt,    \* history: time of the last round
    marked      \* history: ids written to the map and in use ever since

world == <<faults, clean>>
history == <<heard, told, roundAt>>
vars == <<now, pc, cache, known, ids, desired, dscp, todo, installed, faults,
          clean, heard, told, roundAt, marked>>

Cache == INSTANCE LeaseCache
Ids == INSTANCE DscpIds

Names == {Daemons[k] : k \in DOMAIN Daemons}
IdValues == {l.id : l \in Leases} \ {None}

ASSUME RouterdAssumption ==
    /\ Daemons \in Seq(Names)
    /\ \A j, k \in DOMAIN Daemons : Daemons[j] = Daemons[k] => j = k
    /\ \A l \in Leases : l.ips \subseteq Ips /\ l.id \in Nat \cup {None}
    /\ SourceBased \in BOOLEAN
    /\ DscpIdMax \in Nat
    /\ Period \in Nat \ {0}
    /\ Stale \in Nat /\ Stale >= Period
    /\ MaxTime \in Nat
    /\ MaxFaults \in Nat
    /\ None \notin Nat /\ None \notin Leases /\ None \notin Names
    /\ None \notin [value : Leases, last : Nat]
    /\ None \notin [lease : Leases, at : Nat]
    /\ None \notin [id : Nat, seen : Nat]
    /\ None \notin [daemon : Names, fwmark : Nat \cup {None}]
    /\ Failed \notin Leases /\ Failed # None

\* What fetch_leases may come back with: an answer, or Failed if the request,
\* its status or its decoding fails.
Replies == [Names -> Leases \cup {Failed}]

NoSteering == [ip \in Ips |-> None]

NoEntry == [d \in Names |-> None]
NeverTold == [p \in Names \X IdValues |-> None]

\* A process that has just purged the routing state.
Init ==
    /\ now = 0 /\ faults = 0
    /\ pc = "idle"
    /\ cache = NoEntry /\ known = NoEntry /\ ids = NoEntry
    /\ desired = NoSteering /\ dscp = {} /\ installed = NoSteering
    /\ todo = {} /\ clean = TRUE
    /\ heard = NoEntry /\ told = NeverTold /\ roundAt = 0 /\ marked = {}

\* What resolve_ids is given: every configured daemon, in order, with the id
\* of its cached answer.
Advertised(view) ==
    [k \in DOMAIN Daemons |->
        [name |-> Daemons[k],
         id |-> IF view[Daemons[k]] = None THEN None
                                           ELSE view[Daemons[k]].id]]

\* The loop of reconcile_via_daemons with push_specs, as the RouteManager
\* reads its list (a later spec for a source wins): a daemon without a
\* usable id is skipped unless routing is source based.
Desired(view, given) ==
    [ip \in Ips |->
        LET ks == {k \in DOMAIN Daemons :
                      /\ view[Daemons[k]] # None
                      /\ ip \in view[Daemons[k]].ips
                      /\ SourceBased \/ given[Daemons[k]] # None}
        IN IF ks = {} THEN None
           ELSE LET d == Daemons[CHOOSE k \in ks : \A j \in ks : j <= k]
                IN [daemon |-> d,
                    fwmark |-> IF SourceBased THEN None ELSE given[d]]]

IdsIn(given) == {given[d] : d \in Names} \ {None}
IdSet == IdsIn(ids)

\* Seeded fault: the whole map is taken down to be filled again.
StaleKeysAll(given) == dscp

\* The keys sync_ids lists and finds no longer in use.
StaleKeys(given) == dscp \ IdsIn(given)

\* The fetches have come back with `replies`; no await lies between the
\* cache round, the settling of the ids and the listing of the map.  The
\* ticker keeps two rounds a period apart.
Round(replies) ==
    /\ pc = "idle"
    /\ now - roundAt >= Period
    /\ LET merged == Cache!ApplyRound(cache, replies, now, Stale)
           view == Cache!View(merged)
           adv == Advertised(view)
           given == Ids!ResolveIds(adv, known, now, Stale)
       IN /\ cache' = merged
          /\ known' = Ids!Remember(adv, known, now, Stale)
          /\ ids' = given
          /\ desired' = Desired(view, given)
          /\ todo' = StaleKeys(given)
          /\ marked' = marked \cap IdsIn(given)
    /\ pc' = "remove"
    /\ clean' = TRUE
    /\ heard' = [d \in Names |-> IF replies[d] = Failed THEN heard[d]
                                 ELSE [lease |-> replies[d], at |-> now]]
    /\ told' = [p \in Names \X IdValues |->
                   IF replies[p[1]] # Failed /\ replies[p[1]].id = p[2]
                   THEN now ELSE told[p]]
    /\ roundAt' = now
    /\ UNCHANGED <<now, dscp, installed, faults>>

\* An operation fails, within the bound.
Fault == faults < MaxFaults /\ faults' = faults + 1 /\ clean' = FALSE

\* sync_ids, first loop, one map operation a step: the id is removed, or the
\* removal fails, which is ignored.  The map has no order.
SyncRemove(id) ==
    /\ pc = "remove"
    /\ id \in todo
    /\ todo' = todo \ {id}
    /\ \/ dscp' = dscp \ {id} /\ UNCHANGED world
       \/ Fault /\ UNCHANGED dscp
    /\ UNCHANGED <<now, pc, cache, known, ids, desired, installed, history,
                   marked>>

\* Seeded fault: the ids that are in the map already end the loop.
StartInsertNone ==
    /\ pc = "remove"
    /\ todo = {}
    /\ pc' = "insert"
    /\ todo' = IF dscp = {} THEN IdSet ELSE {}
    /\ UNCHANGED <<now, cache, known, ids, desired, dscp, installed, history,
                   marked, world>>

\* From the first loop to the second, which goes through every id in use.
StartInsert ==
    /\ pc = "remove"
    /\ todo = {}
    /\ pc' = "insert"
    /\ todo' = IdSet
    /\ UNCHANGED <<now, cache, known, ids, desired, dscp, installed, history,
                   marked, world>>

\* Second loop: the id is written, or the insert fails, which ends the loop;
\* the pass goes on to the routes all the same.
SyncInsert(id) ==
    /\ pc = "insert"
    /\ id \in todo
    /\ \/ /\ dscp' = dscp \cup {id}
          /\ marked' = marked \cup {id}
          /\ todo' = todo \ {id}
          /\ UNCHANGED world
       \/ Fault /\ todo' = {} /\ UNCHANGED <<dscp, marked>>
    /\ UNCHANGED <<now, pc, cache, known, ids, desired, installed, history>>

\* router.reconcile(&desired).
ReconcileRoutes ==
    /\ pc = "insert"
    /\ todo = {}
    /\ pc' = "idle"
    /\ \/ installed' = desired /\ UNCHANGED world
       \/ /\ Fault
          /\ \E missed \in SUBSET Ips :
                \E keep \in SUBSET missed :
                    installed' = [ip \in Ips |->
                        IF ip \notin missed THEN desired[ip]
                        ELSE IF ip \in keep THEN installed[ip] ELSE None]
    /\ UNCHANGED <<now, cache, known, ids, desired, dscp, todo, history, marked>>

\* Time is read once in a pass, by the round, so it may as well pass between
\* the passes only.
Tick ==
    /\ pc = "idle"
    /\ now < MaxTime
    /\ now' = now + 1
    /\ UNCHANGED <<pc, cache, known, ids, desired, dscp, todo, installed,
                   history, marked, world>>

\* The process dies and is started again: its maps and caches go with it,
\* and main's purge removes what it had installed.
Restart ==
    /\ faults < MaxFaults
    /\ faults' = faults + 1
    /\ pc' = "idle"
    /\ cache' = NoEntry /\ known' = NoEntry /\ ids' = NoEntry
    /\ desired' = NoSteering /\ dscp' = {} /\ installed' = NoSteering
    /\ todo' = {} /\ clean' = TRUE
    /\ heard' = NoEntry /\ told' = NeverTold /\ roundAt' = now /\ marked' = {}
    /\ UNCHANGED now

Next ==
    \/ \E replies \in Replies : Round(replies)
    \/ \E id \in IdValues : SyncRemove(id) \/ SyncInsert(id)
    \/ StartInsert
    \/ ReconcileRoutes
    \/ Tick
    \/ Restart

Spec == Init /\ [][Next]_vars
-----------------------------------------------------------------------------
(* Properties.                                                             *)

Steered == [daemon : Names, fwmark : IdValues \cup {None}] \cup {None}

\* Every variable keeps its type; no time lies in the future.
TypeOK ==
    /\ now \in 0..MaxTime
    /\ pc \in {"idle", "remove", "insert"}
    /\ cache \in [Names -> [value : Leases, last : 0..now] \cup {None}]
    /\ known \in [Names -> [id : IdValues, seen : 0..now] \cup {None}]
    /\ ids \in [Names -> IdValues \cup {None}]
    /\ desired \in [Ips -> Steered]
    /\ dscp \subseteq IdValues /\ todo \subseteq IdValues
    /\ installed \in [Ips -> Steered]
    /\ faults \in 0..MaxFaults
    /\ clean \in BOOLEAN
    /\ heard \in [Names -> [lease : Leases, at : 0..now] \cup {None}]
    /\ told \in [Names \X IdValues -> (0..now) \cup {None}]
    /\ roundAt \in 0..now
    /\ marked \subseteq IdValues

\* No two daemons ever steer by the same id, whatever mixture of fresh,
\* cached and remembered ids a round works from; and only ids a DSCP field
\* can carry are used (validate_id, reconcile.rs 297-319).
IdsUnambiguous ==
    \A d \in Names : ids[d] # None =>
        /\ ids[d] \in 1..DscpIdMax
        /\ \A e \in Names \ {d} : ids[e] # ids[d]

\* Two staleness windows are chained: a cached answer still renews the
\* remembered id, which then lives on by itself.  An id in use is never older
\* than the two together (cache.rs 60-66 and reconcile.rs 271, 293).
IdsBacked ==
    \A d \in Names : ids[d] # None =>
        /\ told[<<d, ids[d]>>] # None
        /\ roundAt - told[<<d, ids[d]>>] <= 2 * (Stale - 1)

\* The addresses a round works from are those each daemon last reported, if
\* that was less than stale_after ago, and otherwise none: neither dropped
\* early nor used late (cache.rs 46-71).
LeasesHeld ==
    pc # "idle" =>
        \A d \in Names :
            cache[d] =
                IF heard[d] # None /\ roundAt - heard[d].at < Stale
                THEN [value |-> heard[d].lease, last |-> heard[d].at]
                ELSE None

\* "so transient outages don't flap routes" (config.example.toml 3-4): a
\* round whose fetches bring nothing new, all daemons having been heard from
\* inside the window with an id of their own, asks for the same steering.
NoNews(replies) ==
    \A d \in Names :
        /\ heard[d] # None
        /\ now - heard[d].at < Stale
        /\ heard[d].lease.id # None
        /\ replies[d] \in {Failed, heard[d].lease}

OutageKeepsRoutes ==
    [][\A replies \in Replies :
          NoNews(replies) /\ Round(replies) => desired' = desired]_vars

\* After a pass in which no operation failed the three places that must
\* agree do: the map marks exactly the ids that were settled, every mark a
\* rule waits for is one the map sets, and each rule leads to the daemon
\* that id belongs to; whatever earlier passes left half done.
PlanesAgree ==
    (pc = "idle" /\ clean) =>
        /\ dscp = IdSet
        /\ \A ip \in Ips : installed[ip] # None /\ ~SourceBased =>
              /\ installed[ip].fwmark \in dscp
              /\ installed[ip].fwmark = ids[installed[ip].daemon]

\* Packets are classified between any two map operations, so an id must not
\* be missing for an instant: once written, it is in the map at every moment
\* until some round settles without it, through every later listing, removal
\* and insert and whichever of them fail (datapath.rs 62-80).
MarksHold == marked \subseteq dscp
=============================================================================
