--------------------------- MODULE GatewayRouterd ---------------------------
(***************************************************************************)
(* A routerd in gateway mode (dumbarp-routerd/src/reconcile.rs,            *)
(* reconcile_via_gateway) and the dumbarp-gateway it polls                 *)
(* (dumbarp-gateway/src/reconcile.rs and http.rs).  Two caches are in line *)
(* here: the gateway keeps the daemons' answers, serves whatever its cache *)
(* holds, and routerd keeps the list it was served.  Once the ids are      *)
(* settled the pass goes on as in Routerd.  The gateway routes by source   *)
(* on its own host too, which is another than routerd's (manage_routes).   *)
(*                                                                         *)
(* Routerd's cache, heard and told belong to its other mode and stay as    *)
(* they are.                                                               *)
(***************************************************************************)
EXTENDS Routerd

CONSTANT
    GwLate      \* how late a round of the gateway may be, in ticks

VARIABLES
    gwCache,    \* the gateway's LeaseCache
    gwServing,  \* whether it is up and listening
    gwRoundAt,  \* when its last round was
    gwRoutes,   \* the gateway's kernel: ip -> the daemon it is routed to
    gwClean,    \* no request of its last reconcile failed
    listed,     \* RouterState.gateway_cache, with the one key it ever has
    said,       \* history: <<daemon, lease>> -> when last said to a gateway
    answered    \* history: the daemons that answered the running gateway

gateway == <<gwCache, gwServing, gwRoundAt, gwRoutes, gwClean, said, answered>>
gwVars == <<now, pc, cache, known, ids, desired, dscp, todo, installed,
            faults, clean, heard, told, roundAt, marked, gateway, listed>>

ASSUME GatewayAssumption ==
    /\ GwLate \in Nat
    /\ Failed \notin [Names -> Leases \cup {None}]
    /\ None \notin [value : [Names -> Leases \cup {None}], last : Nat]

GatewayKey == "gateway"
NoList == [s \in {GatewayKey} |-> None]

GwInit ==
    /\ Init
    /\ gwCache = NoEntry
    /\ gwServing = FALSE
    /\ gwRoundAt = 0
    /\ gwRoutes = NoSteering /\ gwClean = TRUE
    /\ listed = NoList
    /\ said = [p \in Names \X Leases |-> None]
    /\ answered = {}

-----------------------------------------------------------------------------
(* The gateway.  routerd looks at it once in a pass, at the start, so its  *)
(* steps may as well come between the passes only.                         *)

\* The routes of reconcile_once and push_specs, as the RouteManager reads the
\* list: of two daemons with one address the later is served.
OwnRoutes(view) ==
    [ip \in Ips |->
        LET ks == {k \in DOMAIN Daemons : /\ view[Daemons[k]] # None
                                          /\ ip \in view[Daemons[k]].ips}
        IN IF ks = {} THEN None
           ELSE Daemons[CHOOSE k \in ks : \A j \in ks : j <= k]]

\* router.reconcile(&desired) on the gateway's host: a table comes to hold
\* the wanted pair, or a failed request leaves it empty or as it was.
GatewayReconcile(want) ==
    \/ /\ gwRoutes' = want
       /\ gwClean' = TRUE
       /\ UNCHANGED faults
    \/ /\ faults < MaxFaults /\ faults' = faults + 1
       /\ gwRoutes' \in {r \in [Ips -> Names \cup {None}] :
                            \A ip \in Ips : r[ip] \in {want[ip], gwRoutes[ip], None}}
       /\ gwClean' = FALSE

\* A round of the gateway: the first is awaited before it listens, the
\* others are a period apart.
GatewayRound(replies) ==
    /\ pc = "idle"
    /\ gwServing => now - gwRoundAt >= Period
    /\ gwCache' = Cache!ApplyRound(gwCache, replies, now, Stale)
    /\ GatewayReconcile(OwnRoutes(Cache!View(gwCache')))
    /\ gwServing' = TRUE
    /\ gwRoundAt' = now
    /\ said' = [p \in Names \X Leases |->
                   IF replies[p[1]] = p[2] THEN now ELSE said[p]]
    /\ answered' = answered \cup {d \in Names : replies[d] # Failed}
    /\ UNCHANGED <<now, pc, cache, known, ids, desired, dscp, todo, installed,
                   history, marked, clean, listed>>

\* It dies and is started again with an empty cache; its routes stay, and no
\* purge precedes the first round.
GatewayRestart ==
    /\ pc = "idle"
    /\ faults < MaxFaults
    /\ faults' = faults + 1
    /\ gwServing
    /\ gwServing' = FALSE
    /\ gwCache' = NoEntry
    /\ answered' = {}
    /\ UNCHANGED <<now, pc, cache, known, ids, desired, dscp, todo, installed,
                   history, marked, clean, gwRoundAt, gwRoutes, gwClean,
                   listed, said>>

\* GET /daemons: the snapshot, whatever its age.
ServedList == Cache!View(gwCache)

-----------------------------------------------------------------------------
(* routerd.                                                                *)

\* fetch_daemons: the whole list, or a failure; one entry that does not parse
\* fails the list.
FetchDaemons(ok) ==
    [s \in {GatewayKey} |-> IF ok THEN ServedList ELSE Failed]

\* The daemons resolve_ids is told of are those of the list, in its order.
AdvertisedBy(list) ==
    [k \in {k \in DOMAIN Daemons : list[Daemons[k]] # None} |->
        Advertised(list)[k]]

\* No list, and a list without a daemon, give the daemon no source rules.
ListOf(c) == IF c[GatewayKey] = None THEN NoEntry ELSE c[GatewayKey].value

\* reconcile_via_gateway up to the map: the fetch may always fail, and
\* succeeds only while the gateway is serving.
GwRound(ok) ==
    /\ pc = "idle"
    /\ now - roundAt >= Period
    /\ ok => gwServing
    /\ LET merged == Cache!ApplyRound(listed, FetchDaemons(ok), now, Stale)
           list == ListOf(merged)
           adv == AdvertisedBy(list)
           given == Ids!ResolveIds(adv, known, now, Stale)
       IN /\ listed' = merged
          /\ known' = Ids!Remember(adv, known, now, Stale)
          /\ ids' = given
          /\ desired' = Desired(list, given)
          /\ todo' = StaleKeys(given)
          /\ marked' = marked \cap IdsIn(given)
    /\ pc' = "remove"
    /\ clean' = TRUE
    /\ roundAt' = now
    /\ UNCHANGED <<now, cache, dscp, installed, faults, heard, told, gateway>>

\* The rest of the pass; what may fail in it is the subject of Routerd.
PassOn ==
    /\ UNCHANGED <<gateway, listed, faults>>
    /\ \/ \E id \in IdValues : SyncRemove(id) \/ SyncInsert(id)
       \/ StartInsert
       \/ ReconcileRoutes

RouterdRestart == Restart /\ listed' = NoList /\ UNCHANGED gateway

\* Time passes no further than the gateway's next round can be late.
GwTick ==
    /\ gwServing => now - gwRoundAt < Period + GwLate
    /\ Tick
    /\ UNCHANGED <<gateway, listed>>

GwNext ==
    \/ \E replies \in Replies : GatewayRound(replies)
    \/ GatewayRestart
    \/ \E ok \in BOOLEAN : GwRound(ok)
    \/ PassOn
    \/ RouterdRestart
    \/ GwTick

GwSpec == GwInit /\ [][GwNext]_gwVars

-----------------------------------------------------------------------------
(* Properties.                                                             *)

\* How old a lease can be when routerd works from it: kept by the gateway to
\* the end of its window, served until the gateway's next round, and then
\* kept by routerd to the end of its own.
ChainedAge == (Stale - 1) + (Period + GwLate) + (Stale - 1)

Ago(d, l) == roundAt - said[<<d, l>>]

\* routerd's list never says of a daemon what the daemon has not said itself
\* within the chained windows, although nobody down the line knows the age of
\* what it is given (http.rs 35 serves the snapshot unchecked).
ListedIsRecent ==
    \A d \in Names :
        LET l == ListOf(listed)[d]
        IN (pc # "idle" /\ l # None) =>
               said[<<d, l>>] # None /\ Ago(d, l) <= ChainedAge

\* The gateway's own routes, too, outlive what the daemons say by no more than
\* its window and one period, through restarts, after which the kernel still
\* holds the routes of a cache that is gone: unless a request has failed, an
\* address it routes to a daemon is one that daemon said it had.
OwnRoutesRecent ==
    (gwServing /\ gwClean) =>
        \A ip \in Ips : gwRoutes[ip] # None =>
            \E l \in Leases :
                LET at == said[<<gwRoutes[ip], l>>]
                IN /\ ip \in l.ips
                   /\ at # None
                   /\ now - at <= (Stale - 1) + (Period + GwLate)

\* A pass withdraws a daemon it had listed only for cause: its own list was
\* too old and the gateway did not answer, or the gateway did, and had not
\* heard from the daemon for a whole window or not since it was started.
WithdrawnForCause ==
    [][\A d \in Names, ok \in BOOLEAN :
          (/\ ListOf(listed)[d] # None /\ ListOf(listed')[d] = None
           /\ GwRound(ok)) =>
              IF ok THEN d \in answered =>
                             \A l \in Leases :
                                 said[<<d, l>>] # None =>
                                     now - said[<<d, l>>] >= Stale
                    ELSE now - listed[GatewayKey].last >= Stale]_gwVars
=============================================================================
