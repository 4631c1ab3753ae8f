------------------------ MODULE GatewayRouterdProofs ------------------------
(***************************************************************************)
(* Proofs about GatewayRouterd: how old what a routerd, and the gateway    *)
(* itself, work from can be, for every list of daemons, every window,      *)
(* period and lateness, and every bound.                                   *)
(***************************************************************************)
EXTENDS GatewayRouterd, RouterdProofs

-----------------------------------------------------------------------------
(* The inductive invariant.                                                *)

Served == [Names -> Leases \cup {None}]

GwTypes ==
    /\ now \in Nat /\ roundAt \in 0..now /\ gwRoundAt \in 0..now
    /\ gwServing \in BOOLEAN /\ gwClean \in BOOLEAN
    /\ gwCache \in [Names -> [value : Leases, last : 0..now] \cup {None}]
    /\ listed \in [{GatewayKey} -> [value : Served, last : 0..now] \cup {None}]
    /\ said \in [Names \X Leases -> (0..now) \cup {None}]
    /\ answered \subseteq Names

\* A gateway that is not serving has nothing in its cache, and one that is
\* had its last round no longer ago than a round can be late.
GwOnTime ==
    /\ ~gwServing => gwCache = NoEntry
    /\ gwServing => now - gwRoundAt <= Period + GwLate

\* What the gateway keeps of a daemon is the last thing that daemon has said,
\* and it said so less than a window before the gateway's last round.
GwCacheIsSaid ==
    \A d \in Names : gwCache[d] # None =>
        /\ said[<<d, gwCache[d].value>>] = gwCache[d].last
        /\ gwRoundAt - gwCache[d].last <= Stale - 1
        /\ \A l \in Leases : said[<<d, l>>] # None =>
              said[<<d, l>>] <= gwCache[d].last

\* What it has dropped of a daemon that answered it is a window old.
GwDroppedOld ==
    \A d \in answered : gwCache[d] = None =>
        \A l \in Leases : said[<<d, l>>] # None =>
            gwRoundAt - said[<<d, l>>] >= Stale

\* routerd's list was true within the gateway's window and period when it
\* was fetched, and was fetched less than a window before the last round.
ListedIsSaid ==
    LET e == listed[GatewayKey]
    IN e # None =>
          /\ roundAt - e.last <= Stale - 1
          /\ \A d \in Names : e.value[d] # None =>
                /\ said[<<d, e.value[d]>>] # None
                /\ e.last - said[<<d, e.value[d]>>] <=
                       (Stale - 1) + (Period + GwLate)

\* Unless a request has failed, the gateway's routes are those of its cache.
GwRoutesFollow ==
    (gwServing /\ gwClean) => gwRoutes = OwnRoutes(Cache!View(gwCache))

GwInv ==
    /\ GwTypes
    /\ GwOnTime
    /\ GwCacheIsSaid
    /\ GwDroppedOld
    /\ ListedIsSaid
    /\ GwRoutesFollow

Bounds ==
    /\ Stale \in Nat /\ Period \in Nat /\ GwLate \in Nat
    /\ Stale > 0 /\ Period > 0 /\ MaxTime \in Nat

LEMMA BoundsHold == Bounds
  BY RouterdAssumption, GatewayAssumption DEF Bounds

-----------------------------------------------------------------------------
(* The gateway's round.                                                    *)

\* The gateway's cache and the history of what daemons said, after a round.
LEMMA GatewayRoundAt ==
    ASSUME GwInv, NEW replies \in Replies, GatewayRound(replies), NEW d \in Names
    PROVE  /\ gwCache'[d] \in [value : Leases, last : 0..now] \cup {None}
           /\ gwCache'[d] # None =>
                 /\ said'[<<d, gwCache'[d].value>>] = gwCache'[d].last
                 /\ now - gwCache'[d].last <= Stale - 1
                 /\ \A l \in Leases : said'[<<d, l>>] # None =>
                       said'[<<d, l>>] <= gwCache'[d].last
           /\ (d \in answered' /\ gwCache'[d] = None) =>
                 \A l \in Leases : said'[<<d, l>>] # None =>
                    now - said'[<<d, l>>] >= Stale
<1>1. /\ GwTypes /\ now \in Nat /\ Bounds /\ now \in 0..now
      /\ gwRoundAt \in 0..now
      /\ gwCache[d] \in [value : Leases, last : 0..now] \cup {None}
      /\ replies[d] \in Leases \cup {Failed}
      /\ \A l \in Leases : said[<<d, l>>] \in (0..now) \cup {None}
  BY BoundsHold DEF GwInv, GwTypes, Replies
<1>2. \A l \in Leases : said'[<<d, l>>] = IF replies[d] = l THEN now ELSE said[<<d, l>>]
  BY DEF GatewayRound
<1>3. /\ None \notin [value : Leases, last : Nat] /\ Failed \notin Leases
      /\ None \notin Nat
  BY RouterdAssumption
<1>4. /\ replies[d] # Failed => gwCache'[d] = [value |-> replies[d], last |-> now]
      /\ (replies[d] = Failed /\ Cache!Holds(gwCache[d], now, Stale)) =>
            gwCache'[d] = gwCache[d]
      /\ (replies[d] = Failed /\ ~Cache!Holds(gwCache[d], now, Stale)) =>
            gwCache'[d] = None
  <2>1. d \in DOMAIN gwCache /\ gwCache' = Cache!ApplyRound(gwCache, replies, now, Stale)
    BY <1>1 DEF GwTypes, GatewayRound
  <2>2. /\ replies[d] # Failed =>
              Cache!ApplyRound(gwCache, replies, now, Stale)[d] =
                     [value |-> replies[d], last |-> now]
        /\ (replies[d] = Failed /\ Cache!Holds(gwCache[d], now, Stale)) =>
              Cache!ApplyRound(gwCache, replies, now, Stale)[d] = gwCache[d]
        /\ (replies[d] = Failed /\ ~Cache!Holds(gwCache[d], now, Stale)) =>
              Cache!ApplyRound(gwCache, replies, now, Stale)[d] = None
    BY <2>1, ApplyRoundAt
  <2> QED BY <2>1, <2>2, Zenon
<1>5. CASE replies[d] # Failed
  <2>1. replies[d] \in Leases
    BY <1>1, <1>5
  <2>2. /\ gwCache'[d] \in [value : Leases, last : 0..now] /\ gwCache'[d] # None
        /\ gwCache'[d].value = replies[d] /\ gwCache'[d].last = now
    BY <1>1, <1>3, <1>4, <1>5, <2>1
  <2>3. said'[<<d, replies[d]>>] = now
    BY <1>2, <2>1
  <2>4. \A l \in Leases : said'[<<d, l>>] # None => said'[<<d, l>>] <= now
    BY <1>1, <1>2
  <2> QED BY <1>1, <2>2, <2>3, <2>4 DEF Bounds
<1>6. CASE replies[d] = Failed
  <2>1. \A l \in Leases : said'[<<d, l>>] = said[<<d, l>>]
    BY <1>2, <1>3, <1>6
  <2>2. d \in answered' => d \in answered
    BY <1>6 DEF GatewayRound
  <2>3. CASE Cache!Holds(gwCache[d], now, Stale)
    <3>1. gwCache'[d] = gwCache[d] /\ gwCache[d] # None /\ now - gwCache[d].last < Stale
      BY <1>4, <1>6, <2>3 DEF Cache!Holds
    <3>2. gwCache[d].value \in Leases /\ gwCache[d].last \in 0..now
      BY <1>1, <3>1
    <3>3. /\ said[<<d, gwCache[d].value>>] = gwCache[d].last
          /\ \A l \in Leases : said[<<d, l>>] # None =>
                said[<<d, l>>] <= gwCache[d].last
      BY <3>1 DEF GwInv, GwCacheIsSaid
    <3>4. now - gwCache[d].last <= Stale - 1
      BY <1>1, <3>1, <3>2 DEF Bounds
    <3> QED BY <1>1, <2>1, <3>1, <3>2, <3>3, <3>4
  <2>4. CASE ~Cache!Holds(gwCache[d], now, Stale)
    <3>1. gwCache'[d] = None
      BY <1>4, <1>6, <2>4
    <3>2. ASSUME d \in answered', NEW l \in Leases, said'[<<d, l>>] # None
          PROVE  now - said'[<<d, l>>] >= Stale
      <4>1. said[<<d, l>>] \in 0..now /\ said'[<<d, l>>] = said[<<d, l>>]
        BY <1>1, <2>1, <3>2
      <4>2. CASE gwCache[d] = None
        <5>1. gwRoundAt - said[<<d, l>>] >= Stale
          BY <2>2, <3>2, <4>1, <4>2, <1>3 DEF GwInv, GwDroppedOld
        <5> QED BY <1>1, <4>1, <5>1 DEF Bounds
      <4>3. CASE gwCache[d] # None
        <5>1. gwCache[d].last \in 0..now /\ ~(now - gwCache[d].last < Stale)
          BY <1>1, <2>4, <4>3 DEF Cache!Holds
        <5>2. said[<<d, l>>] <= gwCache[d].last
          BY <1>3, <3>2, <4>1, <4>3 DEF GwInv, GwCacheIsSaid
        <5> QED BY <1>1, <4>1, <5>1, <5>2 DEF Bounds
      <4> QED BY <4>2, <4>3
    <3> QED BY <3>1, <3>2
  <2> QED BY <2>3, <2>4
<1> QED BY <1>5, <1>6

LEMMA GatewayRoundInv ==
    ASSUME GwInv, NEW replies \in Replies, GatewayRound(replies)
    PROVE  GwInv'
<1>1. /\ GwTypes /\ Bounds
      /\ UNCHANGED <<now, roundAt, listed>> /\ gwServing' = TRUE /\ gwRoundAt' = now
      /\ answered' = answered \cup {d \in Names : replies[d] # Failed}
  BY BoundsHold DEF GwInv, GatewayRound, history
<1>2. gwClean' \in BOOLEAN /\ (gwClean' => gwRoutes' = OwnRoutes(Cache!View(gwCache')))
  BY DEF GatewayRound, GatewayReconcile
<1>3. gwCache' = [d \in Names |-> gwCache'[d]]
  BY <1>1 DEF GwTypes, GatewayRound, Cache!ApplyRound
<1>4. gwCache' \in [Names -> [value : Leases, last : 0..now] \cup {None}]
  BY <1>3, GatewayRoundAt
<1>5. said' \in [Names \X Leases -> (0..now) \cup {None}]
  <2>1. \A q \in Names \X Leases : said[q] \in (0..now) \cup {None}
    BY <1>1 DEF GwTypes
  <2>2. now \in 0..now
    BY <1>1 DEF GwTypes
  <2>3. said' = [q \in Names \X Leases |-> IF replies[q[1]] = q[2] THEN now ELSE said[q]]
    BY DEF GatewayRound
  <2> QED BY <2>1, <2>2, <2>3
<1>6. GwTypes'
  <2>1. answered' \subseteq Names /\ gwRoundAt' \in 0..now'
    BY <1>1 DEF GwTypes
  <2> QED BY <1>1, <1>2, <1>4, <1>5, <2>1 DEF GwTypes
<1>7. GwOnTime'
  BY <1>1 DEF GwOnTime, GwTypes, Bounds
<1>8. GwCacheIsSaid' /\ GwDroppedOld'
  <2>1. answered' \subseteq Names
    BY <1>6 DEF GwTypes
  <2> QED BY <1>1, <2>1, GatewayRoundAt DEF GwCacheIsSaid, GwDroppedOld
<1>9. ListedIsSaid'
  <2> DEFINE e == listed[GatewayKey]
  <2> SUFFICES ASSUME e # None
               PROVE  /\ roundAt - e.last <= Stale - 1
                      /\ \A d \in Names : e.value[d] # None =>
                            /\ said'[<<d, e.value[d]>>] # None
                            /\ e.last - said'[<<d, e.value[d]>>] <=
                                   (Stale - 1) + (Period + GwLate)
    BY <1>1 DEF ListedIsSaid
  <2>1. e \in [value : Served, last : 0..now]
    BY <1>1 DEF GwTypes
  <2>2. ASSUME NEW d \in Names, e.value[d] # None
        PROVE  /\ said'[<<d, e.value[d]>>] # None
               /\ e.last - said'[<<d, e.value[d]>>] <=
                      (Stale - 1) + (Period + GwLate)
    <3>1. e.value[d] \in Leases /\ e.last \in 0..now
      BY <2>1, <2>2 DEF Served
    <3>2. /\ said[<<d, e.value[d]>>] # None
          /\ e.last - said[<<d, e.value[d]>>] <= (Stale - 1) + (Period + GwLate)
      BY <2>2 DEF GwInv, ListedIsSaid
    <3>3. said'[<<d, e.value[d]>>] = now \/ said'[<<d, e.value[d]>>] = said[<<d, e.value[d]>>]
      BY <3>1 DEF GatewayRound
    <3>4. now \in Nat /\ now # None
      BY <1>1, RouterdAssumption DEF GwTypes
    <3> HIDE DEF e
    <3> QED BY <1>1, <3>1, <3>2, <3>3, <3>4 DEF Bounds
  <2> QED BY <2>2 DEF GwInv, ListedIsSaid
<1>10. GwRoutesFollow'
  BY <1>2 DEF GwRoutesFollow
<1> QED BY <1>6, <1>7, <1>8, <1>9, <1>10 DEF GwInv

-----------------------------------------------------------------------------
(* The other steps.                                                        *)

LEMMA NoEntryType ==
    ASSUME NEW T PROVE NoEntry \in [Names -> T \cup {None}]
  BY DEF NoEntry

LEMMA GatewayRestartInv == ASSUME GwInv, GatewayRestart PROVE GwInv'
<1>1. /\ gwServing' = FALSE /\ gwCache' = NoEntry /\ answered' = {}
      /\ UNCHANGED <<now, roundAt, gwRoundAt, gwRoutes, gwClean, listed, said>>
  BY DEF GatewayRestart, history
<1>2. GwTypes'
  BY <1>1, NoEntryType DEF GwInv, GwTypes
<1>3. GwOnTime' /\ GwDroppedOld' /\ GwRoutesFollow'
  BY <1>1 DEF GwOnTime, GwDroppedOld, GwRoutesFollow
<1>4. GwCacheIsSaid'
  BY <1>1 DEF GwCacheIsSaid, NoEntry
<1>5. ListedIsSaid'
  BY <1>1 DEF GwInv, ListedIsSaid
<1> QED BY <1>2, <1>3, <1>4, <1>5 DEF GwInv

\* What a round of routerd makes of the list it keeps.
LEMMA GwRoundListed ==
    ASSUME GwInv, NEW ok \in BOOLEAN, GwRound(ok)
    PROVE  /\ listed' = [s \in {GatewayKey} |-> listed'[s]]
           /\ ok => listed'[GatewayKey] = [value |-> ServedList, last |-> now]
           /\ (~ok /\ Cache!Holds(listed[GatewayKey], now, Stale)) =>
                 listed'[GatewayKey] = listed[GatewayKey]
           /\ (~ok /\ ~Cache!Holds(listed[GatewayKey], now, Stale)) =>
                 listed'[GatewayKey] = None
           /\ ServedList \in Served
<1> DEFINE res == FetchDaemons(ok)
<1>1. /\ GatewayKey \in DOMAIN listed /\ DOMAIN listed = {GatewayKey}
      /\ listed' = Cache!ApplyRound(listed, res, now, Stale)
  BY DEF GwInv, GwTypes, GwRound
<1>2. ServedList \in Served
  <2>1. ServedList = [d \in Names |-> IF gwCache[d] = None THEN None
                                      ELSE gwCache[d].value]
    BY DEF ServedList, Cache!View, GwInv, GwTypes
  <2>2. \A d \in Names : gwCache[d] # None => gwCache[d].value \in Leases
    BY DEF GwInv, GwTypes
  <2> QED BY <2>1, <2>2 DEF Served
<1>3. ServedList # Failed
  BY <1>2, GatewayAssumption DEF Served
<1>4. res[GatewayKey] = IF ok THEN ServedList ELSE Failed
  BY DEF FetchDaemons
<1> HIDE DEF res
<1>5. /\ res[GatewayKey] # Failed =>
            Cache!ApplyRound(listed, res, now, Stale)[GatewayKey] =
                   [value |-> res[GatewayKey], last |-> now]
      /\ (res[GatewayKey] = Failed /\ Cache!Holds(listed[GatewayKey], now, Stale)) =>
            Cache!ApplyRound(listed, res, now, Stale)[GatewayKey] = listed[GatewayKey]
      /\ (res[GatewayKey] = Failed /\ ~Cache!Holds(listed[GatewayKey], now, Stale)) =>
            Cache!ApplyRound(listed, res, now, Stale)[GatewayKey] = None
  BY <1>1, ApplyRoundAt
<1>6. listed' = [s \in {GatewayKey} |-> listed'[s]]
  BY <1>1 DEF Cache!ApplyRound
<1> QED BY <1>1, <1>2, <1>3, <1>4, <1>5, <1>6

LEMMA GwRoundInv ==
    ASSUME GwInv, NEW ok \in BOOLEAN, GwRound(ok) PROVE GwInv'
<1>1. /\ GwTypes /\ Bounds /\ roundAt' = now /\ (ok => gwServing)
      /\ UNCHANGED <<now, gwCache, gwServing, gwRoundAt, gwRoutes, gwClean, said,
                     answered>>
  BY BoundsHold DEF GwInv, GwRound, gateway
<1>2. GwOnTime' /\ GwCacheIsSaid' /\ GwDroppedOld' /\ GwRoutesFollow'
  BY <1>1 DEF GwInv, GwOnTime, GwCacheIsSaid, GwDroppedOld, GwRoutesFollow
<1>3. now \in Nat /\ now \in 0..now /\ gwRoundAt \in 0..now
  BY <1>1 DEF GwTypes
<1> DEFINE e == listed'[GatewayKey]
<1>4. /\ e \in [value : Served, last : 0..now] \cup {None}
      /\ e # None =>
            /\ now - e.last <= Stale - 1
            /\ \A d \in Names : e.value[d] # None =>
                  /\ said[<<d, e.value[d]>>] # None
                  /\ e.last - said[<<d, e.value[d]>>] <=
                         (Stale - 1) + (Period + GwLate)
  <2>1. CASE ok
    <3>1. e = [value |-> ServedList, last |-> now] /\ ServedList \in Served
      BY <2>1, GwRoundListed
    <3>2. ASSUME NEW d \in Names, ServedList[d] # None
          PROVE  /\ said[<<d, ServedList[d]>>] # None
                 /\ now - said[<<d, ServedList[d]>>] <=
                        (Stale - 1) + (Period + GwLate)
      <4>1. gwCache[d] # None /\ ServedList[d] = gwCache[d].value
        BY <1>1, <3>2 DEF ServedList, Cache!View, GwTypes
      <4>2. /\ said[<<d, gwCache[d].value>>] = gwCache[d].last
            /\ gwRoundAt - gwCache[d].last <= Stale - 1
        BY <4>1 DEF GwInv, GwCacheIsSaid
      <4>3. gwCache[d].last \in 0..now /\ None \notin Nat
        BY <1>1, <4>1, RouterdAssumption DEF GwTypes
      <4>4. now - gwRoundAt <= Period + GwLate
        BY <1>1, <2>1 DEF GwInv, GwOnTime
      <4> QED BY <1>1, <1>3, <4>1, <4>2, <4>3, <4>4 DEF Bounds
    <3>3. e.value = ServedList /\ e.last = now
      BY <3>1
    <3>4. e \in [value : Served, last : 0..now]
      BY <1>3, <3>1
    <3> HIDE DEF e
    <3> QED BY <1>1, <1>3, <3>2, <3>3, <3>4 DEF Bounds
  <2>2. CASE ~ok /\ Cache!Holds(listed[GatewayKey], now, Stale)
    <3>1. /\ e = listed[GatewayKey] /\ e # None /\ now - e.last < Stale
      BY <2>2, GwRoundListed DEF Cache!Holds
    <3>2. e \in [value : Served, last : 0..now]
      BY <1>1, <3>1 DEF GwTypes
    <3>3. \A d \in Names : e.value[d] # None =>
                  /\ said[<<d, e.value[d]>>] # None
                  /\ e.last - said[<<d, e.value[d]>>] <=
                         (Stale - 1) + (Period + GwLate)
      BY <3>1 DEF GwInv, ListedIsSaid
    <3> HIDE DEF e
    <3> QED BY <1>1, <1>3, <3>1, <3>2, <3>3 DEF Bounds
  <2>3. CASE ~ok /\ ~Cache!Holds(listed[GatewayKey], now, Stale)
    BY <2>3, GwRoundListed
  <2> QED BY <2>1, <2>2, <2>3
<1>5. ListedIsSaid'
  BY <1>1, <1>4 DEF ListedIsSaid
<1>6. GwTypes'
  <2>1. listed' \in [{GatewayKey} -> [value : Served, last : 0..now] \cup {None}]
    BY <1>4, GwRoundListed
  <2> QED BY <1>1, <1>3, <2>1 DEF GwTypes
<1> QED BY <1>2, <1>5, <1>6 DEF GwInv

\* A step in which neither the clock, nor the gateway, nor the list changes.
LEMMA GwUnchanged ==
    ASSUME GwInv, UNCHANGED <<now, roundAt, gateway, listed>> PROVE GwInv'
<1>1. UNCHANGED <<now, roundAt, gwCache, gwServing, gwRoundAt, gwRoutes, gwClean,
                  said, answered, listed>>
  BY DEF gateway
<1>2. GwTypes'
  BY <1>1 DEF GwInv, GwTypes
<1>3. GwOnTime' /\ GwCacheIsSaid' /\ GwDroppedOld' /\ GwRoutesFollow' /\ ListedIsSaid'
  BY <1>1 DEF GwInv, GwOnTime, GwCacheIsSaid, GwDroppedOld, GwRoutesFollow,
              ListedIsSaid
<1> QED BY <1>2, <1>3 DEF GwInv

LEMMA PassOnInv == ASSUME GwInv, PassOn PROVE GwInv'
  BY GwUnchanged DEF PassOn, SyncRemove, StartInsert, SyncInsert,
                     ReconcileRoutes, history

LEMMA RouterdRestartInv == ASSUME GwInv, RouterdRestart PROVE GwInv'
<1>1. /\ roundAt' = now /\ listed' = NoList
      /\ UNCHANGED <<now, gwCache, gwServing, gwRoundAt, gwRoutes, gwClean, said,
                     answered>>
  BY DEF RouterdRestart, Restart, gateway
<1>2. listed'[GatewayKey] = None
      /\ listed' \in [{GatewayKey} -> [value : Served, last : 0..now] \cup {None}]
  BY <1>1 DEF NoList
<1>3. GwTypes'
  <2>1. now \in 0..now
    BY DEF GwInv, GwTypes
  <2> QED BY <1>1, <1>2, <2>1 DEF GwInv, GwTypes
<1>4. GwOnTime' /\ GwCacheIsSaid' /\ GwDroppedOld' /\ GwRoutesFollow'
  BY <1>1 DEF GwInv, GwOnTime, GwCacheIsSaid, GwDroppedOld, GwRoutesFollow
<1>5. ListedIsSaid'
  BY <1>2 DEF ListedIsSaid
<1> QED BY <1>3, <1>4, <1>5 DEF GwInv

LEMMA GwTickInv == ASSUME GwInv, GwTick PROVE GwInv'
<1>1. /\ GwTypes /\ Bounds /\ now' = now + 1
      /\ UNCHANGED <<roundAt, gwCache, gwServing, gwRoundAt, gwRoutes, gwClean,
                     said, answered, listed>>
      /\ gwServing => now - gwRoundAt < Period + GwLate
  BY BoundsHold DEF GwInv, GwTick, Tick, history, gateway
<1>2. now' \in Nat /\ 0..now \subseteq 0..now' /\ now \in Nat /\ gwRoundAt \in 0..now
  BY <1>1 DEF GwTypes
<1>3. GwTypes'
  <2>1. \A d \in Names : gwCache[d] \in [value : Leases, last : 0..now'] \cup {None}
    BY <1>1, <1>2 DEF GwTypes
  <2>2. gwCache' \in [Names -> [value : Leases, last : 0..now'] \cup {None}]
    BY <1>1, <2>1 DEF GwTypes
  <2>3. listed[GatewayKey] \in [value : Served, last : 0..now'] \cup {None}
    BY <1>1, <1>2 DEF GwTypes
  <2>4. listed' \in [{GatewayKey} -> [value : Served, last : 0..now'] \cup {None}]
    BY <1>1, <2>3 DEF GwTypes
  <2>5. \A q \in Names \X Leases : said[q] \in (0..now') \cup {None}
    BY <1>1, <1>2 DEF GwTypes
  <2>6. said' \in [Names \X Leases -> (0..now') \cup {None}]
    BY <1>1, <2>5 DEF GwTypes
  <2> QED BY <1>1, <1>2, <2>2, <2>4, <2>6 DEF GwTypes
<1>4. GwOnTime'
  BY <1>1, <1>2 DEF GwInv, GwOnTime, Bounds
<1>5. GwCacheIsSaid' /\ GwDroppedOld' /\ GwRoutesFollow' /\ ListedIsSaid'
  BY <1>1 DEF GwInv, GwCacheIsSaid, GwDroppedOld, GwRoutesFollow, ListedIsSaid
<1> QED BY <1>3, <1>4, <1>5 DEF GwInv

LEMMA GwInitInv == GwInit => GwInv
<1> SUFFICES ASSUME GwInit PROVE GwInv
  OBVIOUS
<1>1. /\ now = 0 /\ roundAt = 0 /\ gwRoundAt = 0 /\ gwCache = NoEntry
      /\ gwServing = FALSE /\ gwClean = TRUE /\ listed = NoList /\ answered = {}
      /\ said = [p \in Names \X Leases |-> None]
  BY DEF GwInit, Init
<1>2. GwTypes
  <2>1. 0..0 = {0} /\ 0 \in Nat
    OBVIOUS
  <2>2. gwCache \in [Names -> [value : Leases, last : 0..now] \cup {None}]
    BY <1>1, NoEntryType
  <2>3. listed \in [{GatewayKey} -> [value : Served, last : 0..now] \cup {None}]
    BY <1>1 DEF NoList
  <2>4. said \in [Names \X Leases -> (0..now) \cup {None}]
    BY <1>1
  <2>5. /\ now \in Nat /\ roundAt \in 0..now /\ gwRoundAt \in 0..now
        /\ gwServing \in BOOLEAN /\ gwClean \in BOOLEAN /\ answered \subseteq Names
    BY <1>1, <2>1
  <2> QED BY <2>2, <2>3, <2>4, <2>5 DEF GwTypes
<1>3. GwOnTime /\ GwDroppedOld /\ GwRoutesFollow
  BY <1>1 DEF GwOnTime, GwDroppedOld, GwRoutesFollow
<1>4. GwCacheIsSaid /\ ListedIsSaid
  BY <1>1 DEF GwCacheIsSaid, ListedIsSaid, NoEntry, NoList
<1> QED BY <1>2, <1>3, <1>4 DEF GwInv

LEMMA GwNextInv == GwInv /\ [GwNext]_gwVars => GwInv'
<1> SUFFICES ASSUME GwInv, [GwNext]_gwVars PROVE GwInv'
  OBVIOUS
<1>1. ASSUME NEW replies \in Replies, GatewayRound(replies) PROVE GwInv'
  BY <1>1, GatewayRoundInv
<1>2. ASSUME NEW ok \in BOOLEAN, GwRound(ok) PROVE GwInv'
  BY <1>2, GwRoundInv
<1>3. CASE GatewayRestart
  BY <1>3, GatewayRestartInv
<1>4. CASE PassOn
  BY <1>4, PassOnInv
<1>5. CASE RouterdRestart
  BY <1>5, RouterdRestartInv
<1>6. CASE GwTick
  BY <1>6, GwTickInv
<1>7. CASE UNCHANGED gwVars
  BY <1>7, GwUnchanged DEF gwVars
<1> QED BY <1>1, <1>2, <1>3, <1>4, <1>5, <1>6, <1>7 DEF GwNext

-----------------------------------------------------------------------------
(* Theorems.                                                               *)

\* The invariant the results below follow from: each cache down the line is
\* bound to what the daemons said by one window, and each fetch adds at most
\* one late period of the gateway.
THEOREM GwInvariant == GwSpec => []GwInv
  BY GwInitInv, GwNextInv, PTL DEF GwSpec

\* Nothing on routerd's list is older than the gateway's window, one late
\* period of the gateway and routerd's own window together, although the
\* snapshot GET /daemons serves carries no times.
THEOREM ListedAlwaysRecent == GwSpec => []ListedIsRecent
<1>1. GwInv => ListedIsRecent
  <2> SUFFICES ASSUME GwInv, NEW d \in Names, ListOf(listed)[d] # None
               PROVE  /\ said[<<d, ListOf(listed)[d]>>] # None
                      /\ roundAt - said[<<d, ListOf(listed)[d]>>] <= ChainedAge
    BY DEF ListedIsRecent, Ago
  <2> DEFINE e == listed[GatewayKey]
  <2>1. e # None /\ ListOf(listed) = e.value
    BY DEF ListOf, NoEntry
  <2>2. e \in [value : Served, last : 0..now]
    BY <2>1 DEF GwInv, GwTypes
  <2>3. e.last \in 0..now /\ e.value[d] \in Leases
    BY <2>1, <2>2 DEF Served
  <2>4. /\ roundAt - e.last <= Stale - 1
        /\ said[<<d, e.value[d]>>] # None
        /\ e.last - said[<<d, e.value[d]>>] <= (Stale - 1) + (Period + GwLate)
    BY <2>1 DEF GwInv, ListedIsSaid
  <2>5. said[<<d, e.value[d]>>] \in 0..now /\ roundAt \in 0..now /\ now \in Nat
    BY <2>3, <2>4 DEF GwInv, GwTypes
  <2> HIDE DEF e
  <2> QED BY <2>1, <2>3, <2>4, <2>5, BoundsHold DEF Bounds, ChainedAge
<1> QED BY GwInvariant, <1>1, PTL

\* A route the gateway makes follows the view it is made from: it leads to a
\* daemon whose answer has the address.
LEMMA OwnRoutesAt ==
    ASSUME NEW view, NEW ip \in Ips, OwnRoutes(view)[ip] # None
    PROVE  /\ OwnRoutes(view)[ip] \in Names
           /\ view[OwnRoutes(view)[ip]] # None
           /\ ip \in view[OwnRoutes(view)[ip]].ips
<1> DEFINE ks == {k \in DOMAIN Daemons : /\ view[Daemons[k]] # None
                                         /\ ip \in view[Daemons[k]].ips}
           last == CHOOSE k \in ks : \A j \in ks : j <= k
<1>1. OwnRoutes(view)[ip] = IF ks = {} THEN None ELSE Daemons[last]
  BY DEF OwnRoutes
<1>2. ks # {}
  BY <1>1
<1>3. \E k \in ks : \A j \in ks : j <= k
  <2>1. ks \in SUBSET (1..Len(Daemons))
    BY DaemonsFacts
  <2> HIDE DEF ks
  <2> QED BY <1>2, <2>1, LastExists, DaemonsFacts
<1>4. last \in ks
  <2> HIDE DEF ks
  <2> QED BY <1>3
<1>5. Daemons[last] \in Names
  BY <1>4, DaemonsFacts
<1> QED BY <1>1, <1>2, <1>4, <1>5

\* Unless a request has failed, an address the gateway routes to a daemon on
\* its own host is one that daemon said it had, within the gateway's window
\* and one late period: through restarts, which keep the kernel's routes and
\* lose the cache they were made from.
THEOREM OwnRoutesAlwaysRecent == GwSpec => []OwnRoutesRecent
<1>1. GwInv => OwnRoutesRecent
  <2> SUFFICES ASSUME GwInv, gwServing, gwClean, NEW ip \in Ips,
                      gwRoutes[ip] # None
               PROVE  \E l \in Leases :
                         /\ ip \in l.ips
                         /\ said[<<gwRoutes[ip], l>>] # None
                         /\ now - said[<<gwRoutes[ip], l>>] <=
                                (Stale - 1) + (Period + GwLate)
    BY DEF OwnRoutesRecent
  <2> DEFINE d == gwRoutes[ip]
             view == Cache!View(gwCache)
  <2>1. gwRoutes = OwnRoutes(view)
    BY DEF GwInv, GwRoutesFollow
  <2>2. d \in Names /\ view[d] # None /\ ip \in view[d].ips
    <3> HIDE DEF view
    <3> QED BY <2>1, OwnRoutesAt
  <2>3. gwCache[d] # None /\ view[d] = gwCache[d].value
    BY <2>2 DEF Cache!View, GwInv, GwTypes
  <2>4. /\ gwCache[d].value \in Leases /\ gwCache[d].last \in 0..now
        /\ now \in Nat /\ gwRoundAt \in 0..now /\ None \notin Nat
    BY <2>2, <2>3, RouterdAssumption DEF GwInv, GwTypes
  <2>5. /\ said[<<d, gwCache[d].value>>] = gwCache[d].last
        /\ gwRoundAt - gwCache[d].last <= Stale - 1
        /\ now - gwRoundAt <= Period + GwLate
    BY <2>2, <2>3 DEF GwInv, GwCacheIsSaid, GwOnTime
  <2>6. /\ said[<<d, gwCache[d].value>>] # None
        /\ now - said[<<d, gwCache[d].value>>] <= (Stale - 1) + (Period + GwLate)
    BY <2>4, <2>5, BoundsHold DEF Bounds
  <2> HIDE DEF view
  <2> QED BY <2>2, <2>3, <2>4, <2>6
<1> QED BY GwInvariant, <1>1, PTL

\* A pass of routerd withdraws a daemon it had listed for one of two causes
\* only: its own list outlived the window while the gateway did not answer, or
\* the gateway did, and had not heard the daemon for a whole window or not at
\* all since it started.
THEOREM AlwaysWithdrawnForCause == GwSpec => WithdrawnForCause
<1> DEFINE Cause(d, ok) ==
             IF ok THEN d \in answered =>
                            \A l \in Leases :
                                said[<<d, l>>] # None =>
                                    now - said[<<d, l>>] >= Stale
                   ELSE now - listed[GatewayKey].last >= Stale
<1>1. ASSUME GwInv, NEW d \in Names, NEW ok \in BOOLEAN, GwRound(ok),
             ListOf(listed)[d] # None, ListOf(listed')[d] = None
      PROVE  Cause(d, ok)
  <2>1. /\ now \in Nat /\ gwRoundAt \in 0..now /\ Bounds /\ None \notin Nat
    BY <1>1, BoundsHold, RouterdAssumption DEF GwInv, GwTypes
  <2>2. CASE ok
    <3>1. listed'[GatewayKey] = [value |-> ServedList, last |-> now]
          /\ ServedList \in Served
      BY <1>1, <2>2, GwRoundListed
    <3>2. listed'[GatewayKey] # None
      <4>1. [value |-> ServedList, last |-> now] \in [value : Served, last : Nat]
        BY <2>1, <3>1
      <4> QED BY <3>1, <4>1, GatewayAssumption DEF Served
    <3>3. ServedList[d] = None
      BY <1>1, <3>1, <3>2 DEF ListOf
    <3>4. gwCache[d] = None
      <4>1. ServedList[d] = IF gwCache[d] = None THEN None ELSE gwCache[d].value
        BY <1>1 DEF ServedList, Cache!View, GwInv, GwTypes
      <4>2. gwCache[d] # None => gwCache[d].value \in Leases
        BY <1>1 DEF GwInv, GwTypes
      <4> QED BY <3>3, <4>1, <4>2, RouterdAssumption
    <3>5. ASSUME d \in answered, NEW l \in Leases, said[<<d, l>>] # None
          PROVE  now - said[<<d, l>>] >= Stale
      <4>1. gwRoundAt - said[<<d, l>>] >= Stale
        BY <1>1, <3>4, <3>5 DEF GwInv, GwDroppedOld
      <4>2. said[<<d, l>>] \in 0..now
        BY <1>1, <3>5 DEF GwInv, GwTypes
      <4> QED BY <2>1, <4>1, <4>2 DEF Bounds
    <3> QED BY <2>2, <3>5
  <2>3. CASE ~ok
    <3>1. listed[GatewayKey] # None
      BY <1>1 DEF ListOf, NoEntry
    <3>2. ~Cache!Holds(listed[GatewayKey], now, Stale)
      <4> SUFFICES ASSUME Cache!Holds(listed[GatewayKey], now, Stale) PROVE FALSE
        OBVIOUS
      <4>1. listed'[GatewayKey] = listed[GatewayKey]
        BY <1>1, <2>3, GwRoundListed
      <4> QED BY <1>1, <4>1 DEF ListOf
    <3>3. listed[GatewayKey].last \in 0..now
      BY <1>1, <3>1 DEF GwInv, GwTypes
    <3>4. ~(now - listed[GatewayKey].last < Stale)
      BY <3>1, <3>2 DEF Cache!Holds
    <3>5. now - listed[GatewayKey].last >= Stale
      BY <2>1, <3>3, <3>4 DEF Bounds
    <3> QED BY <2>3, <3>5
  <2> QED BY <2>2, <2>3
<1>2. GwInv /\ [GwNext]_gwVars =>
         [\A d \in Names, ok \in BOOLEAN :
            (/\ ListOf(listed)[d] # None /\ ListOf(listed')[d] = None
             /\ GwRound(ok)) => Cause(d, ok)]_gwVars
  BY <1>1
<1> QED BY GwInvariant, <1>2, PTL DEF GwSpec, WithdrawnForCause

-----------------------------------------------------------------------------
(* The ids in gateway mode.                                                *)

\* What routerd remembers are ids that daemons have, and those in use are
\* unambiguous.
GwIds == known \in Remembered /\ IdsUnambiguous

\* The list resolve_ids is given names each daemon once, whichever daemons
\* the gateway left out.
LEMMA AdvertisedByFacts ==
    ASSUME NEW list \in Served PROVE Advertisements(AdvertisedBy(list))
<1> DEFINE adv == AdvertisedBy(list)
           on == {k \in DOMAIN Daemons : list[Daemons[k]] # None}
<1>1. DOMAIN adv = on /\ \A k \in on : adv[k] = Advertised(list)[k]
  BY DEF AdvertisedBy
<1>2. ASSUME NEW k \in on
      PROVE  /\ adv[k].name = Daemons[k] /\ adv[k].name \in Names
             /\ adv[k].id \in IdValues \cup {None}
  <2>1. /\ adv[k].name = Daemons[k] /\ Daemons[k] \in Names
        /\ adv[k].id = IF list[Daemons[k]] = None THEN None
                                                  ELSE list[Daemons[k]].id
    BY <1>1, AdvertisedFacts, DaemonsFacts
  <2>2. list[Daemons[k]] # None => list[Daemons[k]] \in Leases
    BY <2>1 DEF Served
  <2>3. \A l \in Leases : l.id \in IdValues \cup {None}
    BY DEF IdValues
  <2> QED BY <2>1, <2>2, <2>3
<1>3. DistinctNames(adv)
  <2>1. on \subseteq Nat
    BY DaemonsFacts
  <2> HIDE DEF adv
  <2> QED BY <1>1, <1>2, <2>1, RouterdAssumption DEF DistinctNames
<1> HIDE DEF adv
<1> QED BY <1>1, <1>2, <1>3 DEF Advertisements, adv

LEMMA GwRoundIds ==
    ASSUME GwInv, GwInv', GwIds, NEW ok \in BOOLEAN, GwRound(ok) PROVE GwIds'
<1> DEFINE list == ListOf(listed')
           adv == AdvertisedBy(list)
<1>1. /\ known' = Ids!Remember(adv, known, now, Stale)
      /\ ids' = Ids!ResolveIds(adv, known, now, Stale)
  BY DEF GwRound
<1>2. list \in Served
  <2>1. NoEntry \in Served
    BY NoEntryType DEF Served
  <2>2. listed'[GatewayKey] # None => listed'[GatewayKey].value \in Served
    BY DEF GwInv, GwTypes
  <2> QED BY <2>1, <2>2 DEF ListOf
<1>3. Advertisements(adv)
  BY <1>2, AdvertisedByFacts
<1>4. now \in Nat /\ known \in Remembered
  BY DEF GwInv, GwTypes, GwIds
<1> HIDE DEF adv
<1>5. known' \in Remembered
  <2>1. known' = [d \in Names |-> known'[d]]
    BY <1>1, <1>4 DEF Ids!Remember, Remembered
  <2>2. ASSUME NEW d \in Names
        PROVE  known'[d] \in [id : IdValues, seen : Nat] \cup {None}
    <3>1. \/ known'[d] = None
          \/ \E i \in IdValues : known'[d] = [id |-> i, seen |-> now]
          \/ known'[d] = known[d]
      BY <1>1, <1>3, <1>4, RememberAt
    <3>2. known[d] \in [id : IdValues, seen : Nat] \cup {None}
      BY <1>4 DEF Remembered
    <3>3. \A i \in IdValues : [id |-> i, seen |-> now] \in [id : IdValues, seen : Nat]
      BY <1>4
    <3> QED BY <3>1, <3>2, <3>3, Zenon
  <2> QED BY <2>1, <2>2 DEF Remembered
<1>6. IdsUnambiguous'
  BY <1>1, <1>3, <1>4, SettledIds DEF IdsUnambiguous
<1> QED BY <1>5, <1>6 DEF GwIds

LEMMA GwNextIds ==
    GwInv /\ GwInv' /\ GwIds /\ [GwNext]_gwVars => GwIds'
<1> SUFFICES ASSUME GwInv, GwInv', GwIds, [GwNext]_gwVars PROVE GwIds'
  OBVIOUS
<1>1. ASSUME NEW ok \in BOOLEAN, GwRound(ok) PROVE GwIds'
  BY <1>1, GwRoundIds
<1>2. CASE RouterdRestart
  <2>1. known' = NoEntry /\ ids' = NoEntry
    BY <1>2 DEF RouterdRestart, Restart
  <2>2. NoEntry \in Remembered
    BY NoEntryType DEF Remembered
  <2>3. \A d \in Names : ids'[d] = None
    BY <2>1 DEF NoEntry
  <2> QED BY <2>1, <2>2, <2>3 DEF GwIds, IdsUnambiguous
<1>3. CASE UNCHANGED <<known, ids>>
  BY <1>3 DEF GwIds, IdsUnambiguous
<1>4. (PassOn \/ GwTick \/ GatewayRestart \/ UNCHANGED gwVars
         \/ \E replies \in Replies : GatewayRound(replies))
      => UNCHANGED <<known, ids>>
  BY DEF PassOn, SyncRemove, StartInsert, SyncInsert, ReconcileRoutes,
         GwTick, Tick,
         GatewayRestart, GatewayRound, gwVars, vars
<1> QED BY <1>1, <1>2, <1>3, <1>4 DEF GwNext

\* In gateway mode too no two daemons are steered by one id, although the
\* list names other daemons in every round and the ids of those it leaves out
\* are remembered (reconcile.rs 259-319).
THEOREM GatewayIdsUnambiguous == GwSpec => []IdsUnambiguous
<1>1. GwInit => GwIds
  <2>1. NoEntry \in Remembered /\ \A d \in Names : NoEntry[d] = None
    BY NoEntryType DEF Remembered, NoEntry
  <2> QED BY <2>1 DEF GwInit, Init, GwIds, IdsUnambiguous
<1>2. GwIds => IdsUnambiguous
  BY DEF GwIds
<1> QED BY <1>1, <1>2, GwNextIds, GwInvariant, PTL DEF GwSpec
=============================================================================
