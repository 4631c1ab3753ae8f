--------------------------- MODULE RouterdProofs ----------------------------
(***************************************************************************)
(* Proofs about Routerd, for every list of daemons, every set of answers,  *)
(* every window and period and every bound.                                *)
(***************************************************************************)
EXTENDS Routerd, WellFoundedInduction, TLAPS

-----------------------------------------------------------------------------
(* Helpers.                                                                *)

\* A set of positions in a list that is not empty has a last one: what the
\* "later entries win" of push_specs rests on.
LEMMA LastExists ==
    ASSUME NEW n \in Nat, NEW S \in SUBSET (1..n), S # {}
    PROVE  \E k \in S : \A j \in S : j <= k
<1> DEFINE T == {x \in Nat : n - x \in S}
<1>1. PICK s \in S : TRUE
  OBVIOUS
<1>2. n - s \in Nat /\ n - (n - s) = s
  OBVIOUS
<1>3. T \subseteq Nat /\ T # {}
  BY <1>1, <1>2
<1>4. PICK x \in T : \A y \in T : ~(<<y, x>> \in OpToRel(<, Nat))
  BY <1>3, WFMin, NatLessThanWellFounded, Zenon
<1>5. \A y \in T : ~(y < x)
  BY <1>3, <1>4 DEF OpToRel
<1>6. ASSUME NEW j \in S PROVE j <= n - x
  <2>1. n - j \in Nat /\ n - (n - j) = j
    OBVIOUS
  <2>2. n - j \in T
    BY <2>1
  <2>3. ~(n - j < x)
    BY <2>2, <1>5
  <2> QED BY <2>1, <2>3, <1>3
<1> QED BY <1>6

LEMMA DaemonsFacts ==
    /\ DOMAIN Daemons = 1..Len(Daemons) /\ Len(Daemons) \in Nat
    /\ \A k \in DOMAIN Daemons : Daemons[k] \in Names
    /\ \A d \in Names : \E k \in DOMAIN Daemons : Daemons[k] = d
  BY RouterdAssumption DEF Names

LEMMA IdValuesNat == IdValues \subseteq Nat /\ None \notin IdValues
  BY RouterdAssumption DEF IdValues

-----------------------------------------------------------------------------
(* What the operators of LeaseCache and DscpIds return.                    *)

\* apply_round, source by source.
LEMMA ApplyRoundAt ==
    ASSUME NEW c, NEW res, NEW t, NEW s \in DOMAIN c
    PROVE  /\ DOMAIN Cache!ApplyRound(c, res, t, Stale) = DOMAIN c
           /\ res[s] # Failed =>
                 Cache!ApplyRound(c, res, t, Stale)[s] =
                     [value |-> res[s], last |-> t]
           /\ (res[s] = Failed /\ Cache!Holds(c[s], t, Stale)) =>
                 Cache!ApplyRound(c, res, t, Stale)[s] = c[s]
           /\ (res[s] = Failed /\ ~Cache!Holds(c[s], t, Stale)) =>
                 Cache!ApplyRound(c, res, t, Stale)[s] = None
  BY DEF Cache!ApplyRound

LEMMA ViewAt ==
    ASSUME NEW c, NEW s \in DOMAIN c
    PROVE  /\ DOMAIN Cache!View(c) = DOMAIN c
           /\ Cache!View(c)[s] = IF c[s] = None THEN None ELSE c[s].value
  BY DEF Cache!View

\* A list resolve_ids is given, which may have empty places: names are
\* distinct.
DistinctNames(adv) ==
    /\ DOMAIN adv \subseteq Nat
    /\ \A j, k \in DOMAIN adv : adv[j].name = adv[k].name => j = k

\* An id that is given to a name is the candidate of the one entry of that
\* name, which was accepted.
LEMMA ResolvedAt ==
    ASSUME NEW adv, DistinctNames(adv), NEW r, NEW t, NEW d \in DOMAIN r,
           Ids!ResolveIds(adv, r, t, Stale)[d] # None
    PROVE  \E k \in DOMAIN adv :
               /\ adv[k].name = d
               /\ Ids!Accepts(adv, k, r, t, Stale)
               /\ Ids!ResolveIds(adv, r, t, Stale)[d] =
                      Ids!Candidate(adv[k], r, t, Stale)
<1>1. PICK k \in DOMAIN adv : /\ adv[k].name = d
                              /\ Ids!Accepts(adv, k, r, t, Stale)
  BY DEF Ids!ResolveIds
<1>2. (CHOOSE m \in DOMAIN adv : adv[m].name = d) = k
  BY <1>1 DEF DistinctNames
<1>3. Ids!ResolveIds(adv, r, t, Stale)[d] = Ids!Candidate(adv[k], r, t, Stale)
  BY <1>1, <1>2 DEF Ids!ResolveIds
<1> QED BY <1>1, <1>3

\* validate_id lets no id through twice.
LEMMA ResolvedDistinct ==
    ASSUME NEW adv, DistinctNames(adv), NEW r, NEW t,
           NEW d \in DOMAIN r, NEW e \in DOMAIN r, d # e,
           Ids!ResolveIds(adv, r, t, Stale)[d] # None
    PROVE  Ids!ResolveIds(adv, r, t, Stale)[e] #
               Ids!ResolveIds(adv, r, t, Stale)[d]
<1> DEFINE R == Ids!ResolveIds(adv, r, t, Stale)
<1> SUFFICES ASSUME R[e] = R[d] PROVE FALSE
  OBVIOUS
<1>1. DOMAIN adv \subseteq Nat
  BY DEF DistinctNames
<1>2. PICK j \in DOMAIN adv :
         /\ adv[j].name = d /\ Ids!Accepts(adv, j, r, t, Stale)
         /\ R[d] = Ids!Candidate(adv[j], r, t, Stale)
  BY ResolvedAt
<1>3. PICK k \in DOMAIN adv :
         /\ adv[k].name = e /\ Ids!Accepts(adv, k, r, t, Stale)
         /\ R[e] = Ids!Candidate(adv[k], r, t, Stale)
  BY ResolvedAt
<1>4. Ids!Candidate(adv[j], r, t, Stale) = Ids!Candidate(adv[k], r, t, Stale)
  BY <1>2, <1>3
<1>5. ~(j < k)
  BY <1>3, <1>4 DEF Ids!Accepts
<1>6. ~(k < j)
  BY <1>2, <1>4 DEF Ids!Accepts
<1>7. j # k
  BY <1>2, <1>3
<1> QED BY <1>1, <1>5, <1>6, <1>7

\* When every entry has an id of its own, what is remembered does not matter.
LEMMA OwnIdsSettle ==
    ASSUME NEW adv, \A k \in DOMAIN adv : adv[k].id # None,
           NEW r, NEW t, NEW q, NEW u, DOMAIN q = DOMAIN r
    PROVE  Ids!ResolveIds(adv, r, t, Stale) = Ids!ResolveIds(adv, q, u, Stale)
<1>1. \A k \in DOMAIN adv :
         Ids!Candidate(adv[k], r, t, Stale) = Ids!Candidate(adv[k], q, u, Stale)
  BY DEF Ids!Candidate
<1>2. ASSUME NEW k \in DOMAIN adv
      PROVE  Ids!Accepts(adv, k, r, t, Stale) <=> Ids!Accepts(adv, k, q, u, Stale)
  BY <1>1 DEF Ids!Accepts
<1>3. ASSUME NEW d \in DOMAIN r
      PROVE  Ids!ResolveIds(adv, r, t, Stale)[d] =
                 Ids!ResolveIds(adv, q, u, Stale)[d]
  <2>1. CASE \E k \in DOMAIN adv :
                 adv[k].name = d /\ Ids!Accepts(adv, k, r, t, Stale)
    <3>1. (CHOOSE k \in DOMAIN adv : adv[k].name = d) \in DOMAIN adv
      BY <2>1
    <3>2. \E k \in DOMAIN adv :
                 adv[k].name = d /\ Ids!Accepts(adv, k, q, u, Stale)
      BY <2>1, <1>2
    <3> QED BY <2>1, <3>1, <3>2, <1>1 DEF Ids!ResolveIds
  <2>2. CASE ~\E k \in DOMAIN adv :
                 adv[k].name = d /\ Ids!Accepts(adv, k, r, t, Stale)
    BY <2>2, <1>2 DEF Ids!ResolveIds
  <2> QED BY <2>1, <2>2
<1> QED BY <1>3 DEF Ids!ResolveIds

-----------------------------------------------------------------------------
(* The inductive invariant.                                                *)

\* The cache is what was last heard of each daemon, as long as that was less
\* than stale_after before the last round.
CacheIsHeard ==
    \A d \in Names :
        cache[d] = IF heard[d] # None /\ roundAt - heard[d].at < Stale
                   THEN [value |-> heard[d].lease, last |-> heard[d].at]
                   ELSE None

\* An id in a daemon's last answer was told when that answer was given.
ToldWhenHeard ==
    \A d \in Names :
        (heard[d] # None /\ heard[d].lease.id # None) =>
            told[<<d, heard[d].lease.id>>] = heard[d].at

\* A remembered id was told less than one window before it was last noted.
KnownBacked ==
    \A d \in Names : known[d] # None =>
        /\ told[<<d, known[d].id>>] # None
        /\ known[d].seen - told[<<d, known[d].id>>] <= Stale - 1

\* What the pass asks for follows from the cache and the settled ids.
DesiredFollows == desired = Desired(Cache!View(cache), ids)

\* While every daemon's cached answer has an id of its own, the settled ids
\* do not depend on the remembered ones.
OwnIdsDecide ==
    (\A d \in Names : cache[d] # None /\ cache[d].value.id # None) =>
        ids = Ids!ResolveIds(Advertised(Cache!View(cache)), NoEntry, 0, Stale)

\* How far a pass without failures has brought the map and the routes.
PlanesSoFar ==
    clean => /\ pc = "remove" => dscp \ IdSet \subseteq todo
             /\ pc = "insert" => dscp \subseteq IdSet /\ IdSet \subseteq dscp \cup todo
             /\ pc = "idle" => dscp = IdSet /\ installed = desired

\* The first loop has no id in use before it and the second no other, so that
\* what was written and is still in use is never the loop's next victim.
LoopsApart ==
    /\ pc = "remove" => todo \cap IdSet = {}
    /\ pc = "insert" => todo \subseteq IdSet
    /\ marked \subseteq IdSet

RouterdInv ==
    /\ TypeOK
    /\ IdsUnambiguous
    /\ IdsBacked
    /\ CacheIsHeard
    /\ ToldWhenHeard
    /\ KnownBacked
    /\ DesiredFollows
    /\ OwnIdsDecide
    /\ PlanesSoFar
    /\ LoopsApart
    /\ MarksHold

-----------------------------------------------------------------------------
(* What a round computes.                                                  *)

LEMMA AdvertisedFacts ==
    ASSUME NEW view
    PROVE  /\ DistinctNames(Advertised(view))
           /\ DOMAIN Advertised(view) = DOMAIN Daemons
           /\ \A k \in DOMAIN Daemons :
                 /\ Advertised(view)[k].name = Daemons[k]
                 /\ Advertised(view)[k].id =
                       IF view[Daemons[k]] = None THEN None
                                                  ELSE view[Daemons[k]].id
<1>1. DOMAIN Advertised(view) = DOMAIN Daemons
  BY DEF Advertised
<1>2. ASSUME NEW k \in DOMAIN Daemons
      PROVE  /\ Advertised(view)[k].name = Daemons[k]
             /\ Advertised(view)[k].id =
                   IF view[Daemons[k]] = None THEN None
                                              ELSE view[Daemons[k]].id
  BY DEF Advertised
<1>3. DistinctNames(Advertised(view))
  BY <1>1, <1>2, DaemonsFacts, RouterdAssumption DEF DistinctNames
<1> QED BY <1>1, <1>2, <1>3

\* A source that is asked for is asked for towards a daemon of the view, by
\* the id that daemon was given.
LEMMA DesiredAt ==
    ASSUME NEW view, NEW given, NEW ip \in Ips,
           Desired(view, given)[ip] # None
    PROVE  \E d \in Names :
               /\ view[d] # None
               /\ SourceBased \/ given[d] # None
               /\ Desired(view, given)[ip] =
                     [daemon |-> d,
                      fwmark |-> IF SourceBased THEN None ELSE given[d]]
<1> DEFINE ks == {k \in DOMAIN Daemons :
                      /\ view[Daemons[k]] # None
                      /\ ip \in view[Daemons[k]].ips
                      /\ SourceBased \/ given[Daemons[k]] # None}
           last == CHOOSE k \in ks : \A j \in ks : j <= k
<1>1. Desired(view, given)[ip] =
         IF ks = {} THEN None
         ELSE [daemon |-> Daemons[last],
               fwmark |-> IF SourceBased THEN None ELSE given[Daemons[last]]]
  BY DEF Desired
<1>2. ks # {}
  BY <1>1
<1>3. \E k \in ks : \A j \in ks : j <= k
  <2>1. ks \in SUBSET (1..Len(Daemons))
    BY DaemonsFacts
  <2> HIDE DEF ks
  <2> QED BY <1>2, <2>1, LastExists, DaemonsFacts
<1>4. last \in ks
  <2> HIDE DEF ks
  <2> QED BY <1>3
<1>5. Daemons[last] \in Names
  BY <1>4, DaemonsFacts
<1> QED BY <1>1, <1>2, <1>4, <1>5

\* The candidates of a round are ids that were advertised or remembered.
LEMMA CandidateFacts ==
    ASSUME NEW adv, NEW k \in DOMAIN adv, adv[k].name \in Names,
           adv[k].id \in IdValues \cup {None},
           NEW r \in [Names -> [id : IdValues, seen : Nat] \cup {None}], NEW t
    PROVE  /\ Ids!Candidate(adv[k], r, t, Stale) \in IdValues \cup {None}
           /\ Ids!Accepts(adv, k, r, t, Stale) =>
                 /\ Ids!Candidate(adv[k], r, t, Stale) \in IdValues
                 /\ Ids!Candidate(adv[k], r, t, Stale) \in 1..DscpIdMax
<1>1. Ids!Candidate(adv[k], r, t, Stale) \in IdValues \cup {None}
  BY IdValuesNat DEF Ids!Candidate, Ids!RememberedIsFresh
<1>2. ASSUME Ids!Accepts(adv, k, r, t, Stale)
      PROVE  /\ Ids!Candidate(adv[k], r, t, Stale) # None
             /\ Ids!Candidate(adv[k], r, t, Stale) > 0
             /\ Ids!Candidate(adv[k], r, t, Stale) <= DscpIdMax
  BY <1>2 DEF Ids!Accepts, Ids!InRange
<1>3. ASSUME Ids!Accepts(adv, k, r, t, Stale)
      PROVE  Ids!Candidate(adv[k], r, t, Stale) \in IdValues
  BY <1>1, <1>2, <1>3
<1>4. \A c \in IdValues : c > 0 /\ c <= DscpIdMax => c \in 1..DscpIdMax
  BY IdValuesNat, RouterdAssumption
<1> QED BY <1>1, <1>2, <1>3, <1>4

\* A list of advertisements and the ids remembered at a time.
Advertisements(adv) ==
    /\ DistinctNames(adv)
    /\ \A k \in DOMAIN adv : /\ adv[k].name \in Names
                             /\ adv[k].id \in IdValues \cup {None}

Remembered == [Names -> [id : IdValues, seen : Nat] \cup {None}]

\* Whatever is remembered, resolve_ids gives each daemon at most one id, in
\* range, and no id to two daemons.
LEMMA SettledIds ==
    ASSUME NEW adv, Advertisements(adv), NEW r \in Remembered, NEW t
    PROVE  LET R == Ids!ResolveIds(adv, r, t, Stale)
           IN /\ R \in [Names -> IdValues \cup {None}]
              /\ \A d \in Names : R[d] # None =>
                    /\ R[d] \in 1..DscpIdMax
                    /\ \A e \in Names \ {d} : R[e] # R[d]
<1> DEFINE R == Ids!ResolveIds(adv, r, t, Stale)
<1>1. DOMAIN r = Names
  BY DEF Remembered
<1>2. DOMAIN R = Names /\ R = [d \in Names |-> R[d]]
  BY <1>1 DEF Ids!ResolveIds
<1>3. ASSUME NEW d \in Names, R[d] # None
      PROVE  R[d] \in IdValues /\ R[d] \in 1..DscpIdMax
  <2>1. PICK k \in DOMAIN adv :
           /\ adv[k].name = d
           /\ Ids!Accepts(adv, k, r, t, Stale)
           /\ R[d] = Ids!Candidate(adv[k], r, t, Stale)
    BY <1>1, <1>3, ResolvedAt DEF Advertisements
  <2> QED BY <2>1, CandidateFacts DEF Advertisements, Remembered
<1>4. ASSUME NEW d \in Names, R[d] # None, NEW e \in Names \ {d}
      PROVE  R[e] # R[d]
  BY <1>1, <1>4, ResolvedDistinct DEF Advertisements
<1>5. R \in [Names -> IdValues \cup {None}]
  <2> HIDE DEF R
  <2> QED BY <1>2, <1>3
<1> QED BY <1>3, <1>4, <1>5

\* What resolve_ids remembers: an id it has just accepted from the list, noted
\* now, or what it remembered before and that is fresh.
LEMMA RememberAt ==
    ASSUME NEW adv, Advertisements(adv), NEW r \in Remembered, NEW t \in Nat,
           NEW d \in Names,
           Ids!Remember(adv, r, t, Stale)[d] # None
    PROVE  \/ \E k \in DOMAIN adv :
                 /\ adv[k].name = d /\ adv[k].id \in IdValues
                 /\ Ids!Remember(adv, r, t, Stale)[d] =
                       [id |-> adv[k].id, seen |-> t]
           \/ /\ r[d] # None
              /\ Ids!Remember(adv, r, t, Stale)[d] = r[d]
<1>1. DOMAIN r = Names
  BY DEF Remembered
<1>2. CASE \E k \in DOMAIN adv :
               /\ adv[k].name = d
               /\ adv[k].id # None
               /\ Ids!Accepts(adv, k, r, t, Stale)
  <2>1. PICK k \in DOMAIN adv :
               /\ adv[k].name = d
               /\ adv[k].id # None
               /\ Ids!Accepts(adv, k, r, t, Stale)
    BY <1>2
  <2>2. (CHOOSE m \in DOMAIN adv : adv[m].name = d) = k
    BY <2>1 DEF Advertisements, DistinctNames
  <2>3. Ids!ResolveIds(adv, r, t, Stale)[d] = Ids!Candidate(adv[k], r, t, Stale)
    BY <1>1, <2>1, <2>2 DEF Ids!ResolveIds
  <2>4. Ids!Candidate(adv[k], r, t, Stale) = adv[k].id
    BY <2>1 DEF Ids!Candidate
  <2>5. Ids!Remember(adv, r, t, Stale)[d] =
           [id |-> Ids!ResolveIds(adv, r, t, Stale)[d], seen |-> t]
    BY <1>1, <1>2 DEF Ids!Remember
  <2> QED BY <2>1, <2>3, <2>4, <2>5 DEF Advertisements
<1>3. CASE ~\E k \in DOMAIN adv :
               /\ adv[k].name = d
               /\ adv[k].id # None
               /\ Ids!Accepts(adv, k, r, t, Stale)
  BY <1>1, <1>3 DEF Ids!Remember, Ids!RememberedIsFresh
<1> QED BY <1>2, <1>3

LEMMA RememberType ==
    ASSUME NEW adv, Advertisements(adv), NEW t \in Nat,
           NEW r \in [Names -> [id : IdValues, seen : 0..t] \cup {None}]
    PROVE  Ids!Remember(adv, r, t, Stale) \in
               [Names -> [id : IdValues, seen : 0..t] \cup {None}]
<1> DEFINE M == Ids!Remember(adv, r, t, Stale)
<1>1. r \in Remembered
  BY DEF Remembered
<1>2. M = [d \in Names |-> M[d]]
  BY DEF Ids!Remember
<1>3. ASSUME NEW d \in Names
      PROVE  M[d] \in [id : IdValues, seen : 0..t] \cup {None}
  <2>1. CASE M[d] = None
    BY <2>1
  <2>2. CASE \E k \in DOMAIN adv :
                adv[k].id \in IdValues /\ M[d] = [id |-> adv[k].id, seen |-> t]
    BY <2>2
  <2>3. CASE M[d] = r[d]
    BY <2>3
  <2> QED BY <1>1, <2>1, <2>2, <2>3, RememberAt
<1>4. M \in [Names -> [id : IdValues, seen : 0..t] \cup {None}]
  <2> HIDE DEF M
  <2> QED BY <1>2, <1>3
<1> QED BY <1>4

-----------------------------------------------------------------------------
(* Initial states.                                                         *)

\* Without answers no source is asked for.
LEMMA NothingDesired == Desired(Cache!View(NoEntry), NoEntry) = NoSteering
<1>1. \A d \in Names : Cache!View(NoEntry)[d] = None
  BY DEF Cache!View, NoEntry
<1>2. \A ip \in Ips : Desired(Cache!View(NoEntry), NoEntry)[ip] = None
  BY <1>1, DesiredAt
<1> QED BY <1>2 DEF Desired, NoSteering

\* With no daemon, or none that has been heard of, no id is settled.
LEMMA NothingSettled ==
    (\A d \in Names : NoEntry[d] # None) =>
        NoEntry = Ids!ResolveIds(Advertised(Cache!View(NoEntry)), NoEntry, 0, Stale)
<1> SUFFICES ASSUME \A d \in Names : NoEntry[d] # None
             PROVE  NoEntry = Ids!ResolveIds(Advertised(Cache!View(NoEntry)),
                                             NoEntry, 0, Stale)
  OBVIOUS
<1>1. Names = {}
  BY DEF NoEntry
<1> QED BY <1>1 DEF NoEntry, Ids!ResolveIds

\* A process that has just started satisfies the invariant: this is used for
\* the first process and for every restart.
Fresh ==
    /\ now \in 0..MaxTime /\ faults \in 0..MaxFaults /\ pc = "idle"
    /\ cache = NoEntry /\ known = NoEntry /\ ids = NoEntry
    /\ desired = NoSteering /\ dscp = {} /\ installed = NoSteering
    /\ todo = {} /\ clean = TRUE
    /\ heard = NoEntry /\ told = NeverTold /\ roundAt \in 0..now /\ marked = {}

LEMMA FreshProcess == Fresh => RouterdInv
<1> SUFFICES ASSUME Fresh PROVE RouterdInv
  OBVIOUS
<1> USE DEF Fresh
<1>1. TypeOK
  BY RouterdAssumption DEF TypeOK, NoEntry, NoSteering, NeverTold, Steered
<1>2. IdsUnambiguous /\ IdsBacked /\ ToldWhenHeard /\ KnownBacked
  BY DEF IdsUnambiguous, IdsBacked, ToldWhenHeard, KnownBacked, NoEntry
<1>3. CacheIsHeard
  BY DEF CacheIsHeard, NoEntry
<1>4. DesiredFollows
  BY NothingDesired DEF DesiredFollows
<1>5. OwnIdsDecide
  BY NothingSettled DEF OwnIdsDecide
<1>6. PlanesSoFar
  BY DEF PlanesSoFar, IdSet, IdsIn, NoEntry
<1>7. LoopsApart /\ MarksHold
  BY DEF LoopsApart, MarksHold
<1> QED BY <1>1, <1>2, <1>3, <1>4, <1>5, <1>6, <1>7 DEF RouterdInv

LEMMA InitInv == Init => RouterdInv
<1> SUFFICES ASSUME Init PROVE RouterdInv
  OBVIOUS
<1>1. now \in 0..MaxTime /\ faults \in 0..MaxFaults /\ roundAt \in 0..now
  BY RouterdAssumption DEF Init
<1> QED BY <1>1, FreshProcess DEF Init, Fresh

-----------------------------------------------------------------------------
(* Steps.                                                                  *)

LEMMA RestartInv == RouterdInv /\ Restart => RouterdInv'
<1>1. RouterdInv /\ Restart => Fresh'
  BY RouterdAssumption DEF RouterdInv, TypeOK, Restart, Fresh
<1>2. Fresh' => RouterdInv'
  BY FreshProcess, PTL
<1> QED BY <1>1, <1>2

\* The parts of the invariant that only a round can disturb.
LEMMA MemoryKept ==
    ASSUME RouterdInv,
           UNCHANGED <<cache, known, ids, desired, heard, told, roundAt>>
    PROVE  /\ IdsUnambiguous' /\ IdsBacked' /\ CacheIsHeard'
           /\ ToldWhenHeard' /\ KnownBacked' /\ DesiredFollows' /\ OwnIdsDecide'
<1>1. IdsUnambiguous' /\ IdsBacked'
  BY DEF RouterdInv, IdsUnambiguous, IdsBacked
<1>2. CacheIsHeard' /\ ToldWhenHeard' /\ KnownBacked'
  BY DEF RouterdInv, CacheIsHeard, ToldWhenHeard, KnownBacked
<1>3. DesiredFollows' /\ OwnIdsDecide'
  BY DEF RouterdInv, DesiredFollows, OwnIdsDecide
<1> QED BY <1>1, <1>2, <1>3

LEMMA TickInv == RouterdInv /\ Tick => RouterdInv'
<1> SUFFICES ASSUME RouterdInv, Tick PROVE RouterdInv'
  OBVIOUS
<1>1. TypeOK /\ UNCHANGED <<pc, cache, known, ids, desired, dscp, todo,
                            installed, heard, told, roundAt, marked, faults,
                            clean>>
  BY DEF RouterdInv, Tick, history, world
<1>2. now' \in 0..MaxTime /\ 0..now \subseteq 0..now'
  BY <1>1, RouterdAssumption DEF TypeOK, Tick
<1>3. /\ cache' \in [Names -> [value : Leases, last : 0..now'] \cup {None}]
      /\ known' \in [Names -> [id : IdValues, seen : 0..now'] \cup {None}]
  <2>1. \A d \in Names : /\ cache[d] \in [value : Leases, last : 0..now'] \cup {None}
                         /\ known[d] \in [id : IdValues, seen : 0..now'] \cup {None}
    BY <1>1, <1>2 DEF TypeOK
  <2> QED BY <1>1, <2>1 DEF TypeOK
<1>4. /\ heard' \in [Names -> [lease : Leases, at : 0..now'] \cup {None}]
      /\ told' \in [Names \X IdValues -> (0..now') \cup {None}]
  <2>1. \A d \in Names : heard[d] \in [lease : Leases, at : 0..now'] \cup {None}
    BY <1>1, <1>2 DEF TypeOK
  <2>2. \A q \in Names \X IdValues : told[q] \in (0..now') \cup {None}
    BY <1>1, <1>2 DEF TypeOK
  <2> QED BY <1>1, <2>1, <2>2 DEF TypeOK
<1>5. TypeOK'
  BY <1>1, <1>2, <1>3, <1>4 DEF TypeOK
<1>6. PlanesSoFar' /\ LoopsApart' /\ MarksHold'
  BY <1>1 DEF RouterdInv, PlanesSoFar, LoopsApart, MarksHold, IdSet
<1> QED BY <1>1, <1>5, <1>6, MemoryKept DEF RouterdInv

\* A step either fails within the bound or leaves the record of failures.
LEMMA WorldType ==
    ASSUME TypeOK, Fault \/ UNCHANGED world
    PROVE  faults' \in 0..MaxFaults /\ clean' \in BOOLEAN
<1>1. CASE Fault
  <2>1. faults' \in 0..MaxFaults
    BY <1>1, RouterdAssumption DEF Fault, TypeOK
  <2>2. clean' = FALSE
    BY <1>1 DEF Fault
  <2> QED BY <2>1, <2>2
<1>2. CASE UNCHANGED world
  <2>1. faults' = faults /\ clean' = clean
    BY <1>2 DEF world
  <2> QED BY <2>1 DEF TypeOK
<1> QED BY <1>1, <1>2

\* sync_ids: the map holds settled ids only after the first loop, and all of
\* them after the second, unless an operation failed.
LEMMA SyncRemoveInv ==
    ASSUME RouterdInv, NEW id \in IdValues, SyncRemove(id) PROVE RouterdInv'
<1>1. TypeOK /\ UNCHANGED <<now, pc, cache, known, ids, desired, installed,
                            heard, told, roundAt, marked>>
  BY DEF RouterdInv, SyncRemove, history
<1>2. /\ pc = "remove" /\ id \in todo /\ todo' = todo \ {id}
      /\ dscp \ {id} \subseteq dscp' /\ dscp' \subseteq dscp
      /\ clean' => clean /\ dscp' = dscp \ {id}
  BY DEF SyncRemove, Fault, world
<1>3. faults' \in 0..MaxFaults /\ clean' \in BOOLEAN
  BY <1>1, WorldType DEF SyncRemove
<1>4. TypeOK'
  BY <1>1, <1>2, <1>3 DEF TypeOK
<1>5. IdSet' = IdSet
  BY <1>1 DEF IdSet
<1>6. PlanesSoFar'
  BY <1>1, <1>2, <1>5 DEF RouterdInv, PlanesSoFar
<1>7. LoopsApart' /\ MarksHold'
  BY <1>1, <1>2, <1>5 DEF RouterdInv, LoopsApart, MarksHold
<1> QED BY <1>1, <1>4, <1>6, <1>7, MemoryKept DEF RouterdInv

LEMMA IdSetType == TypeOK => IdSet \subseteq IdValues
  BY DEF TypeOK, IdSet, IdsIn

LEMMA StartInsertInv == RouterdInv /\ StartInsert => RouterdInv'
<1> SUFFICES ASSUME RouterdInv, StartInsert PROVE RouterdInv'
  OBVIOUS
<1>1. TypeOK /\ UNCHANGED <<now, cache, known, ids, desired, dscp, installed,
                            heard, told, roundAt, marked, faults, clean>>
  BY DEF RouterdInv, StartInsert, history, world
<1>2. pc = "remove" /\ todo = {} /\ pc' = "insert" /\ todo' = IdSet
  BY DEF StartInsert
<1>3. IdSet' = IdSet
  BY <1>1 DEF IdSet
<1>4. TypeOK'
  BY <1>1, <1>2, IdSetType DEF TypeOK
<1>5. PlanesSoFar' /\ LoopsApart' /\ MarksHold'
  BY <1>1, <1>2, <1>3 DEF RouterdInv, PlanesSoFar, LoopsApart, MarksHold
<1> QED BY <1>1, <1>4, <1>5, MemoryKept DEF RouterdInv

LEMMA SyncInsertInv ==
    ASSUME RouterdInv, NEW id \in IdValues, SyncInsert(id) PROVE RouterdInv'
<1>1. TypeOK /\ UNCHANGED <<now, pc, cache, known, ids, desired, installed,
                            heard, told, roundAt>>
  BY DEF RouterdInv, SyncInsert, history
<1>2. /\ pc = "insert" /\ id \in todo /\ todo' \subseteq todo
      /\ \/ /\ dscp' = dscp \cup {id} /\ marked' = marked \cup {id}
            /\ todo' = todo \ {id} /\ clean' = clean
         \/ dscp' = dscp /\ marked' = marked /\ clean' = FALSE
  BY DEF SyncInsert, Fault, world
<1>3. faults' \in 0..MaxFaults /\ clean' \in BOOLEAN
  BY <1>1, WorldType DEF SyncInsert
<1>4. TypeOK'
  <2>1. dscp' \subseteq IdValues /\ marked' \subseteq IdValues /\ todo' \subseteq IdValues
    BY <1>1, <1>2 DEF TypeOK
  <2> QED BY <1>1, <1>3, <2>1 DEF TypeOK
<1>5. IdSet' = IdSet /\ todo \subseteq IdSet
  BY <1>1, <1>2 DEF IdSet, RouterdInv, LoopsApart
<1>6. PlanesSoFar'
  BY <1>1, <1>2, <1>5 DEF RouterdInv, PlanesSoFar
<1>7. LoopsApart' /\ MarksHold'
  BY <1>1, <1>2, <1>5 DEF RouterdInv, LoopsApart, MarksHold
<1> QED BY <1>1, <1>4, <1>6, <1>7, MemoryKept DEF RouterdInv

LEMMA ReconcileRoutesInv == RouterdInv /\ ReconcileRoutes => RouterdInv'
<1> SUFFICES ASSUME RouterdInv, ReconcileRoutes PROVE RouterdInv'
  OBVIOUS
<1>1. TypeOK /\ UNCHANGED <<now, cache, known, ids, desired, dscp, todo, heard,
                            told, roundAt, marked>>
  BY DEF RouterdInv, ReconcileRoutes, history
<1>2. None \in Steered
  BY DEF Steered
<1>3. installed' \in [Ips -> Steered]
  <2>1. CASE installed' = desired
    BY <1>1, <2>1 DEF TypeOK
  <2>2. CASE \E missed \in SUBSET Ips :
                \E keep \in SUBSET missed :
                    installed' = [ip \in Ips |->
                        IF ip \notin missed THEN desired[ip]
                        ELSE IF ip \in keep THEN installed[ip] ELSE None]
    BY <1>1, <1>2, <2>2 DEF TypeOK
  <2> QED BY <2>1, <2>2 DEF ReconcileRoutes
<1>4. faults' \in 0..MaxFaults /\ clean' \in BOOLEAN
  BY <1>1, WorldType DEF ReconcileRoutes
<1>5. TypeOK'
  BY <1>1, <1>3, <1>4 DEF TypeOK, ReconcileRoutes
<1>6. PlanesSoFar'
  BY <1>1 DEF RouterdInv, PlanesSoFar, ReconcileRoutes, Fault, world, IdSet
<1>7. LoopsApart' /\ MarksHold'
  BY <1>1 DEF RouterdInv, LoopsApart, MarksHold, ReconcileRoutes, IdSet
<1> QED BY <1>1, <1>5, <1>6, <1>7, MemoryKept DEF RouterdInv

\* The list a round hands to resolve_ids, from a cache with its type.
LEMMA AdvertisedType ==
    ASSUME NEW c \in [Names -> [value : Leases, last : Nat] \cup {None}]
    PROVE  /\ Advertisements(Advertised(Cache!View(c)))
           /\ \A k \in DOMAIN Daemons :
                 LET a == Advertised(Cache!View(c))[k]
                 IN a.id # None => /\ c[Daemons[k]] # None
                                   /\ a.id = c[Daemons[k]].value.id
<1> DEFINE V == Cache!View(c)
<1>1. \A k \in DOMAIN Daemons :
         /\ Daemons[k] \in Names
         /\ V[Daemons[k]] = IF c[Daemons[k]] = None THEN None
                                                   ELSE c[Daemons[k]].value
  BY DaemonsFacts, ViewAt
<1>2. ASSUME NEW k \in DOMAIN Daemons
      PROVE  V[Daemons[k]] \in Leases \cup {None}
  <2> HIDE DEF V
  <2>1. c[Daemons[k]] \in [value : Leases, last : Nat] \cup {None}
    BY <1>1
  <2> QED BY <1>1, <2>1
<1>3. \A l \in Leases : l # None /\ l.id \in IdValues \cup {None}
  BY RouterdAssumption DEF IdValues
<1>4. \A k \in DOMAIN Daemons :
         /\ Advertised(V)[k].name \in Names
         /\ Advertised(V)[k].id \in IdValues \cup {None}
  <2> HIDE DEF V
  <2>1. \A k \in DOMAIN Daemons :
           /\ Advertised(V)[k].name = Daemons[k]
           /\ Advertised(V)[k].id = IF V[Daemons[k]] = None THEN None
                                    ELSE V[Daemons[k]].id
    BY AdvertisedFacts
  <2> QED BY <1>1, <1>2, <1>3, <2>1
<1>5. Advertisements(Advertised(V))
  <2> HIDE DEF V
  <2> QED BY <1>4, AdvertisedFacts DEF Advertisements
<1>6. \A k \in DOMAIN Daemons : Advertised(V)[k].id # None =>
         /\ c[Daemons[k]] # None
         /\ Advertised(V)[k].id = c[Daemons[k]].value.id
  <2> HIDE DEF V
  <2> QED BY <1>1, AdvertisedFacts
<1> QED BY <1>5, <1>6

\* What is asked for has its type.
LEMMA DesiredType ==
    ASSUME NEW view, NEW given \in [Names -> IdValues \cup {None}]
    PROVE  Desired(view, given) \in [Ips -> Steered]
<1> DEFINE D == Desired(view, given)
<1>1. D = [ip \in Ips |-> D[ip]]
  BY DEF Desired
<1>2. ASSUME NEW ip \in Ips PROVE D[ip] \in Steered
  <2>1. CASE D[ip] = None
    BY <2>1 DEF Steered
  <2>2. CASE D[ip] # None
    <3>1. PICK d \in Names :
             D[ip] = [daemon |-> d,
                      fwmark |-> IF SourceBased THEN None ELSE given[d]]
      BY <2>2, DesiredAt
    <3> HIDE DEF D
    <3> QED BY <3>1 DEF Steered
  <2> QED BY <2>1, <2>2
<1>3. D \in [Ips -> Steered]
  <2> HIDE DEF D
  <2> QED BY <1>1, <1>2
<1> QED BY <1>3

\* The cache and the two histories after a round.
LEMMA RoundMemory ==
    ASSUME RouterdInv, NEW replies \in Replies, Round(replies)
    PROVE  /\ now \in Nat /\ now' = now /\ roundAt' = now
           /\ cache' \in [Names -> [value : Leases, last : 0..now] \cup {None}]
           /\ heard' \in [Names -> [lease : Leases, at : 0..now] \cup {None}]
           /\ told' \in [Names \X IdValues -> (0..now) \cup {None}]
           /\ CacheIsHeard'
           /\ ToldWhenHeard'
<1>1. /\ now \in Nat /\ now' = now /\ roundAt' = now /\ roundAt \in 0..now
      /\ now \in 0..now /\ Stale \in Nat /\ TypeOK
  BY RouterdAssumption DEF RouterdInv, TypeOK, Round
<1>2. DOMAIN cache = Names
  BY <1>1 DEF TypeOK
<1>3. cache' = Cache!ApplyRound(cache, replies, now, Stale)
  BY DEF Round
<1>4. ASSUME NEW d \in Names
      PROVE  /\ heard[d] \in [lease : Leases, at : 0..now] \cup {None}
             /\ cache[d] \in [value : Leases, last : 0..now] \cup {None}
             /\ replies[d] \in Leases \cup {Failed}
             /\ heard'[d] = IF replies[d] = Failed THEN heard[d]
                            ELSE [lease |-> replies[d], at |-> now]
             /\ cache[d] = IF heard[d] # None /\ roundAt - heard[d].at < Stale
                           THEN [value |-> heard[d].lease, last |-> heard[d].at]
                           ELSE None
  BY <1>1 DEF TypeOK, Replies, Round, RouterdInv, CacheIsHeard
<1>5. ASSUME NEW d \in Names
      PROVE  /\ replies[d] # Failed => cache'[d] = [value |-> replies[d], last |-> now]
             /\ (replies[d] = Failed /\ Cache!Holds(cache[d], now, Stale)) =>
                   cache'[d] = cache[d]
             /\ (replies[d] = Failed /\ ~Cache!Holds(cache[d], now, Stale)) =>
                   cache'[d] = None
  <2>1. d \in DOMAIN cache
    BY <1>2
  <2>2. /\ replies[d] # Failed =>
              Cache!ApplyRound(cache, replies, now, Stale)[d] =
                     [value |-> replies[d], last |-> now]
        /\ (replies[d] = Failed /\ Cache!Holds(cache[d], now, Stale)) =>
              Cache!ApplyRound(cache, replies, now, Stale)[d] = cache[d]
        /\ (replies[d] = Failed /\ ~Cache!Holds(cache[d], now, Stale)) =>
              Cache!ApplyRound(cache, replies, now, Stale)[d] = None
    BY <2>1, ApplyRoundAt
  <2> QED BY <1>3, <2>2, Zenon
<1>6. None \notin [value : Leases, last : Nat] /\ None \notin [lease : Leases, at : Nat]
      /\ Failed \notin Leases /\ None \notin Leases
  BY RouterdAssumption
<1>7. ASSUME NEW d \in Names
      PROVE  /\ cache'[d] \in [value : Leases, last : 0..now] \cup {None}
             /\ heard'[d] \in [lease : Leases, at : 0..now] \cup {None}
             /\ cache'[d] = IF heard'[d] # None /\ now - heard'[d].at < Stale
                            THEN [value |-> heard'[d].lease, last |-> heard'[d].at]
                            ELSE None
  <2>1. CASE replies[d] # Failed
    <3>1. cache'[d] = [value |-> replies[d], last |-> now]
      BY <1>5, <2>1
    <3>2. heard'[d] = [lease |-> replies[d], at |-> now] /\ replies[d] \in Leases
      BY <1>4, <2>1
    <3>3. heard'[d] # None
      BY <3>2, <1>1, <1>6
    <3>4. Stale > 0
      BY RouterdAssumption
    <3> QED BY <3>1, <3>2, <3>3, <3>4, <1>1
  <2>2. CASE replies[d] = Failed /\ heard[d] = None
    <3>1. cache[d] = None /\ heard'[d] = None
      BY <1>4, <2>2
    <3>2. ~Cache!Holds(cache[d], now, Stale)
      BY <3>1 DEF Cache!Holds
    <3>3. cache'[d] = None
      BY <1>5, <2>2, <3>2
    <3> QED BY <3>1, <3>3
  <2>3. CASE replies[d] = Failed /\ heard[d] # None
    <3>1. heard'[d] = heard[d] /\ heard[d] \in [lease : Leases, at : 0..now]
      BY <1>4, <2>3
    <3>2. heard[d].at \in 0..now /\ heard[d].lease \in Leases
      BY <3>1
    <3>3. CASE now - heard[d].at < Stale
      <4>1. roundAt - heard[d].at < Stale
        BY <1>1, <3>2, <3>3
      <4>2. cache[d] = [value |-> heard[d].lease, last |-> heard[d].at]
        BY <1>4, <2>3, <4>1
      <4>3. cache[d] # None /\ cache[d].last = heard[d].at
        BY <4>2, <3>2, <1>6
      <4>4. Cache!Holds(cache[d], now, Stale)
        BY <4>3, <3>3 DEF Cache!Holds
      <4>5. cache'[d] = cache[d]
        BY <1>5, <2>3, <4>4
      <4> QED BY <3>1, <3>3, <4>2, <4>5, <2>3, <1>4
    <3>4. CASE ~(now - heard[d].at < Stale)
      <4>1. ~Cache!Holds(cache[d], now, Stale)
        <5>1. CASE cache[d] = None
          BY <5>1 DEF Cache!Holds
        <5>2. CASE cache[d] # None
          <6>1. cache[d] = [value |-> heard[d].lease, last |-> heard[d].at]
            BY <1>4, <5>2
          <6>2. cache[d].last = heard[d].at
            BY <6>1
          <6> QED BY <6>2, <3>4 DEF Cache!Holds
        <5> QED BY <5>1, <5>2
      <4>2. cache'[d] = None
        BY <1>5, <2>3, <4>1
      <4> QED BY <3>1, <3>4, <4>2, <1>4
    <3> QED BY <3>3, <3>4
  <2> QED BY <2>1, <2>2, <2>3
<1>8. cache' = [d \in Names |-> cache'[d]]
  BY <1>2, <1>3 DEF Cache!ApplyRound
<1>9. heard' = [d \in Names |-> heard'[d]]
  BY DEF Round
<1>10. cache' \in [Names -> [value : Leases, last : 0..now] \cup {None}]
  BY <1>7, <1>8
<1>11. heard' \in [Names -> [lease : Leases, at : 0..now] \cup {None}]
  BY <1>7, <1>9
<1>12. told' \in [Names \X IdValues -> (0..now) \cup {None}]
  <2>1. \A q \in Names \X IdValues : told[q] \in (0..now) \cup {None}
    BY <1>1 DEF TypeOK
  <2>2. told' = [q \in Names \X IdValues |->
                   IF replies[q[1]] # Failed /\ replies[q[1]].id = q[2]
                   THEN now ELSE told[q]]
    BY DEF Round
  <2> QED BY <1>1, <2>1, <2>2
<1>13. CacheIsHeard'
  BY <1>1, <1>7 DEF CacheIsHeard
<1>14. ToldWhenHeard'
  <2> SUFFICES ASSUME NEW d \in Names, heard'[d] # None,
                      heard'[d].lease.id # None
               PROVE  told'[<<d, heard'[d].lease.id>>] = heard'[d].at
    BY DEF ToldWhenHeard
  <2>1. heard'[d].lease \in Leases
    BY <1>7
  <2>2. heard'[d].lease.id \in IdValues
    BY <2>1 DEF IdValues
  <2>3. told'[<<d, heard'[d].lease.id>>] =
           IF replies[d] # Failed /\ replies[d].id = heard'[d].lease.id
           THEN now ELSE told[<<d, heard'[d].lease.id>>]
    BY <2>2 DEF Round
  <2>4. CASE replies[d] = Failed
    <3>1. heard'[d] = heard[d]
      BY <1>4, <2>4
    <3> QED BY <2>3, <2>4, <3>1 DEF RouterdInv, ToldWhenHeard
  <2>5. CASE replies[d] # Failed
    <3>1. heard'[d] = [lease |-> replies[d], at |-> now]
      BY <1>4, <2>5
    <3> QED BY <2>3, <2>5, <3>1
  <2> QED BY <2>4, <2>5
<1> QED BY <1>1, <1>10, <1>11, <1>12, <1>13, <1>14

\* A candidate of a round is told, and not longer ago than the two windows.
LEMMA RoundIds ==
    ASSUME RouterdInv, NEW replies \in Replies, Round(replies)
    PROVE  /\ known' \in [Names -> [id : IdValues, seen : 0..now] \cup {None}]
           /\ ids' \in [Names -> IdValues \cup {None}]
           /\ IdsUnambiguous' /\ IdsBacked' /\ KnownBacked' /\ OwnIdsDecide'
<1> DEFINE adv == Advertised(Cache!View(cache'))
<1>1. /\ known' = Ids!Remember(adv, known, now, Stale)
      /\ ids' = Ids!ResolveIds(adv, known, now, Stale)
  BY DEF Round
<1>2. /\ now \in Nat /\ roundAt' = now /\ Stale \in Nat
      /\ cache' \in [Names -> [value : Leases, last : 0..now] \cup {None}]
      /\ heard' \in [Names -> [lease : Leases, at : 0..now] \cup {None}]
      /\ told' \in [Names \X IdValues -> (0..now) \cup {None}]
      /\ CacheIsHeard' /\ ToldWhenHeard'
  BY RoundMemory, RouterdAssumption
<1>3. known \in [Names -> [id : IdValues, seen : 0..now] \cup {None}]
  BY DEF RouterdInv, TypeOK
<1>4. known \in Remembered
  BY <1>2, <1>3 DEF Remembered
<1>5. cache' \in [Names -> [value : Leases, last : Nat] \cup {None}]
  BY <1>2
<1>6. /\ Advertisements(adv)
      /\ \A k \in DOMAIN Daemons : adv[k].id # None =>
            /\ cache'[Daemons[k]] # None
            /\ adv[k].id = cache'[Daemons[k]].value.id
  BY <1>5, AdvertisedType
<1>7. /\ DOMAIN adv = DOMAIN Daemons
      /\ \A k \in DOMAIN adv :
            /\ adv[k].name = Daemons[k]
            /\ adv[k].id = IF Cache!View(cache')[Daemons[k]] = None THEN None
                           ELSE Cache!View(cache')[Daemons[k]].id
  BY AdvertisedFacts
<1>8. ASSUME NEW k \in DOMAIN adv, adv[k].id # None
      PROVE  /\ told'[<<adv[k].name, adv[k].id>>] \in 0..now
             /\ now - told'[<<adv[k].name, adv[k].id>>] <= Stale - 1
  <2> DEFINE d == Daemons[k]
  <2>1. d \in Names /\ adv[k].name = d /\ cache'[d] # None
        /\ adv[k].id = cache'[d].value.id
    BY <1>6, <1>7, <1>8, DaemonsFacts
  <2>2. /\ heard'[d] # None /\ now - heard'[d].at < Stale
        /\ cache'[d] = [value |-> heard'[d].lease, last |-> heard'[d].at]
    BY <1>2, <2>1 DEF CacheIsHeard
  <2>3. heard'[d].at \in 0..now /\ adv[k].id = heard'[d].lease.id
    BY <1>2, <2>1, <2>2
  <2>4. told'[<<d, adv[k].id>>] = heard'[d].at
    BY <1>2, <1>8, <2>1, <2>2, <2>3 DEF ToldWhenHeard
  <2> HIDE DEF d
  <2> QED BY <1>2, <2>1, <2>2, <2>3, <2>4
<1>9. ASSUME NEW d \in Names, known[d] # None
      PROVE  /\ known[d].id \in IdValues /\ known[d].seen \in 0..now
             /\ told'[<<d, known[d].id>>] \in 0..now
             /\ known[d].seen - told'[<<d, known[d].id>>] <= Stale - 1
  <2>1. known[d].id \in IdValues /\ known[d].seen \in 0..now
    BY <1>3, <1>9
  <2>2. /\ told[<<d, known[d].id>>] # None
        /\ known[d].seen - told[<<d, known[d].id>>] <= Stale - 1
    BY <1>9 DEF RouterdInv, KnownBacked
  <2>3. told[<<d, known[d].id>>] \in 0..now
    <3>1. told \in [Names \X IdValues -> (0..now) \cup {None}]
      BY DEF RouterdInv, TypeOK
    <3> QED BY <2>1, <2>2, <3>1
  <2>4. told'[<<d, known[d].id>>] = told[<<d, known[d].id>>]
        \/ told'[<<d, known[d].id>>] = now
    BY <2>1 DEF Round
  <2>5. now \in 0..now /\ Stale - 1 >= 0
    BY <1>2, RouterdAssumption
  <2> QED BY <1>2, <2>1, <2>2, <2>3, <2>4, <2>5
<1>10. known' \in [Names -> [id : IdValues, seen : 0..now] \cup {None}]
  <2> HIDE DEF adv
  <2> QED BY <1>1, <1>2, <1>3, <1>6, RememberType
<1>11. /\ ids' \in [Names -> IdValues \cup {None}]
       /\ \A d \in Names : ids'[d] # None =>
                    /\ ids'[d] \in 1..DscpIdMax
                    /\ \A e \in Names \ {d} : ids'[e] # ids'[d]
  <2> HIDE DEF adv
  <2> QED BY <1>1, <1>4, <1>6, SettledIds
<1>12. IdsUnambiguous'
  BY <1>11 DEF IdsUnambiguous
<1>13. IdsBacked'
  <2> SUFFICES ASSUME NEW d \in Names, ids'[d] # None
               PROVE  /\ told'[<<d, ids'[d]>>] # None
                      /\ now - told'[<<d, ids'[d]>>] <= 2 * (Stale - 1)
    BY <1>2 DEF IdsBacked
  <2>1. PICK k \in DOMAIN adv :
           /\ adv[k].name = d
           /\ ids'[d] = Ids!Candidate(adv[k], known, now, Stale)
    <3> HIDE DEF adv
    <3>1. d \in DOMAIN known
      BY <1>3
    <3> QED BY <1>1, <1>6, <3>1, ResolvedAt DEF Advertisements
  <2>2. Stale - 1 >= 0 /\ None \notin 0..now
    BY RouterdAssumption, <1>2
  <2>3. CASE adv[k].id # None
    <3>1. ids'[d] = adv[k].id
      BY <2>1, <2>3 DEF Ids!Candidate
    <3>2. told'[<<d, ids'[d]>>] \in 0..now /\ now - told'[<<d, ids'[d]>>] <= Stale - 1
      BY <1>8, <2>1, <2>3, <3>1
    <3> HIDE DEF adv
    <3> QED BY <3>2, <2>2, <1>2
  <2>4. CASE adv[k].id = None
    <3>1. /\ known[d] # None /\ now - known[d].seen < Stale
          /\ ids'[d] = known[d].id
      BY <2>1, <2>4 DEF Ids!Candidate, Ids!RememberedIsFresh
    <3>2. /\ known[d].seen \in 0..now
          /\ told'[<<d, ids'[d]>>] \in 0..now
          /\ known[d].seen - told'[<<d, ids'[d]>>] <= Stale - 1
      BY <1>9, <3>1
    <3> HIDE DEF adv
    <3> QED BY <3>1, <3>2, <2>2, <1>2
  <2> QED BY <2>3, <2>4
<1>14. KnownBacked'
  <2> SUFFICES ASSUME NEW d \in Names, known'[d] # None
               PROVE  /\ told'[<<d, known'[d].id>>] # None
                      /\ known'[d].seen - told'[<<d, known'[d].id>>] <= Stale - 1
    BY DEF KnownBacked
  <2>1. None \notin 0..now
    BY RouterdAssumption, <1>2
  <2>2. CASE \E k \in DOMAIN adv :
                /\ adv[k].name = d /\ adv[k].id \in IdValues
                /\ known'[d] = [id |-> adv[k].id, seen |-> now]
    <3>1. PICK k \in DOMAIN adv :
                /\ adv[k].name = d /\ adv[k].id \in IdValues
                /\ known'[d] = [id |-> adv[k].id, seen |-> now]
      BY <2>2
    <3>2. adv[k].id # None
      BY <3>1, IdValuesNat
    <3>3. told'[<<d, adv[k].id>>] \in 0..now /\ now - told'[<<d, adv[k].id>>] <= Stale - 1
      BY <1>8, <3>1, <3>2
    <3>4. known'[d].id = adv[k].id /\ known'[d].seen = now
      BY <3>1
    <3> HIDE DEF adv
    <3> QED BY <3>3, <3>4, <2>1
  <2>3. CASE known[d] # None /\ known'[d] = known[d]
    BY <1>9, <2>1, <2>3
  <2> HIDE DEF adv
  <2> QED BY <1>1, <1>2, <1>4, <1>6, <2>2, <2>3, RememberAt
<1>15. OwnIdsDecide'
  <2> SUFFICES ASSUME \A d \in Names : cache'[d] # None /\ cache'[d].value.id # None
               PROVE  ids' = Ids!ResolveIds(adv, NoEntry, 0, Stale)
    BY DEF OwnIdsDecide
  <2>1. ASSUME NEW k \in DOMAIN adv PROVE adv[k].id # None
    <3>1. Daemons[k] \in Names
      BY <1>7, DaemonsFacts
    <3>2. Cache!View(cache')[Daemons[k]] = cache'[Daemons[k]].value
      BY <1>2, <3>1, ViewAt
    <3>3. cache'[Daemons[k]].value \in Leases
      BY <1>2, <3>1
    <3> QED BY <1>7, <3>1, <3>2, <3>3, RouterdAssumption
  <2>2. DOMAIN NoEntry = DOMAIN known
    BY <1>3 DEF NoEntry
  <2> HIDE DEF adv
  <2> QED BY <1>1, <2>1, <2>2, OwnIdsSettle
<1> QED BY <1>10, <1>11, <1>12, <1>13, <1>14, <1>15

\* A round: the heart of the argument.
LEMMA RoundInv ==
    ASSUME RouterdInv, NEW replies \in Replies, Round(replies)
    PROVE  RouterdInv'
<1>1. /\ now' = now /\ roundAt' = now /\ pc' = "remove" /\ clean' = TRUE
      /\ UNCHANGED <<dscp, installed, faults>>
      /\ desired' = Desired(Cache!View(cache'), ids')
  BY DEF Round
<1>2. TypeOK
  BY DEF RouterdInv
<1>3. desired' \in [Ips -> Steered]
  BY <1>1, RoundIds, DesiredType
<1>4. roundAt' \in 0..now' /\ now \in 0..MaxTime
  BY <1>1, <1>2 DEF TypeOK
<1>5. todo' = dscp \ IdSet' /\ marked' = marked \cap IdSet'
  BY DEF Round, StaleKeys, IdSet, IdsIn
<1>6. TypeOK'
  <2>1. todo' \subseteq IdValues /\ marked' \subseteq IdValues
    BY <1>2, <1>5 DEF TypeOK
  <2> QED BY <1>1, <1>2, <1>3, <1>4, <2>1, RoundMemory, RoundIds DEF TypeOK
<1>7. DesiredFollows'
  BY <1>1 DEF DesiredFollows
<1>8. PlanesSoFar' /\ LoopsApart' /\ MarksHold'
  BY <1>1, <1>5 DEF RouterdInv, PlanesSoFar, LoopsApart, MarksHold
<1> QED BY <1>6, <1>7, <1>8, RoundMemory, RoundIds DEF RouterdInv

-----------------------------------------------------------------------------
(* Theorems.                                                               *)

LEMMA StutterInv == RouterdInv /\ UNCHANGED vars => RouterdInv'
<1> SUFFICES ASSUME RouterdInv, UNCHANGED vars PROVE RouterdInv'
  OBVIOUS
<1>1. TypeOK'
  BY DEF vars, RouterdInv, TypeOK
<1>2. PlanesSoFar' /\ LoopsApart' /\ MarksHold'
  BY DEF vars, RouterdInv, PlanesSoFar, LoopsApart, MarksHold, IdSet
<1> QED BY <1>1, <1>2, MemoryKept DEF RouterdInv, vars

\* The invariant the results below follow from: what the cache and the
\* remembered ids owe to the daemons' answers, what the settled ids and the
\* wanted steering owe to the cache, and how far the pass has brought the map
\* and the routes (reconcile_via_daemons, reconcile.rs).
THEOREM InvAlways == Spec => []RouterdInv
<1>1. RouterdInv /\ [Next]_vars => RouterdInv'
  <2> SUFFICES ASSUME RouterdInv, [Next]_vars PROVE RouterdInv'
    OBVIOUS
  <2>1. ASSUME NEW replies \in Replies, Round(replies) PROVE RouterdInv'
    BY <2>1, RoundInv
  <2>2. ASSUME NEW id \in IdValues, SyncRemove(id) \/ SyncInsert(id)
        PROVE  RouterdInv'
    BY <2>2, SyncRemoveInv, SyncInsertInv
  <2>3. CASE StartInsert
    BY <2>3, StartInsertInv
  <2>4. CASE ReconcileRoutes
    BY <2>4, ReconcileRoutesInv
  <2>5. CASE Tick
    BY <2>5, TickInv
  <2>6. CASE Restart
    BY <2>6, RestartInv
  <2>7. CASE UNCHANGED vars
    BY <2>7, StutterInv
  <2> QED BY <2>1, <2>2, <2>3, <2>4, <2>5, <2>6, <2>7 DEF Next
<1> QED BY InitInv, <1>1, PTL DEF Spec

\* Every variable of a reconcile pass keeps its type, and no recorded time
\* lies in the future.
THEOREM TypeAlways == Spec => []TypeOK
<1>1. RouterdInv => TypeOK
  BY DEF RouterdInv
<1> QED BY InvAlways, <1>1, PTL

\* Whatever mixture of fresh, cached and remembered ids the rounds have worked
\* from, resolve_ids never lets two daemons steer by one id, nor any daemon
\* by an id outside 1..DSCP_ID_MAX.
THEOREM IdsAlwaysUnambiguous == Spec => []IdsUnambiguous
<1>1. RouterdInv => IdsUnambiguous
  BY DEF RouterdInv
<1> QED BY InvAlways, <1>1, PTL

\* An id in use was advertised by its daemon, and less than two staleness
\* windows before the round that uses it: the cache's window and known_ids'
\* window chain once and no further.
THEOREM IdsAlwaysBacked == Spec => []IdsBacked
<1>1. RouterdInv => IdsBacked
  BY DEF RouterdInv
<1> QED BY InvAlways, <1>1, PTL

\* A pass works from each daemon's last answer for exactly as long as that
\* answer is younger than stale_after (apply_round of cache.rs).
THEOREM LeasesAlwaysHeld == Spec => []LeasesHeld
<1>1. RouterdInv => LeasesHeld
  BY DEF RouterdInv, CacheIsHeard, LeasesHeld
<1> QED BY InvAlways, <1>1, PTL

\* After a pass without failed operations the DSCP_IDS map, the installed
\* rules and the settled ids agree, whatever earlier passes left behind.
THEOREM PlanesAlwaysAgree == Spec => []PlanesAgree
<1>1. RouterdInv => PlanesAgree
  <2> SUFFICES ASSUME RouterdInv, pc = "idle", clean
               PROVE  /\ dscp = IdSet
                      /\ \A ip \in Ips : installed[ip] # None /\ ~SourceBased =>
                            /\ installed[ip].fwmark \in dscp
                            /\ installed[ip].fwmark = ids[installed[ip].daemon]
    BY DEF PlanesAgree
  <2>1. dscp = IdSet /\ installed = Desired(Cache!View(cache), ids)
    BY DEF RouterdInv, PlanesSoFar, DesiredFollows
  <2>2. ASSUME NEW ip \in Ips, installed[ip] # None, ~SourceBased
        PROVE  /\ installed[ip].fwmark \in dscp
               /\ installed[ip].fwmark = ids[installed[ip].daemon]
    <3>1. PICK d \in Names :
             /\ SourceBased \/ ids[d] # None
             /\ installed[ip] =
                   [daemon |-> d,
                    fwmark |-> IF SourceBased THEN None ELSE ids[d]]
      BY <2>1, <2>2, DesiredAt
    <3>2. installed[ip].daemon = d /\ installed[ip].fwmark = ids[d] /\ ids[d] # None
      BY <2>2, <3>1
    <3> QED BY <2>1, <3>2 DEF IdSet, IdsIn
  <2> QED BY <2>1, <2>2
<1> QED BY InvAlways, <1>1, PTL

\* A round that brings nothing new, inside the window, asks for the steering
\* the last one asked for: known_ids may have moved on, but cannot matter.
THEOREM OutagesKeepRoutes == Spec => OutageKeepsRoutes
<1>1. RouterdInv /\ RouterdInv' /\ [Next]_vars =>
         [\A replies \in Replies :
             NoNews(replies) /\ Round(replies) => desired' = desired]_vars
  <2> SUFFICES ASSUME RouterdInv, RouterdInv', NEW replies \in Replies,
                      NoNews(replies), Round(replies)
               PROVE  desired' = desired
    OBVIOUS
  <2>1. /\ roundAt' = now /\ TypeOK /\ TypeOK'
        /\ now \in Nat /\ roundAt \in 0..now /\ Stale \in Nat /\ Stale > 0
    BY RouterdAssumption DEF RouterdInv, TypeOK, Round
  <2>2. ASSUME NEW d \in Names
        PROVE  /\ cache[d] # None /\ cache'[d] # None
               /\ cache[d].value = heard[d].lease
               /\ cache'[d].value = heard[d].lease
               /\ heard[d].lease.id # None
    <3>1. /\ heard[d] # None /\ now - heard[d].at < Stale
          /\ heard[d].lease.id # None
          /\ replies[d] \in {Failed, heard[d].lease}
      BY DEF NoNews
    <3>2. heard[d].at \in 0..now /\ heard[d].lease \in Leases
      BY <2>1, <3>1 DEF TypeOK
    <3>3. heard'[d] = IF replies[d] = Failed THEN heard[d]
                      ELSE [lease |-> replies[d], at |-> now]
      BY DEF Round
    <3>4. None \notin [value : Leases, last : Nat] /\ None \notin [lease : Leases, at : Nat]
      BY RouterdAssumption
    <3>5. /\ heard'[d] # None /\ heard'[d].lease = heard[d].lease
          /\ heard'[d].at \in 0..now /\ now - heard'[d].at < Stale
      BY <2>1, <3>1, <3>2, <3>3, <3>4
    <3>6. roundAt - heard[d].at < Stale
      BY <2>1, <3>1, <3>2
    <3>7. cache[d] = [value |-> heard[d].lease, last |-> heard[d].at]
      BY <3>1, <3>6 DEF RouterdInv, CacheIsHeard
    <3>8. cache'[d] = [value |-> heard'[d].lease, last |-> heard'[d].at]
      BY <2>1, <3>5 DEF RouterdInv, CacheIsHeard
    <3> QED BY <3>1, <3>2, <3>4, <3>5, <3>7, <3>8
  <2>3. Cache!View(cache') = Cache!View(cache)
    <3>1. DOMAIN cache = Names /\ DOMAIN cache' = Names
      BY <2>1 DEF TypeOK
    <3> QED BY <2>2, <3>1 DEF Cache!View
  <2>4. ids' = ids
    <3>1. ids = Ids!ResolveIds(Advertised(Cache!View(cache)), NoEntry, 0, Stale)
      BY <2>2 DEF RouterdInv, OwnIdsDecide
    <3>2. ids' = Ids!ResolveIds(Advertised(Cache!View(cache')), NoEntry, 0, Stale)
      BY <2>2 DEF RouterdInv, OwnIdsDecide
    <3> QED BY <2>3, <3>1, <3>2
  <2> QED BY <2>3, <2>4 DEF RouterdInv, DesiredFollows
<1> QED BY InvAlways, <1>1, PTL DEF Spec, OutageKeepsRoutes

\* Whatever fails, an id that was written to DSCP_IDS is found there by every
\* packet that is classified until a round settles without that id: no map
\* operation of any later pass takes it out (sync_ids).
THEOREM MarksAlwaysHold == Spec => []MarksHold
<1>1. RouterdInv => MarksHold
  BY DEF RouterdInv
<1> QED BY InvAlways, <1>1, PTL
=============================================================================
