----------------------------- MODULE K8sProofs ------------------------------
(***************************************************************************)
(* The pool of an address that a host keeps is not taken down for another  *)
(* host's outage, nor for a short one of its own: for every number of      *)
(* hosts and addresses and every staleness window.                         *)
(***************************************************************************)
EXTENDS K8sReconcile, TLAPS, NaturalsInduction, WellFoundedInduction

Ages == 0..Old
PoolType == [listed : BOOLEAN, age : Ages \cup {None}]

K8sTypes ==
    /\ held \in [Hosts -> SUBSET Ips]
    /\ pools \in [Ips -> PoolType \cup {None}]
    /\ pc \in {"idle", "fetch", "ensure", "touch", "prune"}
    /\ fetched \in [Hosts -> (SUBSET Ips) \cup {None, Failed}]
    /\ allHostsOk \in BOOLEAN
    /\ current \in [Ips -> Ages \cup {None, Failed}]
    /\ lag \in Ages
    /\ desired \subseteq Ips
    /\ todo \subseteq Ips

\* An address that was held since the pass began is held now.
SteadyIsHeld == steady \subseteq HeldBySome

\* A host that holds such an address has reported it, if it has answered;
\* between passes there are no answers.
SteadyReported ==
    /\ pc = "idle" => \A h \in Hosts : fetched[h] = None
    /\ pc = "fetch" =>
        \A h \in Hosts : \A ip \in held[h] \cap steady :
            fetched[h] \in {None, Failed} \/ ip \in fetched[h]

\* If the host that holds it has answered, such an address is among the
\* desired ones, and the second loop does not come to it.  Every loop keeps
\* to the addresses it is for.
SteadyKept ==
    /\ told \subseteq steady
    /\ pc \in {"ensure", "touch"} => todo \subseteq desired /\ told \subseteq desired
    /\ pc = "touch" => todo # {}
    /\ pc = "prune" => todo \cap told = {}
    /\ (pc \in {"ensure", "touch", "prune"} /\ allHostsOk) => told = steady

\* A pool past its window, or of unknown age.
PastWindow(ip) == pools[ip] = None \/ pools[ip].age \in {None, Old}

\* The pass leaves alone what no host reported: a pool that was past its
\* window when it was listed still is.
ListedStaysStale ==
    \A ip \in Ips :
        (/\ \/ pc \in {"ensure", "touch"} /\ ip \notin desired
            \/ pc = "prune" /\ ip \in todo
         /\ current[ip] \in {None, Old}) => PastWindow(ip)

K8sInv ==
    /\ K8sTypes /\ SteadyIsHeld /\ SteadyReported /\ SteadyKept
    /\ ListedStaysStale

-----------------------------------------------------------------------------
(* The operators.                                                          *)

LEMMA AgeFacts ==
    /\ Stale \in Nat /\ Old = Stale + 1 /\ Old \in Ages /\ 0 \in Ages /\ Ages \subseteq Nat
    /\ None \notin Ages /\ Failed \notin Ages /\ None # Failed
    /\ None \notin PoolType
    /\ \A S \in SUBSET Ips : S \notin {None, Failed}
<1>1. /\ Stale \in Nat /\ None \notin Nat /\ Failed \notin Nat /\ None # Failed
      /\ \A S \in SUBSET Ips : S \notin {None, Failed}
      /\ None \notin [listed : BOOLEAN, age : Nat \cup {None}]
  BY K8sAssumption
<1>2. Old = Stale + 1 /\ Old \in Ages /\ 0 \in Ages /\ Ages \subseteq Nat
  BY <1>1 DEF Old, Ages
<1>3. PoolType \subseteq [listed : BOOLEAN, age : Nat \cup {None}]
  BY <1>2 DEF PoolType
<1>4. None \notin PoolType
  BY <1>1, <1>3, Zenon
<1> QED BY <1>1, <1>2, <1>4

\* Time only ever brings an age nearer the end of the window, and past it
\* for good.
LEMMA OlderFacts ==
    ASSUME NEW a \in Ages \cup {None}
    PROVE  /\ Older(a) \in Ages \cup {None}
           /\ a \in Ages => Older(a) \in Ages
           /\ a \in {None, Old} => Older(a) \in {None, Old}
<1>1. CASE a = None
  BY <1>1, AgeFacts DEF Older, Ages
<1>2. CASE a \in Ages /\ a # Old
  <2>1. a \in 0..Stale /\ a + 1 \in Ages /\ a # None
    BY <1>2, AgeFacts DEF Ages
  <2> QED BY <1>2, <2>1 DEF Older
<1>3. CASE a = Old
  <2>1. a \notin 0..Stale /\ a \in Ages
    BY <1>3, AgeFacts DEF Ages
  <2> QED BY <1>3, <2>1 DEF Older
<1> QED BY <1>1, <1>2, <1>3

\* A loop that has not ended has a next address.
LEMMA NextAddress ==
    ASSUME NEW S \in SUBSET Ips, S # {}
    PROVE  Min(S) \in S
<1>1. S \subseteq Nat
  BY K8sAssumption
<1>2. PICK x \in S : \A y \in S : ~(<<y, x>> \in OpToRel(<, Nat))
  BY <1>1, WFMin, NatLessThanWellFounded, Zenon
<1>3. \A y \in S : ~(y < x)
  BY <1>1, <1>2 DEF OpToRel
<1>4. \A y \in S : x =< y
  BY <1>1, <1>3
<1> QED BY <1>4 DEF Min

\* What a request of the first loop may make of the pools.
LEMMA TouchResult ==
    ASSUME K8sTypes, NEW ip \in Ips, NEW result \in TouchPool(ip)
    PROVE  /\ result \in [Ips -> PoolType \cup {None}]
           /\ \A j \in Ips \ {ip} : result[j] = pools[j]
<1>1. pools[ip] # None /\ result = [pools EXCEPT ![ip].age = lag]
  BY DEF TouchPool
<1>2. pools[ip] \in PoolType
  BY <1>1 DEF K8sTypes
<1>3. [pools[ip] EXCEPT !.age = lag] \in PoolType
  BY <1>2 DEF K8sTypes, PoolType
<1>4. result = [pools EXCEPT ![ip] = [pools[ip] EXCEPT !.age = lag]]
  BY <1>1 DEF K8sTypes
<1> QED BY <1>3, <1>4 DEF K8sTypes

LEMMA EnsureResult ==
    ASSUME K8sTypes, NEW ip \in Ips, NEW result \in EnsurePool(ip)
    PROVE  /\ result \in [Ips -> PoolType \cup {None}]
           /\ \A j \in Ips \ {ip} : result[j] = pools[j]
<1>1. CASE result \in TouchPool(ip)
  BY <1>1, TouchResult
<1>2. CASE result = [pools EXCEPT ![ip] = [listed |-> TRUE, age |-> lag]]
  BY <1>2 DEF K8sTypes, PoolType
<1> QED BY <1>1, <1>2 DEF EnsurePool, CreatePool

-----------------------------------------------------------------------------
(* The steps.                                                              *)

\* However a pass ends, the next one starts with nothing.
LEMMA IdleInv ==
    ASSUME K8sInv, Idle, pools' \in [Ips -> PoolType \cup {None}], UNCHANGED held
    PROVE  K8sInv'
<1>1. K8sTypes'
  <2>1. fetched' \in [Hosts -> (SUBSET Ips) \cup {None, Failed}]
    BY DEF Idle
  <2>2. current' \in [Ips -> Ages \cup {None, Failed}]
    BY DEF Idle
  <2>3. lag' \in Ages /\ desired' \subseteq Ips /\ todo' \subseteq Ips
        /\ allHostsOk' \in BOOLEAN /\ pc' = "idle"
    BY AgeFacts DEF Idle
  <2> QED BY <2>1, <2>2, <2>3 DEF K8sInv, K8sTypes
<1>2. SteadyIsHeld' /\ SteadyReported' /\ SteadyKept' /\ ListedStaysStale'
  BY DEF Idle, SteadyIsHeld, SteadyReported, SteadyKept, ListedStaysStale
<1> QED BY <1>1, <1>2 DEF K8sInv


LEMMA StartPassInv == ASSUME K8sInv, StartPass PROVE K8sInv'
<1>1. /\ pc = "idle" /\ pc' = "fetch" /\ steady' = HeldBySome
      /\ UNCHANGED <<held, pools, fetched, desired, allHostsOk, current, lag, todo,
                     told>>
  BY DEF StartPass
<1>2. K8sTypes' /\ ListedStaysStale'
  BY <1>1 DEF K8sInv, K8sTypes, ListedStaysStale
<1>3. SteadyIsHeld'
  BY <1>1 DEF SteadyIsHeld, HeldBySome
<1>4. SteadyReported'
  BY <1>1 DEF K8sInv, SteadyReported
<1>5. SteadyKept'
  BY <1>1 DEF K8sInv, SteadyKept, SteadyIsHeld
<1> QED BY <1>2, <1>3, <1>4, <1>5 DEF K8sInv

LEMMA FetchInv ==
    ASSUME K8sInv, NEW h \in Hosts, NEW ok \in BOOLEAN, Fetch(h, ok)
    PROVE  K8sInv'
<1>1. /\ pc = "fetch"
      /\ fetched' = [fetched EXCEPT ![h] = IF ok THEN held[h] ELSE Failed]
      /\ UNCHANGED <<held, pools, pc, desired, allHostsOk, current, lag, todo,
                     steady, told>>
  BY DEF Fetch
<1>2. K8sTypes'
  BY <1>1 DEF K8sInv, K8sTypes
<1>3. SteadyIsHeld' /\ SteadyKept' /\ ListedStaysStale'
  BY <1>1 DEF K8sInv, SteadyIsHeld, HeldBySome, SteadyKept, ListedStaysStale,
              PastWindow
<1>4. SteadyReported'
  BY <1>1 DEF K8sInv, K8sTypes, SteadyReported
<1> QED BY <1>2, <1>3, <1>4 DEF K8sInv

\* What was held all along by a host that has answered is reported.
LEMMA ToldIsReported ==
    ASSUME K8sInv, pc = "fetch", NEW ip \in steady,
           NEW h \in Answered, ip \in held[h]
    PROVE  ip \in Reported
<1>1. h \in Hosts /\ fetched[h] \notin {None, Failed}
  BY DEF Answered
<1>2. ip \in fetched[h]
  BY <1>1 DEF K8sInv, SteadyReported
<1> QED BY <1>2 DEF Reported

LEMMA ReportedType == ASSUME K8sInv PROVE Reported \subseteq Ips
  BY DEF K8sInv, K8sTypes, Reported, Answered

LEMMA ListInv == ASSUME K8sInv, List PROVE K8sInv'
<1>1. /\ pc = "fetch" /\ pc' = "ensure"
      /\ current' = [ip \in Ips |-> IF pools[ip] # None /\ pools[ip].listed
                                   THEN pools[ip].age ELSE Failed]
      /\ desired' = Reported /\ todo' = Reported /\ allHostsOk' = AllHostsOk
      /\ fetched' = [h \in Hosts |-> None] /\ lag' = 0
      /\ told' = {ip \in steady : \E h \in Answered : ip \in held[h]}
      /\ UNCHANGED <<held, pools, steady>>
  BY DEF List
<1>2. K8sTypes'
  <2>1. current' \in [Ips -> Ages \cup {None, Failed}]
    <3>1. \A ip \in Ips : pools[ip] # None => pools[ip].age \in Ages \cup {None}
      BY DEF K8sInv, K8sTypes, PoolType
    <3> QED BY <1>1, <3>1
  <2>2. fetched' \in [Hosts -> (SUBSET Ips) \cup {None, Failed}]
    BY <1>1
  <2>3. AllHostsOk \in BOOLEAN
    BY DEF AllHostsOk
  <2> QED BY <1>1, <2>1, <2>2, <2>3, AgeFacts, ReportedType DEF K8sInv, K8sTypes
<1>3. SteadyIsHeld' /\ SteadyReported'
  BY <1>1 DEF K8sInv, SteadyIsHeld, HeldBySome, SteadyReported
<1>4. SteadyKept'
  <2>1. told' \subseteq Reported
    BY <1>1, ToldIsReported
  <2>2. AllHostsOk => told' = steady
    BY <1>1 DEF AllHostsOk, K8sInv, SteadyIsHeld, HeldBySome
  <2> QED BY <1>1, <2>1, <2>2 DEF SteadyKept
<1>5. ListedStaysStale'
  BY <1>1, AgeFacts DEF ListedStaysStale, PastWindow
<1> QED BY <1>2, <1>3, <1>4, <1>5 DEF K8sInv

\* A request of the first loop that succeeds.
LEMMA VisitInv ==
    ASSUME K8sInv, NEW ip \in todo, pc \in {"ensure", "touch"}, pc' = "ensure",
           pools' \in EnsurePool(ip) \cup TouchPool(ip), todo' = todo \ {ip},
           UNCHANGED <<held, fetched, desired, allHostsOk, current, lag, steady, told>>
    PROVE  K8sInv'
<1>1. ip \in Ips /\ ip \in desired
  BY DEF K8sInv, K8sTypes, SteadyKept
<1>2. /\ pools' \in [Ips -> PoolType \cup {None}]
      /\ \A j \in Ips \ {ip} : pools'[j] = pools[j]
  BY <1>1, EnsureResult, TouchResult DEF K8sInv
<1>3. K8sTypes'
  BY <1>2 DEF K8sInv, K8sTypes
<1>4. SteadyIsHeld' /\ SteadyReported'
  BY DEF K8sInv, SteadyIsHeld, HeldBySome, SteadyReported
<1>5. SteadyKept'
  BY DEF K8sInv, SteadyKept
<1>6. ListedStaysStale'
  BY <1>1, <1>2 DEF K8sInv, ListedStaysStale, PastWindow
<1> QED BY <1>3, <1>4, <1>5, <1>6 DEF K8sInv

LEMMA EnsureInv == ASSUME K8sInv, Ensure PROVE K8sInv'
<1>1. todo # {} /\ todo \subseteq Ips /\ pc = "ensure" /\ UNCHANGED held
  BY DEF K8sInv, K8sTypes, Ensure
<1>2. PICK ip \in todo : ip = Min(todo)
  BY <1>1, NextAddress
<1>3. CASE /\ pools' \in EnsurePool(ip) /\ todo' = todo \ {ip}
           /\ UNCHANGED <<pc, fetched, desired, allHostsOk, current, lag, steady, told>>
  BY <1>1, <1>3, VisitInv
<1>4. CASE /\ pc' = "touch"
           /\ UNCHANGED <<pools, fetched, desired, allHostsOk, current, lag, todo,
                          steady, told>>
  <2>1. K8sTypes'
    BY <1>4, <1>1 DEF K8sInv, K8sTypes
  <2>2. SteadyIsHeld' /\ SteadyReported'
    BY <1>1, <1>4 DEF K8sInv, SteadyIsHeld, HeldBySome, SteadyReported
  <2>3. SteadyKept'
    BY <1>1, <1>4 DEF K8sInv, SteadyKept
  <2>4. ListedStaysStale'
    BY <1>1, <1>4 DEF K8sInv, ListedStaysStale, PastWindow
  <2> QED BY <2>1, <2>2, <2>3, <2>4 DEF K8sInv
<1>5. CASE UNCHANGED pools /\ Idle
  BY <1>1, <1>5, IdleInv DEF K8sInv, K8sTypes
<1> QED BY <1>2, <1>3, <1>4, <1>5 DEF Ensure

LEMMA TouchTakenInv == ASSUME K8sInv, TouchTaken PROVE K8sInv'
<1>1. todo # {} /\ todo \subseteq Ips /\ pc = "touch" /\ UNCHANGED held
  BY DEF K8sInv, K8sTypes, SteadyKept, TouchTaken
<1>2. PICK ip \in todo : ip = Min(todo)
  BY <1>1, NextAddress
<1>3. CASE /\ pools' \in TouchPool(ip) /\ pc' = "ensure" /\ todo' = todo \ {ip}
           /\ UNCHANGED <<fetched, desired, allHostsOk, current, lag, steady, told>>
  BY <1>1, <1>3, VisitInv
<1>4. CASE UNCHANGED pools /\ Idle
  BY <1>1, <1>4, IdleInv DEF K8sInv, K8sTypes
<1> QED BY <1>2, <1>3, <1>4 DEF TouchTaken

LEMMA EndEnsureInv == ASSUME K8sInv, EndEnsure PROVE K8sInv'
<1>1. /\ pc = "ensure" /\ pc' = "prune" /\ desired' = {} /\ lag' = 0
      /\ todo' = {ip \in Ips : current[ip] # Failed} \ desired
      /\ current' = [ip \in Ips |-> IF ip \in desired THEN Failed ELSE current[ip]]
      /\ UNCHANGED <<held, pools, fetched, allHostsOk, steady, told>>
  BY DEF EndEnsure
<1>2. K8sTypes'
  <2>1. current' \in [Ips -> Ages \cup {None, Failed}]
    BY <1>1 DEF K8sInv, K8sTypes
  <2> QED BY <1>1, <2>1, AgeFacts DEF K8sInv, K8sTypes
<1>3. SteadyIsHeld' /\ SteadyReported'
  BY <1>1 DEF K8sInv, SteadyIsHeld, HeldBySome, SteadyReported
<1>4. SteadyKept'
  BY <1>1 DEF K8sInv, SteadyKept
<1>5. ListedStaysStale'
  BY <1>1 DEF K8sInv, ListedStaysStale, PastWindow
<1> QED BY <1>2, <1>3, <1>4, <1>5 DEF K8sInv

LEMMA PruneInv == ASSUME K8sInv, Prune PROVE K8sInv'
<1>1. todo # {} /\ todo \subseteq Ips
  BY DEF K8sInv, K8sTypes, Prune
<1>2. PICK ip \in todo : ip = Min(todo)
  BY <1>1, NextAddress
<1>3. /\ pc = "prune" /\ pools' \in {pools, [pools EXCEPT ![ip] = None]}
      /\ todo' = todo \ {ip}
      /\ UNCHANGED <<held, pc, fetched, desired, allHostsOk, current, lag, steady,
                     told>>
  BY <1>2 DEF Prune
<1>4. pools \in [Ips -> PoolType \cup {None}] /\ pools' \in [Ips -> PoolType \cup {None}]
  BY <1>3 DEF K8sInv, K8sTypes
<1>5. K8sTypes'
  BY <1>1, <1>3, <1>4 DEF K8sInv, K8sTypes
<1>6. SteadyIsHeld' /\ SteadyReported' /\ SteadyKept'
  BY <1>3 DEF K8sInv, SteadyIsHeld, HeldBySome, SteadyReported, SteadyKept
<1>7. ListedStaysStale'
  BY <1>1, <1>3, <1>4 DEF K8sInv, ListedStaysStale, PastWindow
<1> QED BY <1>5, <1>6, <1>7 DEF K8sInv

LEMMA EndPassInv == ASSUME K8sInv, EndPass PROVE K8sInv'
  BY IdleInv DEF EndPass, K8sInv, K8sTypes

LEMMA AbortInv == ASSUME K8sInv, Abort PROVE K8sInv'
<1>1. pools \in [Ips -> PoolType \cup {None}] /\ todo \subseteq Ips
  BY DEF K8sInv, K8sTypes
<1>2. pools' \in [Ips -> PoolType \cup {None}]
  <2>1. CASE todo = {}
    BY <1>1, <2>1 DEF Abort, K8sInv, SteadyKept
  <2>2. CASE todo # {}
    <3>1. Min(todo) \in Ips
      BY <1>1, <2>2, NextAddress
    <3>2. \A r \in EnsurePool(Min(todo)) : r \in [Ips -> PoolType \cup {None}]
      BY <3>1, EnsureResult DEF K8sInv
    <3>3. [pools EXCEPT ![Min(todo)] = None] \in [Ips -> PoolType \cup {None}]
      BY <1>1, <3>1
    <3>4. \A r \in TouchPool(Min(todo)) : r \in [Ips -> PoolType \cup {None}]
      BY <3>1, TouchResult DEF K8sInv
    <3>5. \/ pools' = pools \/ pools' \in EnsurePool(Min(todo))
          \/ pools' \in TouchPool(Min(todo))
          \/ pools' = [pools EXCEPT ![Min(todo)] = None]
      BY DEF Abort
    <3> QED BY <1>1, <3>2, <3>3, <3>4, <3>5
  <2> QED BY <2>1, <2>2
<1> QED BY <1>2, IdleInv DEF Abort

\* A step of the hosts: what is still steady is still held, and what a host
\* holds of it, it held before.
LEMMA HostStep ==
    ASSUME K8sInv, UNCHANGED <<pools, pass>>,
           held' \in [Hosts -> SUBSET Ips],
           steady' \subseteq steady, told' = told \cap steady', SteadyIsHeld',
           \A h \in Hosts : held'[h] \cap steady' \subseteq held[h]
    PROVE  K8sInv'
<1>1. K8sTypes' /\ ListedStaysStale'
  BY DEF K8sInv, K8sTypes, ListedStaysStale, PastWindow, pass
<1>2. SteadyReported'
  BY DEF K8sInv, SteadyReported, pass
<1>3. SteadyKept'
  BY DEF K8sInv, SteadyKept, pass
<1> QED BY <1>1, <1>2, <1>3 DEF K8sInv

LEMMA AcquireInv ==
    ASSUME K8sInv, NEW h \in Hosts, NEW ip \in Ips, Acquire(h, ip)
    PROVE  K8sInv'
<1>1. /\ ip \notin steady /\ held' = [held EXCEPT ![h] = @ \cup {ip}]
      /\ UNCHANGED <<pools, pass, steady>> /\ told' = told \cap steady'
  BY DEF K8sInv, SteadyIsHeld, SteadyKept, Acquire
<1>2. held' \in [Hosts -> SUBSET Ips]
  BY <1>1 DEF K8sInv, K8sTypes
<1>3. \A g \in Hosts : held[g] \subseteq held'[g] /\ held'[g] \subseteq held[g] \cup {ip}
  BY <1>1 DEF K8sInv, K8sTypes
<1>4. SteadyIsHeld'
  BY <1>1, <1>3 DEF K8sInv, SteadyIsHeld, HeldBySome
<1> QED BY <1>1, <1>2, <1>3, <1>4, HostStep

LEMMA ReleaseInv ==
    ASSUME K8sInv, NEW h \in Hosts, NEW ip \in Ips, Release(h, ip)
    PROVE  K8sInv'
<1>1. /\ steady' = steady \ {ip} /\ held' = [held EXCEPT ![h] = @ \ {ip}]
      /\ UNCHANGED <<pools, pass>> /\ told' = told \cap steady'
  BY DEF Release, K8sInv, SteadyKept
<1>2. held' \in [Hosts -> SUBSET Ips]
  BY <1>1 DEF K8sInv, K8sTypes
<1>3. \A g \in Hosts : held'[g] \subseteq held[g] /\ held[g] \subseteq held'[g] \cup {ip}
  BY <1>1 DEF K8sInv, K8sTypes
<1>4. SteadyIsHeld'
  BY <1>1, <1>3 DEF K8sInv, SteadyIsHeld, HeldBySome
<1> QED BY <1>1, <1>2, <1>3, <1>4, HostStep

LEMMA HostRestartsInv ==
    ASSUME K8sInv, NEW h \in Hosts, HostRestarts(h)
    PROVE  K8sInv'
<1>1. /\ steady' = steady \ held[h] /\ held' = [held EXCEPT ![h] = {}]
      /\ UNCHANGED <<pools, pass>> /\ told' = told \cap steady'
  BY DEF HostRestarts, K8sInv, SteadyKept
<1>2. held' \in [Hosts -> SUBSET Ips]
  BY <1>1 DEF K8sInv, K8sTypes
<1>3. \A g \in Hosts : held'[g] \subseteq held[g] /\ held[g] \subseteq held'[g] \cup held[h]
  BY <1>1 DEF K8sInv, K8sTypes
<1>4. SteadyIsHeld'
  BY <1>1, <1>3 DEF K8sInv, SteadyIsHeld, HeldBySome
<1> QED BY <1>1, <1>2, <1>3, <1>4, HostStep

\* A step of the pools alone that brings no pool back into its window.
LEMMA PoolStep ==
    ASSUME K8sInv, pools' \in [Ips -> PoolType \cup {None}], lag' \in Ages,
           \A ip \in Ips : PastWindow(ip) => PastWindow(ip)',
           UNCHANGED <<held, pc, fetched, desired, allHostsOk, current, todo, steady,
                       told>>
    PROVE  K8sInv'
<1>1. K8sTypes' /\ SteadyIsHeld' /\ SteadyReported' /\ SteadyKept'
  BY DEF K8sInv, K8sTypes, SteadyIsHeld, HeldBySome, SteadyReported, SteadyKept
<1>2. ListedStaysStale'
  BY DEF K8sInv, ListedStaysStale
<1> QED BY <1>1, <1>2 DEF K8sInv

LEMMA EditInv == ASSUME K8sInv, NEW ip \in Ips, Edit(ip) PROVE K8sInv'
<1>1. pools \in [Ips -> PoolType \cup {None}] /\ pools[ip] \in PoolType
  BY DEF K8sInv, K8sTypes, Edit
<1>2. PICK x \in PoolType \cup {None} :
         pools' = [pools EXCEPT ![ip] = x] /\ (x = None \/ x.age = None)
  <2>1. /\ [listed |-> FALSE, age |-> None] \in PoolType
        /\ [pools[ip] EXCEPT !.age = None] \in PoolType
        /\ [pools[ip] EXCEPT !.age = None].age = None
        /\ [listed |-> FALSE, age |-> None].age = None
    BY <1>1 DEF PoolType
  <2>2. [pools EXCEPT ![ip].age = None] =
           [pools EXCEPT ![ip] = [pools[ip] EXCEPT !.age = None]]
    BY <1>1
  <2>3. \/ pools' = [pools EXCEPT ![ip] = None]
        \/ pools' = [pools EXCEPT ![ip] = [listed |-> FALSE, age |-> None]]
        \/ pools' = [pools EXCEPT ![ip] = [pools[ip] EXCEPT !.age = None]]
    BY <2>2 DEF Edit
  <2> QED BY <2>1, <2>3
<1>3. pools' \in [Ips -> PoolType \cup {None}]
  BY <1>1, <1>2
<1>4. \A j \in Ips : PastWindow(j) => PastWindow(j)'
  BY <1>1, <1>2 DEF PastWindow
<1> QED BY <1>3, <1>4, PoolStep DEF Edit, pass, K8sInv, K8sTypes

\* Time takes no pool down.
LEMMA TickKeeps ==
    ASSUME K8sInv, Tick, NEW ip \in Ips, pools[ip] # None
    PROVE  /\ pools'[ip] \in PoolType
           /\ pools'[ip].age = Older(pools[ip].age)
<1>1. pools'[ip] = [pools[ip] EXCEPT !.age = Older(pools[ip].age)]
  BY DEF Tick
<1>2. pools[ip] \in PoolType
  BY DEF K8sInv, K8sTypes
<1>3. pools[ip].age \in Ages \cup {None}
  BY <1>2 DEF PoolType
<1>4. Older(pools[ip].age) \in Ages \cup {None}
  BY <1>3, OlderFacts
<1> QED BY <1>1, <1>2, <1>4 DEF PoolType

LEMMA TickInv == ASSUME K8sInv, Tick PROVE K8sInv'
<1>1. pools \in [Ips -> PoolType \cup {None}] /\ lag \in Ages
  BY DEF K8sInv, K8sTypes
<1>2. ASSUME NEW ip \in Ips, pools[ip] # None
      PROVE  /\ pools'[ip] \in PoolType
             /\ pools'[ip].age = Older(pools[ip].age)
  BY <1>2, TickKeeps
<1>3. \A ip \in Ips : pools[ip] = None => pools'[ip] = None
  BY DEF Tick
<1>4. pools' \in [Ips -> PoolType \cup {None}]
  <2>1. pools' = [ip \in Ips |-> pools'[ip]]
    BY DEF Tick
  <2> QED BY <2>1, <1>2, <1>3
<1>5. lag' \in Ages
  BY <1>1, OlderFacts DEF Tick
<1>6. ASSUME NEW ip \in Ips, PastWindow(ip) PROVE PastWindow(ip)'
  <2>1. CASE pools[ip] = None
    BY <2>1, <1>3 DEF PastWindow
  <2>2. CASE pools[ip] # None
    <3>1. pools[ip].age \in {None, Old} /\ pools[ip].age \in Ages \cup {None}
      BY <1>1, <1>6, <2>2 DEF PastWindow, PoolType
    <3> QED BY <1>2, <2>2, <3>1, OlderFacts DEF PastWindow
  <2> QED BY <2>1, <2>2
<1> QED BY <1>4, <1>5, <1>6, PoolStep DEF Tick

LEMMA InitK8s == Init => K8sInv
<1> SUFFICES ASSUME Init PROVE K8sInv
  OBVIOUS
<1>1. K8sTypes
  <2>1. held \in [Hosts -> SUBSET Ips] /\ pools \in [Ips -> PoolType \cup {None}]
    BY DEF Init
  <2>2. fetched \in [Hosts -> (SUBSET Ips) \cup {None, Failed}]
    BY DEF Init
  <2>3. current \in [Ips -> Ages \cup {None, Failed}]
    BY DEF Init
  <2>4. lag \in Ages /\ desired \subseteq Ips /\ todo \subseteq Ips
        /\ allHostsOk \in BOOLEAN /\ pc = "idle"
    BY AgeFacts DEF Init
  <2> QED BY <2>1, <2>2, <2>3, <2>4 DEF K8sTypes
<1>2. SteadyIsHeld /\ SteadyReported /\ SteadyKept /\ ListedStaysStale
  BY DEF Init, SteadyIsHeld, SteadyReported, SteadyKept, ListedStaysStale
<1> QED BY <1>1, <1>2 DEF K8sInv

LEMMA NextK8s == K8sInv /\ [Next]_vars => K8sInv'
<1> SUFFICES ASSUME K8sInv, [Next]_vars PROVE K8sInv'
  OBVIOUS
<1>1. CASE \/ StartPass \/ List \/ Ensure \/ TouchTaken \/ EndEnsure \/ Prune
           \/ EndPass \/ Abort \/ Tick
  BY <1>1, StartPassInv, ListInv, EnsureInv, TouchTakenInv, EndEnsureInv, PruneInv,
     EndPassInv, AbortInv, TickInv
<1>2. ASSUME NEW h \in Hosts, NEW ok \in BOOLEAN, Fetch(h, ok) PROVE K8sInv'
  BY <1>2, FetchInv
<1>3. ASSUME NEW h \in Hosts, NEW ip \in Ips, Acquire(h, ip) \/ Release(h, ip)
      PROVE  K8sInv'
  BY <1>3, AcquireInv, ReleaseInv
<1>4. ASSUME NEW h \in Hosts, HostRestarts(h) PROVE K8sInv'
  BY <1>4, HostRestartsInv
<1>5. ASSUME NEW ip \in Ips, Edit(ip) PROVE K8sInv'
  BY <1>5, EditInv
<1>6. CASE UNCHANGED vars
  <2>1. \A ip \in Ips : PastWindow(ip) => PastWindow(ip)'
    BY <1>6 DEF PastWindow, vars
  <2> QED BY <1>6, <2>1, PoolStep DEF vars, pass, K8sInv, K8sTypes
<1> QED BY <1>1, <1>2, <1>3, <1>4, <1>5, <1>6 DEF Next

-----------------------------------------------------------------------------
(* The theorems.                                                           *)

\* K8sInv is an invariant of the reconciler among its hosts.
THEOREM K8sInvariant == Spec => []K8sInv
  BY InitK8s, NextK8s, PTL DEF Spec

\* Only the address in hand loses its pool to the pass, and only if it may.
LEMMA PassTakesDown ==
    ASSUME K8sInv, [Next]_vars, NEW ip \in Ips, pc = "prune",
           pools[ip] # None, pools'[ip] = None, ~Edit(ip)
    PROVE  ip \in todo /\ MayPrune(ip)
<1>1. pools \in [Ips -> PoolType \cup {None}] /\ todo \subseteq Ips /\ pools' # pools
  BY DEF K8sInv, K8sTypes
<1>2. CASE Prune \/ Abort
  <2>1. todo # {} /\ MayPrune(Min(todo)) /\ pools' = [pools EXCEPT ![Min(todo)] = None]
    BY <1>1, <1>2 DEF Prune, Abort
  <2>2. Min(todo) \in todo
    BY <1>1, <2>1, NextAddress
  <2>3. ip = Min(todo)
    BY <1>1, <2>1, <2>2
  <2> QED BY <2>1, <2>2, <2>3
<1>3. CASE Tick
  BY <1>1, <1>3, TickKeeps, AgeFacts
<1>4. ASSUME NEW j \in Ips, Edit(j) PROVE FALSE
  <2>1. j # ip
    BY <1>4
  <2>2. pools'[ip] = pools[ip]
    BY <1>1, <1>4, <2>1 DEF Edit
  <2> QED BY <2>2
<1>5. ASSUME ~Prune, ~Abort, ~Tick, ~\E j \in Ips : Edit(j) PROVE FALSE
  BY <1>1, <1>5 DEF Next, vars, StartPass, List, Ensure, TouchTaken, EndEnsure,
                    EndPass, Fetch, Acquire, Release, HostRestarts
<1> QED BY <1>2, <1>3, <1>4, <1>5

\* The pass takes down the pool of an address one host has held throughout
\* only if that host did not answer and the address was last seen before the
\* window, for any number of hosts and any window.
THEOREM HeldPoolsSurvive == Spec => HeldPoolSurvives
<1>1. ASSUME K8sInv, [Next]_vars, NEW ip \in steady, pc = "prune",
             pools[ip] # None, pools'[ip] = None, ~Edit(ip)
      PROVE  ip \notin told /\ pools[ip].age \in {None, Old}
  <2>1. ip \in Ips
    BY <1>1 DEF K8sInv, K8sTypes, SteadyIsHeld, HeldBySome
  <2>2. ip \in todo /\ MayPrune(ip)
    BY <1>1, <2>1, PassTakesDown
  <2>3. ip \notin told /\ ~allHostsOk
    BY <1>1, <2>2 DEF K8sInv, SteadyKept
  <2>4. PastWindow(ip)
    BY <1>1, <2>1, <2>2, <2>3 DEF K8sInv, ListedStaysStale, MayPrune
  <2> QED BY <1>1, <2>3, <2>4 DEF PastWindow
<1>2. K8sInv /\ [Next]_vars =>
         [\A ip \in steady :
            (pc = "prune" /\ pools[ip] # None /\ pools'[ip] = None /\ ~Edit(ip)) =>
                /\ ip \notin told
                /\ pools[ip].age \in {None, Old}]_vars
  BY <1>1
<1> QED BY <1>2, K8sInvariant, PTL DEF Spec, HeldPoolSurvives
=====
