---------------------------- MODULE K8sReconcile ----------------------------
(***************************************************************************)
(* dumbarp-k8s/src/reconcile.rs: the leased addresses of all hosts are     *)
(* kept as CiliumLoadBalancerIPPool objects, one per address, in the       *)
(* cluster.  The reconciler keeps no state of its own: when an address was *)
(* last seen is an annotation of its pool.  Every request is a step of its *)
(* own, so hosts, operators and the clock move between them.               *)
(*                                                                         *)
(* Times are ages: how many ticks ago a pool was last seen, counted up to  *)
(* the first value past the staleness window, after which all look alike.  *)
(***************************************************************************)
EXTENDS Integers, FiniteSets, FiniteSetsExt

CONSTANTS
    Hosts,
    Ips,        \* addresses, as numbers: the pass goes through them in order
    Stale,      \* stale_after_secs, in ticks
    MaxFaults,  \* bound: failed API calls, kills and edits by an operator
    None, Failed

VARIABLES
    held,       \* host -> the addresses it has leases for
    pools,      \* the cluster: ip -> [listed, age] or None; listed if its
                \* address annotation is readable, age that of its last-seen
                \* annotation, None if that is not
    pc,         \* where the pass is
    fetched,    \* host -> its answer in this pass, Failed, or None as yet
    allHostsOk, \* collect_desired's verdict
    current,    \* list_current's result: ip -> age at that time, or Failed
    lag,        \* ticks since the pass took its `now`, while that is read
    desired,    \* addresses the hosts reported
    todo,       \* addresses the running loop of the pass has still to visit
    faults,
    steady,     \* history: addresses held by one host since the pass began
    told        \* history: those of them whose host answered in this pass

pass == <<pc, fetched, desired, allHostsOk, current, lag, todo>>
vars == <<held, pools, pass, faults, steady, told>>

Old == Stale + 1
Older(a) == IF a \in 0..Stale THEN a + 1 ELSE a

ASSUME K8sAssumption ==
    /\ Ips \subseteq Nat /\ Stale \in Nat /\ MaxFaults \in Nat
    /\ None \notin Nat /\ Failed \notin Nat /\ None # Failed
    /\ \A S \in SUBSET Ips : S # None /\ S # Failed
    /\ None \notin [listed : BOOLEAN, age : Nat \cup {None}]

Idle ==
    /\ pc' = "idle"
    /\ fetched' = [h \in Hosts |-> None]
    /\ desired' = {}
    /\ allHostsOk' = FALSE
    /\ current' = [ip \in Ips |-> Failed]
    /\ lag' = 0
    /\ todo' = {}
    /\ steady' = {}
    /\ told' = {}

Init ==
    /\ held = [h \in Hosts |-> {}]
    /\ pools = [ip \in Ips |-> None]
    /\ pc = "idle"
    /\ fetched = [h \in Hosts |-> None]
    /\ desired = {}
    /\ allHostsOk = FALSE
    /\ current = [ip \in Ips |-> Failed]
    /\ lag = 0
    /\ todo = {}
    /\ faults = 0
    /\ steady = {}
    /\ told = {}

Fault == faults < MaxFaults /\ faults' = faults + 1

HeldBySome == UNION {held[h] : h \in Hosts}

-----------------------------------------------------------------------------
(* One pass, at every tick of the interval.                                *)

StartPass ==
    /\ pc = "idle"
    /\ pc' = "fetch"
    /\ steady' = HeldBySome
    /\ UNCHANGED <<held, pools, fetched, desired, allHostsOk, current, lag, todo,
                   faults, told>>

\* collect_desired asks all hosts at once: the answers come in any order.
Fetch(h, ok) ==
    /\ pc = "fetch"
    /\ fetched[h] = None
    /\ fetched' = [fetched EXCEPT ![h] = IF ok THEN held[h] ELSE Failed]
    /\ UNCHANGED <<held, pools, pc, desired, allHostsOk, current, lag, todo,
                   faults, steady, told>>

Answered == {h \in Hosts : fetched[h] \notin {None, Failed}}
Reported == UNION {fetched[h] : h \in Answered}

AllHostsOk == Answered = Hosts

\* collect_desired's result, list_current, then `now`.  A managed pool without
\* a readable address is skipped.
List ==
    /\ pc = "fetch"
    /\ \A h \in Hosts : fetched[h] # None
    /\ current' = [ip \in Ips |->
                      IF pools[ip] # None /\ pools[ip].listed
                      THEN pools[ip].age ELSE Failed]
    /\ pc' = "ensure"
    /\ desired' = Reported
    /\ allHostsOk' = AllHostsOk
    /\ fetched' = [h \in Hosts |-> None]
    /\ todo' = Reported
    /\ lag' = 0
    /\ told' = {ip \in steady : \E h \in Answered : ip \in held[h]}
    /\ UNCHANGED <<held, pools, faults, steady>>

\* The pools after a request, as a set that is empty when it is refused:
\* touch_pool, by name (404), and create_pool's first request (409).
TouchPool(ip) ==
    IF pools[ip] # None THEN {[pools EXCEPT ![ip].age = lag]} ELSE {}

CreatePool(ip) ==
    IF pools[ip] = None
    THEN {[pools EXCEPT ![ip] = [listed |-> TRUE, age |-> lag]]} ELSE {}

\* The first request for a desired address.
EnsurePool(ip) == IF current[ip] = Failed THEN CreatePool(ip) ELSE TouchPool(ip)

\* Seeded fault: a name that is taken fails the pass.
NameTakenFails(ip) == FALSE

\* The create is answered 409: a pool of that name was not listed.
NameTaken(ip) == current[ip] = Failed /\ pools[ip] # None

\* The next address of the first loop.  A name that is taken is touched
\* instead, with a second request; any other error leaves the pass (`?`).
Ensure ==
    /\ pc = "ensure"
    /\ todo # {}
    /\ LET ip == Min(todo)
       IN \/ /\ pools' \in EnsurePool(ip)
             /\ todo' = todo \ {ip}
             /\ UNCHANGED <<pc, fetched, desired, allHostsOk, current, lag,
                            steady, told>>
          \/ /\ NameTaken(ip)
             /\ pc' = "touch"
             /\ UNCHANGED <<pools, fetched, desired, allHostsOk, current, lag,
                            todo, steady, told>>
          \/ /\ EnsurePool(ip) = {} /\ ~NameTaken(ip)
             /\ UNCHANGED pools
             /\ Idle
    /\ UNCHANGED <<held, faults>>

\* The request after a 409; the pool may be gone by now.
TouchTaken ==
    /\ pc = "touch"
    /\ LET ip == Min(todo)
       IN \/ /\ pools' \in TouchPool(ip)
             /\ pc' = "ensure"
             /\ todo' = todo \ {ip}
             /\ UNCHANGED <<fetched, desired, allHostsOk, current, lag, steady,
                            told>>
          \/ /\ TouchPool(ip) = {}
             /\ UNCHANGED pools
             /\ Idle
    /\ UNCHANGED <<held, faults>>

\* Seeded fault: the second loop visits the desired addresses too.
EndEnsureAll ==
    /\ pc = "ensure"
    /\ todo = {}
    /\ pc' = "prune"
    /\ todo' = {ip \in Ips : current[ip] # Failed}
    /\ desired' = {}
    /\ lag' = 0
    /\ UNCHANGED <<held, pools, fetched, allHostsOk, current, faults, steady,
                   told>>

\* What the second loop does not read is dropped.
EndEnsure ==
    /\ pc = "ensure"
    /\ todo = {}
    /\ pc' = "prune"
    /\ todo' = {ip \in Ips : current[ip] # Failed} \ desired
    /\ current' = [ip \in Ips |-> IF ip \in desired THEN Failed ELSE current[ip]]
    /\ desired' = {}
    /\ lag' = 0
    /\ UNCHANGED <<held, pools, fetched, allHostsOk, faults, steady, told>>

\* Seeded fault: the window is one tick short.
MayPruneEarly(ip) == allHostsOk \/ current[ip] \in {None, Old, Stale}

\* Seeded fault: only a pass that heard from every host prunes.
MayPruneAllOnly(ip) == allHostsOk

MayPrune(ip) == allHostsOk \/ current[ip] \in {None, Old}

\* The next address of the second loop: deleted, and no error if it is
\* already gone (404), or kept.
Prune ==
    /\ pc = "prune"
    /\ todo # {}
    /\ LET ip == Min(todo)
       IN /\ pools' = IF MayPrune(ip) THEN [pools EXCEPT ![ip] = None]
                                      ELSE pools
          /\ todo' = todo \ {ip}
    /\ UNCHANGED <<held, pc, fetched, desired, allHostsOk, current, lag, faults,
                   steady, told>>

EndPass ==
    /\ pc = "prune"
    /\ todo = {}
    /\ Idle
    /\ UNCHANGED <<held, pools, faults>>

\* The request in hand fails, before or after the cluster has carried it
\* out, and the pass is left; or the reconciler is killed there.
Abort ==
    /\ Fault
    /\ pc # "idle"
    /\ pools' \in {pools}
          \cup (IF pc = "ensure" /\ todo # {} THEN EnsurePool(Min(todo)) ELSE {})
          \cup (IF pc = "touch" THEN TouchPool(Min(todo)) ELSE {})
          \cup (IF pc = "prune" /\ todo # {} /\ MayPrune(Min(todo))
                THEN {[pools EXCEPT ![Min(todo)] = None]} ELSE {})
    /\ Idle
    /\ UNCHANGED held

-----------------------------------------------------------------------------
(* The world.                                                              *)

\* DHCP gives an address to one host at a time.
Acquire(h, ip) ==
    /\ ip \notin HeldBySome
    /\ held' = [held EXCEPT ![h] = @ \cup {ip}]
    /\ UNCHANGED <<pools, pass, faults, steady, told>>

Release(h, ip) ==
    /\ ip \in held[h]
    /\ held' = [held EXCEPT ![h] = @ \ {ip}]
    /\ steady' = steady \ {ip}
    /\ told' = told \ {ip}
    /\ UNCHANGED <<pools, pass, faults>>

\* The dumbarpd of a host is started again: it answers with an empty list
\* until DHCP has given it its addresses back.
HostRestarts(h) ==
    /\ held[h] # {}
    /\ held' = [held EXCEPT ![h] = {}]
    /\ steady' = steady \ held[h]
    /\ told' = told \ held[h]
    /\ UNCHANGED <<pools, pass, faults>>

\* An operator deletes a pool or damages its annotations; a pool that is
\* not listed any more, the reconciler never prunes and the operator may.
Edit(ip) ==
    /\ pools[ip] # None
    /\ \/ /\ Fault
          /\ pools' \in {[pools EXCEPT ![ip] = None],
                         [pools EXCEPT ![ip] = [listed |-> FALSE, age |-> None]],
                         [pools EXCEPT ![ip].age = None]}
       \/ /\ ~pools[ip].listed
          /\ pools' = [pools EXCEPT ![ip] = None]
          /\ UNCHANGED faults
    /\ UNCHANGED <<held, pass, steady, told>>

Tick ==
    /\ pools' = [ip \in Ips |->
                    IF pools[ip] = None THEN None
                    ELSE [pools[ip] EXCEPT !.age = Older(@)]]
    /\ lag' = IF pc \in {"ensure", "touch"} THEN Older(lag) ELSE lag
    /\ UNCHANGED <<held, pc, fetched, desired, allHostsOk, current, todo, faults,
                   steady, told>>

Next ==
    \/ StartPass \/ List \/ Ensure \/ TouchTaken \/ EndEnsure \/ Prune \/ EndPass
    \/ Abort \/ Tick
    \/ \E h \in Hosts, ok \in BOOLEAN : Fetch(h, ok)
    \/ \E h \in Hosts, ip \in Ips : Acquire(h, ip) \/ Release(h, ip)
    \/ \E h \in Hosts : HostRestarts(h)
    \/ \E ip \in Ips : Edit(ip)

Spec == Init /\ [][Next]_vars

\* The interval ticks, requests end (by the client's timeout), time passes,
\* and a host that is asked again and again answers some time.
FairSpec ==
    /\ Spec
    /\ WF_vars(StartPass \/ List \/ Ensure \/ TouchTaken \/ EndEnsure \/ Prune
                  \/ EndPass)
    /\ WF_vars(Tick)
    /\ \A h \in Hosts : /\ WF_vars(Fetch(h, TRUE) \/ Fetch(h, FALSE))
                        /\ SF_vars(Fetch(h, TRUE))

-----------------------------------------------------------------------------
(* Properties.                                                             *)

\* The pool of an address that one host has held since before the pass began
\* is taken down by the pass only if that host did not answer and the address
\* was last seen before the staleness window, or cannot be told to have been
\* seen: neither another host's outage nor its own short one does it.
HeldPoolSurvives ==
    [][\A ip \in steady :
          (pc = "prune" /\ pools[ip] # None /\ pools'[ip] = None /\ ~Edit(ip)) =>
              /\ ip \notin told
              /\ pools[ip].age \in {None, Old}]_vars

\* The pool of an address that is given up for good disappears for good,
\* even if the hosts never all answer in one pass; only a pool whose address
\* annotation was damaged stays.
StalePruned ==
    \A ip \in Ips :
        <>[](ip \notin HeldBySome) =>
            <>[](pools[ip] = None \/ ~pools[ip].listed)

\* An address that stays with a host has a pool again and again, although a
\* pool of that name may be there with damaged annotations.
PoolAppears ==
    \A ip \in Ips, h \in Hosts :
        <>[](ip \in held[h]) => []<>(pools[ip] # None)

\* Once an address stays with a host and that host answers, the address has
\* its pool for good: a host that was started again, or an address that moved
\* between two hosts while they were being asked, costs it its pool for a
\* while only, and the outages of other hosts do not cost it at all.
PoolStays ==
    \A ip \in Ips, h \in Hosts :
        (<>[](ip \in held[h]) /\ <>[][~Fetch(h, FALSE)]_vars) =>
            <>[](pools[ip] # None)
=============================================================================
