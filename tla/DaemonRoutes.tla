---------------------------- MODULE DaemonRoutes ----------------------------
(***************************************************************************)
(* dumbarpd as a manager of routes: the task of refresh.rs hands the lease *)
(* table (state.rs, current_routes) to RouteManager::reconcile at every    *)
(* tick.  dumbarpd neither purges when it starts nor tears down when it    *)
(* ends: what a former process left is for its first pass to clear.        *)
(*                                                                         *)
(* A rival, a gateway or a routerd on the same host, reconciles the same   *)
(* kernel to lists of its own now and then, with a pass that interleaves   *)
(* with dumbarpd's: both claim every rule of the priority and every route  *)
(* of the protocol.                                                        *)
(***************************************************************************)
EXTENDS Integers, Sequences

CONSTANTS
    Addrs, Gateways, Ifaces, Marks, None, MaxGen, MaxEvents,
    IfaceOrder, \* the interfaces in the order of the lease table's keys
    Leases,     \* the leases DHCP may give: [ip, gateway]
    RivalGoals, \* the lists a rival may work to
    Files       \* the configuration files dumbarpd may be started with

VARIABLES
    rules, routes, link,    \* the kernel
    pass, events,
    leases,     \* AppState.leases: interface -> a lease or None
    config,     \* the configuration of the process, None while there is none
    rivalPass,  \* the rival's pass
    granted,    \* history: the specs this process ever had leases for
    calm,       \* history: it found no rule that no delete fits, and since
                \* it started no request failed and no rival wrote
    swept       \* history: it has completed a pass

daemon == <<leases, config>>
history == <<granted, calm, swept>>
drVars == <<rules, routes, link, pass, events, daemon, rivalPass, history>>

RouteOf(i, l) ==
    [src |-> l.ip, gateway |-> l.gateway, iface |-> i, fwmark |-> 0]

\* current_routes: the leases in the order of the BTreeMap, so that of two
\* interfaces with one address the later one is served.  RoutesUpTo[n] are
\* the routes of the first n interfaces.
RoutesUpTo[n \in 0..Len(IfaceOrder)] ==
    IF n = 0 THEN <<>>
    ELSE IF leases[IfaceOrder[n]] = None THEN RoutesUpTo[n - 1]
    ELSE Append(RoutesUpTo[n - 1],
                RouteOf(IfaceOrder[n], leases[IfaceOrder[n]]))

CurrentRoutes == RoutesUpTo[Len(IfaceOrder)]

\* A pass is handed its list and never looks at the table again, so the two
\* passes have no goal of their own; what they are to arrive at is the table.
INSTANCE RouteManager WITH goal <- <<>>, Goals <- RivalGoals
Rival == INSTANCE RouteManager WITH goal <- <<>>, Goals <- RivalGoals,
                                    pass <- rivalPass
Asked == INSTANCE RouteManager WITH goal <- CurrentRoutes, Goals <- RivalGoals

Config == INSTANCE DaemonConfig

ASSUME DaemonRoutesAssumption ==
    /\ Addrs \subseteq Nat
    /\ Marks \subseteq Nat \ {0}
    /\ MaxGen \in Nat \ {0}
    /\ MaxEvents \in Nat
    /\ IfaceOrder \in Seq(Ifaces)
    /\ \A i \in Ifaces : \E k \in DOMAIN IfaceOrder : IfaceOrder[k] = i
    /\ Leases \subseteq [ip : Addrs, gateway : Gateways]
    /\ RivalGoals \subseteq Seq(RouteSpec)
    /\ None \notin IfIndex
    /\ None \notin ResolvedSpec
    /\ None \notin CurrentRoute
    /\ None \notin Tables
    /\ None \notin Leases

NoLeases == [i \in Ifaces |-> None]

NoneImmovable == \A t \in Tables : ~Immovable(t)

\* The kernel may hold anything of the priority and the protocol, whoever put
\* it there: any rules and route in a table.  A rule with a mark has a mask.
AnyKernel ==
    /\ rules \in [Tables -> Seq({r \in CurrentRule :
                                 r.fwmark # NoMark => r.fwmask # "none"})]
    /\ routes \in [Tables -> CurrentRoute \cup {None}]

\* A process that has just started, over the kernel it finds.
DrInit ==
    /\ link = [i \in Ifaces |-> [up |-> TRUE, gen |-> 1]]
    /\ pass = IdlePass
    /\ events = 0
    /\ leases = NoLeases
    /\ config \in {f \in Files : Config!Accepts(f)}
    /\ rivalPass = IdlePass
    /\ granted = {} /\ calm = NoneImmovable /\ swept = FALSE

-----------------------------------------------------------------------------

\* main builds a RouteManager for manage_routing only; a ticker with a period
\* of zero panics, which is the end of its task alone.
Managing == config # None /\ config.manage
Ticking == Managing /\ config.refresh > 0

\* reconcile_routing: the list is read under the lock of the table, which is
\* let go before the pass begins.  The first tick comes at once.
RefreshTick ==
    /\ UNCHANGED <<daemon, rivalPass, history>>
    /\ Ticking
    /\ Begin(CurrentRoutes)

RefreshStep ==
    /\ UNCHANGED <<daemon, rivalPass, granted>>
    /\ PassStep
    /\ calm' = (calm /\ events' = events)
    /\ swept' = (swept \/ pass' = IdlePass)

\* The DHCP task of an interface records or withdraws a lease.
LeaseChange(i, l) ==
    /\ Event
    /\ config # None
    /\ leases[i] # l
    /\ leases' = [leases EXCEPT ![i] = l]
    /\ granted' = granted \cup {RouteOf(i, m) : m \in {l} \ {None}}
    /\ UNCHANGED <<rules, routes, link, pass, config, rivalPass, calm, swept>>

\* dumbarpd ends, by a signal or a crash, and is started again with the file
\* there is now; a file it does not accept is the end of it.
Restart(f) ==
    /\ Event
    /\ pass' = IdlePass
    /\ leases' = NoLeases
    /\ config' = IF Config!Accepts(f) THEN f ELSE None
    /\ granted' = {}
    /\ calm' = (rivalPass = IdlePass /\ NoneImmovable)
    /\ swept' = FALSE
    /\ UNCHANGED <<rules, routes, link, rivalPass>>

RivalTick(g) ==
    /\ events < MaxEvents
    /\ rivalPass.pc = "idle"
    /\ rivalPass' = [IdlePass EXCEPT !.pc = "resolve", !.specs = g]
    /\ events' = events + 1
    /\ calm' = FALSE
    /\ UNCHANGED <<rules, routes, link, pass, daemon, granted, swept>>

RivalStep ==
    /\ UNCHANGED <<pass, daemon, granted, swept>>
    /\ Rival!PassStep
    /\ calm' = FALSE

Links ==
    /\ UNCHANGED <<daemon, rivalPass, history>>
    /\ \E i \in Ifaces : LinkDel(i) \/ LinkAdd(i)

DrNext ==
    \/ RefreshTick
    \/ RefreshStep
    \/ \E i \in Ifaces, l \in Leases \cup {None} : LeaseChange(i, l)
    \/ \E f \in Files : Restart(f)
    \/ \E g \in RivalGoals : RivalTick(g)
    \/ RivalStep
    \/ Links

DrSpec == AnyKernel /\ DrInit /\ [][DrNext]_drVars

\* The ticker ticks and an awaited request is answered; a rival's pass under
\* way ends too.
Fairness ==
    WF_drVars(RefreshTick) /\ WF_drVars(RefreshStep) /\ WF_drVars(RivalStep)

-----------------------------------------------------------------------------
(* Properties.                                                             *)

\* A table holds a spec's rule and route, or a part of them.
PartOf(t, s) ==
    /\ TableIdFor(s.src) = t
    /\ \A k \in DOMAIN rules[t] : rules[t][k] = RuleFor(s)
    /\ routes[t] # None => /\ routes[t].gateway = s.gateway
                           /\ routes[t].oif[1] = s.iface

\* From its first completed pass on, and unless a request fails or a rival
\* writes, nothing in the kernel is of a former process: every table is empty
\* or holds a spec of a lease this process has had, though nothing was purged
\* at its start.  (A foreign rule with a narrower mask can take the delete
\* that was meant for another, so it takes a further pass.)
NoLeftovers ==
    (swept /\ calm) =>
        \A t \in Tables :
            \/ rules[t] = <<>> /\ routes[t] = None
            \/ \E s \in granted : PartOf(t, s)

\* Whatever the kernel held at the start, and whatever rivals and former
\* processes did to it meanwhile, once the outside events have ceased it
\* comes to hold exactly what the lease table asks, for good: as long as there
\* is a process that manages routes, with any file it accepts.  A table with
\* a rule no delete fits does not keep the others from getting there.
Converges ==
    <>[](Managing => \A t \in Tables : Immovable(t) \/ Asked!Settled(t))
=============================================================================
