---------------------------- MODULE RouteManager ----------------------------
(***************************************************************************)
(* RouteManager::reconcile (dumbarp-routing/src/lib.rs): one pass brings   *)
(* the kernel's policy rules and routes to a desired list of RouteSpecs.   *)
(* A pass is a sequence of netlink requests, each awaited; every request   *)
(* is a step here, so that failures, a vanishing interface or the death of *)
(* the process can fall between any two of them.  The kernel side (which   *)
(* rule a delete removes, when an add is refused) is external.             *)
(*                                                                         *)
(* A pass keeps its local variables in the record `pass`.  A composed      *)
(* module instantiates this one once per concurrent caller of reconcile,   *)
(* sharing rules, routes and link.                                         *)
(***************************************************************************)
EXTENDS Integers, Sequences

CONSTANTS
    Addrs,      \* IPv4 addresses as numbers (u32::from(ip))
    Gateways,   \* next hops
    Ifaces,     \* interface names
    Marks,      \* non-zero firewall marks
    Goals,      \* the desired lists a caller may hand to reconcile
    None,       \* an absent HashMap entry or Option
    MaxGen,     \* bound: how often an interface is created
    MaxEvents   \* bound: outside events (faults, links, crashes, new goals)

VARIABLES
    rules,      \* kernel: table -> the dumbarp rules, in the kernel's order
    routes,     \* kernel: table -> the dumbarp default route, or None
    link,       \* kernel: interface -> [up, gen]
    pass,       \* the running pass's local variables
    goal,       \* the desired list the next pass starts from
    events      \* outside events so far

kernel == <<rules, routes>>
vars == <<rules, routes, link, pass, goal, events>>

-----------------------------------------------------------------------------
(* Data.                                                                   *)

\* Option<u32> fwmark: parse_dumbarp_rule turns a zero mark into None, and
\* no spec carries Some(0), so 0 stands for None.
NoMark == 0

RouteSpec == [src : Addrs, gateway : Gateways, iface : Ifaces,
              fwmark : Marks \cup {NoMark}]

\* The addition cannot wrap: it is applied to four small values only.
TableIdFor(ip) == IF ip \in {0, 253, 254, 255} THEN ip + 65536 ELSE ip

Tables == {TableIdFor(ip) : ip \in Addrs}

\* An interface created anew gets a new index.
IfIndex == Ifaces \X (1..MaxGen)

ResolvedSpec == [src : Addrs, gateway : Gateways, oif : IfIndex,
                 fwmark : Marks \cup {NoMark}]

Masks == {"none", "exact", "narrow"}

CurrentRule == [src : Addrs, fwmark : Marks \cup {NoMark}, fwmask : Masks]

CurrentRoute == [gateway : Gateways, oif : IfIndex, onlink : BOOLEAN]

ASSUME ConstantsAssumption ==
    /\ Addrs \subseteq Nat
    /\ Marks \subseteq Nat \ {0}
    /\ Goals \subseteq Seq(RouteSpec)
    /\ <<>> \in Goals
    /\ MaxGen \in Nat \ {0}
    /\ MaxEvents \in Nat
    /\ None \notin IfIndex
    /\ None \notin ResolvedSpec
    /\ None \notin CurrentRoute
    /\ None \notin Tables

ExpectedFwmask(fwmark) == IF fwmark = NoMark THEN "none" ELSE "exact"

\* The rule add_rule asks for, and the rule matches() accepts.
RuleFor(w) == [src |-> w.src, fwmark |-> w.fwmark,
               fwmask |-> ExpectedFwmask(w.fwmark)]

RouteFor(w) == [gateway |-> w.gateway, oif |-> w.oif, onlink |-> TRUE]

\* Seeded fault: the comparison forgets the interface.
MatchesNoOif(w, rs, rt) ==
    /\ w # None
    /\ rs = <<RuleFor(w)>>
    /\ rt # None
    /\ rt.gateway = w.gateway
    /\ rt.onlink

\* Seeded fault: the mask of an exact rule is not what is expected back.
MatchesNoMask(w, rs, rt) ==
    /\ w # None
    /\ rs = <<[RuleFor(w) EXCEPT !.fwmask = "none"]>>
    /\ rt = RouteFor(w)

\* Exactly one rule, equal to the wanted one, and the wanted route.
Matches(w, rs, rt) ==
    /\ w # None
    /\ rs = <<RuleFor(w)>>
    /\ rt = RouteFor(w)

-----------------------------------------------------------------------------
(* The kernel, as far as reconcile uses it.                                *)

\* Seeded fault: index 0, "no interface", is taken for an answer.
IndexOfZero(i) == <<i, 0>>

IndexOf(i) == <<i, link[i].gen>>
Exists(oif) == link[oif[1]].up /\ link[oif[1]].gen = oif[2]

\* A delete without a mark fits a rule with any mark; a delete with a mark
\* fits only the exact mask.
Fits(r, src, fwmark) ==
    /\ r.src = src
    /\ fwmark # NoMark => r.fwmark = fwmark /\ r.fwmask = "exact"

Fitting(t, src, fwmark) ==
    {k \in DOMAIN rules[t] : Fits(rules[t][k], src, fwmark)}

Without(s, k) == [j \in 1..(Len(s) - 1) |-> IF j < k THEN s[j] ELSE s[j + 1]]

\* An outside event may happen while the bound allows.
Event == events < MaxEvents /\ events' = events + 1

\* A request the kernel refuses for a reason of its own (ENOBUFS, EPERM...).
\* `refused` are the refusals that follow from the kernel's state.
Fails(refused) ==
    \/ refused /\ UNCHANGED events
    \/ ~refused /\ Event

-----------------------------------------------------------------------------
(* The pass.                                                               *)

\* The state of a pass between two calls of reconcile.
IdlePass == [pc |-> "idle", specs |-> <<>>,
             indices |-> [i \in Ifaces |-> None],
             resolved |-> [t \in Tables |-> None],
             haveRules |-> [t \in Tables |-> <<>>],
             haveRoutes |-> [t \in Tables |-> None],
             todo |-> {}, table |-> None, dels |-> <<>>, failed |-> FALSE]

Init ==
    /\ rules = [t \in Tables |-> <<>>]
    /\ routes = [t \in Tables |-> None]
    /\ link = [i \in Ifaces |-> [up |-> TRUE, gen |-> 1]]
    /\ pass = IdlePass
    /\ goal = <<>>
    /\ events = 0

\* reconcile(&desired) is called.
Begin(desired) ==
    /\ pass.pc = "idle"
    /\ pass' = [IdlePass EXCEPT !.pc = "resolve", !.specs = desired]
    /\ UNCHANGED <<rules, routes, link, goal, events>>

\* One turn of the loop over desired: an index looked up earlier in this
\* pass is reused, a failed lookup is not remembered and drops the spec.
\* A later spec for the same table replaces an earlier one.
ResolveSpec ==
    /\ pass.pc = "resolve"
    /\ pass.specs # <<>>
    /\ LET s == Head(pass.specs)
           known == pass.indices[s.iface]
           idx == IF known # None THEN known ELSE IndexOf(s.iface)
           w == [src |-> s.src, gateway |-> s.gateway, oif |-> idx,
                 fwmark |-> s.fwmark]
       IN \/ /\ known # None \/ link[s.iface].up
             /\ pass' = [pass EXCEPT !.specs = Tail(@),
                                     !.indices[s.iface] = idx,
                                     !.resolved[TableIdFor(s.src)] = w]
             /\ UNCHANGED events
          \/ /\ known = None
             /\ Fails(~link[s.iface].up)
             /\ pass' = [pass EXCEPT !.specs = Tail(@)]
    /\ UNCHANGED <<rules, routes, link, goal>>

\* A failed dump ends the pass with an error.
ListRules ==
    /\ pass.pc = "resolve"
    /\ pass.specs = <<>>
    /\ \/ /\ pass' = [pass EXCEPT !.pc = "listRoutes", !.haveRules = rules]
          /\ UNCHANGED events
       \/ Fails(FALSE) /\ pass' = IdlePass
    /\ UNCHANGED <<rules, routes, link, goal>>

ListRoutes ==
    /\ pass.pc = "listRoutes"
    /\ \/ /\ pass' = [pass EXCEPT
                !.pc = "next",
                !.haveRoutes = routes,
                !.todo = {t \in Tables : \/ pass.haveRules[t] # <<>>
                                         \/ routes[t] # None
                                         \/ pass.resolved[t] # None}]
          /\ UNCHANGED events
       \/ Fails(FALSE) /\ pass' = IdlePass
    /\ UNCHANGED <<rules, routes, link, goal>>

\* The next table, in the HashSet's arbitrary order.
VisitTable(t) ==
    /\ pass.pc = "next"
    /\ t \in pass.todo
    /\ pass' = IF Matches(pass.resolved[t], pass.haveRules[t],
                          pass.haveRoutes[t])
               THEN [pass EXCEPT !.todo = @ \ {t}]
               ELSE [pass EXCEPT !.pc = "delete", !.todo = @ \ {t},
                                 !.table = t,
                                 !.dels = pass.haveRules[t],
                                 !.failed = FALSE]
    /\ UNCHANGED <<rules, routes, link, goal, events>>

\* del_rule for the next rule of the table's listed rules.
DelRule ==
    /\ pass.pc = "delete"
    /\ pass.dels # <<>>
    /\ LET t == pass.table
           r == Head(pass.dels)
           fit == Fitting(t, r.src, r.fwmark)
       IN \/ /\ \E k \in fit :
                 /\ \A j \in fit : k <= j
                 /\ rules' = [rules EXCEPT ![t] = Without(@, k)]
             /\ pass' = [pass EXCEPT !.dels = Tail(@)]
             /\ UNCHANGED events
          \/ /\ Fails(fit = {})
             /\ pass' = [pass EXCEPT !.dels = Tail(@), !.failed = TRUE]
             /\ UNCHANGED rules
    /\ UNCHANGED <<routes, link, goal>>

\* Seeded fault: stale state that would not go does not stop the add.
AfterDeletesEager(failed) ==
    IF pass.resolved[pass.table] # None THEN "addRule" ELSE "next"

\* Where a table goes once its stale state is dealt with: nothing is added
\* while a delete has failed.
AfterDeletes(failed) ==
    IF pass.resolved[pass.table] # None /\ ~failed THEN "addRule" ELSE "next"

\* del_route, when a route was listed; then the decision to add.
DelRoute ==
    /\ pass.pc = "delete"
    /\ pass.dels = <<>>
    /\ LET t == pass.table
           Then(failed) == pass' = [pass EXCEPT !.failed = failed,
                                                !.pc = AfterDeletes(failed)]
       IN \/ /\ pass.haveRoutes[t] = None
             /\ Then(pass.failed)
             /\ UNCHANGED <<routes, events>>
          \/ /\ pass.haveRoutes[t] # None
             /\ routes[t] # None
             /\ routes' = [routes EXCEPT ![t] = None]
             /\ Then(pass.failed)
             /\ UNCHANGED events
          \/ /\ pass.haveRoutes[t] # None
             /\ Fails(routes[t] = None)
             /\ Then(TRUE)
             /\ UNCHANGED routes
    /\ UNCHANGED <<rules, link, goal>>

\* add_rule: refused when an equal rule exists.  A failure skips the route.
AddRule ==
    /\ pass.pc = "addRule"
    /\ LET t == pass.table
           r == RuleFor(pass.resolved[t])
           dup == \E k \in DOMAIN rules[t] : rules[t][k] = r
       IN \/ /\ ~dup
             /\ rules' = [rules EXCEPT ![t] = Append(@, r)]
             /\ pass' = [pass EXCEPT !.pc = "addRoute"]
             /\ UNCHANGED events
          \/ /\ Fails(dup)
             /\ pass' = [pass EXCEPT !.pc = "next"]
             /\ UNCHANGED rules
    /\ UNCHANGED <<routes, link, goal>>

\* add_route: refused when the table has a route or the index is gone.
AddRoute ==
    /\ pass.pc = "addRoute"
    /\ LET t == pass.table
           w == pass.resolved[t]
           refused == routes[t] # None \/ ~Exists(w.oif)
       IN \/ /\ ~refused
             /\ routes' = [routes EXCEPT ![t] = RouteFor(w)]
             /\ UNCHANGED events
          \/ /\ Fails(refused)
             /\ UNCHANGED routes
    /\ pass' = [pass EXCEPT !.pc = "next"]
    /\ UNCHANGED <<rules, link, goal>>

\* Every table has been visited: reconcile returns.
Finish ==
    /\ pass.pc = "next"
    /\ pass.todo = {}
    /\ pass' = IdlePass
    /\ UNCHANGED <<rules, routes, link, goal, events>>

\* A step of a pass under way.
PassStep ==
    \/ ResolveSpec
    \/ ListRules
    \/ ListRoutes
    \/ \E t \in Tables : VisitTable(t)
    \/ DelRule
    \/ DelRoute
    \/ AddRule
    \/ AddRoute
    \/ Finish

-----------------------------------------------------------------------------
(* The world around a pass.                                                *)

\* The caller's view of the leases has changed.
NewGoal(g) ==
    /\ Event
    /\ goal # g
    /\ goal' = g
    /\ UNCHANGED <<rules, routes, link, pass>>

\* An interface goes: the kernel flushes the routes through it.
LinkDel(i) ==
    /\ Event
    /\ link[i].up
    /\ link' = [link EXCEPT ![i].up = FALSE]
    /\ routes' = [t \in Tables |->
           IF routes[t] # None /\ routes[t].oif[1] = i THEN None
                                                      ELSE routes[t]]
    /\ UNCHANGED <<rules, pass, goal>>

\* It comes back under a new index; its return is not counted as an event.
LinkAdd(i) ==
    /\ ~link[i].up
    /\ link[i].gen < MaxGen
    /\ link' = [link EXCEPT ![i] = [up |-> TRUE, gen |-> @.gen + 1]]
    /\ UNCHANGED <<rules, routes, pass, goal, events>>

\* The process dies between two requests; what it wrote stays.
Crash ==
    /\ Event
    /\ pass # IdlePass
    /\ pass' = IdlePass
    /\ UNCHANGED <<rules, routes, link, goal>>

Next ==
    \/ Begin(goal)
    \/ PassStep
    \/ \E g \in Goals : NewGoal(g)
    \/ \E i \in Ifaces : LinkDel(i) \/ LinkAdd(i)
    \/ Crash

Spec == Init /\ [][Next]_vars

-----------------------------------------------------------------------------
(* Properties.                                                             *)

PassType ==
    [pc : {"idle", "resolve", "listRoutes", "next", "delete", "addRule",
           "addRoute"},
     specs : Seq(RouteSpec),
     indices : [Ifaces -> IfIndex \cup {None}],
     resolved : [Tables -> ResolvedSpec \cup {None}],
     haveRules : [Tables -> Seq(CurrentRule)],
     haveRoutes : [Tables -> CurrentRoute \cup {None}],
     todo : SUBSET Tables,
     table : Tables \cup {None},
     dels : Seq(CurrentRule),
     failed : BOOLEAN]

\* The kernel's and the pass's variables keep their types, and a table under
\* work is a table.
TypeOK ==
    /\ rules \in [Tables -> Seq(CurrentRule)]
    /\ routes \in [Tables -> CurrentRoute \cup {None}]
    /\ link \in [Ifaces -> [up : BOOLEAN, gen : 1..MaxGen]]
    /\ pass \in PassType
    /\ goal \in Goals
    /\ events \in 0..MaxEvents
    /\ pass.pc \in {"delete", "addRule", "addRoute"} => pass.table \in Tables

\* Started from a clean kernel, no sequence of failed requests, crashes and
\* new goals ever leaves a table with two dumbarp rules: what reconcile
\* (lib.rs 98-104) calls "multiple dumbarp rules for one table" cannot be of
\* its own making.
OneRulePerTable == \A t \in Tables : Len(rules[t]) <= 1

Requested == UNION {{g[k] : k \in DOMAIN g} : g \in Goals}

\* A rule and a route that came from one RouteSpec of table t.
FromOneSpec(t, r, rt) ==
    \E s \in Requested :
        /\ TableIdFor(s.src) = t
        /\ r = RuleFor(s)
        /\ rt.gateway = s.gateway
        /\ rt.oif[1] = s.iface
        /\ rt.onlink

\* Whatever fails, and wherever a process dies, a table never pairs the rule
\* of one spec with the route of another: traffic is steered as somebody
\* asked or not at all (lib.rs 105-137, delete before add, no add after a
\* failed delete).
NeverMixed ==
    \A t \in Tables : routes[t] # None =>
        \A k \in DOMAIN rules[t] : FromOneSpec(t, rules[t][k], routes[t])

\* What a pass knows, step by step, when nobody else writes the kernel's
\* tables.  These make the properties above and NoFlap inductive.

\* Everything the pass works from was asked for.
Working == {"next", "delete", "addRule", "addRoute"}

AskedFor ==
    /\ \A k \in DOMAIN pass.specs : pass.specs[k] \in Requested
    /\ \A i \in Ifaces : pass.indices[i] # None => pass.indices[i][1] = i
    /\ \A t \in Tables : pass.resolved[t] # None =>
          LET w == pass.resolved[t]
          IN FromOneSpec(t, RuleFor(w), RouteFor(w))

\* A table not yet visited is still as it was listed, but that a route may
\* have gone with its interface.
ListedIsCurrent ==
    /\ pass.pc = "listRoutes" => pass.haveRules = rules
    /\ pass.pc \in Working =>
          \A t \in pass.todo : /\ pass.haveRules[t] = rules[t]
                               /\ routes[t] \in {None, pass.haveRoutes[t]}

\* The table under work: no add before both deletes have succeeded.
TableUnderWork ==
    LET t == pass.table
    IN /\ pass.pc \in {"delete", "addRule", "addRoute"} => t \notin pass.todo
       /\ pass.pc = "delete" =>
             /\ ~Matches(pass.resolved[t], pass.haveRules[t],
                         pass.haveRoutes[t])
             /\ rules[t] \in {pass.haveRules[t], <<>>}
             /\ routes[t] \in {None, pass.haveRoutes[t]}
             /\ pass.dels # <<>> => /\ pass.dels = pass.haveRules[t]
                                    /\ rules[t] = pass.haveRules[t]
             /\ pass.dels = <<>> /\ ~pass.failed => rules[t] = <<>>
       /\ pass.pc \in {"addRule", "addRoute"} =>
             pass.resolved[t] # None /\ routes[t] = None
       /\ pass.pc = "addRule" => rules[t] = <<>>
       /\ pass.pc = "addRoute" => rules[t] = <<RuleFor(pass.resolved[t])>>

\* The inductive invariant of a pass that has the tables to itself: what it
\* listed is what it deletes, so a rule is only ever added to an empty table
\* (lib.rs 68-139).
PassInv ==
    /\ TypeOK
    /\ OneRulePerTable
    /\ NeverMixed
    /\ AskedFor
    /\ ListedIsCurrent
    /\ TableUnderWork

\* The pairs a table may steer by.
AllowedPairs(t) ==
    {p \in CurrentRule \X CurrentRoute : FromOneSpec(t, p[1], p[2])}

\* What a table steers by: the first rule and the route, if it has both.
SteersOf(t) ==
    IF rules[t] = <<>> \/ routes[t] = None THEN None
                                           ELSE <<rules[t][1], routes[t]>>

Promise == INSTANCE Steering WITH
               steers <- [t \in Tables |-> SteersOf(t)],
               Allowed <- AllowedPairs

\* The stepwise pass implements the abstract promise: a table goes from one
\* spec to the next only through steering nothing, and never by a mixture.
ImplementsSteering == Promise!Spec

\* What the current goal asks of table t over the interfaces there are: the
\* last spec whose interface exists.
WantedNow(t) ==
    LET ks == {k \in DOMAIN goal : /\ TableIdFor(goal[k].src) = t
                                   /\ link[goal[k].iface].up}
    IN IF ks = {} THEN None
       ELSE LET s == goal[CHOOSE k \in ks : \A j \in ks : j <= k]
            IN [src |-> s.src, gateway |-> s.gateway,
                oif |-> IndexOf(s.iface), fwmark |-> s.fwmark]

Installed(t, w) ==
    IF w = None THEN rules[t] = <<>> /\ routes[t] = None
                ELSE rules[t] = <<RuleFor(w)>> /\ routes[t] = RouteFor(w)

\* A pass never touches a table that already is as the pass wants it
\* (lib.rs 84-92): without a change of the goal, repeated passes do not flap.
NoFlap ==
    [][\A t \in Tables :
          PassStep /\ Installed(t, pass.resolved[t]) =>
              rules'[t] = rules[t] /\ routes'[t] = routes[t]]_vars

\* What the goal asks of a table is there.
Settled(t) == Installed(t, WantedNow(t))

\* A table with a rule that no delete fits.
Immovable(t) == \E k \in DOMAIN rules[t] : rules[t][k].fwmask = "narrow"

=============================================================================
