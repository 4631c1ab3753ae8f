------------------------- MODULE DaemonRoutesProofs -------------------------
(***************************************************************************)
(* dumbarpd neither purges when it starts nor tears down when it ends, so  *)
(* it starts over a kernel in any state: its first pass clears what is not *)
(* its own, for every set of interfaces, leases, files and rivals.         *)
(*                                                                         *)
(* The facts about one pass come from RouteManagerProofs, for dumbarpd's   *)
(* pass through P and for the rival's through R.  A pass knows the list it *)
(* was handed and not where it came from, so both take every list for a    *)
(* goal.                                                                   *)
(***************************************************************************)
EXTENDS DaemonRoutes, WellFoundedInduction, TLAPS

AnyList == Seq(RouteSpec)

P == INSTANCE RouteManagerProofs WITH goal <- <<>>, Goals <- AnyList
R == INSTANCE RouteManagerProofs WITH goal <- <<>>, Goals <- AnyList,
                                      pass <- rivalPass

-----------------------------------------------------------------------------
(* The instances of RouteManager speak of the same things.                 *)

LEMMA SameTables ==
    P!Tables = Tables /\ R!Tables = Tables /\ Rival!Tables = Tables
  BY DEF P!Tables, R!Tables, Rival!Tables, Tables, P!TableIdFor, R!TableIdFor,
         Rival!TableIdFor, TableIdFor

LEMMA SameData ==
    /\ P!RouteSpec = RouteSpec /\ P!IfIndex = IfIndex
    /\ P!ResolvedSpec = ResolvedSpec /\ P!CurrentRule = CurrentRule
    /\ P!CurrentRoute = CurrentRoute
    /\ R!RouteSpec = RouteSpec /\ R!IfIndex = IfIndex
    /\ R!ResolvedSpec = ResolvedSpec /\ R!CurrentRule = CurrentRule
    /\ R!CurrentRoute = CurrentRoute
  BY DEF P!RouteSpec, R!RouteSpec, RouteSpec, P!IfIndex, R!IfIndex, IfIndex,
         P!ResolvedSpec, R!ResolvedSpec, ResolvedSpec, P!CurrentRule, R!CurrentRule,
         CurrentRule, P!CurrentRoute, R!CurrentRoute, CurrentRoute, P!Masks, R!Masks,
         Masks, P!NoMark, R!NoMark, NoMark

LEMMA SameIdle ==
    P!IdlePass = IdlePass /\ R!IdlePass = IdlePass /\ Rival!IdlePass = IdlePass
  BY SameTables DEF P!IdlePass, R!IdlePass, Rival!IdlePass, IdlePass

\* The assumptions under which the lemmas of P and R hold.
LEMMA PassAssumption ==
    /\ Addrs \subseteq Nat
    /\ Marks \subseteq Nat \ {0}
    /\ AnyList \subseteq Seq(P!RouteSpec) /\ AnyList \subseteq Seq(R!RouteSpec)
    /\ <<>> \in AnyList
    /\ MaxGen \in Nat \ {0}
    /\ MaxEvents \in Nat
    /\ None \notin P!IfIndex /\ None \notin R!IfIndex
    /\ None \notin P!ResolvedSpec /\ None \notin R!ResolvedSpec
    /\ None \notin P!CurrentRoute /\ None \notin R!CurrentRoute
    /\ None \notin P!Tables /\ None \notin R!Tables
<1>1. <<>> \in Seq(RouteSpec)
  OBVIOUS
<1> QED BY <1>1, DaemonRoutesAssumption, SameData, SameTables DEF AnyList

LEMMA SameStep == PassStep => P!PassStep
<1>1. ResolveSpec => P!ResolveSpec
  BY DEF ResolveSpec, P!ResolveSpec, IndexOf, P!IndexOf, Fails, P!Fails, Event, P!Event,
         TableIdFor, P!TableIdFor
<1>2. ListRules => P!ListRules
  BY SameIdle DEF ListRules, P!ListRules, Fails, P!Fails, Event, P!Event
<1>3. ListRoutes => P!ListRoutes
  BY SameIdle, SameTables DEF ListRoutes, P!ListRoutes, Fails, P!Fails, Event, P!Event
<1>4. DelRule => P!DelRule
  BY DEF DelRule, P!DelRule, Fitting, P!Fitting, Fits, P!Fits, NoMark, P!NoMark,
         Without, P!Without, Fails, P!Fails, Event, P!Event
<1>5. DelRoute => P!DelRoute
  BY DEF DelRoute, P!DelRoute, AfterDeletes, P!AfterDeletes, Fails, P!Fails, Event,
         P!Event
<1>6. AddRule => P!AddRule
  BY DEF AddRule, P!AddRule, RuleFor, P!RuleFor, ExpectedFwmask, P!ExpectedFwmask,
         NoMark, P!NoMark, Fails, P!Fails, Event, P!Event
<1>7. AddRoute => P!AddRoute
  BY DEF AddRoute, P!AddRoute, RouteFor, P!RouteFor, Exists, P!Exists, Fails, P!Fails,
         Event, P!Event
<1>8. Finish => P!Finish
  BY SameIdle DEF Finish, P!Finish
<1>9. ASSUME NEW t PROVE VisitTable(t) => P!VisitTable(t)
  BY DEF VisitTable, P!VisitTable, Matches, P!Matches, RuleFor, P!RuleFor, RouteFor,
         P!RouteFor, ExpectedFwmask, P!ExpectedFwmask, NoMark, P!NoMark
<1> QED BY <1>1, <1>2, <1>3, <1>4, <1>5, <1>6, <1>7, <1>8, <1>9, SameTables
        DEF PassStep, P!PassStep

LEMMA SameRivalStep == Rival!PassStep => R!PassStep
<1>1. Rival!ResolveSpec => R!ResolveSpec
  BY DEF Rival!ResolveSpec, R!ResolveSpec, Rival!IndexOf, R!IndexOf, Rival!Fails,
         R!Fails, Rival!Event, R!Event, Rival!TableIdFor, R!TableIdFor
<1>2. Rival!ListRules => R!ListRules
  BY SameIdle DEF Rival!ListRules, R!ListRules, Rival!Fails, R!Fails, Rival!Event,
         R!Event
<1>3. Rival!ListRoutes => R!ListRoutes
  BY SameIdle, SameTables DEF Rival!ListRoutes, R!ListRoutes, Rival!Fails, R!Fails,
         Rival!Event, R!Event
<1>4. Rival!DelRule => R!DelRule
  BY DEF Rival!DelRule, R!DelRule, Rival!Fitting, R!Fitting, Rival!Fits, R!Fits,
         Rival!NoMark, R!NoMark, Rival!Without, R!Without, Rival!Fails, R!Fails,
         Rival!Event, R!Event
<1>5. Rival!DelRoute => R!DelRoute
  BY DEF Rival!DelRoute, R!DelRoute, Rival!AfterDeletes, R!AfterDeletes, Rival!Fails,
         R!Fails, Rival!Event, R!Event
<1>6. Rival!AddRule => R!AddRule
  BY DEF Rival!AddRule, R!AddRule, Rival!RuleFor, R!RuleFor, Rival!ExpectedFwmask,
         R!ExpectedFwmask, Rival!NoMark, R!NoMark, Rival!Fails, R!Fails, Rival!Event,
         R!Event
<1>7. Rival!AddRoute => R!AddRoute
  BY DEF Rival!AddRoute, R!AddRoute, Rival!RouteFor, R!RouteFor, Rival!Exists, R!Exists,
         Rival!Fails, R!Fails, Rival!Event, R!Event
<1>8. Rival!Finish => R!Finish
  BY SameIdle DEF Rival!Finish, R!Finish
<1>9. ASSUME NEW t PROVE Rival!VisitTable(t) => R!VisitTable(t)
  BY DEF Rival!VisitTable, R!VisitTable, Rival!Matches, R!Matches, Rival!RuleFor,
         R!RuleFor, Rival!RouteFor, R!RouteFor, Rival!ExpectedFwmask, R!ExpectedFwmask,
         Rival!NoMark, R!NoMark
<1> QED BY <1>1, <1>2, <1>3, <1>4, <1>5, <1>6, <1>7, <1>8, <1>9, SameTables
        DEF Rival!PassStep, R!PassStep

-----------------------------------------------------------------------------
(* The list of a tick.                                                     *)

\* Induction as a fact about sets: a set of counterexamples has a least one.
LEMMA LeastBad ==
    ASSUME NEW B \in SUBSET Nat, B # {}
    PROVE  \E n \in B : \A m \in Nat : m < n => m \notin B
<1>1. PICK x \in B : \A y \in B : ~(<<y, x>> \in OpToRel(<, Nat))
  BY WFMin, NatLessThanWellFounded, Zenon
<1>2. \A y \in B : ~(y < x)
  BY <1>1 DEF OpToRel
<1> QED BY <1>2

\* The recursion defines a function.
LEMMA RoutesUpToAt ==
    ASSUME NEW n \in 0..Len(IfaceOrder)
    PROVE  RoutesUpTo[n] =
              IF n = 0 THEN <<>>
              ELSE IF leases[IfaceOrder[n]] = None THEN RoutesUpTo[n - 1]
              ELSE Append(RoutesUpTo[n - 1],
                          RouteOf(IfaceOrder[n], leases[IfaceOrder[n]]))
<1> DEFINE Step(m, p) == IF leases[IfaceOrder[m]] = None THEN p
                         ELSE Append(p, RouteOf(IfaceOrder[m], leases[IfaceOrder[m]]))
           IsUpTo(f, N) == f = [m \in 0..N |-> IF m = 0 THEN <<>> ELSE Step(m, f[m - 1])]
           Bad == {N \in Nat : ~\E f : IsUpTo(f, N)}
<1>1. Len(IfaceOrder) \in Nat
  BY DaemonRoutesAssumption
<1>2. ASSUME \E f : IsUpTo(f, Len(IfaceOrder)) PROVE IsUpTo(RoutesUpTo, Len(IfaceOrder))
  BY <1>2 DEF RoutesUpTo
<1>3. ASSUME IsUpTo(RoutesUpTo, Len(IfaceOrder))
      PROVE  RoutesUpTo[n] = IF n = 0 THEN <<>> ELSE Step(n, RoutesUpTo[n - 1])
  <2> HIDE DEF Step
  <2> QED BY <1>3
<1>4. \E f : IsUpTo(f, Len(IfaceOrder))
  <2> HIDE DEF Step
  <2> SUFFICES ASSUME Bad # {} PROVE FALSE
    BY <1>1
  <2>1. PICK N \in Bad : \A m \in Nat : m < N => m \notin Bad
    BY LeastBad
  <2>2. CASE N = 0
    <3>1. IsUpTo([m \in 0..0 |-> <<>>], 0)
      OBVIOUS
    <3> QED BY <2>1, <2>2, <3>1
  <2>3. CASE N # 0
    <3>1. N \in Nat /\ N - 1 \in Nat /\ N - 1 < N
      BY <2>1, <2>3
    <3>2. PICK g : IsUpTo(g, N - 1)
      BY <2>1, <3>1
    <3> DEFINE h == [m \in 0..N |-> IF m < N THEN g[m] ELSE Step(N, g[N - 1])]
    <3>3. ASSUME NEW m \in 0..N
          PROVE  h[m] = IF m = 0 THEN <<>> ELSE Step(m, h[m - 1])
      <4>1. CASE m < N
        <5>1. m \in 0..(N - 1)
          BY <3>1, <4>1
        <5>2. h[m] = g[m] /\ (m # 0 => h[m - 1] = g[m - 1])
          BY <3>1, <4>1
        <5>3. g[m] = IF m = 0 THEN <<>> ELSE Step(m, g[m - 1])
          BY <3>2, <5>1
        <5> QED BY <5>2, <5>3
      <4>2. CASE m = N
        BY <2>3, <3>1, <4>2
      <4> QED BY <3>1, <4>1, <4>2
    <3>4. IsUpTo(h, N)
      BY <3>3
    <3> QED BY <2>1, <3>4
  <2> QED BY <2>2, <2>3
<1> QED BY <1>2, <1>3, <1>4

\* Every route of the list is of a lease of the table.
LEMMA CurrentRoutesFacts ==
    ASSUME NEW S, \A i \in Ifaces : leases[i] # None => RouteOf(i, leases[i]) \in S
    PROVE  CurrentRoutes \in Seq(S)
<1> DEFINE Bad == {n \in Nat : n \in 0..Len(IfaceOrder) /\ RoutesUpTo[n] \notin Seq(S)}
<1>1. Len(IfaceOrder) \in Nat /\ \A n \in 1..Len(IfaceOrder) : IfaceOrder[n] \in Ifaces
  BY DaemonRoutesAssumption
<1> SUFFICES ASSUME Bad # {} PROVE FALSE
  BY <1>1 DEF CurrentRoutes
<1>2. PICK n \in Bad : \A m \in Nat : m < n => m \notin Bad
  BY LeastBad
<1>3. CASE n = 0
  <2>1. RoutesUpTo[n] = <<>>
    BY <1>2, <1>3, RoutesUpToAt
  <2>2. <<>> \in Seq(S)
    OBVIOUS
  <2> QED BY <1>2, <2>1, <2>2
<1>4. CASE n # 0
  <2>1. n \in 1..Len(IfaceOrder) /\ n - 1 \in 0..Len(IfaceOrder) /\ n - 1 < n
    BY <1>1, <1>2, <1>4
  <2>2. RoutesUpTo[n - 1] \in Seq(S)
    BY <1>2, <2>1
  <2>3. IfaceOrder[n] \in Ifaces
    BY <1>1, <2>1
  <2> DEFINE e == RouteOf(IfaceOrder[n], leases[IfaceOrder[n]])
  <2>4. leases[IfaceOrder[n]] # None => e \in S
    BY <2>3
  <2>5. RoutesUpTo[n] = IF leases[IfaceOrder[n]] = None THEN RoutesUpTo[n - 1]
                        ELSE Append(RoutesUpTo[n - 1], e)
    BY <1>2, <1>4, RoutesUpToAt
  <2> HIDE DEF e
  <2>6. RoutesUpTo[n] \in Seq(S)
    BY <2>2, <2>4, <2>5
  <2> QED BY <1>2, <2>6
<1> QED BY <1>3, <1>4

-----------------------------------------------------------------------------
(* The inductive invariant.                                                *)

KernelOK ==
    /\ rules \in [Tables -> Seq(CurrentRule)]
    /\ routes \in [Tables -> CurrentRoute \cup {None}]
    /\ link \in [Ifaces -> [up : BOOLEAN, gen : 1..MaxGen]]
    /\ events \in 0..MaxEvents
    /\ \A t \in Tables : \A k \in DOMAIN rules[t] :
          rules[t][k].fwmark # NoMark => rules[t][k].fwmask # "none"

PassOK(p) ==
    /\ p \in PassType
    /\ p.pc \in {"delete", "addRule", "addRoute"} => p.table \in Tables
    /\ p.pc \in {"addRule", "addRoute"} => p.resolved[p.table] # None

\* The lease table and the history of it.
LeasesOK ==
    /\ leases \in [Ifaces -> Leases \cup {None}]
    /\ granted \subseteq RouteSpec
    /\ \A i \in Ifaces : leases[i] # None => RouteOf(i, leases[i]) \in granted

\* A calm process has the tables to itself, and its pass is on the way to
\* clearing them; once it has swept them they stay clear.
CalmClears ==
    calm => /\ rivalPass = IdlePass
            /\ P!Movable
            /\ P!Clearing(granted)
            /\ swept => P!AllCleared(granted)

DrInv ==
    /\ KernelOK /\ PassOK(pass) /\ PassOK(rivalPass)
    /\ LeasesOK
    /\ calm \in BOOLEAN /\ swept \in BOOLEAN
    /\ CalmClears

LEMMA SameTyped ==
    /\ P!Typed <=> KernelOK /\ PassOK(pass)
    /\ P!Typed' <=> KernelOK' /\ PassOK(pass')
    /\ R!Typed <=> KernelOK /\ PassOK(rivalPass)
    /\ R!Typed' <=> KernelOK' /\ PassOK(rivalPass')
<1>1. P!PassType = PassType /\ R!PassType = PassType
  BY SameData, SameTables DEF P!PassType, R!PassType, PassType
<1>2. <<>> \in AnyList
  BY PassAssumption
<1>3. P!Typed <=> KernelOK /\ PassOK(pass)
  BY <1>1, <1>2, SameData, SameTables
  DEF P!Typed, P!TypeOK, P!Masked, P!NoMark, NoMark, KernelOK, PassOK
<1>4. P!Typed' <=> KernelOK' /\ PassOK(pass')
  BY <1>1, <1>2, SameData, SameTables
  DEF P!Typed, P!TypeOK, P!Masked, P!NoMark, NoMark, KernelOK, PassOK
<1>5. R!Typed <=> KernelOK /\ PassOK(rivalPass)
  BY <1>1, <1>2, SameData, SameTables
  DEF R!Typed, R!TypeOK, R!Masked, R!NoMark, NoMark, KernelOK, PassOK
<1>6. R!Typed' <=> KernelOK' /\ PassOK(rivalPass')
  BY <1>1, <1>2, SameData, SameTables
  DEF R!Typed, R!TypeOK, R!Masked, R!NoMark, NoMark, KernelOK, PassOK
<1> QED BY <1>3, <1>4, <1>5, <1>6

LEMMA SameMovable == (NoneImmovable <=> P!Movable) /\ (P!Movable' <=> NoneImmovable')
  BY SameTables DEF NoneImmovable, P!Movable, P!Immovable, Immovable

\* The lemmas of P speak of a fixed set of specs.
LEMMA OfGranted ==
    ASSUME NEW G
    PROVE  /\ G = granted => /\ P!Clearing(granted) <=> P!Clearing(G)
                             /\ P!AllCleared(granted) <=> P!AllCleared(G)
           /\ G = granted' => /\ P!Clearing(granted)' <=> P!Clearing(G)'
                              /\ P!AllCleared(granted)' <=> P!AllCleared(G)'
  BY DEF P!Clearing, P!AskedOf, P!AllCleared, P!Cleared

LEMMA IdleOK == PassOK(IdlePass)
<1>1. IdlePass \in PassType /\ IdlePass.pc = "idle"
  BY DEF IdlePass, PassType
<1> QED BY <1>1 DEF PassOK

LEMMA BeginOK ==
    ASSUME NEW d \in Seq(RouteSpec)
    PROVE  PassOK([IdlePass EXCEPT !.pc = "resolve", !.specs = d])
  BY IdleOK DEF PassOK, PassType

\* Between passes there is nothing to clear yet.
LEMMA IdleClears == ASSUME pass' = IdlePass PROVE P!Clearing(granted)'
<1>1. PICK G : G = granted'
  OBVIOUS
<1>2. P!Clearing(G)'
  BY PassAssumption, SameIdle, P!ClearingIdle
<1> QED BY <1>1, <1>2, OfGranted

\* Routes may go with their interface and leases may come; neither puts a
\* calm process off.
LEMMA CalmLess ==
    ASSUME DrInv, UNCHANGED <<rules, pass, rivalPass, calm, swept>>,
           \A t \in Tables : routes'[t] \in {routes[t], None},
           granted \subseteq granted'
    PROVE  CalmClears'
<1> SUFFICES ASSUME calm PROVE CalmClears'
  BY DEF CalmClears
<1>1. PICK G : G = granted
  OBVIOUS
<1>2. PICK H : H = granted'
  OBVIOUS
<1>3. P!Typed /\ P!Clearing(G) /\ rivalPass = IdlePass /\ P!Movable
      /\ (swept => P!AllCleared(G))
  BY <1>1, SameTyped, OfGranted DEF DrInv, CalmClears
<1>4. P!Clearing(H)' /\ (P!AllCleared(G) => P!AllCleared(H)')
  BY <1>1, <1>2, <1>3, PassAssumption, SameTables, P!ClearingLess
<1>5. P!Movable'
  BY <1>3 DEF P!Movable, P!Immovable
<1>6. P!Clearing(granted)' /\ (swept' => P!AllCleared(granted)')
  BY <1>2, <1>3, <1>4, OfGranted
<1> QED BY <1>3, <1>5, <1>6, SameIdle DEF CalmClears

-----------------------------------------------------------------------------
(* The steps.                                                              *)

LEMMA InitDr == AnyKernel /\ DrInit => DrInv
<1> SUFFICES ASSUME AnyKernel, DrInit PROVE DrInv
  OBVIOUS
<1> DEFINE C == {r \in CurrentRule : r.fwmark # NoMark => r.fwmask # "none"}
<1>1. ASSUME NEW t \in Tables
      PROVE  /\ rules[t] \in Seq(CurrentRule)
             /\ \A k \in DOMAIN rules[t] :
                   rules[t][k].fwmark # NoMark => rules[t][k].fwmask # "none"
  <2>1. rules[t] \in Seq(C)
    BY <1>1 DEF AnyKernel
  <2>2. \A k \in DOMAIN rules[t] : rules[t][k] \in C
    BY <2>1
  <2>3. \A k \in 1..Len(rules[t]) : rules[t][k] \in CurrentRule
    BY <2>1, <2>2
  <2>4. rules[t] \in Seq(CurrentRule)
    BY <2>1, <2>3
  <2> QED BY <2>2, <2>4
<1>2. rules \in [Tables -> Seq(CurrentRule)]
  BY <1>1 DEF AnyKernel
<1>3. KernelOK
  BY <1>1, <1>2, DaemonRoutesAssumption DEF AnyKernel, DrInit, KernelOK
<1>4. PassOK(pass) /\ PassOK(rivalPass)
  BY IdleOK DEF DrInit
<1>5. LeasesOK
  BY DEF DrInit, LeasesOK, NoLeases
<1>6. calm \in BOOLEAN /\ swept = FALSE /\ (calm <=> P!Movable) /\ pass = IdlePass
  BY SameMovable DEF DrInit, NoneImmovable
<1>7. P!Clearing(granted)
  <2>1. /\ pass.pc = "idle" /\ pass.specs = <<>>
        /\ \A i \in Ifaces : pass.indices[i] = None
        /\ \A t \in Tables : pass.resolved[t] = None
    BY <1>6 DEF IdlePass
  <2> QED BY <2>1, SameTables DEF P!Clearing, P!AskedOf, P!Working
<1>8. CalmClears
  BY <1>6, <1>7 DEF CalmClears, DrInit
<1> QED BY <1>3, <1>4, <1>5, <1>6, <1>8 DEF DrInv

LEMMA RefreshTickInv == ASSUME DrInv, RefreshTick PROVE DrInv'
<1>1. /\ pass' = [IdlePass EXCEPT !.pc = "resolve", !.specs = CurrentRoutes]
      /\ UNCHANGED <<rules, routes, link, events, leases, rivalPass, granted, calm, swept>>
  BY DEF RefreshTick, Begin, daemon, history
<1>2. PICK d : d = CurrentRoutes
  OBVIOUS
<1>3. PICK G : G = granted
  OBVIOUS
<1>4. d \in Seq(G) /\ d \in Seq(RouteSpec)
  BY <1>2, <1>3, CurrentRoutesFacts DEF DrInv, LeasesOK
<1>5. KernelOK' /\ LeasesOK'
  BY <1>1 DEF DrInv, KernelOK, LeasesOK, NoMark, RouteOf
<1>6. PassOK(pass') /\ PassOK(rivalPass')
  BY <1>1, <1>2, <1>4, BeginOK DEF DrInv
<1>7. \A k \in DOMAIN d : d[k] \in G
  BY <1>4
<1>8. P!Clearing(G)'
  BY <1>1, <1>2, <1>7, PassAssumption, SameIdle, P!ClearingBegin
<1>9. CalmClears'
  <2>1. P!Clearing(granted)'
    BY <1>1, <1>3, <1>8, OfGranted
  <2>2. P!AllCleared(G) => P!AllCleared(G)'
    BY <1>1 DEF P!AllCleared, P!Cleared, P!Holds
  <2>3. P!AllCleared(granted) => P!AllCleared(granted)'
    BY <1>1, <1>3, <2>2, OfGranted
  <2>4. P!Movable => P!Movable'
    BY <1>1 DEF P!Movable, P!Immovable
  <2> QED BY <1>1, <2>1, <2>3, <2>4 DEF DrInv, CalmClears
<1> QED BY <1>1, <1>5, <1>6, <1>9 DEF DrInv

LEMMA RefreshStepInv == ASSUME DrInv, RefreshStep PROVE DrInv'
<1>1. /\ P!PassStep /\ UNCHANGED <<leases, rivalPass, granted>>
      /\ calm' = (calm /\ events' = events)
      /\ swept' = (swept \/ pass' = IdlePass)
  BY SameStep DEF RefreshStep, daemon
<1>2. P!Typed
  BY SameTyped DEF DrInv
<1>3. P!Typed'
  BY <1>1, <1>2, PassAssumption, P!TypedStep
<1>4. KernelOK' /\ PassOK(pass') /\ PassOK(rivalPass')
  BY <1>1, <1>3, SameTyped DEF DrInv
<1>5. LeasesOK'
  BY <1>1 DEF DrInv, LeasesOK, RouteOf
<1>6. calm' \in BOOLEAN /\ swept' \in BOOLEAN
  BY <1>1
<1>7. ASSUME calm' PROVE CalmClears'
  <2>1. PICK G : G = granted
    OBVIOUS
  <2>2. calm /\ events' = events
    BY <1>1, <1>7
  <2>3. /\ rivalPass = IdlePass /\ P!Movable /\ P!Clearing(G)
        /\ swept => P!AllCleared(G)
    BY <2>1, <2>2, OfGranted DEF DrInv, CalmClears
  <2>4. P!ClearsOn(G) /\ P!Movable'
    BY <1>1, <1>2, <2>2, <2>3, PassAssumption, P!ClearStep
  <2>5. /\ P!Clearing(G)'
        /\ pass'.pc = "idle" => P!AllCleared(G)'
        /\ P!AllCleared(G) => P!AllCleared(G)'
    BY <2>4 DEF P!ClearsOn
  <2>6. pass' = IdlePass => pass'.pc = "idle"
    BY DEF IdlePass
  <2>7. swept' => P!AllCleared(G)'
    BY <1>1, <2>3, <2>5, <2>6
  <2>8. P!Clearing(granted)' /\ (swept' => P!AllCleared(granted)')
    BY <1>1, <2>1, <2>5, <2>7, OfGranted
  <2>9. rivalPass' = IdlePass
    BY <1>1, <2>3
  <2> QED BY <2>4, <2>8, <2>9 DEF CalmClears
<1>8. CalmClears'
  BY <1>7 DEF CalmClears
<1> QED BY <1>4, <1>5, <1>6, <1>8 DEF DrInv

LEMMA LeaseChangeInv ==
    ASSUME DrInv, NEW i \in Ifaces, NEW l \in Leases \cup {None}, LeaseChange(i, l)
    PROVE  DrInv'
<1>1. /\ leases' = [leases EXCEPT ![i] = l]
      /\ granted' = granted \cup {RouteOf(i, m) : m \in {l} \ {None}}
      /\ events < MaxEvents /\ events' = events + 1
      /\ UNCHANGED <<rules, routes, link, pass, rivalPass, calm, swept>>
  BY DEF LeaseChange, Event
<1>2. KernelOK'
  BY <1>1, DaemonRoutesAssumption DEF DrInv, KernelOK, NoMark
<1>3. LeasesOK'
  <2>1. leases' \in [Ifaces -> Leases \cup {None}]
    BY <1>1 DEF DrInv, LeasesOK
  <2>2. l # None => RouteOf(i, l) \in granted' /\ RouteOf(i, l) \in RouteSpec
    BY <1>1, DaemonRoutesAssumption DEF RouteOf, RouteSpec, NoMark
  <2>3. granted' \subseteq RouteSpec
    BY <1>1, <2>2 DEF DrInv, LeasesOK
  <2>4. ASSUME NEW j \in Ifaces, leases'[j] # None
        PROVE  RouteOf(j, leases'[j]) \in granted'
    <3>1. CASE j = i
      BY <1>1, <2>2, <2>4, <3>1 DEF DrInv, LeasesOK
    <3>2. CASE j # i
      BY <1>1, <2>4, <3>2 DEF DrInv, LeasesOK
    <3> QED BY <3>1, <3>2
  <2> QED BY <2>1, <2>3, <2>4 DEF LeasesOK, RouteOf
<1>4. CalmClears'
  BY <1>1, CalmLess
<1> QED BY <1>1, <1>2, <1>3, <1>4 DEF DrInv

LEMMA RestartInv == ASSUME DrInv, NEW f \in Files, Restart(f) PROVE DrInv'
<1>1. /\ pass' = IdlePass /\ leases' = NoLeases /\ granted' = {}
      /\ calm' = (rivalPass = IdlePass /\ NoneImmovable) /\ swept' = FALSE
      /\ events < MaxEvents /\ events' = events + 1
      /\ UNCHANGED <<rules, routes, link, rivalPass>>
  BY DEF Restart, Event
<1>2. KernelOK'
  BY <1>1, DaemonRoutesAssumption DEF DrInv, KernelOK, NoMark
<1>3. LeasesOK'
  BY <1>1 DEF LeasesOK, NoLeases
<1>4. PassOK(pass') /\ PassOK(rivalPass')
  BY <1>1, IdleOK DEF DrInv
<1>5. P!Clearing(granted)'
  BY <1>1, IdleClears
<1>6. NoneImmovable => P!Movable'
  <2>1. P!Movable => P!Movable'
    BY <1>1 DEF P!Movable, P!Immovable
  <2> QED BY <2>1, SameMovable
<1>7. CalmClears'
  BY <1>1, <1>5, <1>6 DEF CalmClears
<1>8. calm' \in BOOLEAN /\ swept' \in BOOLEAN
  BY <1>1
<1> QED BY <1>2, <1>3, <1>4, <1>7, <1>8 DEF DrInv

\* While a rival writes nothing is promised but the types.
LEMMA RivalTickInv == ASSUME DrInv, NEW g \in RivalGoals, RivalTick(g) PROVE DrInv'
<1>1. /\ rivalPass' = [IdlePass EXCEPT !.pc = "resolve", !.specs = g]
      /\ calm' = FALSE /\ events < MaxEvents /\ events' = events + 1
      /\ UNCHANGED <<rules, routes, link, pass, leases, granted, swept>>
  BY DEF RivalTick, daemon
<1>2. KernelOK' /\ LeasesOK'
  BY <1>1, DaemonRoutesAssumption DEF DrInv, KernelOK, LeasesOK, NoMark, RouteOf
<1>3. g \in Seq(RouteSpec)
  BY DaemonRoutesAssumption
<1>4. PassOK(pass') /\ PassOK(rivalPass')
  BY <1>1, <1>3, BeginOK DEF DrInv
<1> QED BY <1>1, <1>2, <1>4 DEF DrInv, CalmClears

LEMMA RivalStepInv == ASSUME DrInv, RivalStep PROVE DrInv'
<1>1. /\ R!PassStep /\ calm' = FALSE
      /\ UNCHANGED <<pass, leases, granted, swept>>
  BY SameRivalStep DEF RivalStep, daemon
<1>2. R!Typed
  BY SameTyped DEF DrInv
<1>3. R!Typed'
  BY <1>1, <1>2, PassAssumption, R!TypedStep
<1>4. KernelOK' /\ PassOK(pass') /\ PassOK(rivalPass')
  BY <1>1, <1>3, SameTyped DEF DrInv
<1>5. LeasesOK'
  BY <1>1 DEF DrInv, LeasesOK, RouteOf
<1> QED BY <1>1, <1>4, <1>5 DEF DrInv, CalmClears

LEMMA LinksInv == ASSUME DrInv, Links PROVE DrInv'
<1>1. UNCHANGED <<rules, pass, rivalPass, leases, granted, calm, swept>>
  BY DEF Links, LinkDel, LinkAdd, daemon, history
<1>2. \A t \in Tables : routes'[t] \in {routes[t], None}
  BY DEF Links, LinkDel, LinkAdd
<1>3. KernelOK'
  <2>1. /\ routes \in [Tables -> CurrentRoute \cup {None}]
        /\ link \in [Ifaces -> [up : BOOLEAN, gen : 1..MaxGen]]
        /\ events \in 0..MaxEvents /\ MaxEvents \in Nat /\ MaxGen \in Nat
    BY DaemonRoutesAssumption DEF DrInv, KernelOK
  <2>2. PICK i \in Ifaces : LinkDel(i) \/ LinkAdd(i)
    BY DEF Links
  <2>3. CASE LinkDel(i)
    <3>1. routes' \in [Tables -> CurrentRoute \cup {None}]
      BY <2>1, <2>3 DEF LinkDel
    <3>2. link' \in [Ifaces -> [up : BOOLEAN, gen : 1..MaxGen]]
      BY <2>1, <2>3 DEF LinkDel
    <3>3. events' \in 0..MaxEvents
      BY <2>1, <2>3 DEF LinkDel, Event
    <3> QED BY <1>1, <3>1, <3>2, <3>3 DEF DrInv, KernelOK, NoMark
  <2>4. CASE LinkAdd(i)
    <3>1. link' \in [Ifaces -> [up : BOOLEAN, gen : 1..MaxGen]]
      BY <2>1, <2>4 DEF LinkAdd
    <3> QED BY <1>1, <2>4, <3>1 DEF LinkAdd, DrInv, KernelOK, NoMark
  <2> QED BY <2>2, <2>3, <2>4
<1>4. LeasesOK'
  BY <1>1 DEF DrInv, LeasesOK, RouteOf
<1>5. CalmClears'
  BY <1>1, <1>2, CalmLess
<1> QED BY <1>1, <1>3, <1>4, <1>5 DEF DrInv

LEMMA NextDr == DrInv /\ [DrNext]_drVars => DrInv'
<1> SUFFICES ASSUME DrInv, [DrNext]_drVars PROVE DrInv'
  OBVIOUS
<1>1. CASE UNCHANGED drVars
  <2>1. UNCHANGED <<rules, routes, link, pass, events, leases, rivalPass, granted, calm,
                    swept>>
    BY <1>1 DEF drVars, daemon, history
  <2>2. CalmClears'
    BY <2>1, CalmLess
  <2>3. KernelOK' /\ LeasesOK'
    BY <2>1 DEF DrInv, KernelOK, LeasesOK, NoMark, RouteOf
  <2> QED BY <2>1, <2>2, <2>3 DEF DrInv
<1>2. CASE DrNext
  BY <1>2, RefreshTickInv, RefreshStepInv, LeaseChangeInv, RestartInv, RivalTickInv,
     RivalStepInv, LinksInv DEF DrNext
<1> QED BY <1>1, <1>2

\* The invariant says what the property asks.
LEMMA InvNoLeftovers == DrInv => NoLeftovers
<1> SUFFICES ASSUME DrInv, swept, calm
             PROVE  \A t \in Tables : \/ rules[t] = <<>> /\ routes[t] = None
                                      \/ \E s \in granted : PartOf(t, s)
  BY DEF NoLeftovers
<1>1. P!AllCleared(granted)
  BY DEF DrInv, CalmClears
<1> QED BY <1>1, SameTables
        DEF P!AllCleared, P!Cleared, P!Holds, PartOf, P!TableIdFor, TableIdFor,
            P!RuleFor, RuleFor, P!ExpectedFwmask, ExpectedFwmask, P!NoMark, NoMark

\* For every set of interfaces, leases, files and rivals, and over a kernel
\* in any state: from the first pass of a dumbarpd process on (refresh.rs,
\* lib.rs 50-141), unless a request fails or a rival writes, every table is
\* empty or holds a spec of a lease that this process has had.
THEOREM DaemonLeavesNoLeftovers == DrSpec => []NoLeftovers
<1>1. DrInv /\ [DrNext]_drVars => DrInv'
  BY NextDr
<1> QED BY <1>1, InitDr, InvNoLeftovers, PTL DEF DrSpec
=============================================================================
