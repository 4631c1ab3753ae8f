------------------------- MODULE RouteManagerProofs -------------------------
(***************************************************************************)
(* Proofs about RouteManager, for every set of addresses, interfaces and   *)
(* goals and every bound on the outside events.                            *)
(***************************************************************************)
EXTENDS RouteManager, TLAPS

-----------------------------------------------------------------------------
(* Helpers.                                                                *)

\* Taking one element out of a sequence leaves a sequence, one shorter, of
\* elements of the first: what a rule delete does to a table.
LEMMA WithoutFacts ==
    ASSUME NEW S, NEW s \in Seq(S), NEW k \in DOMAIN s
    PROVE  /\ Without(s, k) \in Seq(S)
           /\ Len(Without(s, k)) = Len(s) - 1
           /\ \A j \in DOMAIN Without(s, k) :
                 \E m \in DOMAIN s : Without(s, k)[j] = s[m]
<1>1. Len(s) \in Nat /\ Len(s) >= 1 /\ DOMAIN s = 1..Len(s)
  OBVIOUS
<1>2. Len(s) - 1 \in Nat
  BY <1>1
<1>3. \A j \in 1..(Len(s) - 1) :
         (IF j < k THEN s[j] ELSE s[j + 1]) \in S
  BY <1>1
<1>4. Without(s, k) \in Seq(S)
  BY <1>2, <1>3 DEF Without
<1>5. Len(Without(s, k)) = Len(s) - 1
  BY <1>2, <1>4 DEF Without
<1>6. \A j \in DOMAIN Without(s, k) :
         \E m \in DOMAIN s : Without(s, k)[j] = s[m]
  BY <1>1 DEF Without
<1> QED BY <1>4, <1>5, <1>6

\* The specs, the resolved specs, the rules and routes built from them have
\* the types the kernel and the pass keep them in.
LEMMA BuiltTypes ==
    /\ \A s \in RouteSpec : TableIdFor(s.src) \in Tables
    /\ \A w \in ResolvedSpec : RuleFor(w) \in CurrentRule
    /\ \A w \in ResolvedSpec : RouteFor(w) \in CurrentRoute
  BY DEF RouteSpec, Tables, ResolvedSpec, RuleFor, RouteFor, CurrentRule,
         CurrentRoute, ExpectedFwmask, Masks, NoMark

\* The record a pass returns to, and the one it starts from, are passes.
LEMMA IdlePassType == IdlePass \in PassType /\ IdlePass.pc = "idle"
<1>1. <<>> \in Seq(RouteSpec) /\ <<>> \in Seq(CurrentRule)
  OBVIOUS
<1> QED BY <1>1 DEF IdlePass, PassType

LEMMA BeginPassType ==
    ASSUME NEW d \in Seq(RouteSpec)
    PROVE  [IdlePass EXCEPT !.pc = "resolve", !.specs = d] \in PassType
  BY IdlePassType DEF PassType

-----------------------------------------------------------------------------
(* Types.                                                                  *)

LEMMA InitType == Init => TypeOK
<1> SUFFICES ASSUME Init PROVE TypeOK
  OBVIOUS
<1>1. pass \in PassType /\ pass.pc = "idle"
  BY IdlePassType DEF Init
<1>2. /\ rules \in [Tables -> Seq(CurrentRule)]
      /\ routes \in [Tables -> CurrentRoute \cup {None}]
      /\ link \in [Ifaces -> [up : BOOLEAN, gen : 1..MaxGen]]
      /\ goal \in Goals
      /\ events \in 0..MaxEvents
  BY ConstantsAssumption DEF Init
<1> QED BY <1>1, <1>2 DEF TypeOK

LEMMA ResolveSpecType == TypeOK /\ ResolveSpec => TypeOK'
<1> SUFFICES ASSUME TypeOK, ResolveSpec PROVE TypeOK'
  OBVIOUS
<1> DEFINE s == Head(pass.specs)
           known == pass.indices[s.iface]
           idx == IF known # None THEN known ELSE IndexOf(s.iface)
           w == [src |-> s.src, gateway |-> s.gateway, oif |-> idx,
                 fwmark |-> s.fwmark]
<1>1. s \in RouteSpec /\ Tail(pass.specs) \in Seq(RouteSpec)
  BY DEF TypeOK, PassType, ResolveSpec
<1>2. known \in IfIndex \cup {None} /\ IndexOf(s.iface) \in IfIndex
  BY <1>1 DEF TypeOK, PassType, RouteSpec, IfIndex, IndexOf
<1>3. idx \in IfIndex /\ w \in ResolvedSpec
  BY <1>1, <1>2 DEF RouteSpec, ResolvedSpec
<1>4. TableIdFor(s.src) \in Tables
  BY <1>1, BuiltTypes
<1>5. events' \in 0..MaxEvents
  BY ConstantsAssumption DEF ResolveSpec, Fails, Event, TypeOK
<1>6. pass' \in PassType /\ pass'.pc = "resolve"
  <2>1. CASE pass' = [pass EXCEPT !.specs = Tail(@),
                                  !.indices[s.iface] = idx,
                                  !.resolved[TableIdFor(s.src)] = w]
    <3> HIDE DEF s, idx, w
    <3>1. s.iface \in Ifaces
      BY <1>1 DEF RouteSpec
    <3> QED BY <2>1, <3>1, <1>1, <1>3, <1>4 DEF TypeOK, PassType, ResolveSpec
  <2>2. CASE pass' = [pass EXCEPT !.specs = Tail(@)]
    BY <2>2, <1>1 DEF TypeOK, PassType, ResolveSpec
  <2> QED BY <2>1, <2>2 DEF ResolveSpec
<1> QED BY <1>5, <1>6 DEF TypeOK, ResolveSpec

LEMMA BeginType ==
    ASSUME NEW d \in Seq(RouteSpec), TypeOK, Begin(d) PROVE TypeOK'
<1>1. pass' \in PassType
  BY BeginPassType DEF Begin
<1>2. pass'.pc = "resolve"
  BY IdlePassType DEF Begin, PassType
<1> QED BY <1>1, <1>2 DEF Begin, TypeOK

LEMMA ListRulesType == TypeOK /\ ListRules => TypeOK'
<1> SUFFICES ASSUME TypeOK, ListRules PROVE TypeOK'
  OBVIOUS
<1>1. events' \in 0..MaxEvents
  BY ConstantsAssumption DEF ListRules, Fails, Event, TypeOK
<1>2. CASE pass' = IdlePass
  BY <1>1, <1>2, IdlePassType DEF ListRules, TypeOK
<1>3. CASE pass' = [pass EXCEPT !.pc = "listRoutes", !.haveRules = rules]
  <2>1. pass' \in PassType /\ pass'.pc = "listRoutes"
    BY <1>3 DEF TypeOK, PassType
  <2> QED BY <1>1, <2>1 DEF ListRules, TypeOK
<1> QED BY <1>2, <1>3 DEF ListRules

LEMMA ListRoutesType == TypeOK /\ ListRoutes => TypeOK'
<1> SUFFICES ASSUME TypeOK, ListRoutes PROVE TypeOK'
  OBVIOUS
<1> DEFINE T == {t \in Tables : \/ pass.haveRules[t] # <<>>
                                \/ routes[t] # None
                                \/ pass.resolved[t] # None}
<1>1. events' \in 0..MaxEvents
  BY ConstantsAssumption DEF ListRoutes, Fails, Event, TypeOK
<1>2. CASE pass' = IdlePass
  BY <1>1, <1>2, IdlePassType DEF ListRoutes, TypeOK
<1>3. CASE pass' = [pass EXCEPT !.pc = "next", !.haveRoutes = routes,
                                !.todo = T]
  <2>1. T \in SUBSET Tables
    OBVIOUS
  <2>2. pass' \in PassType /\ pass'.pc = "next"
    <3> HIDE DEF T
    <3> QED BY <1>3, <2>1 DEF TypeOK, PassType
  <2> QED BY <1>1, <2>2 DEF ListRoutes, TypeOK
<1> QED BY <1>2, <1>3 DEF ListRoutes

LEMMA VisitTableType ==
    ASSUME NEW t \in Tables, TypeOK, VisitTable(t) PROVE TypeOK'
<1>1. pass' \in PassType /\ (pass'.pc = "delete" => pass'.table \in Tables)
      /\ pass'.pc \in {"next", "delete"}
  BY DEF VisitTable, TypeOK, PassType
<1> QED BY <1>1 DEF VisitTable, TypeOK

LEMMA DelRuleType == TypeOK /\ DelRule => TypeOK'
<1> SUFFICES ASSUME TypeOK, DelRule PROVE TypeOK'
  OBVIOUS
<1> DEFINE t == pass.table
           r == Head(pass.dels)
           fit == Fitting(t, r.src, r.fwmark)
<1>1. events' \in 0..MaxEvents
  BY ConstantsAssumption DEF DelRule, Fails, Event, TypeOK
<1>2. t \in Tables /\ rules[t] \in Seq(CurrentRule)
  BY DEF DelRule, TypeOK
<1>3. rules' \in [Tables -> Seq(CurrentRule)]
  <2>1. CASE \E k \in fit : rules' = [rules EXCEPT ![t] = Without(@, k)]
    <3>1. PICK k \in fit : rules' = [rules EXCEPT ![t] = Without(@, k)]
      BY <2>1
    <3>2. k \in DOMAIN rules[t]
      BY <3>1 DEF Fitting
    <3>3. Without(rules[t], k) \in Seq(CurrentRule)
      BY <1>2, <3>2, WithoutFacts
    <3> QED BY <3>1, <3>3, <1>2 DEF TypeOK
  <2>2. CASE UNCHANGED rules
    BY <2>2 DEF TypeOK
  <2> QED BY <2>1, <2>2 DEF DelRule
<1>4. Tail(pass.dels) \in Seq(CurrentRule)
  BY DEF DelRule, TypeOK, PassType
<1>5. pass' \in PassType /\ pass'.table \in Tables
  BY <1>2, <1>4 DEF DelRule, TypeOK, PassType
<1> QED BY <1>1, <1>3, <1>5 DEF DelRule, TypeOK

LEMMA DelRouteType == TypeOK /\ DelRoute => TypeOK'
<1> SUFFICES ASSUME TypeOK, DelRoute PROVE TypeOK'
  OBVIOUS
<1>1. events' \in 0..MaxEvents
  BY ConstantsAssumption DEF DelRoute, Fails, Event, TypeOK
<1>2. routes' \in [Tables -> CurrentRoute \cup {None}]
  BY DEF DelRoute, TypeOK
<1>3. PICK f \in BOOLEAN : pass' = [pass EXCEPT !.failed = f,
                                                !.pc = AfterDeletes(f)]
  BY DEF DelRoute, TypeOK, PassType
<1>4. AfterDeletes(f) \in {"addRule", "next"}
  BY DEF AfterDeletes
<1>5. pass' \in PassType /\ pass'.table \in Tables
  BY <1>3, <1>4 DEF DelRoute, TypeOK, PassType
<1> QED BY <1>1, <1>2, <1>5 DEF DelRoute, TypeOK

LEMMA AddRuleType ==
    ASSUME TypeOK, AddRule, pass.resolved[pass.table] # None PROVE TypeOK'
<1> DEFINE t == pass.table
           r == RuleFor(pass.resolved[t])
<1>1. events' \in 0..MaxEvents
  BY ConstantsAssumption DEF AddRule, Fails, Event, TypeOK
<1>2. t \in Tables /\ rules[t] \in Seq(CurrentRule)
  BY DEF AddRule, TypeOK
<1>3. r \in CurrentRule
  BY <1>2, BuiltTypes DEF TypeOK, PassType
<1>4. rules' \in [Tables -> Seq(CurrentRule)]
  <2> HIDE DEF r
  <2>1. Append(rules[t], r) \in Seq(CurrentRule)
    BY <1>2, <1>3
  <2> QED BY <1>2, <2>1 DEF AddRule, TypeOK, r
<1>5. pass' \in PassType /\ pass'.table \in Tables
  BY <1>2 DEF AddRule, TypeOK, PassType
<1> QED BY <1>1, <1>4, <1>5 DEF AddRule, TypeOK

LEMMA AddRouteType ==
    ASSUME TypeOK, AddRoute, pass.resolved[pass.table] # None PROVE TypeOK'
<1> DEFINE t == pass.table
           w == pass.resolved[t]
<1>1. events' \in 0..MaxEvents
  BY ConstantsAssumption DEF AddRoute, Fails, Event, TypeOK
<1>2. t \in Tables /\ RouteFor(w) \in CurrentRoute
  BY BuiltTypes DEF AddRoute, TypeOK, PassType
<1>3. routes' \in [Tables -> CurrentRoute \cup {None}]
  BY <1>2 DEF AddRoute, TypeOK
<1>4. pass' \in PassType /\ pass'.pc = "next"
  BY DEF AddRoute, TypeOK, PassType
<1> QED BY <1>1, <1>3, <1>4 DEF AddRoute, TypeOK

LEMMA FinishType == TypeOK /\ Finish => TypeOK'
  BY IdlePassType DEF Finish, TypeOK

LEMMA NewGoalType ==
    ASSUME NEW g \in Goals, TypeOK, NewGoal(g) PROVE TypeOK'
  BY ConstantsAssumption DEF NewGoal, Event, TypeOK

LEMMA LinkDelType ==
    ASSUME NEW i \in Ifaces, TypeOK, LinkDel(i) PROVE TypeOK'
<1>1. routes' \in [Tables -> CurrentRoute \cup {None}]
  BY DEF LinkDel, TypeOK
<1>2. link' \in [Ifaces -> [up : BOOLEAN, gen : 1..MaxGen]]
  BY DEF LinkDel, TypeOK
<1> QED BY <1>1, <1>2, ConstantsAssumption DEF LinkDel, Event, TypeOK

LEMMA LinkAddType ==
    ASSUME NEW i \in Ifaces, TypeOK, LinkAdd(i) PROVE TypeOK'
<1>1. link' \in [Ifaces -> [up : BOOLEAN, gen : 1..MaxGen]]
  BY ConstantsAssumption DEF LinkAdd, TypeOK
<1> QED BY <1>1 DEF LinkAdd, TypeOK

LEMMA CrashType == TypeOK /\ Crash => TypeOK'
  BY IdlePassType, ConstantsAssumption DEF Crash, Event, TypeOK

LEMMA StutterType == TypeOK /\ UNCHANGED vars => TypeOK'
  BY DEF TypeOK, vars

-----------------------------------------------------------------------------
(* The inductive invariant.  A step that leaves the kernel alone keeps the *)
(* two properties of the kernel.                                           *)

LEMMA KernelUnchanged ==
    ASSUME OneRulePerTable, NeverMixed, UNCHANGED <<rules, routes>>
    PROVE  OneRulePerTable' /\ NeverMixed'
  BY DEF OneRulePerTable, NeverMixed, FromOneSpec

\* A pass between two calls knows nothing.
LEMMA IdleInv ==
    ASSUME TypeOK', OneRulePerTable', NeverMixed', pass' = IdlePass
    PROVE  PassInv'
  BY DEF PassInv, AskedFor, ListedIsCurrent, TableUnderWork, IdlePass, Working

LEMMA InitInv == Init => PassInv
<1> SUFFICES ASSUME Init PROVE PassInv
  OBVIOUS
<1>1. TypeOK
  BY InitType
<1>2. OneRulePerTable /\ NeverMixed
  BY DEF Init, OneRulePerTable, NeverMixed
<1>3. AskedFor /\ ListedIsCurrent /\ TableUnderWork
  BY DEF Init, IdlePass, AskedFor, ListedIsCurrent, TableUnderWork, Working
<1> QED BY <1>1, <1>2, <1>3 DEF PassInv

LEMMA BeginInv ==
    ASSUME NEW d \in Goals, PassInv, Begin(d) PROVE PassInv'
<1>1. d \in Seq(RouteSpec)
  BY ConstantsAssumption
<1>2. TypeOK'
  BY <1>1, BeginType DEF PassInv
<1>3. OneRulePerTable' /\ NeverMixed'
  BY KernelUnchanged DEF PassInv, Begin
<1>4. pass' = [IdlePass EXCEPT !.pc = "resolve", !.specs = d]
  BY DEF Begin
<1>5. AskedFor'
  <2>1. /\ pass'.specs = d
        /\ \A i \in Ifaces : pass'.indices[i] = None
        /\ \A t \in Tables : pass'.resolved[t] = None
    BY <1>4 DEF IdlePass
  <2>2. \A k \in DOMAIN d : d[k] \in Requested
    BY DEF Requested
  <2> QED BY <2>1, <2>2 DEF AskedFor
<1>6. pass'.pc = "resolve"
  BY <1>4 DEF IdlePass
<1>7. ListedIsCurrent' /\ TableUnderWork'
  BY <1>6 DEF ListedIsCurrent, TableUnderWork, Working
<1> QED BY <1>2, <1>3, <1>5, <1>7 DEF PassInv

\* A resolved spec keeps to what was asked.
LEMMA ResolveSpecAsked ==
    ASSUME TypeOK, AskedFor, ResolveSpec PROVE AskedFor'
<1> DEFINE s == Head(pass.specs)
           known == pass.indices[s.iface]
           idx == IF known # None THEN known ELSE IndexOf(s.iface)
           w == [src |-> s.src, gateway |-> s.gateway, oif |-> idx,
                 fwmark |-> s.fwmark]
           ts == TableIdFor(s.src)
<1>1. /\ s \in Requested /\ s \in RouteSpec
      /\ pass.specs \in Seq(RouteSpec) /\ pass.specs # <<>>
  BY DEF TypeOK, PassType, AskedFor, ResolveSpec
<1>2. \A k \in DOMAIN Tail(pass.specs) : Tail(pass.specs)[k] \in Requested
  <2>1. \A k \in DOMAIN pass.specs : pass.specs[k] \in Requested
    BY DEF AskedFor
  <2> QED BY <1>1, <2>1
<1>3. idx[1] = s.iface
  BY <1>1 DEF AskedFor, RouteSpec, IndexOf
<1>4. FromOneSpec(ts, RuleFor(w), RouteFor(w))
  BY <1>1, <1>3 DEF FromOneSpec, RuleFor, RouteFor, ExpectedFwmask
<1>5. AskedFor'
  <2>1. CASE pass' = [pass EXCEPT !.specs = Tail(@),
                                  !.indices[s.iface] = idx,
                                  !.resolved[ts] = w]
    <3> HIDE DEF s, idx, w, ts
    <3>1. /\ pass'.specs = Tail(pass.specs)
          /\ pass'.indices = [pass.indices EXCEPT ![s.iface] = idx]
          /\ pass'.resolved = [pass.resolved EXCEPT ![ts] = w]
      BY <2>1 DEF TypeOK, PassType
    <3>2. \A i \in Ifaces : pass'.indices[i] # None => pass'.indices[i][1] = i
      BY <3>1, <1>3 DEF TypeOK, PassType, AskedFor
    <3>3. ASSUME NEW t \in Tables, pass'.resolved[t] # None
          PROVE  FromOneSpec(t, RuleFor(pass'.resolved[t]),
                             RouteFor(pass'.resolved[t]))
      <4>1. CASE t = ts
        <5>1. pass'.resolved[t] = w
          BY <3>1, <4>1, <3>3 DEF TypeOK, PassType
        <5> QED BY <5>1, <4>1, <1>4
      <4>2. CASE t # ts
        <5>1. pass'.resolved[t] = pass.resolved[t]
          BY <3>1, <4>2, <3>3 DEF TypeOK, PassType
        <5> QED BY <5>1, <3>3 DEF AskedFor
      <4> QED BY <4>1, <4>2
    <3> QED BY <3>1, <3>2, <3>3, <1>2 DEF AskedFor, FromOneSpec, RuleFor,
               RouteFor
  <2>2. CASE pass' = [pass EXCEPT !.specs = Tail(@)]
    <3>1. /\ pass'.specs = Tail(pass.specs)
          /\ pass'.indices = pass.indices
          /\ pass'.resolved = pass.resolved
      BY <2>2 DEF TypeOK, PassType
    <3> QED BY <3>1, <1>2 DEF AskedFor, FromOneSpec
  <2> QED BY <2>1, <2>2 DEF ResolveSpec
<1> QED BY <1>5

LEMMA ResolveSpecInv == PassInv /\ ResolveSpec => PassInv'
<1> SUFFICES ASSUME PassInv, ResolveSpec PROVE PassInv'
  OBVIOUS
<1>1. TypeOK'
  BY ResolveSpecType DEF PassInv
<1>2. OneRulePerTable' /\ NeverMixed'
  BY KernelUnchanged DEF PassInv, ResolveSpec
<1>3. AskedFor'
  BY ResolveSpecAsked DEF PassInv
<1>4. pass'.pc = "resolve"
  BY DEF PassInv, TypeOK, PassType, ResolveSpec
<1>5. ListedIsCurrent' /\ TableUnderWork'
  BY <1>4 DEF ListedIsCurrent, TableUnderWork, Working
<1> QED BY <1>1, <1>2, <1>3, <1>5 DEF PassInv

\* The steps after the specs are resolved leave them alone.
LEMMA AskedForUnchanged ==
    ASSUME AskedFor, pass'.specs = pass.specs,
           pass'.indices = pass.indices, pass'.resolved = pass.resolved
    PROVE  AskedFor'
  BY DEF AskedFor, FromOneSpec, RuleFor, RouteFor

LEMMA ListRulesInv == PassInv /\ ListRules => PassInv'
<1> SUFFICES ASSUME PassInv, ListRules PROVE PassInv'
  OBVIOUS
<1>1. TypeOK'
  BY ListRulesType DEF PassInv
<1>2. OneRulePerTable' /\ NeverMixed'
  BY KernelUnchanged DEF PassInv, ListRules
<1>3. CASE pass' = IdlePass
  BY <1>1, <1>2, <1>3, IdleInv
<1>4. CASE pass' = [pass EXCEPT !.pc = "listRoutes", !.haveRules = rules]
  <2>1. /\ pass'.pc = "listRoutes" /\ pass'.haveRules = rules
        /\ pass'.specs = pass.specs /\ pass'.indices = pass.indices
        /\ pass'.resolved = pass.resolved
    BY <1>4 DEF PassInv, TypeOK, PassType
  <2>2. AskedFor'
    BY <2>1, AskedForUnchanged DEF PassInv
  <2>3. ListedIsCurrent' /\ TableUnderWork'
    BY <2>1 DEF ListRules, ListedIsCurrent, TableUnderWork, Working
  <2> QED BY <1>1, <1>2, <2>2, <2>3 DEF PassInv
<1> QED BY <1>3, <1>4 DEF ListRules

LEMMA ListRoutesInv == PassInv /\ ListRoutes => PassInv'
<1> SUFFICES ASSUME PassInv, ListRoutes PROVE PassInv'
  OBVIOUS
<1> DEFINE T == {t \in Tables : \/ pass.haveRules[t] # <<>>
                                \/ routes[t] # None
                                \/ pass.resolved[t] # None}
<1>1. TypeOK'
  BY ListRoutesType DEF PassInv
<1>2. OneRulePerTable' /\ NeverMixed'
  BY KernelUnchanged DEF PassInv, ListRoutes
<1>3. CASE pass' = IdlePass
  BY <1>1, <1>2, <1>3, IdleInv
<1>4. CASE pass' = [pass EXCEPT !.pc = "next", !.haveRoutes = routes,
                                !.todo = T]
  <2> HIDE DEF T
  <2>1. /\ pass'.pc = "next" /\ pass'.haveRoutes = routes
        /\ pass'.haveRules = pass.haveRules
        /\ pass'.specs = pass.specs /\ pass'.indices = pass.indices
        /\ pass'.resolved = pass.resolved
    BY <1>4 DEF PassInv, TypeOK, PassType
  <2>2. AskedFor'
    BY <2>1, AskedForUnchanged DEF PassInv
  <2>3. pass.haveRules = rules
    BY DEF PassInv, ListRoutes, ListedIsCurrent
  <2>4. ListedIsCurrent' /\ TableUnderWork'
    BY <2>1, <2>3 DEF ListRoutes, ListedIsCurrent, TableUnderWork, Working
  <2> QED BY <1>1, <1>2, <2>2, <2>4 DEF PassInv
<1> QED BY <1>3, <1>4 DEF ListRoutes

LEMMA VisitTableInv ==
    ASSUME NEW t \in Tables, PassInv, VisitTable(t) PROVE PassInv'
<1>1. TypeOK'
  BY VisitTableType DEF PassInv
<1>2. OneRulePerTable' /\ NeverMixed'
  BY KernelUnchanged DEF PassInv, VisitTable
<1>3. /\ pass'.specs = pass.specs /\ pass'.indices = pass.indices
      /\ pass'.resolved = pass.resolved
      /\ pass'.haveRules = pass.haveRules
      /\ pass'.haveRoutes = pass.haveRoutes
      /\ pass'.todo = pass.todo \ {t}
      /\ pass'.pc \in {"next", "delete"}
  BY DEF VisitTable, PassInv, TypeOK, PassType
<1>4. AskedFor'
  BY <1>3, AskedForUnchanged DEF PassInv
<1>5. ListedIsCurrent'
  BY <1>3 DEF VisitTable, PassInv, ListedIsCurrent, Working
<1>6. TableUnderWork'
  <2>1. CASE pass'.pc = "next"
    BY <2>1 DEF TableUnderWork
  <2>2. CASE pass'.pc = "delete"
    <3>1. /\ pass'.table = t /\ pass'.dels = pass.haveRules[t]
          /\ ~Matches(pass.resolved[t], pass.haveRules[t], pass.haveRoutes[t])
      BY <2>2 DEF VisitTable, PassInv, TypeOK, PassType
    <3>2. rules[t] = pass.haveRules[t] /\ routes[t] \in {None, pass.haveRoutes[t]}
      BY DEF VisitTable, PassInv, ListedIsCurrent, Working
    <3>3. rules' = rules /\ routes' = routes
      BY DEF VisitTable
    <3>4. (~Matches(pass.resolved[t], pass.haveRules[t], pass.haveRoutes[t]))'
      BY <3>1, <1>3 DEF Matches, RuleFor, RouteFor
    <3> QED BY <1>3, <2>2, <3>1, <3>2, <3>3, <3>4 DEF TableUnderWork, Matches
  <2> QED BY <1>3, <2>1, <2>2
<1> QED BY <1>1, <1>2, <1>4, <1>5, <1>6 DEF PassInv

LEMMA FinishInv == PassInv /\ Finish => PassInv'
<1> SUFFICES ASSUME PassInv, Finish PROVE PassInv'
  OBVIOUS
<1>1. TypeOK'
  BY FinishType DEF PassInv
<1>2. OneRulePerTable' /\ NeverMixed'
  BY KernelUnchanged DEF PassInv, Finish
<1> QED BY <1>1, <1>2, IdleInv DEF Finish

LEMMA CrashInv == PassInv /\ Crash => PassInv'
<1> SUFFICES ASSUME PassInv, Crash PROVE PassInv'
  OBVIOUS
<1>1. TypeOK'
  BY CrashType DEF PassInv
<1>2. OneRulePerTable' /\ NeverMixed'
  BY KernelUnchanged DEF PassInv, Crash
<1> QED BY <1>1, <1>2, IdleInv DEF Crash

LEMMA PassUnchanged ==
    ASSUME PassInv, TypeOK', UNCHANGED <<rules, routes, pass>> PROVE PassInv'
<1>1. OneRulePerTable' /\ NeverMixed'
  BY KernelUnchanged DEF PassInv
<1>2. AskedFor'
  BY AskedForUnchanged DEF PassInv
<1>3. ListedIsCurrent' /\ TableUnderWork'
  BY DEF PassInv, ListedIsCurrent, TableUnderWork, Matches, RuleFor, RouteFor
<1> QED BY <1>1, <1>2, <1>3 DEF PassInv

LEMMA LinkDelInv ==
    ASSUME NEW i \in Ifaces, PassInv, LinkDel(i) PROVE PassInv'
<1>1. TypeOK'
  BY LinkDelType DEF PassInv
<1>2. /\ rules' = rules /\ pass' = pass
      /\ \A t \in Tables : routes'[t] \in {None, routes[t]}
  BY DEF LinkDel
<1>3. OneRulePerTable' /\ NeverMixed'
  BY <1>2 DEF PassInv, OneRulePerTable, NeverMixed, FromOneSpec
<1>4. AskedFor'
  BY <1>2, AskedForUnchanged DEF PassInv
<1>5. ListedIsCurrent'
  BY <1>2 DEF PassInv, TypeOK, PassType, ListedIsCurrent
<1>6. TableUnderWork'
  BY <1>2 DEF PassInv, TypeOK, TableUnderWork, Matches, RuleFor, RouteFor
<1> QED BY <1>1, <1>3, <1>4, <1>5, <1>6 DEF PassInv

\* A delete on a table with at most one rule leaves it empty.
LEMMA DelRuleEmpties ==
    ASSUME TypeOK, OneRulePerTable, DelRule
    PROVE  \/ rules' = [rules EXCEPT ![pass.table] = <<>>]
              /\ pass' = [pass EXCEPT !.dels = Tail(@)]
           \/ rules' = rules
              /\ pass' = [pass EXCEPT !.dels = Tail(@), !.failed = TRUE]
<1> DEFINE t == pass.table
           r == Head(pass.dels)
           fit == Fitting(t, r.src, r.fwmark)
<1>1. t \in Tables /\ rules[t] \in Seq(CurrentRule) /\ Len(rules[t]) <= 1
  BY DEF TypeOK, OneRulePerTable, DelRule
<1>2. ASSUME NEW k \in fit, rules' = [rules EXCEPT ![t] = Without(@, k)]
      PROVE  rules' = [rules EXCEPT ![t] = <<>>]
  <2>1. k \in DOMAIN rules[t]
    BY DEF Fitting
  <2>2. Without(rules[t], k) \in Seq(CurrentRule)
        /\ Len(Without(rules[t], k)) = Len(rules[t]) - 1
    BY <1>1, <2>1, WithoutFacts
  <2>3. Without(rules[t], k) = <<>>
    BY <1>1, <2>1, <2>2
  <2> QED BY <1>2, <2>3
<1> QED BY <1>2 DEF DelRule

LEMMA DelRuleInv == PassInv /\ DelRule => PassInv'
<1> SUFFICES ASSUME PassInv, DelRule PROVE PassInv'
  OBVIOUS
<1> DEFINE t == pass.table
<1>1. TypeOK'
  BY DelRuleType DEF PassInv
<1>2. /\ t \in Tables /\ t \notin pass.todo /\ pass.pc = "delete"
      /\ pass.dels # <<>> /\ pass.dels = pass.haveRules[t]
      /\ rules[t] = pass.haveRules[t] /\ Len(rules[t]) <= 1
      /\ pass.dels \in Seq(CurrentRule)
  BY DEF PassInv, TypeOK, PassType, OneRulePerTable, TableUnderWork, DelRule
<1>3. Tail(pass.dels) = <<>>
  BY <1>2
<1>4. /\ routes' = routes
      /\ pass'.pc = "delete" /\ pass'.table = t /\ pass'.dels = <<>>
      /\ pass'.todo = pass.todo
      /\ pass'.specs = pass.specs /\ pass'.indices = pass.indices
      /\ pass'.resolved = pass.resolved
      /\ pass'.haveRules = pass.haveRules
      /\ pass'.haveRoutes = pass.haveRoutes
  BY <1>2, <1>3 DEF DelRule, PassInv, TypeOK, PassType
<1>5. /\ rules'[t] \in {rules[t], <<>>}
      /\ ~pass'.failed => rules'[t] = <<>>
      /\ \A u \in Tables \ {t} : rules'[u] = rules[u]
  BY <1>2, DelRuleEmpties DEF PassInv, TypeOK, PassType
<1>6. OneRulePerTable'
  BY <1>2, <1>5 DEF PassInv, OneRulePerTable
<1>7. NeverMixed'
  <2> SUFFICES ASSUME NEW u \in Tables, routes'[u] # None,
                      NEW k \in DOMAIN rules'[u]
               PROVE  FromOneSpec(u, rules'[u][k], routes'[u])
    BY DEF NeverMixed, FromOneSpec
  <2>1. rules'[u] = rules[u]
    BY <1>2, <1>5
  <2> QED BY <2>1, <1>4 DEF PassInv, NeverMixed
<1>8. AskedFor'
  BY <1>4, AskedForUnchanged DEF PassInv
<1>9. ListedIsCurrent'
  BY <1>2, <1>4, <1>5 DEF PassInv, TypeOK, PassType, ListedIsCurrent, Working
<1>10. TableUnderWork'
  <2>1. ~Matches(pass.resolved[t], pass.haveRules[t], pass.haveRoutes[t])
        /\ routes[t] \in {None, pass.haveRoutes[t]}
    BY <1>2 DEF PassInv, TableUnderWork
  <2>2. (~Matches(pass.resolved[pass.table], pass.haveRules[pass.table],
                  pass.haveRoutes[pass.table]))'
    BY <2>1, <1>4 DEF Matches, RuleFor, RouteFor
  <2> QED BY <1>2, <1>4, <1>5, <2>1, <2>2 DEF TableUnderWork
<1> QED BY <1>1, <1>6, <1>7, <1>8, <1>9, <1>10 DEF PassInv

LEMMA DelRouteInv == PassInv /\ DelRoute => PassInv'
<1> SUFFICES ASSUME PassInv, DelRoute PROVE PassInv'
  OBVIOUS
<1> DEFINE t == pass.table
<1>1. TypeOK'
  BY DelRouteType DEF PassInv
<1>2. /\ t \in Tables /\ t \notin pass.todo /\ pass.pc = "delete"
      /\ ~pass.failed => rules[t] = <<>>
      /\ routes[t] \in {None, pass.haveRoutes[t]}
  BY DEF PassInv, TypeOK, TableUnderWork, DelRoute
<1>3. PICK f \in BOOLEAN :
         /\ pass' = [pass EXCEPT !.failed = f, !.pc = AfterDeletes(f)]
         /\ ~f => ~pass.failed /\ routes'[t] = None
         /\ routes' \in {routes, [routes EXCEPT ![t] = None]}
  BY <1>2 DEF DelRoute, PassInv, TypeOK, PassType
<1>4. /\ rules' = rules /\ pass'.table = t /\ pass'.todo = pass.todo
      /\ pass'.specs = pass.specs /\ pass'.indices = pass.indices
      /\ pass'.resolved = pass.resolved
      /\ pass'.haveRules = pass.haveRules
      /\ pass'.haveRoutes = pass.haveRoutes
      /\ pass'.pc = AfterDeletes(f)
  BY <1>3 DEF DelRoute, PassInv, TypeOK, PassType
<1>5. \A u \in Tables : routes'[u] \in {None, routes[u]}
  BY <1>3 DEF PassInv, TypeOK
<1>6. OneRulePerTable' /\ NeverMixed'
  BY <1>4, <1>5 DEF PassInv, OneRulePerTable, NeverMixed, FromOneSpec
<1>7. AskedFor'
  BY <1>4, AskedForUnchanged DEF PassInv
<1>8. ListedIsCurrent'
  BY <1>2, <1>4, <1>5
     DEF PassInv, TypeOK, PassType, ListedIsCurrent, Working, AfterDeletes
<1>9. TableUnderWork'
  <2>1. pass'.pc \in {"next", "addRule"}
    BY <1>4 DEF AfterDeletes
  <2>2. pass'.pc = "addRule" => pass.resolved[t] # None /\ ~f
    BY <1>4 DEF AfterDeletes
  <2> QED BY <1>2, <1>3, <1>4, <2>1, <2>2 DEF TableUnderWork
<1> QED BY <1>1, <1>6, <1>7, <1>8, <1>9 DEF PassInv

LEMMA AddRuleInv == PassInv /\ AddRule => PassInv'
<1> SUFFICES ASSUME PassInv, AddRule PROVE PassInv'
  OBVIOUS
<1> DEFINE t == pass.table
           r == RuleFor(pass.resolved[t])
<1>1. /\ t \in Tables /\ t \notin pass.todo /\ pass.resolved[t] # None
      /\ routes[t] = None /\ rules[t] = <<>>
  BY DEF PassInv, TypeOK, TableUnderWork, AddRule
<1>2. TypeOK'
  BY <1>1, AddRuleType DEF PassInv
<1>3. /\ routes' = routes /\ pass'.table = t /\ pass'.todo = pass.todo
      /\ pass'.specs = pass.specs /\ pass'.indices = pass.indices
      /\ pass'.resolved = pass.resolved
      /\ pass'.haveRules = pass.haveRules
      /\ pass'.haveRoutes = pass.haveRoutes
      /\ pass'.pc \in {"next", "addRoute"}
      /\ pass'.pc = "next" => rules' = rules
      /\ pass'.pc = "addRoute" => rules' = [rules EXCEPT ![t] = Append(@, r)]
  BY DEF AddRule, PassInv, TypeOK, PassType
<1>4. /\ \A u \in Tables \ {t} : rules'[u] = rules[u]
      /\ pass'.pc = "next" => rules'[t] = <<>>
      /\ pass'.pc = "addRoute" => rules'[t] = <<r>>
  <2> HIDE DEF r
  <2> QED BY <1>1, <1>3 DEF PassInv, TypeOK
<1>5. OneRulePerTable'
  <2> HIDE DEF r
  <2>1. pass'.pc = "next" => Len(rules'[t]) <= 1
    BY <1>1, <1>3 DEF PassInv, OneRulePerTable
  <2>2. pass'.pc = "addRoute" => Len(rules'[t]) <= 1
    <3>1. Len(<<r>>) <= 1
      OBVIOUS
    <3>2. pass'.pc = "addRoute" => rules'[t] = <<r>>
      BY <1>4
    <3> QED BY <3>1, <3>2, Zenon
  <2>3. Len(rules'[t]) <= 1
    BY <1>3, <2>1, <2>2
  <2> QED BY <1>4, <2>3 DEF PassInv, OneRulePerTable
<1>6. NeverMixed'
  <2> SUFFICES ASSUME NEW u \in Tables, routes'[u] # None,
                      NEW k \in DOMAIN rules'[u]
               PROVE  FromOneSpec(u, rules'[u][k], routes'[u])
    BY DEF NeverMixed, FromOneSpec
  <2>1. rules'[u] = rules[u]
    BY <1>1, <1>3, <1>4
  <2> QED BY <2>1, <1>3 DEF PassInv, NeverMixed
<1>7. AskedFor'
  BY <1>3, AskedForUnchanged DEF PassInv
<1>8. ListedIsCurrent'
  BY <1>1, <1>3, <1>4 DEF PassInv, TypeOK, PassType, ListedIsCurrent, Working,
                          AddRule
<1>9. TableUnderWork'
  BY <1>1, <1>3, <1>4 DEF TableUnderWork, RuleFor
<1> QED BY <1>2, <1>5, <1>6, <1>7, <1>8, <1>9 DEF PassInv

LEMMA AddRouteInv == PassInv /\ AddRoute => PassInv'
<1> SUFFICES ASSUME PassInv, AddRoute PROVE PassInv'
  OBVIOUS
<1> DEFINE t == pass.table
           w == pass.resolved[t]
<1>1. /\ t \in Tables /\ t \notin pass.todo /\ w # None
      /\ routes[t] = None /\ rules[t] = <<RuleFor(w)>>
  BY DEF PassInv, TypeOK, TableUnderWork, AddRoute
<1>2. TypeOK'
  BY <1>1, AddRouteType DEF PassInv
<1>3. /\ rules' = rules /\ pass'.todo = pass.todo /\ pass'.pc = "next"
      /\ pass'.specs = pass.specs /\ pass'.indices = pass.indices
      /\ pass'.resolved = pass.resolved
      /\ pass'.haveRules = pass.haveRules
      /\ pass'.haveRoutes = pass.haveRoutes
      /\ routes' \in {routes, [routes EXCEPT ![t] = RouteFor(w)]}
  BY DEF AddRoute, PassInv, TypeOK, PassType
<1>4. OneRulePerTable'
  BY <1>3 DEF PassInv, OneRulePerTable
<1>5. NeverMixed'
  <2> SUFFICES ASSUME NEW u \in Tables, routes'[u] # None,
                      NEW k \in DOMAIN rules'[u]
               PROVE  FromOneSpec(u, rules'[u][k], routes'[u])
    BY DEF NeverMixed, FromOneSpec
  <2>1. CASE routes'[u] = routes[u]
    BY <2>1, <1>3 DEF PassInv, NeverMixed
  <2>2. CASE routes'[u] # routes[u]
    <3>1. u = t /\ routes'[u] = RouteFor(w)
      BY <2>2, <1>1, <1>3 DEF PassInv, TypeOK
    <3>2. rules'[u][k] = RuleFor(w)
      <4>1. rules'[u] = <<RuleFor(w)>>
        BY <3>1, <1>1, <1>3
      <4> QED BY <4>1
    <3> QED BY <3>1, <3>2, <1>1 DEF PassInv, AskedFor
  <2> QED BY <2>1, <2>2
<1>6. AskedFor'
  BY <1>3, AskedForUnchanged DEF PassInv
<1>7. ListedIsCurrent'
  BY <1>1, <1>3 DEF PassInv, TypeOK, PassType, ListedIsCurrent, Working,
                    AddRoute
<1>8. TableUnderWork'
  BY <1>3 DEF TableUnderWork
<1> QED BY <1>2, <1>4, <1>5, <1>6, <1>7, <1>8 DEF PassInv

\* Every step keeps the invariant.
LEMMA NextInv == PassInv /\ [Next]_vars => PassInv'
<1> SUFFICES ASSUME PassInv, [Next]_vars PROVE PassInv'
  OBVIOUS
<1>0. goal \in Goals /\ TypeOK
  BY DEF PassInv, TypeOK
<1>1. CASE Begin(goal)
  BY <1>0, <1>1, BeginInv
<1>2. CASE PassStep
  BY <1>2, ResolveSpecInv, ListRulesInv, ListRoutesInv, VisitTableInv,
     DelRuleInv, DelRouteInv, AddRuleInv, AddRouteInv, FinishInv DEF PassStep
<1>3. CASE \E g \in Goals : NewGoal(g)
  <2>1. TypeOK' /\ UNCHANGED <<rules, routes, pass>>
    BY <1>0, <1>3, NewGoalType DEF NewGoal
  <2> QED BY <2>1, PassUnchanged
<1>4. CASE \E i \in Ifaces : LinkDel(i)
  BY <1>4, LinkDelInv
<1>5. CASE \E i \in Ifaces : LinkAdd(i)
  <2>1. TypeOK' /\ UNCHANGED <<rules, routes, pass>>
    BY <1>0, <1>5, LinkAddType DEF LinkAdd
  <2> QED BY <2>1, PassUnchanged
<1>6. CASE Crash
  BY <1>6, CrashInv
<1>7. CASE UNCHANGED vars
  <2>1. TypeOK' /\ UNCHANGED <<rules, routes, pass>>
    BY <1>0, <1>7, StutterType DEF vars
  <2> QED BY <2>1, PassUnchanged
<1> QED BY <1>1, <1>2, <1>3, <1>4, <1>5, <1>6, <1>7 DEF Next

-----------------------------------------------------------------------------
(* Theorems.                                                               *)

\* The inductive invariant holds throughout: between two requests of a pass
\* what was listed and not yet visited is still what the kernel holds.
THEOREM PassInvariant == Spec => []PassInv
<1>1. Init => PassInv
  BY InitInv
<1>2. PassInv /\ [Next]_vars => PassInv'
  BY NextInv
<1> QED BY <1>1, <1>2, PTL DEF Spec

\* Every variable of the kernel and of the pass keeps its type.
THEOREM TypeCorrect == Spec => []TypeOK
<1>1. PassInv => TypeOK
  BY DEF PassInv
<1> QED BY <1>1, PassInvariant, PTL

\* reconcile never leaves two dumbarp rules on a table, whatever fails and
\* wherever it dies.
THEOREM OneRule == Spec => []OneRulePerTable
<1>1. PassInv => OneRulePerTable
  BY DEF PassInv
<1> QED BY <1>1, PassInvariant, PTL

\* No table ever pairs the rule of one spec with the route of another.
THEOREM NeverMixedPairs == Spec => []NeverMixed
<1>1. PassInv => NeverMixed
  BY DEF PassInv
<1> QED BY <1>1, PassInvariant, PTL

\* A step of a pass does not touch a table that is as the pass wants it.
LEMMA StepKeepsInstalled ==
    ASSUME PassInv, PassStep, NEW t \in Tables, Installed(t, pass.resolved[t])
    PROVE  rules'[t] = rules[t] /\ routes'[t] = routes[t]
<1> DEFINE w == pass.resolved[t]
<1>1. CASE DelRule
  <2>1. routes' = routes
    BY <1>1 DEF DelRule
  <2>2. CASE t # pass.table
    BY <2>1, <2>2, <1>1, DelRuleEmpties DEF PassInv, TypeOK
  <2>3. CASE t = pass.table
    <3>1. /\ rules[t] = pass.haveRules[t] /\ rules[t] # <<>>
          /\ routes[t] \in {None, pass.haveRoutes[t]}
          /\ ~Matches(w, pass.haveRules[t], pass.haveRoutes[t])
      BY <1>1, <2>3 DEF PassInv, TableUnderWork, DelRule
    <3>2. w # None
      BY <3>1 DEF Installed
    <3>3. rules[t] = <<RuleFor(w)>> /\ routes[t] = RouteFor(w)
      BY <3>2 DEF Installed
    <3>4. w \in ResolvedSpec
      BY <3>2 DEF PassInv, TypeOK, PassType
    <3>5. routes[t] # None
      BY <3>3, <3>4, BuiltTypes, ConstantsAssumption
    <3> QED BY <3>1, <3>2, <3>3, <3>5 DEF Matches
  <2> QED BY <2>2, <2>3
<1>2. CASE DelRoute
  <2>1. rules' = rules
    BY <1>2 DEF DelRoute
  <2>2. CASE t # pass.table
    BY <2>1, <2>2, <1>2 DEF DelRoute, PassInv, TypeOK
  <2>3. CASE t = pass.table /\ w = None
    BY <2>1, <2>3, <1>2 DEF Installed, DelRoute, PassInv, TypeOK
  <2>4. CASE t = pass.table /\ w # None
    <3>1. /\ rules[t] \in {pass.haveRules[t], <<>>}
          /\ routes[t] \in {None, pass.haveRoutes[t]}
          /\ ~Matches(w, pass.haveRules[t], pass.haveRoutes[t])
      BY <1>2, <2>4 DEF PassInv, TableUnderWork, DelRoute
    <3>2. rules[t] = <<RuleFor(w)>> /\ routes[t] = RouteFor(w)
      BY <2>4 DEF Installed
    <3>3. w \in ResolvedSpec
      BY <2>4 DEF PassInv, TypeOK, PassType
    <3>4. routes[t] # None
      BY <3>2, <3>3, BuiltTypes, ConstantsAssumption
    <3>5. rules[t] # <<>>
      BY <3>2
    <3> QED BY <2>4, <3>1, <3>2, <3>4, <3>5 DEF Matches
  <2> QED BY <2>2, <2>3, <2>4
<1>3. CASE AddRule
  <2>1. routes' = routes
    BY <1>3 DEF AddRule
  <2>2. CASE t # pass.table
    BY <2>1, <2>2, <1>3 DEF AddRule, PassInv, TypeOK
  <2>3. CASE t = pass.table
    <3>1. w # None /\ rules[t] = <<>>
      BY <1>3, <2>3 DEF PassInv, TableUnderWork, AddRule
    <3> QED BY <3>1 DEF Installed
  <2> QED BY <2>2, <2>3
<1>4. CASE AddRoute
  <2>1. rules' = rules
    BY <1>4 DEF AddRoute
  <2>2. CASE t # pass.table
    BY <2>1, <2>2, <1>4 DEF AddRoute, PassInv, TypeOK
  <2>3. CASE t = pass.table
    <3>1. w # None /\ routes[t] = None
      BY <1>4, <2>3 DEF PassInv, TableUnderWork, AddRoute
    <3>2. w \in ResolvedSpec
      BY <3>1 DEF PassInv, TypeOK, PassType
    <3> QED BY <3>1, <3>2, BuiltTypes, ConstantsAssumption DEF Installed
  <2> QED BY <2>2, <2>3
<1>5. CASE ~(DelRule \/ DelRoute \/ AddRule \/ AddRoute)
  BY <1>5 DEF PassStep, ResolveSpec, ListRules, ListRoutes, VisitTable, Finish
<1> QED BY <1>1, <1>2, <1>3, <1>4, <1>5

\* Repeated passes do not flap: a pass never touches a table that already is
\* as it wants it.
THEOREM PassesDoNotFlap == Spec => NoFlap
<1>1. PassInv /\ [Next]_vars =>
         [\A t \in Tables :
             PassStep /\ Installed(t, pass.resolved[t]) =>
                 rules'[t] = rules[t] /\ routes'[t] = routes[t]]_vars
  BY StepKeepsInstalled
<1> QED BY <1>1, PassInvariant, PTL DEF Spec, NoFlap

-----------------------------------------------------------------------------
(* RouteManager implements Steering.  With the inductive invariant at      *)
(* hand, a step either leaves every table steering as before or nothing    *)
(* (Withdraw), or it is the add_route that completes one table (Install).  *)

\* A table with one rule has a first rule, and it is that one.
LEMMA SingletonFacts ==
    ASSUME NEW x
    PROVE  <<x>> # <<>> /\ <<x>>[1] = x
  OBVIOUS

\* What a table steers by afterwards follows from its rules and its route.
LEMMA SteersOfSame ==
    ASSUME NEW t \in Tables, rules'[t] = rules[t], routes'[t] = routes[t]
    PROVE  SteersOf(t)' = SteersOf(t)
  BY DEF SteersOf

LEMMA SteersOfGone ==
    ASSUME NEW t \in Tables, rules'[t] = <<>> \/ routes'[t] = None
    PROVE  SteersOf(t)' = None
  BY DEF SteersOf

\* Only add_route makes a table steer by something new.
LEMMA NothingNew ==
    ASSUME PassInv, [Next]_vars, ~AddRoute, NEW t \in Tables
    PROVE  SteersOf(t)' \in {SteersOf(t), None}
<1> SUFFICES \/ rules'[t] = rules[t] /\ routes'[t] = routes[t]
             \/ rules'[t] = <<>>
             \/ routes'[t] = None
  BY SteersOfSame, SteersOfGone
<1>1. CASE DelRule
  <2>1. routes' = routes /\ pass.table \in Tables
    BY <1>1 DEF DelRule, PassInv, TypeOK
  <2> QED BY <1>1, <2>1, DelRuleEmpties DEF PassInv, TypeOK
<1>2. CASE DelRoute
  <2>1. rules' = rules
    BY <1>2 DEF DelRoute
  <2> QED BY <1>2, <2>1 DEF DelRoute, PassInv, TypeOK
<1>3. CASE AddRule
  <2>1. routes' = routes /\ routes[pass.table] = None
    BY <1>3 DEF AddRule, PassInv, TableUnderWork
  <2>2. t # pass.table => rules'[t] = rules[t]
    BY <1>3 DEF AddRule, PassInv, TypeOK
  <2> QED BY <2>1, <2>2
<1>4. CASE \E i \in Ifaces : LinkDel(i)
  BY <1>4 DEF LinkDel
<1>5. CASE ~(DelRule \/ DelRoute \/ AddRule \/ \E i \in Ifaces : LinkDel(i))
  BY <1>5 DEF Next, PassStep, Begin, ResolveSpec, ListRules, ListRoutes,
              VisitTable, Finish, NewGoal, LinkAdd, Crash, vars
<1> QED BY <1>1, <1>2, <1>3, <1>4, <1>5

\* add_route either fails, or completes the table it works on with the pair
\* of one requested spec, while that table steered nothing.
LEMMA AddRouteInstalls ==
    ASSUME PassInv, AddRoute
    PROVE  \/ \A t \in Tables : SteersOf(t)' = SteersOf(t)
           \/ \E t \in Tables :
                 /\ SteersOf(t) = None
                 /\ SteersOf(t)' \in AllowedPairs(t)
                 /\ \A u \in Tables \ {t} : SteersOf(u)' = SteersOf(u)
<1>t. PICK t \in Tables : t = pass.table
  BY DEF PassInv, TypeOK, AddRoute
<1>w. PICK w : w = pass.resolved[t]
  OBVIOUS
<1>1. /\ t \in Tables /\ w # None /\ w \in ResolvedSpec /\ rules' = rules
      /\ routes[t] = None /\ rules[t] = <<RuleFor(w)>>
      /\ routes' \in {routes, [routes EXCEPT ![t] = RouteFor(w)]}
  BY <1>t, <1>w DEF PassInv, TypeOK, PassType, TableUnderWork, AddRoute
<1>2. CASE routes' = routes
  BY <1>1, <1>2, SteersOfSame
<1>3. CASE routes' = [routes EXCEPT ![t] = RouteFor(w)]
  <2>1. SteersOf(t) = None
    BY <1>1 DEF SteersOf
  <2>2. \A u \in Tables \ {t} : SteersOf(u)' = SteersOf(u)
    BY <1>1, <1>3, SteersOfSame DEF PassInv, TypeOK
  <2>3. /\ RuleFor(w) \in CurrentRule /\ RouteFor(w) \in CurrentRoute
        /\ FromOneSpec(t, RuleFor(w), RouteFor(w))
    BY <1>1, <1>w, BuiltTypes DEF PassInv, AskedFor
  <2>4. routes'[t] = RouteFor(w) /\ routes'[t] # None
    BY <1>1, <1>3, <2>3, ConstantsAssumption DEF PassInv, TypeOK
  <2>5. SteersOf(t)' = <<RuleFor(w), RouteFor(w)>>
    <3>1. rules'[t] = <<RuleFor(w)>>
      BY <1>1
    <3>2. rules'[t] # <<>> /\ rules'[t][1] = RuleFor(w)
      BY <3>1, SingletonFacts, Zenon
    <3>3. SteersOf(t)' = <<rules'[t][1], routes'[t]>>
      BY <2>4, <3>2 DEF SteersOf
    <3> QED BY <2>4, <3>2, <3>3
  <2>6. <<RuleFor(w), RouteFor(w)>> \in AllowedPairs(t)
    BY <2>3 DEF AllowedPairs
  <2> QED BY <1>1, <2>1, <2>2, <2>5, <2>6
<1> QED BY <1>1, <1>2, <1>3

LEMMA InitSteers == Init => Promise!Init
  BY DEF Init, Promise!Init, SteersOf

LEMMA NextSteers ==
    ASSUME PassInv, [Next]_vars
    PROVE  [Promise!Next]_([t \in Tables |-> SteersOf(t)])
<1> DEFINE steers == [t \in Tables |-> SteersOf(t)]
<1>1. CASE \A t \in Tables : SteersOf(t)' \in {SteersOf(t), None}
  <2> DEFINE T == {t \in Tables : SteersOf(t)' = None}
  <2>1. steers' = [t \in Tables |-> IF t \in T THEN None ELSE steers[t]]
    BY <1>1
  <2>2. T \in SUBSET Tables
    OBVIOUS
  <2> QED BY <2>1, <2>2 DEF Promise!Next, Promise!Withdraw
<1>2. CASE \E t \in Tables : /\ SteersOf(t) = None
                             /\ SteersOf(t)' \in AllowedPairs(t)
                             /\ \A u \in Tables \ {t} :
                                   SteersOf(u)' = SteersOf(u)
  <2>1. PICK t \in Tables : /\ SteersOf(t) = None
                            /\ SteersOf(t)' \in AllowedPairs(t)
                            /\ \A u \in Tables \ {t} :
                                  SteersOf(u)' = SteersOf(u)
    BY <1>2
  <2>2. steers' = [steers EXCEPT ![t] = SteersOf(t)']
    BY <2>1
  <2> QED BY <2>1, <2>2 DEF Promise!Next, Promise!Install
<1> QED BY <1>1, <1>2, NothingNew, AddRouteInstalls

\* Every behaviour of the stepwise pass is one of the abstract promise.
THEOREM RouteManagerSteers == Spec => ImplementsSteering
<1>1. Init => Promise!Init
  BY InitSteers
<1>2. PassInv /\ [Next]_vars =>
         [Promise!Next]_([t \in Tables |-> SteersOf(t)])
  BY NextSteers
<1> QED BY <1>1, <1>2, PassInvariant, PTL
        DEF Spec, ImplementsSteering, Promise!Spec

-----------------------------------------------------------------------------
(* A pass beside one that only deletes.                                    *)
(* At shutdown main reconciles to the empty list while the periodic pass   *)
(* may be half way through.  What a pass has listed may then be gone, but  *)
(* nothing it has not listed has come.  SharedInv is PassInv without the   *)
(* certainty that listed rules are still there.                            *)

SharedListed ==
    /\ pass.pc \in Working \cup {"listRoutes"} =>
          \A t \in Tables : Len(pass.haveRules[t]) <= 1
    /\ pass.pc = "listRoutes" =>
          \A t \in Tables : rules[t] \in {pass.haveRules[t], <<>>}
    /\ pass.pc \in Working =>
          \A t \in pass.todo : /\ rules[t] \in {pass.haveRules[t], <<>>}
                               /\ routes[t] \in {None, pass.haveRoutes[t]}

SharedWork ==
    LET t == pass.table
    IN /\ pass.pc \in {"delete", "addRule", "addRoute"} => t \notin pass.todo
       /\ pass.pc = "delete" =>
             /\ rules[t] \in {pass.haveRules[t], <<>>}
             /\ routes[t] \in {None, pass.haveRoutes[t]}
             /\ pass.dels # <<>> => pass.dels = pass.haveRules[t]
             /\ pass.dels = <<>> /\ ~pass.failed => rules[t] = <<>>
       /\ pass.pc \in {"addRule", "addRoute"} =>
             pass.resolved[t] # None /\ routes[t] = None
       /\ pass.pc = "addRule" => rules[t] = <<>>
       /\ pass.pc = "addRoute" =>
             rules[t] \in {<<>>, <<RuleFor(pass.resolved[t])>>}

\* Every rule has the mask add_rule gives it, so that a delete fits it.
RulesAreOwn ==
    \A t \in Tables : \A k \in DOMAIN rules[t] :
        rules[t][k].fwmask = ExpectedFwmask(rules[t][k].fwmark)

KernelInv == OneRulePerTable /\ NeverMixed /\ RulesAreOwn

SharedInv == TypeOK /\ KernelInv /\ AskedFor /\ SharedListed /\ SharedWork

\* Rules and routes go, none comes.
Shrinks ==
    \A t \in Tables : /\ rules'[t] \in {rules[t], <<>>}
                      /\ routes'[t] \in {routes[t], None}

LEMMA KernelShrinks == ASSUME KernelInv, Shrinks PROVE KernelInv'
<1>1. OneRulePerTable'
  <2>1. Len(<<>>) <= 1
    OBVIOUS
  <2> QED BY <2>1 DEF KernelInv, Shrinks, OneRulePerTable
<1>2. DOMAIN <<>> = {}
  OBVIOUS
<1>3. NeverMixed'
  <2> SUFFICES ASSUME NEW u \in Tables, routes'[u] # None,
                      NEW k \in DOMAIN rules'[u]
               PROVE  FromOneSpec(u, rules'[u][k], routes'[u])
    BY DEF NeverMixed, FromOneSpec
  <2>1. rules'[u] = rules[u] /\ routes'[u] = routes[u]
    BY <1>2 DEF Shrinks
  <2> QED BY <2>1 DEF KernelInv, NeverMixed
<1>4. RulesAreOwn'
  <2> SUFFICES ASSUME NEW u \in Tables, NEW k \in DOMAIN rules'[u]
               PROVE  rules'[u][k].fwmask = ExpectedFwmask(rules'[u][k].fwmark)
    BY DEF RulesAreOwn, ExpectedFwmask, NoMark
  <2>1. rules'[u] = rules[u]
    BY <1>2 DEF Shrinks
  <2> QED BY <2>1 DEF KernelInv, RulesAreOwn
<1> QED BY <1>1, <1>3, <1>4 DEF KernelInv

LEMMA KernelSame == ASSUME KernelInv, UNCHANGED <<rules, routes>> PROVE KernelInv'
  BY KernelShrinks DEF Shrinks

\* A pass that stands still while another deletes, or an interface goes.
LEMMA OthersDelete ==
    ASSUME SharedInv, TypeOK', Shrinks, UNCHANGED pass
    PROVE  SharedInv'
<1>1. KernelInv'
  BY KernelShrinks DEF SharedInv
<1>2. AskedFor'
  BY AskedForUnchanged DEF SharedInv
<1>3. SharedListed'
  BY DEF SharedInv, SharedListed, Shrinks, TypeOK, PassType
<1>4. SharedWork'
  <2>1. pass.pc \in {"delete", "addRule", "addRoute"} =>
           /\ pass.table \in Tables
           /\ rules'[pass.table] \in {rules[pass.table], <<>>}
           /\ routes'[pass.table] \in {routes[pass.table], None}
    BY DEF SharedInv, TypeOK, Shrinks
  <2> QED BY <2>1 DEF SharedInv, SharedWork, RuleFor
<1> QED BY <1>1, <1>2, <1>3, <1>4 DEF SharedInv

LEMMA SharedIdle ==
    ASSUME TypeOK', KernelInv', pass' = IdlePass PROVE SharedInv'
  BY DEF SharedInv, AskedFor, SharedListed, SharedWork, IdlePass, Working

LEMMA SharedBegin ==
    ASSUME NEW d \in Goals, SharedInv, Begin(d) PROVE SharedInv'
<1>1. d \in Seq(RouteSpec)
  BY ConstantsAssumption
<1>2. TypeOK'
  BY <1>1, BeginType DEF SharedInv
<1>3. KernelInv'
  BY KernelSame DEF SharedInv, Begin
<1>4. pass' = [IdlePass EXCEPT !.pc = "resolve", !.specs = d]
  BY DEF Begin
<1>5. AskedFor'
  <2>1. /\ pass'.specs = d
        /\ \A i \in Ifaces : pass'.indices[i] = None
        /\ \A t \in Tables : pass'.resolved[t] = None
    BY <1>4 DEF IdlePass
  <2>2. \A k \in DOMAIN d : d[k] \in Requested
    BY DEF Requested
  <2> QED BY <2>1, <2>2 DEF AskedFor
<1>6. pass'.pc = "resolve"
  BY <1>4 DEF IdlePass
<1>7. SharedListed' /\ SharedWork'
  BY <1>6 DEF SharedListed, SharedWork, Working
<1> QED BY <1>2, <1>3, <1>5, <1>7 DEF SharedInv

\* What a step after the specs are resolved leaves of the pass's plan.
PlanKept ==
    /\ pass'.specs = pass.specs /\ pass'.indices = pass.indices
    /\ pass'.resolved = pass.resolved
    /\ pass'.haveRules = pass.haveRules
    /\ pass'.haveRoutes = pass.haveRoutes

LEMMA SharedResolve == ASSUME SharedInv, ResolveSpec PROVE SharedInv'
<1>1. TypeOK'
  BY ResolveSpecType DEF SharedInv
<1>2. KernelInv'
  BY KernelSame DEF SharedInv, ResolveSpec
<1>3. AskedFor'
  BY ResolveSpecAsked DEF SharedInv
<1>4. pass'.pc = "resolve"
  BY DEF SharedInv, TypeOK, PassType, ResolveSpec
<1>5. SharedListed' /\ SharedWork'
  BY <1>4 DEF SharedListed, SharedWork, Working
<1> QED BY <1>1, <1>2, <1>3, <1>5 DEF SharedInv

LEMMA SharedListRules == ASSUME SharedInv, ListRules PROVE SharedInv'
<1>1. TypeOK'
  BY ListRulesType DEF SharedInv
<1>2. KernelInv'
  BY KernelSame DEF SharedInv, ListRules
<1>3. CASE pass' = IdlePass
  BY <1>1, <1>2, <1>3, SharedIdle
<1>4. CASE pass' = [pass EXCEPT !.pc = "listRoutes", !.haveRules = rules]
  <2>1. /\ pass'.pc = "listRoutes" /\ pass'.haveRules = rules
        /\ pass'.specs = pass.specs /\ pass'.indices = pass.indices
        /\ pass'.resolved = pass.resolved
    BY <1>4 DEF SharedInv, TypeOK, PassType
  <2>2. AskedFor'
    BY <2>1, AskedForUnchanged DEF SharedInv
  <2>3. SharedListed' /\ SharedWork'
    BY <2>1 DEF SharedInv, KernelInv, OneRulePerTable, ListRules, SharedListed,
                SharedWork, Working
  <2> QED BY <1>1, <1>2, <2>2, <2>3 DEF SharedInv
<1> QED BY <1>3, <1>4 DEF ListRules

LEMMA SharedListRoutes == ASSUME SharedInv, ListRoutes PROVE SharedInv'
<1> DEFINE T == {t \in Tables : \/ pass.haveRules[t] # <<>>
                                \/ routes[t] # None
                                \/ pass.resolved[t] # None}
<1>1. TypeOK'
  BY ListRoutesType DEF SharedInv
<1>2. KernelInv'
  BY KernelSame DEF SharedInv, ListRoutes
<1>3. CASE pass' = IdlePass
  BY <1>1, <1>2, <1>3, SharedIdle
<1>4. CASE pass' = [pass EXCEPT !.pc = "next", !.haveRoutes = routes,
                                !.todo = T]
  <2>0. T \subseteq Tables
    OBVIOUS
  <2> HIDE DEF T
  <2>1. /\ pass'.pc = "next" /\ pass'.haveRoutes = routes /\ pass'.todo = T
        /\ pass'.haveRules = pass.haveRules
        /\ pass'.specs = pass.specs /\ pass'.indices = pass.indices
        /\ pass'.resolved = pass.resolved
    BY <1>4 DEF SharedInv, TypeOK, PassType
  <2>2. AskedFor'
    BY <2>1, AskedForUnchanged DEF SharedInv
  <2>3. SharedListed' /\ SharedWork'
    BY <2>0, <2>1 DEF SharedInv, ListRoutes, SharedListed, SharedWork, Working
  <2> QED BY <1>1, <1>2, <2>2, <2>3 DEF SharedInv
<1> QED BY <1>3, <1>4 DEF ListRoutes

LEMMA SharedVisit ==
    ASSUME NEW t \in Tables, SharedInv, VisitTable(t) PROVE SharedInv'
<1>1. TypeOK'
  BY VisitTableType DEF SharedInv
<1>2. KernelInv' /\ UNCHANGED <<rules, routes>>
  BY KernelSame DEF SharedInv, VisitTable
<1>3. PlanKept /\ pass'.todo = pass.todo \ {t} /\ pass'.pc \in {"next", "delete"}
  BY DEF VisitTable, SharedInv, TypeOK, PassType, PlanKept
<1>4. AskedFor'
  BY <1>3, AskedForUnchanged DEF SharedInv, PlanKept
<1>5. pass.pc = "next" /\ t \in pass.todo
  BY DEF VisitTable
<1>6. SharedListed'
  BY <1>2, <1>3, <1>5 DEF SharedInv, SharedListed, Working, PlanKept
<1>7. SharedWork'
  <2>1. CASE pass'.pc = "next"
    BY <2>1 DEF SharedWork
  <2>2. CASE pass'.pc = "delete"
    <3>1. pass'.table = t /\ pass'.dels = pass.haveRules[t]
      BY <2>2 DEF VisitTable, SharedInv, TypeOK, PassType
    <3>2. /\ rules[t] \in {pass.haveRules[t], <<>>}
          /\ routes[t] \in {None, pass.haveRoutes[t]}
      BY <1>5 DEF SharedInv, SharedListed, Working
    <3> QED BY <1>2, <1>3, <2>2, <3>1, <3>2 DEF SharedWork, PlanKept
  <2> QED BY <1>3, <2>1, <2>2
<1> QED BY <1>1, <1>2, <1>4, <1>6, <1>7 DEF SharedInv

LEMMA SharedDelRule == ASSUME SharedInv, DelRule PROVE SharedInv'
<1> DEFINE t == pass.table
<1>1. TypeOK'
  BY DelRuleType DEF SharedInv
<1>2. /\ t \in Tables /\ t \notin pass.todo /\ pass.pc = "delete"
      /\ pass.dels # <<>> /\ pass.dels = pass.haveRules[t]
      /\ rules[t] \in {pass.haveRules[t], <<>>} /\ Len(pass.haveRules[t]) <= 1
      /\ routes[t] \in {None, pass.haveRoutes[t]}
      /\ pass.dels \in Seq(CurrentRule)
  BY DEF SharedInv, TypeOK, PassType, SharedListed, SharedWork, DelRule, Working
<1>3. Tail(pass.dels) = <<>>
  BY <1>2
<1>4. /\ routes' = routes /\ PlanKept
      /\ pass'.pc = "delete" /\ pass'.table = t /\ pass'.dels = <<>>
      /\ pass'.todo = pass.todo
  BY <1>2, <1>3 DEF DelRule, SharedInv, TypeOK, PassType, PlanKept
<1>5. /\ rules'[t] \in {rules[t], <<>>}
      /\ ~pass'.failed => rules'[t] = <<>>
      /\ \A u \in Tables \ {t} : rules'[u] = rules[u]
  BY <1>2, DelRuleEmpties DEF SharedInv, KernelInv, TypeOK, PassType
<1>6. Shrinks
  BY <1>4, <1>5 DEF Shrinks
<1>7. KernelInv'
  BY <1>6, KernelShrinks DEF SharedInv
<1>8. AskedFor'
  BY <1>4, AskedForUnchanged DEF SharedInv, PlanKept
<1>9. SharedListed'
  <2>1. /\ \A u \in Tables : Len(pass.haveRules[u]) <= 1
        /\ \A u \in pass.todo : /\ rules[u] \in {pass.haveRules[u], <<>>}
                                 /\ routes[u] \in {None, pass.haveRoutes[u]}
        /\ pass.todo \subseteq Tables
    BY <1>2 DEF SharedInv, SharedListed, Working, TypeOK, PassType
  <2>2. \A u \in pass.todo : rules'[u] = rules[u]
    BY <1>2, <1>5, <2>1
  <2> QED BY <1>4, <2>1, <2>2 DEF SharedListed, Working, PlanKept
<1>10. SharedWork'
  BY <1>2, <1>4, <1>5 DEF SharedWork, PlanKept
<1> QED BY <1>1, <1>7, <1>8, <1>9, <1>10 DEF SharedInv

LEMMA SharedDelRoute == ASSUME SharedInv, DelRoute PROVE SharedInv'
<1> DEFINE t == pass.table
<1>1. TypeOK'
  BY DelRouteType DEF SharedInv
<1>2. /\ t \in Tables /\ t \notin pass.todo /\ pass.pc = "delete"
      /\ ~pass.failed => rules[t] = <<>>
      /\ routes[t] \in {None, pass.haveRoutes[t]}
  BY DEF SharedInv, TypeOK, SharedWork, DelRoute
<1>3. PICK f \in BOOLEAN :
         /\ pass' = [pass EXCEPT !.failed = f, !.pc = AfterDeletes(f)]
         /\ ~f => ~pass.failed /\ routes'[t] = None
         /\ routes' \in {routes, [routes EXCEPT ![t] = None]}
  BY <1>2 DEF DelRoute, SharedInv, TypeOK, PassType
<1>4. /\ rules' = rules /\ PlanKept /\ pass'.table = t
      /\ pass'.todo = pass.todo /\ pass'.pc = AfterDeletes(f)
  BY <1>3 DEF DelRoute, SharedInv, TypeOK, PassType, PlanKept
<1>5. Shrinks
  BY <1>3, <1>4 DEF Shrinks, SharedInv, TypeOK
<1>6. KernelInv'
  BY <1>5, KernelShrinks DEF SharedInv
<1>7. AskedFor'
  BY <1>4, AskedForUnchanged DEF SharedInv, PlanKept
<1>8. AfterDeletes(f) \in {"next", "addRule"}
  BY DEF AfterDeletes
<1>9. SharedListed'
  <2>1. /\ \A u \in Tables : Len(pass.haveRules[u]) <= 1
        /\ \A u \in pass.todo : /\ rules[u] \in {pass.haveRules[u], <<>>}
                                 /\ routes[u] \in {None, pass.haveRoutes[u]}
        /\ pass.todo \subseteq Tables
    BY <1>2 DEF SharedInv, SharedListed, Working, TypeOK, PassType
  <2>2. \A u \in pass.todo : routes'[u] \in {None, pass.haveRoutes[u]}
    BY <1>5, <2>1 DEF Shrinks
  <2> QED BY <1>4, <1>8, <2>1, <2>2 DEF SharedListed, Working, PlanKept
<1>10. SharedWork'
  <2>1. AfterDeletes(f) = "addRule" => pass.resolved[t] # None /\ ~f
    BY DEF AfterDeletes
  <2> QED BY <1>2, <1>3, <1>4, <1>8, <2>1 DEF SharedWork, PlanKept
<1> QED BY <1>1, <1>6, <1>7, <1>9, <1>10 DEF SharedInv

LEMMA SharedAddRule == ASSUME SharedInv, AddRule PROVE SharedInv'
<1> DEFINE t == pass.table
           r == RuleFor(pass.resolved[t])
<1>1. /\ t \in Tables /\ t \notin pass.todo /\ pass.resolved[t] # None
      /\ routes[t] = None /\ rules[t] = <<>> /\ pass.pc = "addRule"
  BY DEF SharedInv, TypeOK, SharedWork, AddRule
<1>2. TypeOK'
  BY <1>1, AddRuleType DEF SharedInv
<1>3. /\ routes' = routes /\ PlanKept /\ pass'.table = t /\ pass'.todo = pass.todo
      /\ pass'.pc \in {"next", "addRoute"}
      /\ pass'.pc = "next" => rules' = rules
      /\ pass'.pc = "addRoute" => rules' = [rules EXCEPT ![t] = Append(@, r)]
  BY DEF AddRule, SharedInv, TypeOK, PassType, PlanKept
<1>4. /\ \A u \in Tables \ {t} : rules'[u] = rules[u]
      /\ pass'.pc = "next" => rules'[t] = <<>>
      /\ pass'.pc = "addRoute" => rules'[t] = <<r>>
  <2> HIDE DEF r
  <2> QED BY <1>1, <1>3 DEF SharedInv, TypeOK
<1>r. r.fwmask = ExpectedFwmask(r.fwmark)
  BY DEF RuleFor
<1>s. rules'[t] = <<>> \/ rules'[t] = <<r>>
  BY <1>3, <1>4
<1> HIDE DEF r
<1>5. OneRulePerTable'
  <2>1. Len(<<r>>) <= 1 /\ Len(<<>>) <= 1
    OBVIOUS
  <2>2. Len(rules'[t]) <= 1
    BY <1>s, <2>1, Zenon
  <2> QED BY <1>4, <2>2 DEF SharedInv, KernelInv, OneRulePerTable
<1>6. NeverMixed'
  <2> SUFFICES ASSUME NEW u \in Tables, routes'[u] # None,
                      NEW k \in DOMAIN rules'[u]
               PROVE  FromOneSpec(u, rules'[u][k], routes'[u])
    BY DEF NeverMixed, FromOneSpec
  <2>1. rules'[u] = rules[u]
    BY <1>1, <1>3, <1>4
  <2> QED BY <2>1, <1>3 DEF SharedInv, KernelInv, NeverMixed
<1>7. RulesAreOwn'
  <2> SUFFICES ASSUME NEW u \in Tables, NEW k \in DOMAIN rules'[u]
               PROVE  rules'[u][k].fwmask = ExpectedFwmask(rules'[u][k].fwmark)
    BY DEF RulesAreOwn, ExpectedFwmask, NoMark
  <2>1. CASE u # t
    BY <2>1, <1>4 DEF SharedInv, KernelInv, RulesAreOwn
  <2>2. CASE u = t
    <3>1. \A j \in DOMAIN <<r>> : <<r>>[j] = r
      OBVIOUS
    <3>2. DOMAIN <<>> = {}
      OBVIOUS
    <3>3. rules'[u] = <<r>>
      BY <1>s, <2>2, <3>2
    <3>4. rules'[u][k] = r
      BY <3>1, <3>3, Zenon
    <3> QED BY <3>4, <1>r
  <2> QED BY <2>1, <2>2
<1>8. AskedFor'
  BY <1>3, AskedForUnchanged DEF SharedInv, PlanKept
<1>9. SharedListed'
  <2>1. /\ \A u \in Tables : Len(pass.haveRules[u]) <= 1
        /\ \A u \in pass.todo : /\ rules[u] \in {pass.haveRules[u], <<>>}
                                 /\ routes[u] \in {None, pass.haveRoutes[u]}
        /\ pass.todo \subseteq Tables
    BY <1>1 DEF SharedInv, SharedListed, Working, TypeOK, PassType
  <2>2. \A u \in pass.todo : rules'[u] = rules[u]
    BY <1>1, <1>4, <2>1
  <2> QED BY <1>3, <2>1, <2>2 DEF SharedListed, Working, PlanKept
<1>10. SharedWork'
  BY <1>1, <1>3, <1>4 DEF SharedWork, RuleFor, PlanKept, r
<1> QED BY <1>2, <1>5, <1>6, <1>7, <1>8, <1>9, <1>10 DEF SharedInv, KernelInv

LEMMA SharedAddRoute == ASSUME SharedInv, AddRoute PROVE SharedInv'
<1> DEFINE t == pass.table
           w == pass.resolved[t]
<1>1. /\ t \in Tables /\ t \notin pass.todo /\ w # None /\ pass.pc = "addRoute"
      /\ routes[t] = None /\ rules[t] \in {<<>>, <<RuleFor(w)>>}
  BY DEF SharedInv, TypeOK, SharedWork, AddRoute
<1>2. TypeOK'
  BY <1>1, AddRouteType DEF SharedInv
<1>3. /\ rules' = rules /\ PlanKept /\ pass'.todo = pass.todo /\ pass'.pc = "next"
      /\ routes' \in {routes, [routes EXCEPT ![t] = RouteFor(w)]}
  BY DEF AddRoute, SharedInv, TypeOK, PassType, PlanKept
<1>4. OneRulePerTable' /\ RulesAreOwn'
  BY <1>3 DEF SharedInv, KernelInv, OneRulePerTable, RulesAreOwn, ExpectedFwmask,
              NoMark
<1>5. NeverMixed'
  <2> SUFFICES ASSUME NEW u \in Tables, routes'[u] # None,
                      NEW k \in DOMAIN rules'[u]
               PROVE  FromOneSpec(u, rules'[u][k], routes'[u])
    BY DEF NeverMixed, FromOneSpec
  <2>1. CASE routes'[u] = routes[u]
    BY <2>1, <1>3 DEF SharedInv, KernelInv, NeverMixed
  <2>2. CASE routes'[u] # routes[u]
    <3>1. u = t /\ routes'[u] = RouteFor(w)
      BY <2>2, <1>1, <1>3 DEF SharedInv, TypeOK
    <3>2. rules'[u][k] = RuleFor(w)
      <4>1. rules'[u] \in {<<>>, <<RuleFor(w)>>}
        BY <3>1, <1>1, <1>3
      <4>2. rules'[u] = <<RuleFor(w)>>
        BY <4>1
      <4> QED BY <4>2
    <3> QED BY <3>1, <3>2, <1>1 DEF SharedInv, AskedFor
  <2> QED BY <2>1, <2>2
<1>6. AskedFor'
  BY <1>3, AskedForUnchanged DEF SharedInv, PlanKept
<1>7. SharedListed'
  <2>1. /\ \A u \in Tables : Len(pass.haveRules[u]) <= 1
        /\ \A u \in pass.todo : /\ rules[u] \in {pass.haveRules[u], <<>>}
                                 /\ routes[u] \in {None, pass.haveRoutes[u]}
        /\ pass.todo \subseteq Tables
    BY <1>1 DEF SharedInv, SharedListed, Working, TypeOK, PassType
  <2>2. \A u \in pass.todo : routes'[u] = routes[u]
    BY <1>1, <1>3, <2>1 DEF SharedInv, TypeOK
  <2> QED BY <1>3, <2>1, <2>2 DEF SharedListed, Working, PlanKept
<1>8. SharedWork'
  BY <1>3 DEF SharedWork
<1> QED BY <1>2, <1>4, <1>5, <1>6, <1>7, <1>8 DEF SharedInv, KernelInv

\* A pass keeps SharedInv by its own steps.
LEMMA SharedStep == ASSUME SharedInv, PassStep PROVE SharedInv'
<1>1. CASE Finish
  <2>1. TypeOK' /\ KernelInv' /\ pass' = IdlePass
    BY <1>1, FinishType, KernelSame DEF SharedInv, Finish
  <2> QED BY <2>1, SharedIdle
<1> QED BY <1>1, SharedResolve, SharedListRules, SharedListRoutes, SharedVisit,
           SharedDelRule, SharedDelRoute, SharedAddRule, SharedAddRoute
        DEF PassStep

-----------------------------------------------------------------------------
(* A pass to the empty list.                                               *)

\* It has nothing to add.
Deleting ==
    /\ pass.specs = <<>>
    /\ \A t \in Tables : pass.resolved[t] = None
    /\ pass.pc \notin {"addRule", "addRoute"}

\* Unless a request fails, what it has not emptied yet it still has to visit,
\* or has in hand.
Emptying ==
    /\ pass.pc = "listRoutes" => pass.haveRules = rules
    /\ pass.pc = "delete" => pass.table \notin pass.todo
    /\ pass.pc \in Working =>
          \A t \in Tables :
              \/ /\ t \in pass.todo /\ rules[t] = pass.haveRules[t]
                 /\ routes[t] = pass.haveRoutes[t]
              \/ /\ pass.pc = "delete" /\ t = pass.table
                 /\ rules[t] = pass.dels /\ routes[t] = pass.haveRoutes[t]
              \/ rules[t] = <<>> /\ routes[t] = None

AllEmpty == \A t \in Tables : rules[t] = <<>> /\ routes[t] = None

\* A pass step is an outside event at most once, and knows nothing after its
\* end.
LEMMA StepFrame ==
    ASSUME TypeOK, PassStep
    PROVE  /\ events' \in {events, events + 1} /\ UNCHANGED <<link, goal>>
           /\ pass'.pc = "idle" => pass' = IdlePass
           /\ pass.pc # "idle"
<1>1. events' \in {events, events + 1} /\ UNCHANGED <<link, goal>> /\ pass.pc # "idle"
  BY DEF PassStep, ResolveSpec, ListRules, ListRoutes, VisitTable, DelRule, DelRoute,
         AddRule, AddRoute, Finish, Fails, Event
<1> SUFFICES pass'.pc = "idle" => pass' = IdlePass
  BY <1>1
<1>2. CASE ResolveSpec
  BY <1>2 DEF ResolveSpec, TypeOK, PassType
<1>3. CASE ListRules \/ ListRoutes
  BY <1>3 DEF ListRules, ListRoutes, TypeOK, PassType
<1>4. CASE \E t \in Tables : VisitTable(t)
  BY <1>4 DEF VisitTable, TypeOK, PassType
<1>5. CASE DelRule
  BY <1>5 DEF DelRule, TypeOK, PassType
<1>6. CASE DelRoute
  <2>1. PICK f : pass' = [pass EXCEPT !.failed = f, !.pc = AfterDeletes(f)]
    BY <1>6 DEF DelRoute
  <2>2. AfterDeletes(f) \in {"addRule", "next"}
    BY DEF AfterDeletes
  <2> QED BY <2>1, <2>2 DEF TypeOK, PassType
<1>7. CASE AddRule \/ AddRoute
  BY <1>7 DEF AddRule, AddRoute, TypeOK, PassType
<1>8. CASE Finish
  BY <1>8 DEF Finish
<1> QED BY <1>2, <1>3, <1>4, <1>5, <1>6, <1>7, <1>8 DEF PassStep

LEMMA IdleDeletes == ASSUME pass' = IdlePass PROVE Deleting'
  BY DEF Deleting, IdlePass

LEMMA BeginDeletes == ASSUME Begin(<<>>) PROVE Deleting' /\ Emptying'
<1>1. pass' = [IdlePass EXCEPT !.pc = "resolve", !.specs = <<>>]
  BY DEF Begin
<1>2. /\ pass'.pc = "resolve" /\ pass'.specs = <<>>
      /\ \A t \in Tables : pass'.resolved[t] = None
  BY <1>1 DEF IdlePass
<1> QED BY <1>2 DEF Deleting, Emptying, Working

\* A step of such a pass takes away, if anything.
LEMMA DeletingStep ==
    ASSUME TypeOK, OneRulePerTable, Deleting, PassStep
    PROVE  TypeOK' /\ Shrinks /\ Deleting'
<1>1. CASE ListRules
  <2>1. TypeOK' /\ Shrinks
    BY <1>1, ListRulesType DEF ListRules, Shrinks
  <2>2. CASE pass' = IdlePass
    BY <2>1, <2>2, IdleDeletes
  <2>3. CASE pass' = [pass EXCEPT !.pc = "listRoutes", !.haveRules = rules]
    <3>1. /\ pass'.pc = "listRoutes" /\ pass'.specs = pass.specs
          /\ pass'.resolved = pass.resolved
      BY <2>3 DEF TypeOK, PassType
    <3> QED BY <2>1, <3>1 DEF Deleting
  <2> QED BY <1>1, <2>2, <2>3 DEF ListRules
<1>2. CASE ListRoutes
  <2>1. TypeOK' /\ Shrinks
    BY <1>2, ListRoutesType DEF ListRoutes, Shrinks
  <2>2. CASE pass' = IdlePass
    BY <2>1, <2>2, IdleDeletes
  <2>3. CASE pass' # IdlePass
    <3> DEFINE T == {t \in Tables : \/ pass.haveRules[t] # <<>>
                                    \/ routes[t] # None
                                    \/ pass.resolved[t] # None}
    <3>1. pass' = [pass EXCEPT !.pc = "next", !.haveRoutes = routes, !.todo = T]
      BY <1>2, <2>3 DEF ListRoutes
    <3> HIDE DEF T
    <3>2. /\ pass'.pc = "next" /\ pass'.specs = pass.specs
          /\ pass'.resolved = pass.resolved
      BY <3>1 DEF TypeOK, PassType
    <3> QED BY <2>1, <3>2 DEF Deleting
  <2> QED BY <2>2, <2>3
<1>3. ASSUME NEW t \in Tables, VisitTable(t) PROVE TypeOK' /\ Shrinks /\ Deleting'
  <2>1. TypeOK' /\ Shrinks
    BY <1>3, VisitTableType DEF VisitTable, Shrinks
  <2>2. /\ pass'.pc \in {"next", "delete"} /\ pass'.specs = pass.specs
        /\ pass'.resolved = pass.resolved
    BY <1>3 DEF VisitTable, TypeOK, PassType
  <2> QED BY <2>1, <2>2 DEF Deleting
<1>4. CASE DelRule
  <2>1. /\ TypeOK' /\ pass.table \in Tables /\ routes' = routes
        /\ rules' \in {rules, [rules EXCEPT ![pass.table] = <<>>]}
    BY <1>4, DelRuleType, DelRuleEmpties DEF DelRule, TypeOK
  <2>2. Shrinks
    BY <2>1 DEF Shrinks, TypeOK
  <2>3. /\ pass'.pc = "delete" /\ pass'.specs = pass.specs
        /\ pass'.resolved = pass.resolved
    BY <1>4 DEF DelRule, TypeOK, PassType
  <2> QED BY <2>1, <2>2, <2>3 DEF Deleting
<1>5. CASE DelRoute
  <2>1. TypeOK' /\ rules' = rules /\ pass.table \in Tables
        /\ routes' \in {routes, [routes EXCEPT ![pass.table] = None]}
    BY <1>5, DelRouteType DEF DelRoute, TypeOK
  <2>2. Shrinks
    BY <2>1 DEF Shrinks, TypeOK
  <2>3. PICK f : pass' = [pass EXCEPT !.failed = f, !.pc = AfterDeletes(f)]
    BY <1>5 DEF DelRoute
  <2>4. AfterDeletes(f) = "next"
    BY <2>1 DEF AfterDeletes, Deleting
  <2>5. /\ pass'.pc = "next" /\ pass'.specs = pass.specs
        /\ pass'.resolved = pass.resolved
    BY <2>3, <2>4 DEF TypeOK, PassType
  <2> QED BY <2>1, <2>2, <2>5 DEF Deleting
<1>6. CASE Finish
  BY <1>6, FinishType, IdleDeletes DEF Finish, Shrinks
<1>7. ~(ResolveSpec \/ AddRule \/ AddRoute)
  BY DEF Deleting, ResolveSpec, AddRule, AddRoute
<1> QED BY <1>1, <1>2, <1>3, <1>4, <1>5, <1>6, <1>7 DEF PassStep

\* The rule in hand is deleted, unless the request fails of itself.
LEMMA DelRuleHits ==
    ASSUME TypeOK, KernelInv, DelRule, events' = events,
           rules[pass.table] = pass.dels
    PROVE  rules' = [rules EXCEPT ![pass.table] = <<>>]
<1> DEFINE t == pass.table
           r == Head(pass.dels)
           fit == Fitting(t, r.src, r.fwmark)
<1>1. /\ t \in Tables /\ rules[t] \in Seq(CurrentRule) /\ rules[t] # <<>>
      /\ events \in Nat
  BY DEF DelRule, TypeOK
<1>2. 1 \in DOMAIN rules[t] /\ r = rules[t][1]
  BY <1>1
<1>3. r.fwmask = ExpectedFwmask(r.fwmark)
  BY <1>1, <1>2 DEF KernelInv, RulesAreOwn
<1>4. 1 \in fit
  <2> HIDE DEF r
  <2>1. Fits(r, r.src, r.fwmark)
    BY <1>3 DEF Fits, ExpectedFwmask
  <2> QED BY <1>2, <2>1 DEF Fitting
<1>5. ~Fails(fit = {})
  BY <1>1, <1>4 DEF Fails, Event
<1>6. PICK k \in fit : rules' = [rules EXCEPT ![t] = Without(@, k)]
  BY <1>5 DEF DelRule
<1>7. k \in DOMAIN rules[t] /\ Len(rules[t]) <= 1
  BY <1>1 DEF Fitting, KernelInv, OneRulePerTable
<1>8. /\ Without(rules[t], k) \in Seq(CurrentRule)
      /\ Len(Without(rules[t], k)) = Len(rules[t]) - 1
  BY <1>1, <1>7, WithoutFacts
<1>9. Without(rules[t], k) = <<>>
  BY <1>1, <1>7, <1>8
<1> QED BY <1>6, <1>9

\* If nothing fails, a pass to the empty list ends with an empty kernel.
LEMMA EmptyingStep ==
    ASSUME TypeOK, KernelInv, Deleting, Emptying, PassStep, events' = events
    PROVE  Emptying' /\ (pass'.pc = "idle" => AllEmpty')
<1>e. ~Event
  <2>1. events \in Nat
    BY DEF TypeOK
  <2> QED BY <2>1 DEF Event
<1>1. CASE ListRules
  <2>1. UNCHANGED <<rules, routes>>
        /\ pass' = [pass EXCEPT !.pc = "listRoutes", !.haveRules = rules]
    BY <1>1, <1>e DEF ListRules, Fails
  <2>2. pass'.pc = "listRoutes" /\ pass'.haveRules = rules
    BY <2>1 DEF TypeOK, PassType
  <2> QED BY <2>1, <2>2 DEF Emptying, Working
<1>2. CASE ListRoutes
  <2> DEFINE T == {t \in Tables : \/ pass.haveRules[t] # <<>>
                                  \/ routes[t] # None
                                  \/ pass.resolved[t] # None}
  <2>1. /\ UNCHANGED <<rules, routes>> /\ pass.haveRules = rules
        /\ pass' = [pass EXCEPT !.pc = "next", !.haveRoutes = routes, !.todo = T]
    BY <1>2, <1>e DEF ListRoutes, Fails, Emptying
  <2>2. \A t \in Tables : t \in T \/ (rules[t] = <<>> /\ routes[t] = None)
    BY <2>1
  <2> HIDE DEF T
  <2>3. /\ pass'.pc = "next" /\ pass'.haveRules = pass.haveRules
        /\ pass'.haveRoutes = routes /\ pass'.todo = T
    BY <2>1 DEF TypeOK, PassType
  <2> QED BY <2>1, <2>2, <2>3 DEF Emptying
<1>3. ASSUME NEW t \in Tables, VisitTable(t) PROVE Emptying' /\ pass'.pc # "idle"
  <2>1. /\ UNCHANGED <<rules, routes>> /\ pass.pc = "next" /\ t \in pass.todo
        /\ pass' = [pass EXCEPT !.pc = "delete", !.todo = @ \ {t}, !.table = t,
                                !.dels = pass.haveRules[t], !.failed = FALSE]
    BY <1>3 DEF VisitTable, Matches, Deleting
  <2>2. /\ pass'.pc = "delete" /\ pass'.haveRules = pass.haveRules
        /\ pass'.haveRoutes = pass.haveRoutes /\ pass'.todo = pass.todo \ {t}
        /\ pass'.table = t /\ pass'.dels = pass.haveRules[t]
    BY <2>1 DEF TypeOK, PassType
  <2>3. \A u \in Tables :
           \/ u \in pass.todo /\ rules[u] = pass.haveRules[u]
              /\ routes[u] = pass.haveRoutes[u]
           \/ rules[u] = <<>> /\ routes[u] = None
    BY <2>1 DEF Emptying, Working
  <2>4. ASSUME NEW u \in Tables
        PROVE  \/ /\ u \in pass'.todo /\ rules'[u] = pass'.haveRules[u]
                  /\ routes'[u] = pass'.haveRoutes[u]
               \/ /\ pass'.pc = "delete" /\ u = pass'.table
                  /\ rules'[u] = pass'.dels /\ routes'[u] = pass'.haveRoutes[u]
               \/ rules'[u] = <<>> /\ routes'[u] = None
    BY <2>1, <2>2, <2>3
  <2> QED BY <2>2, <2>4 DEF Emptying
<1>4. CASE DelRule
  <2> DEFINE t == pass.table
  <2>1. /\ t \in Tables /\ t \notin pass.todo /\ routes' = routes
        /\ pass.pc = "delete" /\ pass.dels # <<>>
        /\ pass.dels \in Seq(CurrentRule) /\ pass.todo \subseteq Tables
    BY <1>4 DEF DelRule, TypeOK, PassType, Emptying
  <2>2. /\ pass'.pc = "delete" /\ pass'.table = t /\ pass'.dels = Tail(pass.dels)
        /\ pass'.todo = pass.todo /\ pass'.haveRules = pass.haveRules
        /\ pass'.haveRoutes = pass.haveRoutes
    BY <1>4 DEF DelRule, TypeOK, PassType
  <2>3. \A u \in Tables :
           \/ /\ u \in pass.todo /\ rules[u] = pass.haveRules[u]
              /\ routes[u] = pass.haveRoutes[u]
           \/ u = t /\ rules[u] = pass.dels /\ routes[u] = pass.haveRoutes[u]
           \/ rules[u] = <<>> /\ routes[u] = None
    BY <2>1 DEF Emptying, Working
  <2>4. /\ rules'[t] \in {rules[t], <<>>} /\ \A u \in Tables \ {t} : rules'[u] = rules[u]
    BY <1>4, <2>1, DelRuleEmpties DEF KernelInv, TypeOK
  <2>5. CASE rules[t] = pass.dels
    <3>1. rules'[t] = <<>>
      BY <1>4, <2>1, <2>5, DelRuleHits DEF TypeOK
    <3>2. Len(pass.dels) <= 1
      BY <2>1, <2>5 DEF KernelInv, OneRulePerTable
    <3>3. Tail(pass.dels) = <<>>
      BY <2>1, <3>2
    <3>4. routes[t] \in {pass.haveRoutes[t], None}
      BY <2>1, <2>3
    <3> QED BY <2>1, <2>2, <2>3, <2>4, <3>1, <3>3, <3>4 DEF Emptying
  <2>6. CASE rules[t] = <<>> /\ routes[t] = None
    BY <2>1, <2>2, <2>3, <2>4, <2>6 DEF Emptying
  <2> QED BY <2>1, <2>3, <2>5, <2>6
<1>5. CASE DelRoute
  <2> DEFINE t == pass.table
  <2>1. /\ t \in Tables /\ t \notin pass.todo /\ rules' = rules
        /\ pass.pc = "delete" /\ pass.dels = <<>> /\ pass.todo \subseteq Tables
    BY <1>5 DEF DelRoute, TypeOK, PassType, Emptying
  <2>2. PICK f : pass' = [pass EXCEPT !.failed = f, !.pc = AfterDeletes(f)]
    BY <1>5 DEF DelRoute
  <2>3. AfterDeletes(f) = "next"
    BY <2>1 DEF AfterDeletes, Deleting
  <2>4. /\ pass'.pc = "next" /\ pass'.todo = pass.todo
        /\ pass'.haveRules = pass.haveRules /\ pass'.haveRoutes = pass.haveRoutes
    BY <2>2, <2>3 DEF TypeOK, PassType
  <2>5. \A u \in Tables :
           \/ /\ u \in pass.todo /\ rules[u] = pass.haveRules[u]
              /\ routes[u] = pass.haveRoutes[u]
           \/ u = t /\ rules[u] = <<>> /\ routes[u] = pass.haveRoutes[u]
           \/ rules[u] = <<>> /\ routes[u] = None
    BY <2>1 DEF Emptying, Working
  <2>6. /\ routes' \in {routes, [routes EXCEPT ![t] = None]}
        /\ pass.haveRoutes[t] = None \/ routes' = [routes EXCEPT ![t] = None]
           \/ routes[t] = None
    BY <1>5, <1>e DEF DelRoute, Fails
  <2>7. routes'[t] = None /\ rules'[t] = <<>>
    BY <2>1, <2>5, <2>6 DEF TypeOK
  <2>8. \A u \in Tables \ {t} : routes'[u] = routes[u]
    BY <2>1, <2>6 DEF TypeOK
  <2> QED BY <2>1, <2>4, <2>5, <2>7, <2>8 DEF Emptying
<1>6. CASE Finish
  <2>1. AllEmpty /\ UNCHANGED <<rules, routes>> /\ pass' = IdlePass
    BY <1>6 DEF Finish, Emptying, Working, AllEmpty
  <2>2. pass'.pc = "idle"
    BY <2>1 DEF IdlePass
  <2> QED BY <2>1, <2>2 DEF Emptying, Working, AllEmpty
<1>7. ~(ResolveSpec \/ AddRule \/ AddRoute)
  BY DEF Deleting, ResolveSpec, AddRule, AddRoute
<1> QED BY <1>1, <1>2, <1>3, <1>4, <1>5, <1>6, <1>7 DEF PassStep

-----------------------------------------------------------------------------
(* A pass over a kernel that was not left clean.  A table may then have    *)
(* many rules, of anybody's making.                                        *)

\* The kernel gives a rule with a mark a mask.
Masked ==
    \A t \in Tables : \A k \in DOMAIN rules[t] :
        rules[t][k].fwmark # NoMark => rules[t][k].fwmask # "none"

Typed ==
    /\ TypeOK /\ Masked
    /\ pass.pc \in {"addRule", "addRoute"} => pass.resolved[pass.table] # None

\* A rule that is deleted, or added, leaves the others as they are.
LEMMA MaskedDelRule == ASSUME TypeOK, Masked, DelRule PROVE Masked'
<1> DEFINE t == pass.table
           r == Head(pass.dels)
<1>1. t \in Tables /\ rules[t] \in Seq(CurrentRule)
  BY DEF DelRule, TypeOK
<1>2. CASE rules' = rules
  BY <1>2 DEF Masked, NoMark
<1>3. CASE rules' # rules
  <2>1. PICK k \in Fitting(t, r.src, r.fwmark) :
           rules' = [rules EXCEPT ![t] = Without(@, k)]
    BY <1>3 DEF DelRule
  <2>2. k \in DOMAIN rules[t]
    BY <2>1 DEF Fitting
  <2>3. \A j \in DOMAIN Without(rules[t], k) :
            \E m \in DOMAIN rules[t] : Without(rules[t], k)[j] = rules[t][m]
    BY <1>1, <2>2, WithoutFacts
  <2>4. ASSUME NEW u \in Tables, NEW j \in DOMAIN rules'[u]
        PROVE  \E m \in DOMAIN rules[u] : rules'[u][j] = rules[u][m]
    <3>1. CASE u = t
      <4>1. rules'[u] = Without(rules[t], k)
        BY <1>1, <2>1, <3>1 DEF TypeOK
      <4> QED BY <2>3, <2>4, <3>1, <4>1
    <3>2. CASE u # t
      <4>1. rules'[u] = rules[u]
        BY <1>1, <2>1, <3>2 DEF TypeOK
      <4> QED BY <2>4, <4>1
    <3> QED BY <3>1, <3>2
  <2> QED BY <2>4 DEF Masked, NoMark
<1> QED BY <1>2, <1>3

LEMMA MaskedAddRule ==
    ASSUME TypeOK, Masked, AddRule, pass.resolved[pass.table] # None PROVE Masked'
<1> DEFINE t == pass.table
           r == RuleFor(pass.resolved[t])
<1>1. /\ t \in Tables /\ rules[t] \in Seq(CurrentRule)
      /\ rules' \in {rules, [rules EXCEPT ![t] = Append(@, r)]}
  BY DEF AddRule, TypeOK
<1>2. r.fwmark # NoMark => r.fwmask # "none"
  BY DEF RuleFor, ExpectedFwmask
<1> HIDE DEF r
<1> SUFFICES ASSUME NEW u \in Tables, NEW j \in DOMAIN rules'[u]
             PROVE  rules'[u][j] = r \/ \E m \in DOMAIN rules[u] : rules'[u][j] = rules[u][m]
  BY <1>2 DEF Masked, NoMark
<1>3. CASE rules'[u] = rules[u]
  BY <1>3
<1>4. CASE rules'[u] # rules[u]
  <2>1. u = t /\ rules'[u] = Append(rules[t], r)
    BY <1>1, <1>4 DEF TypeOK
  <2>2. DOMAIN Append(rules[t], r) = 1..(Len(rules[t]) + 1)
        /\ DOMAIN rules[t] = 1..Len(rules[t])
    BY <1>1
  <2>3. CASE j = Len(rules[t]) + 1
    BY <1>1, <2>1, <2>3
  <2>4. CASE j \in 1..Len(rules[t])
    <3>1. Append(rules[t], r)[j] = rules[t][j]
      BY <1>1, <2>4
    <3> QED BY <2>1, <2>2, <2>4, <3>1
  <2> QED BY <1>1, <2>1, <2>2, <2>3, <2>4
<1> QED BY <1>3, <1>4

\* The types of a pass, whoever else has written the kernel.
LEMMA TypedStep == ASSUME Typed, PassStep PROVE Typed'
<1>0. TypeOK /\ Masked
  BY DEF Typed
<1>1. CASE DelRule
  <2>1. TypeOK' /\ Masked' /\ pass'.pc = "delete"
    BY <1>0, <1>1, DelRuleType, MaskedDelRule DEF DelRule, TypeOK, PassType
  <2> QED BY <2>1 DEF Typed
<1>2. CASE AddRule
  <2>1. pass.resolved[pass.table] # None
    BY <1>2 DEF Typed, AddRule
  <2>2. TypeOK' /\ Masked'
    BY <1>0, <1>2, <2>1, AddRuleType, MaskedAddRule
  <2>3. pass'.resolved = pass.resolved /\ pass'.table = pass.table
    BY <1>0, <1>2 DEF AddRule, TypeOK, PassType
  <2> QED BY <2>1, <2>2, <2>3 DEF Typed
<1>3. CASE ~DelRule /\ ~AddRule
  <2>1. rules' = rules
    BY <1>3 DEF PassStep, ResolveSpec, ListRules, ListRoutes, VisitTable, DelRoute,
                AddRoute, Finish
  <2>2. Masked'
    BY <1>0, <2>1 DEF Masked, NoMark
  <2>3. CASE ResolveSpec
    BY <1>0, <2>2, <2>3, ResolveSpecType DEF Typed, ResolveSpec, TypeOK, PassType
  <2>4. CASE ListRules \/ ListRoutes \/ Finish
    <3>1. TypeOK'
      BY <1>0, <2>4, ListRulesType, ListRoutesType, FinishType
    <3>2. pass'.pc \notin {"addRule", "addRoute"}
      BY <1>0, <2>4, IdlePassType DEF ListRules, ListRoutes, Finish, TypeOK, PassType
    <3> QED BY <2>2, <3>1, <3>2 DEF Typed
  <2>5. CASE \E t \in Tables : VisitTable(t)
    <3>1. TypeOK'
      BY <1>0, <2>5, VisitTableType
    <3>2. pass'.pc \notin {"addRule", "addRoute"}
      BY <1>0, <2>5 DEF VisitTable, TypeOK, PassType
    <3> QED BY <2>2, <3>1, <3>2 DEF Typed
  <2>6. CASE DelRoute
    <3>1. TypeOK'
      BY <1>0, <2>6, DelRouteType
    <3>2. PICK f : pass' = [pass EXCEPT !.failed = f, !.pc = AfterDeletes(f)]
      BY <2>6 DEF DelRoute
    <3>3. AfterDeletes(f) \in {"addRule", "addRoute"} =>
             pass.resolved[pass.table] # None
      BY DEF AfterDeletes
    <3>4. /\ pass'.resolved = pass.resolved /\ pass'.table = pass.table
          /\ pass'.pc = AfterDeletes(f)
      BY <1>0, <3>2 DEF TypeOK, PassType
    <3> QED BY <2>2, <3>1, <3>3, <3>4 DEF Typed
  <2>7. CASE AddRoute
    <3>1. TypeOK' /\ pass'.pc = "next"
      BY <1>0, <2>7, AddRouteType DEF Typed, AddRoute, TypeOK, PassType
    <3> QED BY <2>2, <3>1 DEF Typed
  <2> QED BY <1>3, <2>3, <2>4, <2>5, <2>6, <2>7 DEF PassStep
<1> QED BY <1>1, <1>2, <1>3

\* No rule has a mask that no delete fits.
Movable == \A t \in Tables : ~Immovable(t)

\* A table holds the rule and the route of a spec, or a part of them; it is
\* clear when it is empty or holds no more than that for a spec of G.
Holds(t, s) ==
    /\ TableIdFor(s.src) = t
    /\ \A k \in DOMAIN rules[t] : rules[t][k] = RuleFor(s)
    /\ routes[t] # None => /\ routes[t].gateway = s.gateway
                           /\ routes[t].oif[1] = s.iface

Cleared(t, G) ==
    \/ rules[t] = <<>> /\ routes[t] = None
    \/ \E s \in G : Holds(t, s)

AllCleared(G) == \A t \in Tables : Cleared(t, G)

\* The spec w was resolved from.
Resolves(w, s, t) ==
    /\ TableIdFor(s.src) = t
    /\ w.src = s.src /\ w.fwmark = s.fwmark
    /\ w.gateway = s.gateway /\ w.oif[1] = s.iface

\* Everything the pass works from is of G.
AskedOf(G) ==
    /\ \A k \in DOMAIN pass.specs : pass.specs[k] \in G
    /\ \A i \in Ifaces : pass.indices[i] # None => pass.indices[i][1] = i
    /\ \A t \in Tables : pass.resolved[t] # None =>
          \E s \in G : Resolves(pass.resolved[t], s, t)

\* Unless a request fails or somebody else writes, a table that is not clear
\* the pass still has to visit, or has in hand.
Clearing(G) ==
    /\ AskedOf(G)
    /\ pass.pc = "listRoutes" => pass.haveRules = rules
    /\ pass.pc \in Working =>
          /\ \A t \in pass.todo : /\ rules[t] = pass.haveRules[t]
                                  /\ routes[t] \in {None, pass.haveRoutes[t]}
          /\ \A t \in Tables \ pass.todo :
                Cleared(t, G) \/ (pass.pc = "delete" /\ t = pass.table)
    /\ pass.pc \in {"delete", "addRule", "addRoute"} => pass.table \notin pass.todo
    /\ pass.pc = "delete" =>
          /\ rules[pass.table] = pass.dels
          /\ routes[pass.table] \in {None, pass.haveRoutes[pass.table]}
    /\ pass.pc \in {"addRule", "addRoute"} => routes[pass.table] = None
    /\ pass.pc = "addRule" => rules[pass.table] = <<>>
    /\ pass.pc = "addRoute" =>
          rules[pass.table] = <<RuleFor(pass.resolved[pass.table])>>

LEMMA ClearingIdle ==
    ASSUME NEW G, pass' = IdlePass PROVE Clearing(G)'
<1>1. /\ pass'.pc = "idle" /\ pass'.specs = <<>>
      /\ \A i \in Ifaces : pass'.indices[i] = None
      /\ \A t \in Tables : pass'.resolved[t] = None
  BY DEF IdlePass
<1>2. AskedOf(G)'
  BY <1>1 DEF AskedOf
<1> QED BY <1>1, <1>2 DEF Clearing, Working

LEMMA ClearingBegin ==
    ASSUME NEW G, NEW d, \A k \in DOMAIN d : d[k] \in G,
           pass' = [IdlePass EXCEPT !.pc = "resolve", !.specs = d]
    PROVE  Clearing(G)'
<1>1. /\ pass'.pc = "resolve" /\ pass'.specs = d
      /\ \A i \in Ifaces : pass'.indices[i] = None
      /\ \A t \in Tables : pass'.resolved[t] = None
  BY DEF IdlePass
<1>2. AskedOf(G)'
  BY <1>1 DEF AskedOf
<1> QED BY <1>1, <1>2 DEF Clearing, Working

\* Less in a table is as clear.
LEMMA ClearedLess ==
    ASSUME NEW G, NEW t, Cleared(t, G), routes'[t] \in {routes[t], None},
           rules[t] = <<>> => rules'[t] = <<>>,
           \A k \in DOMAIN rules'[t] : \E m \in DOMAIN rules[t] : rules'[t][k] = rules[t][m]
    PROVE  Cleared(t, G)'
<1>1. CASE rules[t] = <<>> /\ routes[t] = None
  BY <1>1 DEF Cleared
<1>2. CASE \E s \in G : Holds(t, s)
  <2>1. PICK s \in G : Holds(t, s)
    BY <1>2
  <2>2. Holds(t, s)'
    BY <2>1 DEF Holds, RuleFor, ExpectedFwmask, TableIdFor
  <2> QED BY <2>2 DEF Cleared
<1> QED BY <1>1, <1>2 DEF Cleared

\* A table that has the rule, or the rule and the route, of a resolved spec.
LEMMA ClearedResolved ==
    ASSUME NEW G, AskedOf(G), TypeOK, NEW t \in Tables,
           NEW w, w = pass.resolved[t], w # None
    PROVE  /\ (rules[t] = <<RuleFor(w)>> /\ routes[t] \in {None, RouteFor(w)})
                 => Cleared(t, G)
           /\ (rules'[t] = <<RuleFor(w)>> /\ routes'[t] \in {None, RouteFor(w)})
                 => Cleared(t, G)'
<1>1. PICK s \in G : Resolves(w, s, t)
  BY DEF AskedOf
<1>2. RuleFor(w) = RuleFor(s) /\ TableIdFor(s.src) = t
      /\ RouteFor(w).gateway = s.gateway /\ RouteFor(w).oif[1] = s.iface
  BY <1>1 DEF Resolves, RuleFor, RouteFor
<1>3. ASSUME rules[t] = <<RuleFor(w)>>, routes[t] \in {None, RouteFor(w)}
      PROVE  Cleared(t, G)
  <2>1. Holds(t, s)
    BY <1>2, <1>3 DEF Holds
  <2> QED BY <2>1 DEF Cleared
<1>4. ASSUME rules'[t] = <<RuleFor(w)>>, routes'[t] \in {None, RouteFor(w)}
      PROVE  Cleared(t, G)'
  <2>1. Holds(t, s)'
    BY <1>2, <1>4 DEF Holds, RuleFor, ExpectedFwmask, TableIdFor
  <2> QED BY <2>1 DEF Cleared
<1> QED BY <1>3, <1>4

LEMMA ResolveSpecOf ==
    ASSUME NEW G, TypeOK, AskedOf(G), ResolveSpec PROVE AskedOf(G)'
<1> DEFINE s == Head(pass.specs)
           known == pass.indices[s.iface]
           idx == IF known # None THEN known ELSE IndexOf(s.iface)
           w == [src |-> s.src, gateway |-> s.gateway, oif |-> idx,
                 fwmark |-> s.fwmark]
           ts == TableIdFor(s.src)
<1>1. /\ s \in G /\ s \in RouteSpec
      /\ pass.specs \in Seq(RouteSpec) /\ pass.specs # <<>>
  BY DEF TypeOK, PassType, AskedOf, ResolveSpec
<1>2. \A k \in DOMAIN Tail(pass.specs) : Tail(pass.specs)[k] \in G
  <2>1. \A k \in DOMAIN pass.specs : pass.specs[k] \in G
    BY DEF AskedOf
  <2> QED BY <1>1, <2>1
<1>3. idx[1] = s.iface
  BY <1>1 DEF AskedOf, RouteSpec, IndexOf
<1>4. Resolves(w, s, ts)
  BY <1>3 DEF Resolves
<1>5. CASE pass' = [pass EXCEPT !.specs = Tail(@),
                                !.indices[s.iface] = idx,
                                !.resolved[ts] = w]
  <2> HIDE DEF s, idx, w, ts
  <2>1. /\ pass'.specs = Tail(pass.specs)
        /\ pass'.indices = [pass.indices EXCEPT ![s.iface] = idx]
        /\ pass'.resolved = [pass.resolved EXCEPT ![ts] = w]
    BY <1>5 DEF TypeOK, PassType
  <2>2. \A i \in Ifaces : pass'.indices[i] # None => pass'.indices[i][1] = i
    BY <2>1, <1>3 DEF TypeOK, PassType, AskedOf
  <2>3. ASSUME NEW t \in Tables, pass'.resolved[t] # None
        PROVE  \E q \in G : Resolves(pass'.resolved[t], q, t)
    <3>1. CASE t = ts
      <4>1. pass'.resolved[t] = w
        BY <2>1, <3>1, <2>3 DEF TypeOK, PassType
      <4> QED BY <4>1, <3>1, <1>1, <1>4
    <3>2. CASE t # ts
      <4>1. pass'.resolved[t] = pass.resolved[t]
        BY <2>1, <3>2, <2>3 DEF TypeOK, PassType
      <4> QED BY <4>1, <2>3 DEF AskedOf
    <3> QED BY <3>1, <3>2
  <2> QED BY <2>1, <2>2, <2>3, <1>2 DEF AskedOf, Resolves
<1>6. CASE pass' = [pass EXCEPT !.specs = Tail(@)]
  <2>1. /\ pass'.specs = Tail(pass.specs)
        /\ pass'.indices = pass.indices
        /\ pass'.resolved = pass.resolved
    BY <1>6 DEF TypeOK, PassType
  <2> QED BY <2>1, <1>2 DEF AskedOf, Resolves
<1> QED BY <1>5, <1>6 DEF ResolveSpec

LEMMA AskedOfUnchanged ==
    ASSUME NEW G, AskedOf(G), pass'.specs = pass.specs,
           pass'.indices = pass.indices, pass'.resolved = pass.resolved
    PROVE  AskedOf(G)'
  BY DEF AskedOf, Resolves

\* Of the rules a table holds, a delete of the first takes the first, unless
\* the request fails of itself.
LEMMA DelRulePops ==
    ASSUME TypeOK, Masked, Movable, DelRule, events' = events,
           rules[pass.table] = pass.dels
    PROVE  rules' = [rules EXCEPT ![pass.table] = Tail(pass.dels)]
<1> DEFINE t == pass.table
           r == Head(pass.dels)
           fit == Fitting(t, r.src, r.fwmark)
<1>1. /\ t \in Tables /\ rules[t] \in Seq(CurrentRule) /\ rules[t] # <<>>
      /\ events \in Nat
  BY DEF DelRule, TypeOK
<1>2. 1 \in DOMAIN rules[t] /\ r = rules[t][1] /\ r \in CurrentRule
  BY <1>1
<1>3. /\ r.fwmask \in Masks /\ r.fwmask # "narrow"
      /\ r.fwmark # NoMark => r.fwmask # "none"
  BY <1>1, <1>2 DEF Masked, Movable, Immovable, CurrentRule
<1>4. 1 \in fit
  <2> HIDE DEF r
  <2>1. Fits(r, r.src, r.fwmark)
    BY <1>3 DEF Fits, Masks
  <2> QED BY <1>2, <2>1 DEF Fitting
<1>5. ~Fails(fit = {})
  BY <1>1, <1>4 DEF Fails, Event
<1>6. PICK k \in fit : /\ \A j \in fit : k <= j
                       /\ rules' = [rules EXCEPT ![t] = Without(@, k)]
  BY <1>5 DEF DelRule
<1>7. k \in DOMAIN rules[t] /\ k <= 1
  BY <1>4, <1>6 DEF Fitting
<1>8. k = 1
  BY <1>1, <1>7
<1>9. Without(rules[t], 1) = Tail(rules[t])
  BY <1>1 DEF Without
<1> QED BY <1>6, <1>8, <1>9

\* A pass keeps the rules deletable: those it adds are.
LEMMA MovableStep == ASSUME Typed, Movable, PassStep PROVE Movable'
<1>0. TypeOK
  BY DEF Typed
<1>1. CASE rules' = rules
  BY <1>1 DEF Movable, Immovable
<1>2. CASE DelRule /\ rules' # rules
  <2> DEFINE t == pass.table
             r == Head(pass.dels)
  <2>1. PICK k \in Fitting(t, r.src, r.fwmark) :
           rules' = [rules EXCEPT ![t] = Without(@, k)]
    BY <1>2 DEF DelRule
  <2>2. k \in DOMAIN rules[t] /\ t \in Tables /\ rules[t] \in Seq(CurrentRule)
    BY <1>0, <1>2, <2>1 DEF Fitting, TypeOK, DelRule
  <2>3. \A j \in DOMAIN Without(rules[t], k) :
            \E m \in DOMAIN rules[t] : Without(rules[t], k)[j] = rules[t][m]
    BY <2>2, WithoutFacts
  <2>4. /\ rules'[t] = Without(rules[t], k)
        /\ \A u \in Tables \ {t} : rules'[u] = rules[u]
    BY <1>0, <2>1, <2>2 DEF TypeOK
  <2>5. ASSUME NEW u \in Tables, NEW j \in DOMAIN rules'[u]
        PROVE  \E m \in DOMAIN rules[u] : rules'[u][j] = rules[u][m]
    <3>1. CASE u = t
      BY <2>3, <2>4, <2>5, <3>1
    <3>2. CASE u # t
      BY <2>4, <2>5, <3>2
    <3> QED BY <3>1, <3>2
  <2> QED BY <2>5 DEF Movable, Immovable
<1>3. CASE AddRule /\ rules' # rules
  <2> DEFINE t == pass.table
             r == RuleFor(pass.resolved[t])
  <2>1. /\ t \in Tables /\ rules[t] \in Seq(CurrentRule)
        /\ rules' = [rules EXCEPT ![t] = Append(@, r)]
    BY <1>0, <1>3 DEF AddRule, TypeOK
  <2>2. r.fwmask # "narrow"
    BY DEF RuleFor, ExpectedFwmask
  <2> HIDE DEF r
  <2>3. /\ rules'[t] = Append(rules[t], r)
        /\ \A u \in Tables \ {t} : rules'[u] = rules[u]
    BY <1>0, <2>1 DEF TypeOK
  <2>4. \A j \in DOMAIN Append(rules[t], r) :
           \/ Append(rules[t], r)[j] = r
           \/ j \in DOMAIN rules[t] /\ Append(rules[t], r)[j] = rules[t][j]
    BY <2>1
  <2> QED BY <2>2, <2>3, <2>4 DEF Movable, Immovable
<1> QED BY <1>1, <1>2, <1>3
        DEF PassStep, ResolveSpec, ListRules, ListRoutes, VisitTable, DelRoute,
            AddRoute, Finish

\* A step in which no request fails keeps a pass on its way, the step that
\* ends it leaves every table clear, and no step puts a clear kernel off.
ClearsOn(G) ==
    /\ Clearing(G)'
    /\ pass'.pc = "idle" => AllCleared(G)'
    /\ AllCleared(G) => AllCleared(G)'

\* The steps that write nothing.
LEMMA ClearReads ==
    ASSUME NEW G, Typed, Clearing(G), events' = events,
           ResolveSpec \/ ListRules \/ ListRoutes \/ Finish
    PROVE  ClearsOn(G)
<1>0. TypeOK /\ AskedOf(G) /\ UNCHANGED <<rules, routes>>
  BY DEF Typed, Clearing, ResolveSpec, ListRules, ListRoutes, Finish
<1>e. ~Event
  <2>1. events \in Nat
    BY <1>0 DEF TypeOK
  <2> QED BY <2>1 DEF Event
<1>s. \A t : Cleared(t, G) => Cleared(t, G)'
  BY <1>0 DEF Cleared, Holds
<1>a. AllCleared(G) => AllCleared(G)'
  BY <1>s DEF AllCleared
<1>1. CASE ResolveSpec
  <2>1. pass'.pc = "resolve"
    BY <1>0, <1>1 DEF ResolveSpec, TypeOK, PassType
  <2>2. AskedOf(G)'
    BY <1>0, <1>1, ResolveSpecOf
  <2> QED BY <1>a, <2>1, <2>2 DEF ClearsOn, Clearing, Working
<1>2. CASE ListRules
  <2>1. pass' = [pass EXCEPT !.pc = "listRoutes", !.haveRules = rules]
    BY <1>2, <1>e DEF ListRules, Fails
  <2>2. /\ pass'.pc = "listRoutes" /\ pass'.haveRules = rules
        /\ pass'.specs = pass.specs /\ pass'.indices = pass.indices
        /\ pass'.resolved = pass.resolved
    BY <1>0, <2>1 DEF TypeOK, PassType
  <2>3. AskedOf(G)'
    BY <1>0, <2>2, AskedOfUnchanged
  <2> QED BY <1>0, <1>a, <2>2, <2>3 DEF ClearsOn, Clearing, Working
<1>3. CASE ListRoutes
  <2> DEFINE T == {t \in Tables : \/ pass.haveRules[t] # <<>>
                                  \/ routes[t] # None
                                  \/ pass.resolved[t] # None}
  <2>1. /\ pass.haveRules = rules
        /\ pass' = [pass EXCEPT !.pc = "next", !.haveRoutes = routes, !.todo = T]
    BY <1>3, <1>e DEF ListRoutes, Fails, Clearing
  <2>2. \A t \in Tables : t \in T \/ (rules[t] = <<>> /\ routes[t] = None)
    BY <2>1
  <2> HIDE DEF T
  <2>3. /\ pass'.pc = "next" /\ pass'.haveRules = pass.haveRules
        /\ pass'.haveRoutes = routes /\ pass'.todo = T
        /\ pass'.specs = pass.specs /\ pass'.indices = pass.indices
        /\ pass'.resolved = pass.resolved
    BY <1>0, <2>1 DEF TypeOK, PassType
  <2>4. AskedOf(G)'
    BY <1>0, <2>3, AskedOfUnchanged
  <2>5. \A t \in Tables \ T : Cleared(t, G)'
    BY <1>0, <2>2 DEF Cleared
  <2> QED BY <1>0, <1>a, <2>1, <2>3, <2>4, <2>5 DEF ClearsOn, Clearing
<1>4. CASE Finish
  <2>1. AllCleared(G) /\ pass' = IdlePass
    BY <1>4 DEF Finish, Clearing, Working, AllCleared
  <2>2. Clearing(G)'
    BY <2>1, ClearingIdle
  <2> QED BY <1>a, <2>1, <2>2 DEF ClearsOn
<1> QED BY <1>1, <1>2, <1>3, <1>4

LEMMA ClearVisit ==
    ASSUME NEW G, Typed, Clearing(G), NEW t \in Tables, VisitTable(t)
    PROVE  ClearsOn(G)
<1>0. /\ TypeOK /\ AskedOf(G) /\ UNCHANGED <<rules, routes>>
      /\ pass.pc = "next" /\ t \in pass.todo
      /\ \A u \in pass.todo : /\ rules[u] = pass.haveRules[u]
                              /\ routes[u] \in {None, pass.haveRoutes[u]}
      /\ \A u \in Tables \ pass.todo : Cleared(u, G)
  BY DEF Typed, Clearing, VisitTable, Working
<1>s. \A u : Cleared(u, G) => Cleared(u, G)'
  BY <1>0 DEF Cleared, Holds
<1>a. AllCleared(G) => AllCleared(G)'
  BY <1>s DEF AllCleared
<1>1. CASE Matches(pass.resolved[t], pass.haveRules[t], pass.haveRoutes[t])
  <2>1. /\ pass'.pc = "next" /\ pass'.haveRules = pass.haveRules
        /\ pass'.haveRoutes = pass.haveRoutes /\ pass'.todo = pass.todo \ {t}
        /\ pass'.specs = pass.specs /\ pass'.indices = pass.indices
        /\ pass'.resolved = pass.resolved
    BY <1>0, <1>1 DEF VisitTable, TypeOK, PassType
  <2>2. AskedOf(G)'
    BY <1>0, <2>1, AskedOfUnchanged
  <2>3. Cleared(t, G)
    BY <1>0, <1>1, ClearedResolved DEF Matches
  <2>4. \A u \in Tables \ pass'.todo : Cleared(u, G)'
    BY <1>0, <1>s, <2>1, <2>3
  <2> QED BY <1>0, <1>a, <2>1, <2>2, <2>4 DEF ClearsOn, Clearing
<1>2. CASE ~Matches(pass.resolved[t], pass.haveRules[t], pass.haveRoutes[t])
  <2>1. /\ pass'.pc = "delete" /\ pass'.haveRules = pass.haveRules
        /\ pass'.haveRoutes = pass.haveRoutes /\ pass'.todo = pass.todo \ {t}
        /\ pass'.specs = pass.specs /\ pass'.indices = pass.indices
        /\ pass'.resolved = pass.resolved
        /\ pass'.table = t /\ pass'.dels = pass.haveRules[t]
    BY <1>0, <1>2 DEF VisitTable, TypeOK, PassType
  <2>2. AskedOf(G)'
    BY <1>0, <2>1, AskedOfUnchanged
  <2>3. \A u \in Tables \ pass'.todo : Cleared(u, G)' \/ u = pass'.table
    BY <1>0, <1>s, <2>1
  <2> QED BY <1>0, <1>a, <2>1, <2>2, <2>3 DEF ClearsOn, Clearing
<1> QED BY <1>1, <1>2

\* A step on the table in hand: the other tables are as they were.
LEMMA ClearWrite ==
    ASSUME NEW G, Typed, Clearing(G), NEW t \in Tables, t = pass.table,
           pass.pc \in {"delete", "addRule", "addRoute"},
           pass'.pc \in {"delete", "addRule", "addRoute", "next"},
           pass'.table = t, pass'.todo = pass.todo,
           pass'.specs = pass.specs, pass'.indices = pass.indices,
           pass'.resolved = pass.resolved, pass'.haveRules = pass.haveRules,
           pass'.haveRoutes = pass.haveRoutes,
           \A u \in Tables \ {t} : rules'[u] = rules[u] /\ routes'[u] = routes[u],
           pass'.pc = "delete" =>
              /\ rules'[t] = pass'.dels /\ routes'[t] \in {None, pass.haveRoutes[t]},
           pass'.pc # "delete" => Cleared(t, G)',
           pass'.pc \in {"addRule", "addRoute"} => routes'[t] = None,
           pass'.pc = "addRule" => rules'[t] = <<>>,
           pass'.pc = "addRoute" => rules'[t] = <<RuleFor(pass.resolved[t])>>,
           Cleared(t, G) => Cleared(t, G)'
    PROVE  ClearsOn(G)
<1>0. /\ AskedOf(G) /\ t \notin pass.todo /\ pass.todo \subseteq Tables
      /\ \A u \in pass.todo : /\ rules[u] = pass.haveRules[u]
                              /\ routes[u] \in {None, pass.haveRoutes[u]}
      /\ \A u \in Tables \ pass.todo : Cleared(u, G) \/ u = t
  BY DEF Typed, TypeOK, PassType, Clearing, Working
<1>1. AskedOf(G)'
  BY <1>0, AskedOfUnchanged
<1>2. ASSUME NEW u \in Tables \ {t}, Cleared(u, G) PROVE Cleared(u, G)'
  BY <1>2, ClearedLess
<1>3. AllCleared(G) => AllCleared(G)'
  BY <1>2 DEF AllCleared
<1>4. \A u \in pass'.todo : /\ rules'[u] = pass'.haveRules[u]
                            /\ routes'[u] \in {None, pass'.haveRoutes[u]}
  BY <1>0
<1>5. \A u \in Tables \ pass'.todo :
          Cleared(u, G)' \/ (pass'.pc = "delete" /\ u = pass'.table)
  BY <1>0, <1>2
<1>6. pass'.table \notin pass'.todo
  BY <1>0
<1>7. RuleFor(pass.resolved[t]) = RuleFor(pass'.resolved[pass'.table])
  OBVIOUS
<1>8. Clearing(G)'
  BY <1>1, <1>4, <1>5, <1>6, <1>7 DEF Clearing, RuleFor, ExpectedFwmask
<1> QED BY <1>3, <1>8 DEF ClearsOn

LEMMA ClearDelRule ==
    ASSUME NEW G, Typed, Movable, Clearing(G), DelRule, events' = events
    PROVE  ClearsOn(G)
<1>p. PICK t \in Tables : t = pass.table
  BY DEF Typed, TypeOK, DelRule
<1>0. /\ TypeOK /\ Masked /\ t \in Tables /\ routes' = routes
      /\ pass.pc = "delete" /\ pass.dels # <<>> /\ pass.dels \in Seq(CurrentRule)
      /\ rules[t] = pass.dels /\ routes[t] \in {None, pass.haveRoutes[t]}
      /\ rules \in [Tables -> Seq(CurrentRule)]
  BY <1>p DEF Typed, TypeOK, PassType, Clearing, DelRule
<1>1. rules' = [rules EXCEPT ![t] = Tail(pass.dels)]
  BY <1>0, <1>p, DelRulePops
<1>2. rules'[t] = Tail(rules[t]) /\ \A u \in Tables \ {t} : rules'[u] = rules[u]
  BY <1>0, <1>1
<1>3. /\ pass'.pc = "delete" /\ pass'.table = t /\ pass'.dels = Tail(pass.dels)
      /\ pass'.todo = pass.todo /\ pass'.haveRules = pass.haveRules
      /\ pass'.haveRoutes = pass.haveRoutes
      /\ pass'.specs = pass.specs /\ pass'.indices = pass.indices
      /\ pass'.resolved = pass.resolved
  BY <1>0, <1>p DEF DelRule, TypeOK, PassType
<1>4. \A k \in DOMAIN rules'[t] : \E m \in DOMAIN rules[t] : rules'[t][k] = rules[t][m]
  <2>1. \A k \in DOMAIN Tail(rules[t]) :
           k + 1 \in DOMAIN rules[t] /\ Tail(rules[t])[k] = rules[t][k + 1]
    BY <1>0
  <2> QED BY <1>2, <2>1
<1>5. Cleared(t, G) => Cleared(t, G)'
  BY <1>0, <1>4, ClearedLess
<1> QED BY <1>0, <1>2, <1>3, <1>5, <1>p, ClearWrite

LEMMA ClearDelRoute ==
    ASSUME NEW G, Typed, Clearing(G), DelRoute, events' = events
    PROVE  ClearsOn(G)
<1>p. PICK t \in Tables : t = pass.table
  BY DEF Typed, TypeOK, DelRoute
<1>0. /\ TypeOK /\ t \in Tables /\ rules' = rules /\ rules[t] = <<>>
      /\ pass.pc = "delete" /\ routes[t] \in {None, pass.haveRoutes[t]}
      /\ routes \in [Tables -> CurrentRoute \cup {None}] /\ events \in Nat
  BY <1>p DEF Typed, TypeOK, PassType, Clearing, DelRoute
<1>e. ~Event
  BY <1>0 DEF Event
<1>1. PICK f : pass' = [pass EXCEPT !.failed = f, !.pc = AfterDeletes(f)]
  BY DEF DelRoute
<1>2. AfterDeletes(f) \in {"addRule", "next"}
  BY DEF AfterDeletes
<1>3. /\ pass'.pc = AfterDeletes(f) /\ pass'.table = t
      /\ pass'.todo = pass.todo /\ pass'.haveRules = pass.haveRules
      /\ pass'.haveRoutes = pass.haveRoutes
      /\ pass'.specs = pass.specs /\ pass'.indices = pass.indices
      /\ pass'.resolved = pass.resolved
  BY <1>0, <1>1, <1>p DEF TypeOK, PassType
<1>4. routes'[t] = None /\ \A u \in Tables \ {t} : routes'[u] = routes[u]
  BY <1>0, <1>e, <1>p DEF DelRoute, Fails
<1>5. Cleared(t, G)'
  BY <1>0, <1>4 DEF Cleared
<1> QED BY <1>0, <1>2, <1>3, <1>4, <1>5, <1>p, ClearWrite

LEMMA ClearAddRule ==
    ASSUME NEW G, Typed, Clearing(G), AddRule, events' = events
    PROVE  ClearsOn(G)
<1>p. PICK t \in Tables : t = pass.table
  BY DEF Typed, TypeOK, AddRule
<1> DEFINE w == pass.resolved[t]
           r == RuleFor(w)
<1>0. /\ TypeOK /\ AskedOf(G) /\ t \in Tables /\ routes' = routes
      /\ rules[t] = <<>> /\ routes[t] = None
      /\ pass.pc = "addRule" /\ w # None
      /\ rules \in [Tables -> Seq(CurrentRule)] /\ events \in Nat
  BY <1>p DEF Typed, TypeOK, PassType, Clearing, AddRule
<1>1. ~Fails(\E k \in DOMAIN rules[t] : rules[t][k] = r)
  BY <1>0 DEF Fails, Event
<1>2. rules' = [rules EXCEPT ![t] = Append(@, r)]
      /\ pass' = [pass EXCEPT !.pc = "addRoute"]
  BY <1>1, <1>p DEF AddRule
<1>3. /\ pass'.pc = "addRoute" /\ pass'.table = t
      /\ pass'.todo = pass.todo /\ pass'.haveRules = pass.haveRules
      /\ pass'.haveRoutes = pass.haveRoutes
      /\ pass'.specs = pass.specs /\ pass'.indices = pass.indices
      /\ pass'.resolved = pass.resolved
  BY <1>0, <1>2, <1>p DEF TypeOK, PassType
<1>4. rules'[t] = <<r>> /\ \A u \in Tables \ {t} : rules'[u] = rules[u]
  <2> HIDE DEF r
  <2> QED BY <1>0, <1>2
<1>5. Cleared(t, G)'
  BY <1>0, <1>4, ClearedResolved
<1> QED BY <1>0, <1>3, <1>4, <1>5, <1>p, ClearWrite

LEMMA ClearAddRoute ==
    ASSUME NEW G, Typed, Clearing(G), AddRoute, events' = events
    PROVE  ClearsOn(G)
<1>p. PICK t \in Tables : t = pass.table
  BY DEF Typed, TypeOK, AddRoute
<1> DEFINE w == pass.resolved[t]
<1>0. /\ TypeOK /\ AskedOf(G) /\ t \in Tables /\ rules' = rules
      /\ rules[t] = <<RuleFor(w)>> /\ routes[t] = None
      /\ pass.pc = "addRoute" /\ w # None
      /\ routes \in [Tables -> CurrentRoute \cup {None}]
  BY <1>p DEF Typed, TypeOK, PassType, Clearing, AddRoute
<1>1. routes' \in {routes, [routes EXCEPT ![t] = RouteFor(w)]}
  BY <1>p DEF AddRoute
<1>2. /\ routes'[t] \in {None, RouteFor(w)}
      /\ \A u \in Tables \ {t} : routes'[u] = routes[u]
  BY <1>0, <1>1
<1>3. /\ pass'.pc = "next" /\ pass'.table = t
      /\ pass'.todo = pass.todo /\ pass'.haveRules = pass.haveRules
      /\ pass'.haveRoutes = pass.haveRoutes
      /\ pass'.specs = pass.specs /\ pass'.indices = pass.indices
      /\ pass'.resolved = pass.resolved
  BY <1>0, <1>p DEF AddRoute, TypeOK, PassType
<1>4. Cleared(t, G)'
  BY <1>0, <1>2, ClearedResolved
<1> QED BY <1>0, <1>2, <1>3, <1>4, <1>p, ClearWrite

\* One pass in which no request fails leaves every table clear, whatever it
\* found.
LEMMA ClearStep ==
    ASSUME NEW G, Typed, Movable, Clearing(G), PassStep, events' = events
    PROVE  ClearsOn(G) /\ Movable'
  BY MovableStep, ClearReads, ClearVisit, ClearDelRule, ClearDelRoute, ClearAddRule,
     ClearAddRoute DEF PassStep

\* A route that goes with its interface, and more leases, put nothing off.
LEMMA ClearingLess ==
    ASSUME NEW G, NEW H, G \subseteq H, Typed, Clearing(G), UNCHANGED <<rules, pass>>,
           \A t \in Tables : routes'[t] \in {routes[t], None}
    PROVE  Clearing(H)' /\ (AllCleared(G) => AllCleared(H)')
<1>0. pass.pc \in {"delete", "addRule", "addRoute"} => pass.table \in Tables
  BY DEF Typed, TypeOK
<1>1. AskedOf(H)'
  BY DEF Clearing, AskedOf, Resolves
<1>2. ASSUME NEW t \in Tables, Cleared(t, G) PROVE Cleared(t, H)'
  <2>1. Cleared(t, G)'
    BY <1>2, ClearedLess
  <2> QED BY <2>1 DEF Cleared
<1>3. Clearing(H)'
  <2>1. pass.todo \subseteq Tables
    BY DEF Typed, TypeOK, PassType
  <2> QED BY <1>0, <1>1, <1>2, <2>1 DEF Clearing, RuleFor, ExpectedFwmask
<1> QED BY <1>2, <1>3 DEF AllCleared
=============================================================================
