----------------------- MODULE RouterdLifecycleProofs -----------------------
(***************************************************************************)
(* The routing state of a routerd over its whole life, for every           *)
(* configuration, goal and number of crashes: the periodic pass and main's *)
(* own passes never put two rules on a table or mix two specs, although    *)
(* the teardown runs beside the periodic pass, and the purge of a start in *)
(* which nothing fails leaves an empty kernel.                             *)
(*                                                                         *)
(* The facts about one pass come from RouteManagerProofs twice: for the    *)
(* spawned task's pass as they stand, for main's through M.                *)
(***************************************************************************)
EXTENDS RouterdLifecycle, RouteManagerProofs

M == INSTANCE RouteManagerProofs WITH pass <- mainPass

Phases == {"boot", "loaded", "purge", "purged", "initial", "serving", "signalled",
           "teardown", "exited"}

\* When main has a pass under way, and when the spawned task exists.
MainRuns == phase \in {"purge", "initial", "teardown"}
TaskExists == phase \in {"serving", "signalled", "teardown"}

LifeInv ==
    /\ phase \in Phases
    /\ bootEvents \in Nat /\ bootEvents <= events
    /\ SharedInv
    /\ M!TypeOK
    /\ phase # "teardown" => M!SharedInv
    /\ phase \in {"purge", "teardown"} => M!Deleting
    /\ ~TaskExists => pass = IdlePass
    /\ ~MainRuns => mainPass = IdlePass
    /\ (phase = "purge" /\ events = bootEvents) => M!Emptying
    /\ StartsClean

-----------------------------------------------------------------------------
(* RouterdLifecycle's Main and the M of the proofs are the same instance.   *)

LEMMA SameBegin == ASSUME NEW d PROVE Main!Begin(d) <=> M!Begin(d)
  BY DEF Main!Begin, M!Begin, Main!IdlePass, M!IdlePass, Main!Tables,
         M!Tables, Main!TableIdFor, M!TableIdFor

LEMMA SameStep == Main!PassStep <=> M!PassStep
<1>1. Main!ResolveSpec <=> M!ResolveSpec
  BY DEF Main!ResolveSpec, M!ResolveSpec, Main!IndexOf, M!IndexOf,
         Main!Fails, M!Fails, Main!Event, M!Event, Main!TableIdFor,
         M!TableIdFor
<1>2. Main!ListRules <=> M!ListRules
  BY DEF Main!ListRules, M!ListRules, Main!Fails, M!Fails, Main!Event,
         M!Event, Main!IdlePass, M!IdlePass, Main!Tables, M!Tables,
         Main!TableIdFor, M!TableIdFor
<1>3. Main!ListRoutes <=> M!ListRoutes
  BY DEF Main!ListRoutes, M!ListRoutes, Main!Fails, M!Fails, Main!Event,
         M!Event, Main!IdlePass, M!IdlePass, Main!Tables, M!Tables,
         Main!TableIdFor, M!TableIdFor
<1>4. Main!DelRule <=> M!DelRule
  BY DEF Main!DelRule, M!DelRule, Main!Fitting, M!Fitting, Main!Fits, M!Fits,
         Main!NoMark, M!NoMark, Main!Without, M!Without, Main!Fails, M!Fails,
         Main!Event, M!Event
<1>5. Main!DelRoute <=> M!DelRoute
  BY DEF Main!DelRoute, M!DelRoute, Main!AfterDeletes, M!AfterDeletes,
         Main!Fails, M!Fails, Main!Event, M!Event
<1>6. Main!AddRule <=> M!AddRule
  BY DEF Main!AddRule, M!AddRule, Main!RuleFor, M!RuleFor,
         Main!ExpectedFwmask, M!ExpectedFwmask, Main!NoMark, M!NoMark,
         Main!Fails, M!Fails, Main!Event, M!Event
<1>7. Main!AddRoute <=> M!AddRoute
  BY DEF Main!AddRoute, M!AddRoute, Main!RouteFor, M!RouteFor, Main!Exists,
         M!Exists, Main!Fails, M!Fails, Main!Event, M!Event
<1>8. Main!Finish <=> M!Finish
  BY DEF Main!Finish, M!Finish, Main!IdlePass, M!IdlePass, Main!Tables,
         M!Tables, Main!TableIdFor, M!TableIdFor
<1>9. Main!Tables = M!Tables
  BY DEF Main!Tables, M!Tables, Main!TableIdFor, M!TableIdFor
<1>10. ASSUME NEW t PROVE Main!VisitTable(t) <=> M!VisitTable(t)
  BY DEF Main!VisitTable, M!VisitTable, Main!Matches, M!Matches,
         Main!RuleFor, M!RuleFor, Main!RouteFor, M!RouteFor,
         Main!ExpectedFwmask, M!ExpectedFwmask, Main!NoMark, M!NoMark
<1> QED BY <1>1, <1>2, <1>3, <1>4, <1>5, <1>6, <1>7, <1>8, <1>9, <1>10 DEF Main!PassStep, M!PassStep

\* What the two share: the kernel and its types, and the shape of a pass.
KernelTypes ==
    /\ rules \in [Tables -> Seq(CurrentRule)]
    /\ routes \in [Tables -> CurrentRoute \cup {None}]
    /\ link \in [Ifaces -> [up : BOOLEAN, gen : 1..MaxGen]]
    /\ goal \in Goals
    /\ events \in 0..MaxEvents

PassTyped(p) ==
    /\ p \in PassType
    /\ p.pc \in {"delete", "addRule", "addRoute"} => p.table \in Tables

LEMMA SameTables == M!Tables = Tables
  BY DEF M!Tables, Tables, M!TableIdFor, TableIdFor

LEMMA SameIdle == M!IdlePass = IdlePass
  BY SameTables DEF M!IdlePass, IdlePass

LEMMA SameData ==
    /\ M!RouteSpec = RouteSpec /\ M!IfIndex = IfIndex
    /\ M!ResolvedSpec = ResolvedSpec /\ M!CurrentRule = CurrentRule
    /\ M!CurrentRoute = CurrentRoute
  BY DEF M!RouteSpec, RouteSpec, M!IfIndex, IfIndex, M!ResolvedSpec, ResolvedSpec,
         M!CurrentRule, CurrentRule, M!CurrentRoute, CurrentRoute, M!Masks, Masks,
         M!NoMark, NoMark

\* The assumption under which M's lemmas hold.
LEMMA MAssumption ==
    /\ Addrs \subseteq Nat
    /\ Marks \subseteq Nat \ {0}
    /\ Goals \subseteq Seq(M!RouteSpec)
    /\ <<>> \in Goals
    /\ MaxGen \in Nat \ {0}
    /\ MaxEvents \in Nat
    /\ None \notin M!IfIndex
    /\ None \notin M!ResolvedSpec
    /\ None \notin M!CurrentRoute
    /\ None \notin M!Tables
  BY ConstantsAssumption, SameData, SameTables

LEMMA SameTypes ==
    /\ TypeOK <=> KernelTypes /\ PassTyped(pass)
    /\ TypeOK' <=> KernelTypes' /\ PassTyped(pass')
    /\ M!TypeOK <=> KernelTypes /\ PassTyped(mainPass)
    /\ M!TypeOK' <=> KernelTypes' /\ PassTyped(mainPass')
<1>1. M!PassType = PassType
  BY SameData, SameTables DEF M!PassType, PassType
<1>2. /\ TypeOK <=> KernelTypes /\ PassTyped(pass)
      /\ TypeOK' <=> KernelTypes' /\ PassTyped(pass')
  BY DEF TypeOK, KernelTypes, PassTyped
<1>3. /\ M!TypeOK <=> KernelTypes /\ PassTyped(mainPass)
      /\ M!TypeOK' <=> KernelTypes' /\ PassTyped(mainPass')
  BY <1>1, SameData, SameTables DEF M!TypeOK, KernelTypes, PassTyped
<1> QED BY <1>2, <1>3

LEMMA SameKernel ==
    /\ M!KernelInv <=> KernelInv
    /\ M!KernelInv' <=> KernelInv'
<1>1. M!OneRulePerTable <=> OneRulePerTable
  BY SameTables DEF M!OneRulePerTable, OneRulePerTable
<1>2. ASSUME NEW t, NEW r, NEW rt
      PROVE  M!FromOneSpec(t, r, rt) <=> FromOneSpec(t, r, rt)
  BY DEF M!FromOneSpec, FromOneSpec, M!Requested, Requested, M!TableIdFor,
         TableIdFor, M!RuleFor, RuleFor, M!ExpectedFwmask, ExpectedFwmask,
         M!NoMark, NoMark
<1>3. M!NeverMixed <=> NeverMixed
  BY <1>2, SameTables DEF M!NeverMixed, NeverMixed
<1>4. M!RulesAreOwn <=> RulesAreOwn
  BY SameTables DEF M!RulesAreOwn, RulesAreOwn, M!ExpectedFwmask, ExpectedFwmask,
         M!NoMark, NoMark
<1>5. M!KernelInv <=> KernelInv
  BY <1>1, <1>3, <1>4 DEF M!KernelInv, KernelInv
<1> QED BY <1>5, PTL

LEMMA SameShrinks == M!Shrinks <=> Shrinks
  BY SameTables DEF M!Shrinks, Shrinks

LEMMA SameEmpty == M!AllEmpty' <=> AllEmpty'
  BY SameTables DEF M!AllEmpty, AllEmpty

LEMMA IdleTyped == PassTyped(IdlePass)
  BY IdlePassType DEF PassTyped

-----------------------------------------------------------------------------
(* The steps.                                                              *)

LEMMA LifeFacts ==
    ASSUME LifeInv
    PROVE  /\ TypeOK /\ KernelInv /\ OneRulePerTable /\ M!OneRulePerTable
           /\ M!KernelInv /\ KernelTypes /\ events \in Nat /\ goal \in Goals
           /\ PassTyped(pass) /\ PassTyped(mainPass)
<1>1. TypeOK /\ KernelInv /\ M!TypeOK
  BY DEF LifeInv, SharedInv
<1>2. M!KernelInv
  BY <1>1, SameKernel
<1>3. KernelTypes /\ PassTyped(pass) /\ PassTyped(mainPass)
  BY <1>1, SameTypes
<1>4. events \in Nat /\ goal \in Goals
  BY <1>3 DEF KernelTypes
<1> QED BY <1>1, <1>2, <1>3, <1>4 DEF KernelInv, M!KernelInv

\* Between main's calls main's pass knows nothing, whatever the task does.
LEMMA MainIdle ==
    ASSUME KernelTypes', KernelInv', mainPass' = IdlePass
    PROVE  M!TypeOK' /\ M!SharedInv'
<1>1. M!TypeOK'
  BY IdleTyped, SameTypes
<1>2. M!KernelInv' /\ mainPass' = M!IdlePass
  BY SameKernel, SameIdle
<1> QED BY <1>1, <1>2, MAssumption, M!SharedIdle

\* The same of the task's pass while there is no task.
LEMMA TaskIdle ==
    ASSUME KernelTypes', KernelInv', pass' = IdlePass PROVE SharedInv'
<1>1. TypeOK'
  BY IdleTyped, SameTypes
<1> QED BY <1>1, SharedIdle

\* A step around the two passes: a new file or goal, an interface.
LEMMA AroundInv ==
    ASSUME LifeInv, KernelTypes', Shrinks,
           UNCHANGED <<pass, mainPass, phase, bootEvents>>,
           events' \in {events, events + 1},
           events' = events => UNCHANGED <<rules, routes>>
    PROVE  LifeInv'
<1>1. TypeOK' /\ M!TypeOK' /\ M!Shrinks
  BY LifeFacts, SameTypes, SameShrinks
<1>2. SharedInv'
  BY <1>1, OthersDelete DEF LifeInv
<1>3. phase # "teardown" => M!SharedInv'
  BY <1>1, MAssumption, M!OthersDelete DEF LifeInv
<1>4. M!Deleting => M!Deleting'
  BY DEF M!Deleting
<1>5. bootEvents' \in Nat /\ bootEvents' <= events'
  BY LifeFacts DEF LifeInv
<1>6. events' = bootEvents' => events = bootEvents /\ UNCHANGED <<rules, routes>>
  BY LifeFacts DEF LifeInv
<1>7. UNCHANGED <<rules, routes>> /\ M!Emptying => M!Emptying'
  BY DEF M!Emptying
<1>8. StartsClean'
  BY <1>6 DEF LifeInv, StartsClean
<1> QED BY <1>1, <1>2, <1>3, <1>4, <1>5, <1>6, <1>7, <1>8
        DEF LifeInv, TaskExists, MainRuns

LEMMA WorldInv == ASSUME LifeInv, World PROVE LifeInv'
<1>1. UNCHANGED <<pass, mainPass, phase, bootEvents>>
  BY DEF World, process, NewGoal, LinkDel, LinkAdd
<1>2. TypeOK'
  BY LifeFacts, NewGoalType, LinkDelType, LinkAddType DEF World
<1>3. KernelTypes'
  BY <1>2, SameTypes
<1>4. Shrinks
  BY DEF World, NewGoal, LinkDel, LinkAdd, Shrinks
<1>5. /\ events' \in {events, events + 1}
      /\ events' = events => UNCHANGED <<rules, routes>>
  BY LifeFacts DEF World, NewGoal, LinkDel, LinkAdd, Event
<1> QED BY <1>1, <1>3, <1>4, <1>5, AroundInv

LEMMA EditConfigInv == ASSUME LifeInv, NEW c \in Configs, EditConfig(c) PROVE LifeInv'
<1>1. UNCHANGED <<pass, mainPass, phase, bootEvents, rules, routes, link, goal>>
  BY DEF EditConfig, process
<1>2. events' = events + 1 /\ events < MaxEvents
  BY DEF EditConfig, Event
<1>3. KernelTypes'
  BY <1>1, <1>2, LifeFacts, ConstantsAssumption DEF KernelTypes
<1> QED BY <1>1, <1>2, <1>3, AroundInv DEF Shrinks

LEMMA LifeStutter == ASSUME LifeInv, UNCHANGED lifeVars PROVE LifeInv'
<1>1. UNCHANGED <<pass, mainPass, phase, bootEvents, rules, routes, link, goal,
                  events>>
  BY DEF lifeVars, process
<1>2. KernelTypes'
  BY <1>1, LifeFacts DEF KernelTypes
<1> QED BY <1>1, <1>2, AroundInv DEF Shrinks

\* main goes on, the kernel and both passes as they were.
LEMMA AdvanceInv ==
    ASSUME LifeInv, UNCHANGED <<rules, routes, link, goal, events, pass, mainPass>>,
           ~MainRuns, ~MainRuns', phase' \in Phases \ {"purged"},
           TaskExists => TaskExists',
           bootEvents' \in {bootEvents, events}
    PROVE  LifeInv'
<1>1. KernelTypes' /\ Shrinks
  BY LifeFacts DEF KernelTypes, Shrinks
<1>2. TypeOK'
  BY <1>1, LifeFacts, SameTypes
<1>3. SharedInv' /\ KernelInv'
  BY <1>1, <1>2, OthersDelete DEF LifeInv, SharedInv
<1>4. mainPass' = IdlePass
  BY DEF LifeInv
<1>5. M!TypeOK' /\ M!SharedInv'
  BY <1>1, <1>3, <1>4, MainIdle
<1>6. bootEvents' \in Nat /\ bootEvents' <= events'
  BY LifeFacts DEF LifeInv
<1>7. ~TaskExists' => pass' = IdlePass
  BY DEF LifeInv
<1>8. StartsClean'
  BY DEF StartsClean
<1> QED BY <1>3, <1>4, <1>5, <1>6, <1>7, <1>8 DEF LifeInv, MainRuns

LEMMA LoadInv == ASSUME LifeInv, Load PROVE LifeInv'
<1>1. /\ ~MainRuns /\ ~MainRuns' /\ ~TaskExists
      /\ phase' \in Phases \ {"purged"}
  BY DEF Load, MainRuns, TaskExists, Phases
<1> QED BY <1>1, AdvanceInv DEF Load

LEMMA SignalInv == ASSUME LifeInv, Signal PROVE LifeInv'
<1>1. /\ ~MainRuns /\ ~MainRuns' /\ TaskExists'
      /\ phase' \in Phases \ {"purged"}
  BY DEF Signal, MainRuns, TaskExists, Phases
<1> QED BY <1>1, AdvanceInv DEF Signal

\* A dead process leaves the kernel as it stood.
LEMMA DieInv == ASSUME LifeInv, Die PROVE LifeInv'
<1>1. /\ UNCHANGED <<rules, routes, link, goal, bootEvents>>
      /\ pass' = IdlePass /\ mainPass' = IdlePass /\ phase' = "boot"
      /\ events' = events + 1 /\ events < MaxEvents
  BY DEF Die, Event
<1>2. KernelTypes' /\ KernelInv'
  BY <1>1, LifeFacts, KernelSame, ConstantsAssumption DEF KernelTypes
<1>3. SharedInv' /\ M!TypeOK' /\ M!SharedInv'
  BY <1>1, <1>2, MainIdle, TaskIdle
<1>4. bootEvents' \in Nat /\ bootEvents' <= events'
  BY <1>1, LifeFacts DEF LifeInv
<1>5. StartsClean'
  BY <1>1 DEF StartsClean
<1> QED BY <1>1, <1>3, <1>4, <1>5 DEF LifeInv, Phases

\* main calls reconcile.
LEMMA MainCallsInv ==
    ASSUME LifeInv, NEW from, NEW to, NEW d \in Goals, MainCalls(from, to, d),
           <<from, to>> \in {<<"loaded", "purge">>, <<"purged", "initial">>,
                             <<"signalled", "teardown">>},
           to # "initial" => d = <<>>
    PROVE  LifeInv'
<1>1. /\ phase = from /\ phase' = to /\ M!Begin(d)
      /\ UNCHANGED <<pass, bootEvents>>
  BY SameBegin DEF MainCalls
<1>2. UNCHANGED <<rules, routes, link, goal, events>>
  BY <1>1 DEF M!Begin
<1>3. KernelTypes' /\ Shrinks
  BY <1>2, LifeFacts DEF KernelTypes, Shrinks
<1>4. TypeOK'
  BY <1>1, <1>3, LifeFacts, SameTypes
<1>5. SharedInv'
  BY <1>1, <1>3, <1>4, OthersDelete DEF LifeInv
<1>6. M!SharedInv
  BY <1>1 DEF LifeInv
<1>7. M!SharedInv'
  BY <1>1, <1>6, MAssumption, M!SharedBegin
<1>8. M!TypeOK'
  BY <1>7 DEF M!SharedInv
<1>9. phase' \in {"purge", "teardown"} => M!Deleting' /\ M!Emptying'
  BY <1>1, MAssumption, M!BeginDeletes
<1>10. ~TaskExists' => pass' = IdlePass
  BY <1>1 DEF LifeInv, TaskExists
<1>11. /\ phase' \in Phases \ {"purged"} /\ MainRuns'
       /\ bootEvents' \in Nat /\ bootEvents' <= events'
  BY <1>1, <1>2 DEF LifeInv, Phases, MainRuns
<1>12. StartsClean'
  BY <1>11 DEF StartsClean
<1> QED BY <1>5, <1>7, <1>8, <1>9, <1>10, <1>11, <1>12 DEF LifeInv

LEMMA CallInv == ASSUME LifeInv, Purge \/ InitialPass \/ Teardown PROVE LifeInv'
<1>1. goal \in Goals /\ <<>> \in Goals
  BY LifeFacts, ConstantsAssumption
<1>2. CASE Purge
  BY <1>1, <1>2, MainCallsInv DEF Purge
<1>3. CASE InitialPass
  BY <1>1, <1>3, MainCallsInv DEF InitialPass
<1>4. CASE Teardown
  BY <1>1, <1>4, MainCallsInv DEF Teardown
<1> QED BY <1>2, <1>3, <1>4

\* A request of a pass main awaits: of the purge and the initial pass, which
\* have the kernel to themselves, or of the teardown, which has not.
LEMMA MainStepInv == ASSUME LifeInv, MainStep PROVE LifeInv'
<1>1. M!PassStep /\ M!TypeOK /\ UNCHANGED bootEvents
  BY SameStep DEF MainStep, LifeInv
<1>2. /\ events' \in {events, events + 1}
      /\ mainPass'.pc = "idle" => mainPass' = IdlePass
      /\ mainPass.pc # "idle"
  BY <1>1, MAssumption, M!StepFrame, SameIdle
<1>3. phase \in {"purge", "initial", "teardown"}
  <2>1. IdlePass.pc = "idle"
    BY DEF IdlePass
  <2> QED BY <1>2, <2>1 DEF LifeInv, MainRuns
<1>4. bootEvents' \in Nat /\ bootEvents' <= events'
  BY <1>1, <1>2, LifeFacts DEF LifeInv
<1>5. events' = bootEvents' => events = bootEvents /\ events' = events
  BY <1>1, <1>2, LifeFacts DEF LifeInv
<1>6. CASE phase \in {"purge", "initial"}
  <2>1. /\ phase' \in {phase, AfterCall[phase]} /\ pass' = pass /\ pass = IdlePass
        /\ phase' = AfterCall[phase] => mainPass'.pc = "idle"
        /\ AfterCall[phase] \in {"purged", "serving"}
        /\ AfterCall[phase] = "purged" => phase = "purge"
    BY <1>6 DEF MainStep, AfterCall, LifeInv, TaskExists
  <2>2. M!SharedInv /\ M!SharedInv'
    BY <1>1, <1>6, MAssumption, M!SharedStep DEF LifeInv
  <2>3. M!TypeOK' /\ KernelInv'
    BY <2>2, SameKernel DEF M!SharedInv
  <2>4. KernelTypes'
    BY <2>3, SameTypes
  <2>5. SharedInv'
    BY <2>1, <2>3, <2>4, TaskIdle
  <2>6. phase = "purge" => M!Deleting'
    BY <1>1, LifeFacts, MAssumption, M!DeletingStep DEF LifeInv
  <2>7. (phase = "purge" /\ events' = bootEvents') =>
            M!Emptying' /\ (mainPass'.pc = "idle" => AllEmpty')
    BY <1>1, <1>5, LifeFacts, MAssumption, SameEmpty, M!EmptyingStep DEF LifeInv
  <2>8. StartsClean'
    BY <1>6, <2>1, <2>7 DEF StartsClean, AllEmpty
  <2>9. /\ phase' \in Phases \ {"teardown"} /\ (phase' = "purge" => phase = "purge")
        /\ ~MainRuns' => mainPass'.pc = "idle"
    BY <1>6, <2>1 DEF Phases, MainRuns
  <2> QED BY <1>2, <1>4, <2>1, <2>2, <2>3, <2>5, <2>6, <2>7, <2>8, <2>9 DEF LifeInv
<1>7. CASE phase = "teardown"
  <2>1. /\ phase' \in {"teardown", "exited"}
        /\ phase' = "exited" => mainPass'.pc = "idle" /\ pass' = IdlePass
        /\ phase' = "teardown" => pass' = pass
    BY <1>7 DEF MainStep, AfterCall
  <2>2. M!TypeOK' /\ M!Deleting' /\ Shrinks
    BY <1>1, <1>7, LifeFacts, MAssumption, SameShrinks, M!DeletingStep DEF LifeInv
  <2>3. KernelTypes' /\ KernelInv'
    BY <2>2, LifeFacts, SameTypes, KernelShrinks
  <2>4. SharedInv'
    <3>1. CASE phase' = "exited"
      BY <2>1, <2>3, <3>1, TaskIdle
    <3>2. CASE phase' = "teardown"
      <4>1. TypeOK'
        BY <2>1, <2>3, <3>2, LifeFacts, SameTypes
      <4> QED BY <2>1, <2>2, <3>2, <4>1, OthersDelete DEF LifeInv
    <3> QED BY <2>1, <3>1, <3>2
  <2>5. phase' = "exited" => mainPass' = IdlePass /\ M!SharedInv'
    BY <1>2, <2>1, <2>3, MainIdle
  <2>6. StartsClean'
    BY <2>1 DEF StartsClean
  <2>7. phase' \in Phases
    BY <2>1 DEF Phases
  <2> QED BY <1>4, <2>1, <2>2, <2>4, <2>5, <2>6, <2>7
          DEF LifeInv, TaskExists, MainRuns
<1> QED BY <1>3, <1>6, <1>7

\* A request of the periodic pass.
LEMMA LoopStepInv == ASSUME LifeInv, LoopStep PROVE LifeInv'
<1>1. /\ phase \in {"serving", "signalled", "teardown"}
      /\ UNCHANGED <<mainPass, phase, bootEvents>>
      /\ Begin(goal) \/ PassStep
  BY DEF LoopStep, LoopRuns, process
<1>2. SharedInv'
  BY <1>1, LifeFacts, SharedBegin, SharedStep DEF LifeInv
<1>3. TypeOK' /\ KernelInv'
  BY <1>2 DEF SharedInv
<1>4. KernelTypes' /\ M!TypeOK'
  BY <1>1, <1>3, LifeFacts, SameTypes
<1>5. phase # "teardown" => mainPass = IdlePass /\ M!SharedInv'
  BY <1>1, <1>3, <1>4, MainIdle DEF LifeInv, MainRuns
<1>6. phase = "teardown" => M!Deleting'
  BY <1>1 DEF LifeInv, M!Deleting
<1>7. events' \in {events, events + 1}
  BY <1>1, LifeFacts, StepFrame DEF Begin
<1>8. bootEvents' \in Nat /\ bootEvents' <= events'
  BY <1>1, <1>7, LifeFacts DEF LifeInv
<1>9. StartsClean'
  BY <1>1 DEF StartsClean
<1> QED BY <1>1, <1>2, <1>4, <1>5, <1>6, <1>8, <1>9
        DEF LifeInv, TaskExists, MainRuns

LEMMA LifeInitInv == ASSUME LifeInit PROVE LifeInv
<1>1. PassInv /\ TypeOK /\ mainPass = IdlePass /\ phase = "boot" /\ bootEvents = 0
      /\ events = 0 /\ pass = IdlePass
  BY InitInv DEF LifeInit, PassInv, Init
<1>2. RulesAreOwn
  BY DEF LifeInit, Init, RulesAreOwn
<1>3. KernelInv
  BY <1>1, <1>2 DEF PassInv, KernelInv
<1>4. SharedInv
  BY <1>1, <1>3 DEF PassInv, SharedInv, SharedListed, SharedWork, IdlePass, Working
<1>5. M!TypeOK
  BY <1>1, SameTypes
<1>6. M!SharedInv
  <2>1. M!KernelInv /\ mainPass = M!IdlePass
    BY <1>1, <1>3, SameKernel, SameIdle
  <2> QED BY <1>5, <2>1
       DEF M!SharedInv, M!AskedFor, M!SharedListed, M!SharedWork, M!IdlePass, M!Working
<1> QED BY <1>1, <1>4, <1>5, <1>6 DEF LifeInv, Phases, StartsClean

LEMMA LifeNextInv == LifeInv /\ [LifeNext]_lifeVars => LifeInv'
  BY LoadInv, CallInv, MainStepInv, LoopStepInv, SignalInv, DieInv, WorldInv,
     EditConfigInv, LifeStutter
  DEF LifeNext

-----------------------------------------------------------------------------
(* The theorems.                                                           *)

\* The inductive invariant of the whole process (main.rs 43-76, reconcile.rs's
\* spawn): the periodic pass may find less than it listed but never more, and
\* main's purge and teardown only take away.
THEOREM LifeInvariant == LifeSpec => []LifeInv
<1>1. LifeInit => LifeInv
  BY LifeInitInv
<1> QED BY <1>1, LifeNextInv, PTL DEF LifeSpec

\* Through crashes, restarts and a teardown that overlaps the periodic pass,
\* no table ever has two dumbarp rules (lib.rs 98-104).
THEOREM LifeOneRule == LifeSpec => []OneRulePerTable
<1>1. LifeInv => OneRulePerTable
  BY LifeFacts
<1> QED BY <1>1, LifeInvariant, PTL

\* Nor does a table ever pair one spec's rule with another's route, although
\* main and the spawned task share no lock (lib.rs 105-137, main.rs 69-72).
THEOREM LifeNeverMixed == LifeSpec => []NeverMixed
<1>1. LifeInv => NeverMixed
  BY DEF LifeInv, SharedInv, KernelInv
<1> QED BY <1>1, LifeInvariant, PTL

\* A new process's first pass starts from an empty kernel whatever its
\* predecessor left, if nothing failed since it loaded (main.rs 59-61).
THEOREM PurgeLeavesNothing == LifeSpec => []StartsClean
<1>1. LifeInv => StartsClean
  BY DEF LifeInv
<1> QED BY <1>1, LifeInvariant, PTL
=============================================================================
