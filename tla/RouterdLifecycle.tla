-------------------------- MODULE RouterdLifecycle --------------------------
(***************************************************************************)
(* The life of the routerd process around RouteManager::reconcile          *)
(* (dumbarp-routerd/src/main.rs, and spawn in reconcile.rs): read the      *)
(* configuration, load and attach the classifier, purge what a dead        *)
(* process left, one pass awaited by main, the periodic passes of the      *)
(* spawned task, and on a signal a teardown pass that main runs while a    *)
(* periodic pass may still be under way.  Nothing stops the spawned task   *)
(* but the end of the process, and no lock is shared by the two passes.    *)
(*                                                                         *)
(* RouteManager's `pass` is the spawned task's pass; mainPass is main's.   *)
(***************************************************************************)
EXTENDS RouteManager

CONSTANT
    Configs     \* the configuration files an operator may write

VARIABLES
    mainPass,   \* the pass main awaits
    phase,      \* how far main has got
    file,       \* the configuration file, as the process has read it
    bootEvents  \* history: the value of events when the process had loaded

process == <<mainPass, phase, bootEvents>>
lifeVars == <<rules, routes, link, pass, goal, events, file, process>>

Main == INSTANCE RouteManager WITH pass <- mainPass
Config == INSTANCE RouterdConfig

ASSUME LifeAssumption == \A c \in Configs : c.ifaces \subseteq Ifaces

LifeInit ==
    /\ Init
    /\ mainPass = IdlePass
    /\ phase = "boot"
    /\ file \in Configs
    /\ bootEvents = 0

\* Config::load accepts the file and Datapath::load finds every interface.
Loadable ==
    /\ Config!Validate(file)
    /\ \A i \in file.ifaces : link[i].up

\* Both come before the purge.  A process that fails in either ends, and is
\* started again with nothing changed.
Load ==
    /\ phase = "boot"
    /\ Loadable
    /\ phase' = "loaded"
    /\ bootEvents' = events
    /\ UNCHANGED <<rules, routes, link, pass, goal, events, file, mainPass>>

\* main calls reconcile(&[]) or reconcile_once and awaits it.
MainCalls(from, to, desired) ==
    /\ phase = from
    /\ Main!Begin(desired)
    /\ phase' = to
    /\ UNCHANGED <<pass, file, bootEvents>>

Purge == MainCalls("loaded", "purge", <<>>)
InitialPass == MainCalls("purged", "initial", goal)

Teardown == MainCalls("signalled", "teardown", <<>>)

\* Where main is once the call it awaited has returned, with or without an
\* error: an error is logged and main goes on.
AfterCall == [purge |-> "purged", initial |-> "serving", teardown |-> "exited"]

\* When main returns, the runtime drops the spawned task where it stands.
MainStep ==
    /\ Main!PassStep
    /\ phase' = IF mainPass'.pc = "idle" THEN AfterCall[phase] ELSE phase
    /\ pass' = IF phase' = "exited" THEN IdlePass ELSE pass
    /\ UNCHANGED <<file, bootEvents>>

\* Seeded fault: the periodic task is spawned before the purge is done.
LoopRunsEarly == phase \notin {"boot", "exited"}

\* The task exists from spawn to the end of the process; a ticker with a
\* period of zero panics, which is the end of the task alone.
LoopRuns ==
    /\ phase \in {"serving", "signalled", "teardown"}
    /\ file.refresh > 0

LoopStep ==
    /\ LoopRuns
    /\ Begin(goal) \/ PassStep
    /\ UNCHANGED <<file, process>>

\* SIGTERM or ctrl-c reaches shutdown_signal.
Signal ==
    /\ phase = "serving"
    /\ phase' = "signalled"
    /\ UNCHANGED <<rules, routes, link, pass, goal, events, file, mainPass,
                   bootEvents>>

\* The process is killed, or a signal arrives before shutdown_signal is
\* awaited; it is started again.
Die ==
    /\ phase \notin {"boot", "exited"}
    /\ Event
    /\ pass' = IdlePass
    /\ mainPass' = IdlePass
    /\ phase' = "boot"
    /\ UNCHANGED <<rules, routes, link, goal, file, bootEvents>>

\* An operator writes another file.  It is read at the start only, so this
\* may as well happen just before one.
EditConfig(c) ==
    /\ phase = "boot"
    /\ Event
    /\ file' = c
    /\ file' # file
    /\ UNCHANGED <<rules, routes, link, pass, goal, process>>

World ==
    /\ \/ \E g \in Goals : NewGoal(g)
       \/ \E i \in Ifaces : LinkDel(i) \/ LinkAdd(i)
    /\ UNCHANGED <<file, process>>

LifeNext ==
    \/ Load \/ Purge \/ InitialPass \/ Teardown
    \/ MainStep
    \/ LoopStep
    \/ Signal
    \/ Die
    \/ World
    \/ \E c \in Configs : EditConfig(c)

LifeSpec == LifeInit /\ [][LifeNext]_lifeVars

\* main and the spawned task are both scheduled, and a service that failed to
\* start is started again (Restart=on-failure); a signal need not come.
LifeFairSpec ==
    /\ LifeSpec
    /\ WF_lifeVars(Load \/ Purge \/ InitialPass \/ Teardown \/ MainStep)
    /\ WF_lifeVars(LoopStep)

-----------------------------------------------------------------------------

\* After a crash at any point, and if nothing fails meanwhile, the first
\* pass of the new process starts from an empty kernel: no rule of the dead
\* process outlives main's purge (main.rs 59-61).
StartsClean ==
    (phase = "purged" /\ events = bootEvents) =>
        \A t \in Tables : rules[t] = <<>> /\ routes[t] = None

\* A clean shutdown in which no request failed leaves no rule and no route:
\* main.rs 69-72 tears the routing state down before main returns.
CleanExit ==
    (phase = "exited" /\ events = bootEvents) =>
        \A t \in Tables : rules[t] = <<>> /\ routes[t] = None

\* A service that is not told to stop brings the kernel to the goal and keeps
\* it there, whatever crashes and edits came before: no file it accepts stops
\* its loop.  Only while it cannot load, for its file or a missing interface,
\* may the rules of a dead process stay.
ServesGoal ==
    <>[](\/ phase \in {"signalled", "teardown", "exited"}
         \/ phase = "boot" /\ ~Loadable
         \/ \A t \in Tables : Installed(t, WantedNow(t)))

=============================================================================
