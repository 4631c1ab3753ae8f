# Verification of dumbarp

TLA+ modules of the dumbarp system (dumbarpd, dumbarp-routerd,
dumbarp-gateway, dumbarp-k8s and their eBPF programs), the TLC runs that check
them on small instances, and theorems checked by TLAPS. `PROJECT.json` lists
the components, runs, mutants, source map, findings, hazards and theorems.

## 1. The system

dumbarpd runs on hosts that obtain public addresses by DHCP. It answers ARP for
them in XDP without configuring them, so that the traffic is forwarded to
servers further inside. Replies must leave by the host that holds the lease:
routers either route by source address or, in DSCP mode, by a mark derived from
a DSCP tag the host stamps on the requests.

| component | state | operations | correct when |
|---|---|---|---|
| RouteManager (`dumbarp-routing`) | none of its own; the kernel's rules and routes of priority/protocol dumbarp | `reconcile(desired)`: resolve, list, delete, add | one rule per table, never a mixture of two specs, no needless change, convergence |
| routerd (`dumbarp-routerd`) | lease cache, remembered ids, `DSCP_IDS` map | purge, initial pass, periodic pass, teardown | ids unambiguous, leases held for exactly the window, map and rules agree |
| lease cache (`dumbarp-api`) | source -> (answer, time) | `apply_round`, `snapshot` | neither early nor late expiry |
| engine (`dumbarp`) | XDP and TC links, `ARP_TABLE`, `DSCP_ID`, `L2_LEN` | `add_interface`, `remove_interface` | nothing leaks but what the kernel refused to remove |
| dumbarpd (`dumbarp-daemon`) | engine and lease table behind two locks; a refresher task per interface | DHCP events, probe and pin, `GET /leases` | what is advertised is answered for; the pinned neighbour is right |
| packet programs (`dumbarp-ebpf`, `-routerd-ebpf`, `-common`) | `ORIG_DSCP`, conntrack marks (external) | stamp, steer, terminate | replies go home, tags stay inside, DSCP and checksum are restored |
| k8s reconciler (`dumbarp-k8s`) | the pool objects and their annotations | fetch, list, create/touch, prune | a held address keeps its pool, a stale pool goes |
| gateway (`dumbarp-gateway`) | a lease cache; routes on its own host | periodic round, `GET /daemons`, own routes | its list and its routes are recent, a daemon leaves them only for cause |
| dumbarpd's route manager (`refresh.rs`, `main.rs`) | none; the lease table is read at every tick | periodic pass | nothing of a former process stays; the kernel follows the lease table |
| configuration (`config.rs` of each program) | a file read once at start | load, validate | no accepted file disables a task |

Interaction: routerd, gateway and k8s poll dumbarpd's `GET /leases` (k8s and
the gateway with their own staleness rules), routerd may poll the gateway
instead; dumbarpd, routerd and gateway each call RouteManager; packets pass the
programs of a daemon and of the routers in between. All route managers of a host
share one priority and one protocol, so each takes the others' rules for its own.

What is hard here: every netlink request may fail and the process may die
between any two; main and a spawned task run RouteManager passes without a lock;
outages, caches and remembered ids overlap; engine and lease table change under
different locks; blocking commands outlive the task that started them; a
re-attach opens windows in the packet path; dumbarpd starts over the routes of
its predecessor without a purge; a probe may hold a blocking thread for as long
as other hosts send ARP. `PROJECT.json` lists these hazards
with their lines and the properties aimed at them.

## 2. Modules

| module | models | notes |
|---|---|---|
| `RouteManager` | `RouteManager::reconcile` | one action per netlink request; the pass's locals are the record `pass` |
| `Steering` | what a table promises | abstract specification: a table steers by an allowed pair or by nothing, and changes pairs only through nothing |
| `RouterdLifecycle`, `RouterdConfig` | `main` and `spawn` of routerd, `Config::validate`, `Datapath::load` | extends RouteManager and instantiates it again for main's own pass |
| `DaemonRoutes`, `DaemonConfig` | `refresh`, `main`, `current_routes` and `Config::load` of dumbarpd | RouteManager instantiated for the process's pass over the lease table, and again for a rival |
| `LeaseCache`, `DscpIds` | `Cache<T>`; `resolve_ids`, `validate_id` | operators over values, used by `Routerd` |
| `Routerd` | `reconcile_via_daemons`, `sync_ids` | uses RouteManager through what Steering promises |
| `GatewayRouterd` | `reconcile_via_gateway` and the gateway behind it | extends Routerd with the gateway's cache, the gateway's own routes and routerd's cache of its list |
| `Engine`, `Daemon` | engine and which ARP requests it answers; DHCP tasks, lease table, refresher, restart | an engine operation is the set of engines it may leave behind |
| `Advertising` | what `GET /leases` promises | abstract specification: what is advertised only ever changes to what is answered for at that moment, and does not lag for good |
| `Checksum`, `DscpPath` | header rewrites; stamp, steer, terminate | u8/u16/u32 arithmetic kept at its width |
| `K8sReconcile` | the pool reconciler | one action per API request |
| `RouteManagerProofs` | theorems about a pass | alone, beside a pass that only deletes, to the empty list, and over a kernel in any state |
| `RouterdLifecycleProofs`, `DaemonRoutesProofs` | theorems about routerd's whole life, and about dumbarpd's passes | each uses `RouteManagerProofs` twice, once per pass |
| `RouterdProofs`, `GatewayRouterdProofs` | theorems about the rounds | the second extends the first |
| `DaemonProofs`, `DscpPathProofs`, `K8sProofs` | theorems about these modules | `DscpPathProofs` has those about `Checksum` too |
| `MC*` | instances for TLC | constants and, for `daemon_routes`, the initial kernels |

**RouteManager.** `rules` and `routes` are the kernel's, per table; `link` gives
each interface an incarnation, so that an ifindex is a pair of name and
incarnation. `ResolveSpec`, `ListRules`, `ListRoutes`, `VisitTable`, `DelRule`,
`DelRoute`, `AddRule`, `AddRoute`, `Finish` follow `reconcile` line by line.
Every request may fail; refusals that follow from the kernel's state (a rule
that exists, an index that is gone, nothing to delete) are free, other failures
count as events. The kernel side (`Fits`: a delete without a mark fits any mark,
one with a mark fits the exact mask only) is external and follows the requests
the code sends. An fwmask is one of none, exact and narrow, which is all
`matches` can tell apart. Addresses are numbers because `table_id_for` computes.

**RouterdLifecycle.** `phase` is how far `main` has got: the file must validate
and every interface of the classifier exist (`Load`) before anything is purged.
An operator may edit the file between two starts. A ticker with a period of zero
panics, which ends the loop and not the process, so `LoopRuns` asks for a
positive one. Main's pass and the
loop's pass interleave request by request. Returning from `main` drops the
spawned task; `Die` is a kill followed by a restart.

**Routerd.** One action per part that can be observed separately: the round
(fetch results, cache, ids, desired specs), every operation of the two loops of
`sync_ids`, the routes. The loops take their entries in any order (`todo`), since
the keys of a map and of a `HashSet` have none; a removal that fails is passed
over, an insert that fails ends the loop. `heard`, `told`, `roundAt` and `marked`
are history variables that the properties compare the code's memory with:
`marked` has the ids whose entry was written and which no round has settled
without since. `MarksHold`, that all of them are in the map, is what packets see
of the loops while they run. `DscpIds` states the loop of `resolve_ids` in
closed form: names are distinct (config validation), so a candidate depends on
nothing an earlier turn changed, and an id belongs to the first candidate.

**GatewayRouterd.** The round of `reconcile_via_gateway` takes the place of
Routerd's, the rest of the pass is Routerd's own. Only daemons of the list take
part in the settling of ids, where the other mode lists every configured daemon.
The gateway's first round precedes its listening socket. Its steps fall between
routerd's passes, because a pass looks at the gateway once, when it starts. The
gateway's routes are those of its own host (`manage_routes`): `OwnRoutes` is the
list it hands to RouteManager, `GatewayReconcile` the pass as `Steering`
describes it, and `GatewayRestart` leaves the routes and loses the cache.

**DaemonRoutes.** A pass is handed the lease table, in the order of its keys; the
table changes while the pass works from its copy. RouteManager is instantiated
for dumbarpd's pass, for a rival's, and with the table as the goal both are
measured by. The process may end anywhere and be started with another file, also
one that turns routing off or that `Config::load` refuses. A rival reconciler of
the same host interleaves request by request. The kernel at the start is one an
earlier version, another tool or an operator left; `AnyKernel` says what it may
hold at all. `granted`, `calm` and `swept`
are history variables.

**Engine and Daemon.** The failure points of `attach_egress` and `add_interface`
and their rollbacks are sets of resulting engines; an action chooses one. A
removal from a map may fail, which `clear_arp_entry` and `clear_iface_maps`
ignore; the history field `left` has the entries this happened to, and at most
`MaxLeft` of them. `NothingLeaks` therefore says that the maps hold the entries
of the attached interfaces and beyond them only entries whose own removal
failed: every path tries to remove what it should, and none removes another
interface's. `AdvertisedIsAnswered` makes the same exception. A step of `Daemon`
ends where the code awaits, so the lease table lags the engine. `blocking` holds
the `ip neigh replace` commands handed to blocking threads, `orphans` counts the
probes that go on after their task was aborted; from `MaxOrphans` on they are
not told apart. `Restart` takes the eBPF links and maps with the process that
held them (the code pins neither) and keeps the neighbour entries. `Answers` is
`try_arp`'s decision; the reply frame it writes is left out. In `Advertising` an
interface answers for the address it is attached with.

**DscpPath.** A packet carries flow, direction, place, tos and checksum. A
daemon is named by its id. Conntrack and the two nftables rules of
`nix/reconciler-module.nix` are external. Flow keys are (flow, direction) pairs;
a fragment's or a port-less protocol's shorter key is not distinguished.
`Stamp` rewrites the packet also when the insert into `ORIG_DSCP` fails, which
the code ignores: an older record stays. `TerminateFails` has the error exits of
`try_terminate`: the reply passes as it is, with its new tos and the old checksum,
or restored without its record because the ports could not be read.
The properties name what they except, as history variables: `lost`
(flows whose record was evicted or not written), `torn` (replies whose checksum
was not updated) and `bare` (the other daemons' ids a flow has brought along while
its own daemon was re-attaching; it only grows, for a conntrack entry made then
may live on). `OriginalRestored` is about the DSCP: the ECN bits of a reply are
its own.

**K8sReconcile.** Times are ages, counted up to the first value beyond the
staleness window. The deployment runs a single replica with strategy Recreate,
so there is one reconciler. A host that restarts answers with an empty list. A
create that is answered 409 and the touch that follows are two steps (`Ensure`,
`TouchTaken`), and the pool may be gone in between. `steady` and `told` are history
variables: the addresses one host has held since the pass began, and those of
them whose host answered in it, which `HeldPoolSurvives` says are never pruned.

## 3. Runs

| run | question | result |
|---|---|---|
| `route_manager` | do failures, crashes and changed goals ever double a rule, mix two specs or make passes flap; does the pass implement `Steering` | holds, 118,811 states |
| `daemon_routes` | does dumbarpd clear what former processes, operators and rivals left, and bring the kernel to its lease table, with every file it accepts | holds, 453,311 states, but for tables with a narrow-mask rule, which no delete the code sends fits |
| `routerd_lifecycle` | do two concurrent passes keep the tables sound; does a new process start clean and reach its goal, with every file it accepts | holds, 326,940 states |
| `routerd_exit` | does an exit without failures leave no state | **violated**: a periodic pass re-adds what the teardown removed |
| `routerd` | ids, staleness, agreement of map and rules, marks during an update of the map, over rounds, outages, failures and restarts | holds, 880,165 states |
| `gateway` | over two caches in line, how old is a lease that is used, by routerd or for the gateway's own routes; why is a daemon withdrawn | holds, 1,248,467 states: never older than both windows and one period of the gateway (one window and one period for its own routes); withdrawn only after a window of silence or when a restarted gateway has not heard from it |
| `daemon` | do partial failures, re-created interfaces and restarts leak map entries or leave unanswered leases advertised; does the lease table implement `Advertising` | holds, 184,184 states, but for entries whose own removal failed |
| `daemon_neigh` | does the table catch up with the engine, is the pin restored | holds under fairness, 22,680 states; the pin only while probes leave a blocking thread free |
| `daemon_repin` | does the refresh follow a changed gateway MAC | **violated**: probed once |
| `k8s` | early pruning, stale pools, missing pools, pools after restarts and moves | holds, 202,239 states |
| `dscp_path` | checksums, return path, tags, restored DSCP | holds, 2,175,552 states, with the exceptions a failed helper or a record that is gone makes |
| `dscp_original` | is the original DSCP always restored | **violated** for a DSCP equal to the tag |

Each property of a passing run has a mutant: an operator beginning "Seeded
fault" that replaces a definition the way a bug in that code would, under which
TLC finds the property violated.

### Bounds

`MaxEvents`, `MaxFaults` and `MaxGen` bound what goes wrong, not how long the
system runs. Four events let a goal change, a request fail, the process die and
an interface vanish in one behaviour; the proofs of section 5 remove the bound
for the safety properties of RouteManager. Three addresses are chosen so that
`table_id_for` maps two of them to one table. `Routerd` has two daemons (an id
conflict needs two) and a clock of four ticks with a window of two and a period
of one, so both chained windows open and close; with the gateway between, the
last tick is the first at which a lease can be too old. `Daemon` has two
interfaces and `DscpSize` 1, so the second attach meets a full map, and
`MaxLeft` 1, so that one entry stays behind and the attachments after it meet
it. Its `MaxOrphans` is 0 (all numbers of orphaned probes look alike), because
no safety property reads `orphans`; interfaces, addresses and gateways are
interchangeable there. The refresher's runs have `MaxLeft` 0, one interface and
two threads, so that orphaned probes can hold none, one or all of them.
`DaemonRoutes` has two interfaces that may be leased the same address, an
address whose table is moved, a rival with a marked rule for the same address,
files with routing on, off and a period of zero, and three events, which is a
lease, a restart and a failure or a rival's pass in one behaviour.
`RouterdLifecycle` has a sound file and one with a period of zero, and the
interface of the classifier may be missing when a process starts. `DscpPath` has
one flow and a foreign id, two packets under way, client tos values that are
untagged, tagged by chance and tagged with the foreign id, and a header sum at
which the second carry of `csum_replace2` occurs. `K8sReconcile` has two hosts
and two addresses, because an aborted pass hurts the addresses after the one it
failed at; one fault is an aborted pass or a damaged pool, and that an operator
then deletes a pool the reconciler does not list any more is free. `Routerd`,
`GatewayRouterd`, `RouterdLifecycle` and `DaemonRoutes` do not check deadlock:
the clock's bound, the end of the process, and a process that does not manage
routes, are real ends.

### Fairness

RouteManager, routerd: a pass goes on (each netlink request is answered) and the
ticker starts the next; nothing is assumed of outside events, which the bound
ends. routerd is started again when it fails (`Restart=on-failure` in its unit).
Daemon: tasks that are not waiting for an event are scheduled, a command runs
while a blocking thread is free for it, and a command repeated forever succeeds
some time (strong fairness on that alone). No probe is assumed to end: its
timeout starts anew with every frame. DaemonRoutes: the ticker ticks and each
request, also of a rival's pass under way, is answered. K8s: the interval ticks,
requests end by the client's timeout, time passes, and a host asked forever
answers some time.

## 4. Findings

1. `routerd_exit`: teardown races with the loop nobody stops
   (`dumbarp-routerd/src/main.rs` 66-72).
2. `daemon_repin`: the example configuration promises a re-probe; `neigh.rs`
   probes once per lease event.
3. `dscp_original`: nothing is recorded for a packet whose DSCP equals the tag,
   so its reply gets DSCP 0.

## 5. Proofs

`RouteManagerProofs` proves, for all addresses, goals, interfaces, marks and
bounds (`ConstantsAssumption`, which says only that the constants have their
kinds and `None` is none of the values), that `Spec` implies `[]PassInv`, and
from it `[]TypeOK`, `[]OneRulePerTable`, `[]NeverMixed` and `NoFlap`.
`OneRulePerTable` is not inductive: that a rule is added only to an empty table
depends on the deletes having removed what was there, which depends on the
listing being what is there. `PassInv` therefore adds: what the pass works from
was asked for (`AskedFor`); a table not yet visited is as it was listed, except
that its route may have gone with its interface (`ListedIsCurrent`); and the
table under work has no rule and no route once both deletes have succeeded
(`TableUnderWork`). There is one lemma per action for types and one for the
rest. TLC checks `PassInv` in run `route_manager`.

It also shows that `Spec` implements `Steering` under the mapping that
takes a table to its rule and route if it has both, and to nothing otherwise.
Only `AddRoute` makes a table steer; all other steps keep or clear.

`RouterdLifecycleProofs` proves `OneRulePerTable`, `NeverMixed` and `StartsClean`
of `LifeSpec`. `PassInv` does not hold here: the teardown runs beside the
periodic pass, and what that pass has listed may be gone. `SharedInv` is what
is left of it: a listed rule is still there or its table is empty, and nothing
unlisted has come. It is kept by the pass's own steps (`SharedStep`) and by any
step that only takes away (`OthersDelete`); the teardown is such
(`DeletingStep`), since a pass to the empty list resolves nothing. For the
purge, `Emptying` says that a table not yet empty is still to be visited, or in
hand with its rule undeleted; that every rule has the mask `add_rule` gives it
(`RulesAreOwn`) makes the delete fit. `LifeInv` puts these together with what
each phase implies for the two passes. That a shutdown leaves nothing is false
(run `routerd_exit`), and nothing like it is proved.

`RouterdProofs` proves all the invariants and action properties of `Routerd` for
every list of distinct daemons, window and period. `RouterdInv` ties the cache
to what was last heard (`CacheIsHeard`), a hearing to the id it told
(`ToldWhenHeard`), a remembered id to a telling at most a window before it was
renewed (`KnownBacked`), the desired specs to ids and cache (`DesiredFollows`,
`OwnIdsDecide`), the map and the installed rules to both as far as the pass has
got (`PlanesSoFar`), and what a loop has still to visit to the settled ids: the
first is about to remove none of them, the second to insert nothing else
(`LoopsApart`), which is what `MarksHold` rests on. Lemmas say what
`ApplyRound`, `View` and `ResolveIds` return, entry by entry; that `validate_id`
lets no id through twice (`ResolvedDistinct`) is the heart of `IdsUnambiguous`.

`GatewayRouterdProofs` proves `ListedIsRecent`, `OwnRoutesRecent` and
`WithdrawnForCause`. `GwInv` bounds each link of the chain: what the gateway's
cache holds was said less than a window before its last round, that round is no
older than a late period, and routerd's list was true within both when it was
fetched. `IdsUnambiguous` holds in this mode as well: routerd's list gives each
configured daemon at most one place, whatever the gateway said
(`AdvertisedByFacts`), so `ResolvedDistinct` applies (`GwIds`).

`DaemonRoutesProofs` proves `NoLeftovers` of `DrSpec`, which starts from
`AnyKernel`: tables with any number of rules of anybody's making, and any route.
Nothing of `PassInv` holds there. `Clearing` says that a table which is not clear
(neither empty nor a part of a spec of a lease the process has had) is still to be
visited, exactly as listed, or is in hand with precisely the rules of `dels` left.
It is kept because a delete of the first rule takes the first (`DelRulePops`):
that rule fits its own delete, as no mask is narrow, and nothing stands before it.
That is also why the property excepts kernels with such a mask: their delete takes
a later rule. A rule added to the emptied table, and its route, come from one
resolved spec of the list handed over, and that list holds only routes of leases
(`CurrentRoutesFacts`). The rival's steps keep the types (`TypedStep`) and end the
calm. `current_routes` is a recursive function; that the recursion defines one,
and what its values consist of, is shown by the least counterexample (`LeastBad`).

`DaemonProofs` proves the invariants of `Daemon` and that it implements
`Advertising` but for that specification's liveness. `DaemonInv` states the
engine's maps exactly in terms of its attachments and of the removals that
failed (`Exact`; the latter are of incarnations an interface has had,
`LeftInPast`), and what each task knows between its two locks: at "store" the
engine already has the offer, at "drop", "forget" and "forgetOnError" it has
nothing any more, at "wait" both sides agree (`TaskAgrees`). One lemma per
engine operation says what it may leave behind when it stops half way.

`DscpPathProofs` proves `ChecksumsRight`, `RepliesGoHome`, `TagNeverEscapes` and
`OriginalRestored`. `PathInv` says of every packet on the wire that its checksum
is right, unless its update failed, and that a tag on it is its daemon's, or one
it brought along; that no daemon files its own tag; and that what a flow was
last sent with is on file, unless the flow is among the `lost`. Underneath, for
all 16-bit words: two carries suffice for `csum_replace2`, an update keeps a
valid checksum valid, and `tos_with_dscp` keeps the ECN bits.

`K8sProofs` proves `HeldPoolSurvives`: an address that stays with one host is in
that host's answer (`SteadyReported`), hence among the desired ones if that host
answered, and not among those the second loop visits (`SteadyKept`), and a pool
the second loop prunes for its age had that age when it was listed and was not
renewed since (`ListedStaysStale`).

TLC has checked each inductive invariant on the constants of its module's run
(`LifeInv` on 327 thousand states, `DrInv` 453 thousand, `RouterdInv` 880 thousand,
`GwInv` 1.2 million, `DaemonInv` 184 thousand, `PathInv` 2.2 million, `K8sInv` 202
thousand).
The assumptions are the named `ASSUME`s of the modules: kinds of the constants,
the checks the programs make of their configuration, and that `None` and `Failed`,
which stand for Rust's `None` and `Err`, are none of the values they stand beside.

Model-checked only:

- liveness (convergence, healing, pruning, the liveness half of `Advertising`):
  fairness and ENABLED are beyond the prover.

All safety invariants and action properties of the passing runs are proved.

## 6. Plan

1. A proof that the closed form of `resolve_ids` in `DscpIds` is what its loop
   computes, turn by turn.
2. The safety part of the convergence properties: a pass in which no request
   fails and no interface changes ends with every movable table as its list asks.

## 7. Not modelled

- The lease file parser `dhcp-lease-read`: no crate of the workspace calls it, it
  keeps no state, and what it computes is a matter of text.
- Bearer authentication, `/healthz`, JSON and TOML parsing: they change no state.
  An answer or a file is there as a whole or not at all.
- The checks of the gateway's and the k8s reconciler's configuration: both are
  modelled with a file they accept, as the `ASSUME`s of their modules say.
- The frames `try_arp` and the gateway probe write, netlink attribute encoding,
  packet counters.
- A routerd classifier on an interface that is created again after the start: the
  code does not attach it again. To a packet that is the same as an id missing from
  `DSCP_IDS`, which `DscpPath` has; how long it lasts is not modelled.
- A table's second default route. `RouteManager` keeps one route per table, the one
  the code sees: `list_routes` keeps the last it is told of. The kernel could hold
  more, with other metrics, which only another program would install.
- Different settings of the gateway and the routerd behind it: `GatewayRouterd` has
  one window and one period for both, the defaults being the same.
- What the code leaves as it is, and no property excludes: a table with a
  narrow-mask rule is never repaired (`Converges` excepts it); when the attach of a
  renewal fails, the refresher of the former lease goes on until the next event
  (`RefresherServesLease` speaks of leases in force); and while an insert into
  `DSCP_IDS` keeps failing, a new id has its rule and no mark (`PlanesAgree` speaks
  of passes in which nothing failed).
- `neigh_refresh_interval_secs = 0`, which `Config::load` accepts and on which the
  refresher's ticker panics: `Daemon` has a positive period.
- Packaging. The DHCP client (mozim), tokio, aya, the kernel and the Kubernetes
  API server are external; only what the code relies on is stated.
