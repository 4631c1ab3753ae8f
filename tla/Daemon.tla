------------------------------- MODULE Daemon -------------------------------
(***************************************************************************)
(* dumbarpd: one DHCP task per interface (dhcp.rs), the engine and the     *)
(* lease table it shares behind two separate locks (state.rs), and the     *)
(* task that pins the gateway's neighbour entry (neigh.rs).  A step ends   *)
(* where the code awaits a lock or an event, so the lease table lags the   *)
(* engine.  ARP probes and `ip neigh replace` run on blocking threads:     *)
(* aborting the task that asked for one does not stop it.                  *)
(***************************************************************************)
EXTENDS Integers, FiniteSets

CONSTANTS
    Ifaces, Ips, Gateways, Macs,
    DscpMode,   \* whether dumbarpd_id is set
    ArpSize, DscpSize,
    MaxLeft,    \* bound: entries a failed removal has left in the maps
    MaxGen,     \* bound: incarnations of an interface
    Threads,    \* blocking threads of the runtime
    MaxOrphans, \* bound: from here on orphaned probes are not told apart
    None

VARIABLES
    engine,     \* AppState.engine
    leases,     \* AppState.leases: interface -> [ip, gateway] or None
    pc,         \* where each interface's DHCP task is
    offer,      \* the lease to be recorded, per interface
    neigh,      \* the refresher task neigh_handle names, or None
    blocking,   \* `ip neigh replace` commands not yet run
    orphans,    \* probes still under way whose task was aborted
    pinned,     \* kernel: <<interface, gateway>> -> pinned MAC or None
    gwMac,      \* the gateways' true MACs, None for one that does not answer
    gen         \* incarnation of each interface

jobs == <<blocking, orphans>>
world == <<pinned, gwMac, gen>>
vars == <<engine, leases, pc, offer, neigh, jobs, world>>

E == INSTANCE Engine

Lease == [ip : Ips, gateway : Gateways]
Dev(i) == <<i, gen[i]>>

ASSUME DaemonAssumption ==
    /\ DscpMode \in BOOLEAN
    /\ ArpSize \in Nat /\ DscpSize \in Nat
    /\ MaxGen \in Nat \ {0}
    /\ Threads \in Nat \ {0}
    /\ MaxOrphans \in Nat /\ MaxLeft \in Nat
    /\ None \notin Lease /\ None \notin Macs
    /\ None \notin [dev : Ifaces \X Nat, ip : Ips, tc : BOOLEAN]
    /\ None \notin [gateway : Gateways, mac : Macs \cup {None},
                    pc : {"probe", "pin", "pinning", "tick"}]

Init ==
    /\ engine = E!NewEngine
    /\ leases = [i \in Ifaces |-> None]
    /\ pc = [i \in Ifaces |-> "init"]
    /\ offer = [i \in Ifaces |-> None]
    /\ neigh = [i \in Ifaces |-> None]
    /\ blocking = {}
    /\ orphans = 0
    /\ pinned = [p \in Ifaces \X Gateways |-> None]
    /\ gwMac \in [Gateways -> Macs \cup {None}]
    /\ gen = [i \in Ifaces |-> 1]

-----------------------------------------------------------------------------
(* run_dhcp_for_iface.                                                     *)

\* DhcpV4ClientAsync::init succeeds; a failure is retried after a sleep.
StartClient(i) ==
    /\ pc[i] = "init"
    /\ pc' = [pc EXCEPT ![i] = "wait"]
    /\ UNCHANGED <<engine, leases, offer, neigh, jobs, world>>

\* Seeded fault: the lease is recorded whether or not the attach succeeded.
LeaseEventEither(i, l) ==
    /\ pc[i] = "wait"
    /\ \E e \in E!RemoveInterface(engine, i) :
          \/ /\ E!AddPossible(e, i, Dev(i), l.ip)
             /\ engine' = E!AddInterface(e, i, Dev(i), l.ip)
          \/ engine' \in E!AddFailures(e, i, Dev(i), l.ip)
    /\ pc' = [pc EXCEPT ![i] = "store"]
    /\ offer' = [offer EXCEPT ![i] = l]
    /\ UNCHANGED <<leases, neigh, jobs, world>>

\* A lease with a gateway is acquired or renewed (one without is ignored).
\* Under the engine lock the interface is taken out, whatever that returns,
\* and put in again with the possibly new address.
LeaseEvent(i, l) ==
    /\ pc[i] = "wait"
    /\ \E e \in E!RemoveInterface(engine, i) :
          \/ /\ E!AddPossible(e, i, Dev(i), l.ip)
             /\ engine' = E!AddInterface(e, i, Dev(i), l.ip)
             /\ pc' = [pc EXCEPT ![i] = "store"]
             /\ offer' = [offer EXCEPT ![i] = l]
          \/ /\ engine' \in E!AddFailures(e, i, Dev(i), l.ip)
             /\ pc' = [pc EXCEPT ![i] = "drop"]
             /\ UNCHANGED offer
    /\ UNCHANGED <<leases, neigh, jobs, world>>

\* The refresher is aborted: a probe it has under way goes on without it (it
\* has none while it sleeps between two attempts).
AbortsNeigh(i) ==
    orphans' \in IF neigh[i] = None \/ neigh[i].pc # "probe" THEN {orphans}
                ELSE {orphans} \cup (1..MaxOrphans \cap {orphans + 1})

Refresher(l) == [gateway |-> l.gateway, mac |-> None, pc |-> "probe"]

\* Seeded fault: a refresher that is already there is left running.
StoreLeaseKeepNeigh(i) ==
    /\ pc[i] = "store"
    /\ leases' = [leases EXCEPT ![i] = offer[i]]
    /\ neigh' = [neigh EXCEPT ![i] = IF @ = None THEN Refresher(offer[i])
                                                 ELSE @]
    /\ pc' = [pc EXCEPT ![i] = "wait"]
    /\ offer' = [offer EXCEPT ![i] = None]
    /\ UNCHANGED <<engine, jobs, world>>

\* The attach succeeded: the lease is recorded under its own lock, the old
\* refresher is aborted and a new one spawned.
StoreLease(i) ==
    /\ pc[i] = "store"
    /\ leases' = [leases EXCEPT ![i] = offer[i]]
    /\ neigh' = [neigh EXCEPT ![i] = Refresher(offer[i])]
    /\ AbortsNeigh(i)
    /\ pc' = [pc EXCEPT ![i] = "wait"]
    /\ offer' = [offer EXCEPT ![i] = None]
    /\ UNCHANGED <<engine, blocking, world>>

\* Seeded fault: the old lease stays in the table when the attach fails.
DropLeaseForgotten(i) ==
    /\ pc[i] = "drop"
    /\ pc' = [pc EXCEPT ![i] = "wait"]
    /\ UNCHANGED <<engine, leases, offer, neigh, jobs, world>>

\* It failed: the lease goes; the refresher of the former lease runs on.
DropLease(i) ==
    /\ pc[i] = "drop"
    /\ leases' = [leases EXCEPT ![i] = None]
    /\ pc' = [pc EXCEPT ![i] = "wait"]
    /\ UNCHANGED <<engine, offer, neigh, jobs, world>>

\* detach, first half; the refresher has been aborted unless it is the
\* detach of the error branch, which runs before the loop is left.
Detach(i, from, to, aborts) ==
    /\ pc[i] = from
    /\ engine' \in E!RemoveInterface(engine, i)
    /\ IF aborts THEN neigh' = [neigh EXCEPT ![i] = None] /\ AbortsNeigh(i)
                 ELSE UNCHANGED <<neigh, orphans>>
    /\ pc' = [pc EXCEPT ![i] = to]
    /\ UNCHANGED <<leases, offer, blocking, world>>

\* detach, second half, under the other lock.
Forget(i, from, to) ==
    /\ pc[i] = from
    /\ leases' = [leases EXCEPT ![i] = None]
    /\ pc' = [pc EXCEPT ![i] = to]
    /\ UNCHANGED <<engine, offer, neigh, jobs, world>>

\* The client reports an error: detach and leave the loop.
ErrorEvent(i) == Detach(i, "wait", "forgetOnError", FALSE)
ForgetOnError(i) == Forget(i, "forgetOnError", "close")

\* The client's stream ends, or the loop was left: abort, detach, sleep and
\* start a new client.
StreamEnds(i) == Detach(i, "wait", "forget", TRUE)
Close(i) == Detach(i, "close", "forget", TRUE)
ForgetOnClose(i) == Forget(i, "forget", "init")

-----------------------------------------------------------------------------
(* spawn_probe_and_refresh.                                                *)

\* probe_gateway_mac: the MAC in the gateway's ARP reply, None if none comes.
ProbeGatewayMac(g) == gwMac[g]

\* Seeded fault: a failed probe is not the end of the task.
ProbeFailureIgnored(i) ==
    /\ neigh[i] # None
    /\ neigh[i].pc = "probe"
    /\ \E m \in {ProbeGatewayMac(neigh[i].gateway), None} :
          neigh' = [neigh EXCEPT ![i].mac = m, ![i].pc = "pin"]
    /\ UNCHANGED <<engine, leases, pc, offer, jobs, world>>

\* The probe answers with the gateway's MAC of now; or three attempts fail
\* and the task ends.
Probe(i) ==
    /\ neigh[i] # None
    /\ neigh[i].pc = "probe"
    /\ \/ /\ ProbeGatewayMac(neigh[i].gateway) # None
          /\ neigh' = [neigh EXCEPT
                          ![i].mac = ProbeGatewayMac(neigh[i].gateway),
                          ![i].pc = "pin"]
       \/ neigh' = [neigh EXCEPT ![i] = None]
    /\ UNCHANGED <<engine, leases, pc, offer, jobs, world>>

\* Seeded fault: the entry is pinned once and never again.
PinOnce(i) ==
    /\ neigh[i] # None
    /\ neigh[i].pc = "pin"
    /\ blocking' = blocking \cup {<<i, neigh[i].gateway, neigh[i].mac>>}
    /\ neigh' = [neigh EXCEPT ![i].pc = "pinning"]
    /\ UNCHANGED <<engine, leases, pc, offer, orphans, world>>

\* set_permanent_neigh hands the command to a blocking thread; the tick of
\* the next period does the same with the same MAC.
Pin(i) ==
    /\ neigh[i] # None
    /\ neigh[i].pc \in {"pin", "tick"}
    /\ blocking' = blocking \cup {<<i, neigh[i].gateway, neigh[i].mac>>}
    /\ neigh' = [neigh EXCEPT ![i].pc = "pinning"]
    /\ UNCHANGED <<engine, leases, pc, offer, orphans, world>>

\* The command runs, whether or not the task that asked still waits for it;
\* it may fail, which is logged.
RunIpNeigh(c, ok) ==
    /\ c \in blocking
    /\ blocking' = blocking \ {c}
    /\ pinned' = IF ok THEN [pinned EXCEPT ![<<c[1], c[2]>>] = c[3]] ELSE pinned
    /\ neigh' = IF /\ neigh[c[1]] # None /\ neigh[c[1]].pc = "pinning"
                   /\ neigh[c[1]].gateway = c[2] /\ neigh[c[1]].mac = c[3]
                THEN [neigh EXCEPT ![c[1]].pc = "tick"] ELSE neigh
    /\ UNCHANGED <<engine, leases, pc, offer, orphans, gwMac, gen>>

\* An orphaned probe gets its answer or times out.  Its timeout starts anew
\* with every ARP frame of other hosts, so this need never happen.
OrphanEnds ==
    /\ orphans > 0
    /\ orphans' = orphans - 1
    /\ UNCHANGED <<engine, leases, pc, offer, neigh, blocking, world>>

-----------------------------------------------------------------------------
(* The network and the process.                                            *)

\* A gateway is replaced, goes away or comes back.
GatewayReplaced(g, m) ==
    /\ gwMac[g] # m
    /\ gwMac' = [gwMac EXCEPT ![g] = m]
    /\ UNCHANGED <<engine, leases, pc, offer, neigh, jobs, pinned, gen>>

\* An interface is deleted and created again under a new index.
Recreated(i) ==
    /\ gen[i] < MaxGen
    /\ gen' = [gen EXCEPT ![i] = @ + 1]
    /\ engine' = E!DeviceGone(engine, Dev(i))
    /\ UNCHANGED <<leases, pc, offer, neigh, jobs, pinned, gwMac>>

\* dumbarpd ends, by a signal or a crash, and is started again.  Links and
\* maps go with the process that held them (a command may have run before);
\* what it pinned stays.
Restart ==
    /\ engine' = E!NewEngine
    /\ leases' = [i \in Ifaces |-> None]
    /\ pc' = [i \in Ifaces |-> "init"]
    /\ offer' = [i \in Ifaces |-> None]
    /\ neigh' = [i \in Ifaces |-> None]
    /\ blocking' = {} /\ orphans' = 0
    /\ UNCHANGED world

DhcpStep(i) ==
    \/ StartClient(i)
    \/ StoreLease(i) \/ DropLease(i)
    \/ ForgetOnError(i) \/ Close(i) \/ ForgetOnClose(i)

Next ==
    \/ \E i \in Ifaces : \/ DhcpStep(i)
                         \/ \E l \in Lease : LeaseEvent(i, l)
                         \/ ErrorEvent(i) \/ StreamEnds(i)
                         \/ Probe(i) \/ Pin(i)
                         \/ Recreated(i)
    \/ \E c \in blocking, ok \in BOOLEAN : RunIpNeigh(c, ok)
    \/ OrphanEnds
    \/ Restart
    \/ \E g \in Gateways, m \in Macs \cup {None} : GatewayReplaced(g, m)

Spec == Init /\ [][Next]_vars

Commands == Ifaces \X Gateways \X Macs

\* A command of the interface runs; the command its refresher keeps giving
\* runs and succeeds.
RunsFor(i) ==
    \E c \in blocking, ok \in BOOLEAN : c[1] = i /\ RunIpNeigh(c, ok)
OwnPinSucceeds(i) ==
    /\ neigh[i] # None
    /\ RunIpNeigh(<<i, neigh[i].gateway, neigh[i].mac>>, TRUE)

\* The blocking threads are not all held by probes.
FreeThread ==
    orphans + Cardinality({i \in Ifaces : neigh[i] # None
                                          /\ neigh[i].pc = "probe"}) < Threads

\* A task that is not waiting for an event is scheduled, a lock held for a
\* bounded time is eventually acquired, a command gets a thread while there is
\* one, and a command that is tried again and again succeeds some time.  No
\* probe is taken to end.
FairSpec ==
    /\ Spec
    /\ \A i \in Ifaces : /\ WF_vars(DhcpStep(i))
                         /\ WF_vars(Pin(i))
                         /\ WF_vars(FreeThread /\ RunsFor(i))
                         /\ SF_vars(FreeThread /\ OwnPinSucceeds(i))

-----------------------------------------------------------------------------
(* Properties.                                                             *)

Steps == {"init", "wait", "store", "drop", "forgetOnError", "close", "forget"}

\* The variables have their types; in particular no command pins an unknown
\* MAC, which neigh.rs avoids by ending the task whose probe failed.
TypeOK ==
    /\ leases \in [Ifaces -> Lease \cup {None}]
    /\ offer \in [Ifaces -> Lease \cup {None}]
    /\ pc \in [Ifaces -> Steps]
    /\ blocking \subseteq Commands
    /\ orphans \in 0..MaxOrphans
    /\ pinned \in [Ifaces \X Gateways -> Macs \cup {None}]
    /\ Cardinality(engine.arp) <= ArpSize
    /\ Cardinality(engine.dscp) <= DscpSize
    /\ Cardinality(engine.l2) <= DscpSize

Attached == {i \in Ifaces : engine.attached[i] # None}

\* However an attach or a detach fails half way, and even if the interface
\* was created again in between, the maps hold the entries of the interfaces
\* the engine counts as attached, and beyond them only entries whose removal
\* was tried and failed the last time (clear_arp_entry, clear_iface_maps
\* ignore that): no path of the code forgets to take an entry out, and none
\* takes out the entry of another interface.
NothingLeaks ==
    LET devs == IF DscpMode THEN {engine.attached[i].dev : i \in Attached}
                            ELSE {}
        keys == {<<engine.attached[i].dev, engine.attached[i].ip>> :
                    i \in Attached}
        Holds(map, own) ==
            /\ own \subseteq engine[map]
            /\ \A k \in engine[map] \ own : <<map, k>> \in engine.left
    IN Holds("arp", keys) /\ Holds("dscp", devs) /\ Holds("l2", devs)

\* GET /leases (current_ips), by interface.
Advertised(i) == {l.ip : l \in {leases[i]} \ {None}}

Answered(i) == {ip \in Ips : E!Answers(engine, Dev(i), ip)}

\* The addresses whose entry for the interface could not be removed.
LeftIps(i) == {ip \in Ips : <<"arp", <<Dev(i), ip>>>> \in engine.left}

\* Whenever an interface's DHCP task waits for an event, an ARP request on
\* that interface is answered for the address GET /leases names, in DSCP mode
\* with the egress side in place, and for no other unless the removal of its
\* entry failed; if the interface was created again since the lease came,
\* nothing at all is answered on it (dhcp.rs 44-62, try_arp).
AdvertisedIsAnswered ==
    \A i \in Ifaces :
        pc[i] \in {"wait", "init"} =>
            IF i \in Attached /\ engine.attached[i].dev # Dev(i)
            THEN Answered(i) = {}
            ELSE /\ Advertised(i) \subseteq Answered(i)
                 /\ Answered(i) \subseteq Advertised(i) \cup LeftIps(i)
                 /\ (DscpMode /\ i \in Attached) => Dev(i) \in engine.tc

\* Between events the refresher pins the gateway of the lease in force, never
\* one of an earlier lease, and none runs without a DHCP client.
RefresherServesLease ==
    \A i \in Ifaces :
        neigh[i] # None =>
            /\ pc[i] # "init"
            /\ (pc[i] = "wait" /\ leases[i] # None) =>
                   neigh[i].gateway = leases[i].gateway

AttachedIp(i) == IF i \in Attached THEN engine.attached[i].ip ELSE None
LeasedIp(i) == IF leases[i] = None THEN None ELSE leases[i].ip

Promise == INSTANCE Advertising WITH
               answered <- [i \in Ifaces |-> AttachedIp(i)],
               advertised <- [i \in Ifaces |-> LeasedIp(i)]

\* The lease table, changed under a lock of its own after the engine was,
\* implements the abstract promise: it never comes to name an address that
\* the engine does not hold at that moment.
ImplementsAdvertising == Promise!Spec

\* Nor does the table lag for good: what the engine holds is published, and
\* what it has given up is withdrawn.
EventuallyAdvertised == Promise!FairSpec

Pinning(i) == neigh[i] # None /\ neigh[i].mac # None

\* A refresher's entry is in the kernel again and again, although a command
\* may fail, a command of an aborted refresher may still overwrite it, and
\* probes that other hosts' ARP traffic keeps from timing out hold their
\* threads: as long as they leave one free.
PinHeals ==
    \A i \in Ifaces :
        []<>(\/ Pinning(i) => pinned[<<i, neigh[i].gateway>>] = neigh[i].mac
             \/ ~FreeThread)

\* The entry of a lease in force follows the gateway: after the gateway's MAC
\* has changed, the periodic refresh pins the new one.
PinTracksGateway ==
    \A i \in Ifaces :
        []<>((leases[i] # None /\ Pinning(i)) =>
                gwMac[neigh[i].gateway] \in {None, pinned[<<i, neigh[i].gateway>>]})
=============================================================================
