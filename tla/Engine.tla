------------------------------- MODULE Engine -------------------------------
(***************************************************************************)
(* The Dumbarp engine (dumbarp/src/lib.rs): what add_interface and         *)
(* remove_interface do to the eBPF links and maps, every point of failure  *)
(* and its rollback included, the failures it ignores too.  The engine is  *)
(* a record:                                                               *)
(*   xdp, tc    the devices the two programs are attached to               *)
(*   arp        keys of ARP_TABLE: <<device, ip>>                          *)
(*   dscp, l2   keys of DSCP_ID and L2_LEN: devices                        *)
(*   attached   interface name -> [dev, ip, tc] or None                    *)
(*   left       history: <<map, key>> whose removal failed, until the next *)
(*              insert or removal of the same key                          *)
(* A device is what an ifindex names: an interface and its incarnation.    *)
(***************************************************************************)
EXTENDS FiniteSets, Integers

CONSTANTS
    Ifaces,     \* interface names
    DscpMode,   \* whether dumbarpd_id is set
    ArpSize,    \* max_entries of ARP_TABLE
    DscpSize,   \* max_entries of DSCP_ID and L2_LEN
    MaxLeft,    \* bound: entries a failed removal has left in the maps
    None

NewEngine == [xdp |-> {}, tc |-> {}, arp |-> {}, dscp |-> {}, l2 |-> {},
              attached |-> [i \in Ifaces |-> None],
              left |-> {}]

\* An insert into a map of this size fails when the key is new to a full map.
Full(map, key, size) == key \notin map /\ Cardinality(map) >= size

Insert(e, map, key) ==
    [e EXCEPT ![map] = @ \cup {key}, !.left = @ \ {<<map, key>>}]

\* A removal may fail, which is ignored: the entry, if there is one, stays.
Remove(e, map, key) ==
    {[e EXCEPT ![map] = @ \ {key}, !.left = @ \ {<<map, key>>}]}
    \cup {f \in {[e EXCEPT !.left = @ \cup {<<map, key>>}]} :
             key \in e[map] /\ Cardinality(f.left) <= MaxLeft}

ClearArpEntry(e, key) == Remove(e, "arp", key)

ClearIfaceMaps(e, dev) ==
    UNION {Remove(f, "l2", dev) : f \in Remove(e, "dscp", dev)}

\* Detaching a program may fail; the link is forgotten all the same.
DetachXdp(e, dev) == {e, [e EXCEPT !.xdp = @ \ {dev}]}
DetachTc(e, dev) == {e, [e EXCEPT !.tc = @ \ {dev}]}

\* attach_egress: the engines it may stop with an error in, and whether and
\* with what it may succeed.
EgressFailures(e, dev) ==
    LET withId == Insert(e, "dscp", dev)
        withLen == Insert(withId, "l2", dev)
    IN {e} \cup {f \in {withId} : ~Full(e.dscp, dev, DscpSize)}
           \cup {f \in {withLen} : /\ ~Full(e.dscp, dev, DscpSize)
                                   /\ ~Full(e.l2, dev, DscpSize)}

EgressPossible(e, dev) ==
    ~Full(e.dscp, dev, DscpSize) /\ ~Full(e.l2, dev, DscpSize)

AttachEgress(e, dev) ==
    [Insert(Insert(e, "dscp", dev), "l2", dev) EXCEPT !.tc = @ \cup {dev}]

\* Seeded fault: the ARP entry is left when the egress side fails.
UndoAddNoArp(e, dev, ip) ==
    UNION {DetachXdp(f, dev) : f \in ClearIfaceMaps(e, dev)}

\* The rollback of add_interface after a failed attach_egress.
UndoAdd(e, dev, ip) ==
    UNION {DetachXdp(g, dev) :
             g \in UNION {ClearIfaceMaps(f, dev) :
                             f \in ClearArpEntry(e, <<dev, ip>>)}}

\* The engines add_interface may leave behind with an error: nothing read or
\* attached; the ARP insert refused and XDP detached; attach_egress failed.
AddFailures(e, i, dev, ip) ==
    IF e.attached[i] # None THEN {e}
    ELSE LET withXdp == [e EXCEPT !.xdp = @ \cup {dev}]
             withArp == Insert(withXdp, "arp", <<dev, ip>>)
         IN {e} \cup DetachXdp(withXdp, dev)
                \cup {f \in UNION {UndoAdd(g, dev, ip) :
                                     g \in EgressFailures(withArp, dev)} :
                        DscpMode /\ ~Full(e.arp, <<dev, ip>>, ArpSize)}

AddPossible(e, i, dev, ip) ==
    /\ e.attached[i] = None
    /\ ~Full(e.arp, <<dev, ip>>, ArpSize)
    /\ DscpMode => EgressPossible(e, dev)

\* The engine add_interface leaves when it succeeds.
AddInterface(e, i, dev, ip) ==
    LET withXdp == [e EXCEPT !.xdp = @ \cup {dev}]
        withArp == Insert(withXdp, "arp", <<dev, ip>>)
        withTc == IF DscpMode THEN AttachEgress(withArp, dev) ELSE withArp
    IN [withTc EXCEPT !.attached[i] = [dev |-> dev, ip |-> ip,
                                       tc |-> DscpMode]]

\* The engines remove_interface may leave: the attachment is forgotten and
\* its map entries are cleared by the keys it was made with, whatever the
\* detaches and the removals return.  An interface that is not attached
\* changes nothing.
RemoveInterface(e, i) ==
    IF e.attached[i] = None THEN {e}
    ELSE LET a == e.attached[i]
             forgotten == [e EXCEPT !.attached[i] = None]
             noTc == IF a.tc
                     THEN UNION {ClearIfaceMaps(f, a.dev) :
                                   f \in DetachTc(forgotten, a.dev)}
                     ELSE {forgotten}
             noArp == UNION {ClearArpEntry(f, <<a.dev, a.ip>>) : f \in noTc}
         IN UNION {DetachXdp(f, a.dev) : f \in noArp}

\* Seeded fault: the table is asked for the address alone.
AnswersAnywhere(e, dev, ip) == dev \in e.xdp /\ \E d \in e.xdp : <<d, ip>> \in e.arp

\* try_arp: a request for ip that comes in on a device with the program is
\* answered if the table has that device and address, and passed on otherwise.
Answers(e, dev, ip) == dev \in e.xdp /\ <<dev, ip>> \in e.arp

\* External: a device that goes takes its programs with it, not map entries.
DeviceGone(e, dev) == [e EXCEPT !.xdp = @ \ {dev}, !.tc = @ \ {dev}]
=============================================================================
