---------------------------- MODULE DaemonProofs ----------------------------
(***************************************************************************)
(* Proofs about Daemon and the Engine it uses, for every set of            *)
(* interfaces, addresses and gateways and every map size: what holds after *)
(* an attach or a detach fails half way, and that the lease table          *)
(* implements Advertising.                                                 *)
(***************************************************************************)
EXTENDS Daemon, FiniteSetTheorems, TLAPS

-----------------------------------------------------------------------------
(* The inductive invariant.                                                *)

Devices == Ifaces \X (1..MaxGen)

Attachment == [dev : Devices, ip : Ips, tc : {DscpMode}]

\* The entries of the three maps, as engine.left names them.
Entries == ({"arp"} \X (Devices \X Ips)) \cup ({"dscp", "l2"} \X Devices)

Engines == [xdp : SUBSET Devices, tc : SUBSET Devices,
            arp : SUBSET (Devices \X Ips),
            dscp : SUBSET Devices, l2 : SUBSET Devices,
            attached : [Ifaces -> Attachment \cup {None}],
            left : SUBSET Entries]

\* The maps are finite and within their sizes.
Fits(e) ==
    /\ IsFiniteSet(e.arp) /\ Cardinality(e.arp) <= ArpSize
    /\ IsFiniteSet(e.dscp) /\ Cardinality(e.dscp) <= DscpSize
    /\ IsFiniteSet(e.l2) /\ Cardinality(e.l2) <= DscpSize

\* A map holds the given keys, and beyond them only what a failed removal
\* left.
Holds(map, left, name, own) ==
    /\ own \subseteq map
    /\ \A k \in map \ own : <<name, k>> \in left

Owns(e, keys, ids, lens) ==
    /\ Holds(e.arp, e.left, "arp", keys)
    /\ Holds(e.dscp, e.left, "dscp", ids)
    /\ Holds(e.l2, e.left, "l2", lens)

On(e) == {i \in Ifaces : e.attached[i] # None}
OwnKeys(e) == {<<e.attached[i].dev, e.attached[i].ip>> : i \in On(e)}
OwnDevs(e) == IF DscpMode THEN {e.attached[i].dev : i \in On(e)} ELSE {}

\* The maps hold the entries of the attachments, and beyond them leftovers.
Exact(e) == Owns(e, OwnKeys(e), OwnDevs(e), OwnDevs(e))

\* An attachment is to an incarnation the interface has or had, and to one it
\* still has only with the programs in place.
InPlace(e) ==
    \A i \in Ifaces : e.attached[i] # None =>
        /\ e.attached[i].dev[1] = i
        /\ e.attached[i].dev[2] <= gen[i]
        /\ e.attached[i].dev = Dev(i) =>
              /\ Dev(i) \in e.xdp
              /\ DscpMode => Dev(i) \in e.tc

\* A leftover of ARP_TABLE names an incarnation the interface has or had; the
\* one it has, only if the interface was attached no earlier than that.
LeftInPast(e) ==
    /\ \A i \in Ifaces, n \in 1..MaxGen, ip \in Ips :
          <<"arp", <<<<i, n>>, ip>>>> \in e.left => n <= gen[i]
    /\ \A i \in Ifaces, ip \in Ips :
          (e.attached[i] # None /\ e.attached[i].dev # Dev(i)) =>
              <<"arp", <<Dev(i), ip>>>> \notin e.left

EngineOK(e) ==
    e \in Engines /\ Fits(e) /\ Exact(e) /\ InPlace(e) /\ LeftInPast(e)

Refreshers == [gateway : Gateways, mac : Macs \cup {None},
               pc : {"probe", "pin", "pinning", "tick"}]

\* The variables TypeOK leaves out; a refresher past its probe has a MAC.
MoreTypes ==
    /\ neigh \in [Ifaces -> Refreshers \cup {None}]
    /\ \A i \in Ifaces : (neigh[i] # None /\ neigh[i].pc # "probe") =>
                             neigh[i].mac \in Macs
    /\ gwMac \in [Gateways -> Macs \cup {None}]
    /\ gen \in [Ifaces -> 1..MaxGen]

\* What a task knows where it is between its two locks: the engine's side and
\* the table's side of the same lease.
TaskAgrees(i) ==
    /\ pc[i] = "store" =>
          /\ offer[i] # None /\ engine.attached[i] # None
          /\ engine.attached[i].ip = offer[i].ip
    /\ pc[i] = "wait" =>
          /\ (leases[i] = None) <=> (engine.attached[i] = None)
          /\ leases[i] # None => leases[i].ip = engine.attached[i].ip
    /\ pc[i] \in {"init", "drop", "forgetOnError", "close", "forget"} =>
          engine.attached[i] = None
    /\ pc[i] \in {"init", "close"} => leases[i] = None
    /\ pc[i] \in {"init", "forget"} => neigh[i] = None
    /\ (pc[i] = "wait" /\ leases[i] # None /\ neigh[i] # None) =>
          neigh[i].gateway = leases[i].gateway

TasksAgree == \A i \in Ifaces : TaskAgrees(i)

TableTypes ==
    /\ leases \in [Ifaces -> Lease \cup {None}]
    /\ offer \in [Ifaces -> Lease \cup {None}]
    /\ pc \in [Ifaces -> Steps]
    /\ blocking \subseteq Commands
    /\ orphans \in 0..MaxOrphans
    /\ pinned \in [Ifaces \X Gateways -> Macs \cup {None}]

DaemonInv == TableTypes /\ MoreTypes /\ EngineOK(engine) /\ TasksAgree

-----------------------------------------------------------------------------
(* The engine's operations.                                                *)

\* A record of the engine's fields is an engine, and an engine is the record
\* of its fields.
LEMMA EngineRecord ==
    ASSUME NEW xdp \in SUBSET Devices, NEW tc \in SUBSET Devices,
           NEW arp \in SUBSET (Devices \X Ips),
           NEW dscp \in SUBSET Devices, NEW l2 \in SUBSET Devices,
           NEW att \in [Ifaces -> Attachment \cup {None}],
           NEW left \in SUBSET Entries
    PROVE  [xdp |-> xdp, tc |-> tc, arp |-> arp, dscp |-> dscp, l2 |-> l2,
            attached |-> att, left |-> left] \in Engines
  BY DEF Engines

LEMMA EngineFields ==
    ASSUME NEW e \in Engines
    PROVE  /\ e.xdp \in SUBSET Devices /\ e.tc \in SUBSET Devices
           /\ e.arp \in SUBSET (Devices \X Ips)
           /\ e.dscp \in SUBSET Devices /\ e.l2 \in SUBSET Devices
           /\ e.attached \in [Ifaces -> Attachment \cup {None}]
           /\ e.left \in SUBSET Entries
           /\ e = [xdp |-> e.xdp, tc |-> e.tc, arp |-> e.arp, dscp |-> e.dscp,
                   l2 |-> e.l2, attached |-> e.attached, left |-> e.left]
  BY DEF Engines

\* A removal of one key from a map, which may fail and be ignored.
Removed(map, left, name, key, map2, left2) ==
    \/ map2 = map \ {key} /\ left2 = left \ {<<name, key>>}
    \/ key \in map /\ map2 = map /\ left2 = left \cup {<<name, key>>}

LEMMA HoldsRemoved ==
    ASSUME NEW map, NEW left, NEW name, NEW own, NEW key, NEW map2, NEW left2,
           Holds(map, left, name, own),
           Removed(map, left, name, key, map2, left2)
    PROVE  Holds(map2, left2, name, own \ {key}) /\ map2 \subseteq map
  BY DEF Holds, Removed

\* An insert, after which the key does not count as left.
Inserted(map, left, name, key, map2, left2) ==
    map2 = map \cup {key} /\ left2 = left \ {<<name, key>>}

LEMMA HoldsInserted ==
    ASSUME NEW map, NEW left, NEW name, NEW own, NEW key, NEW map2, NEW left2,
           Holds(map, left, name, own),
           Inserted(map, left, name, key, map2, left2)
    PROVE  Holds(map2, left2, name, own \cup {key})
  BY DEF Holds, Inserted

\* Neither is seen in another map.
LEMMA HoldsElsewhere ==
    ASSUME NEW map, NEW left, NEW name, NEW own, Holds(map, left, name, own),
           NEW other, other # name, NEW key, NEW left2,
           \/ left2 = left \ {<<other, key>>}
           \/ left2 = left \cup {<<other, key>>}
    PROVE  Holds(map, left2, name, own)
  BY DEF Holds

\* Only the maps and what is left in them changed.
Frame(e, f) ==
    /\ f \in Engines
    /\ f.xdp = e.xdp /\ f.tc = e.tc /\ f.attached = e.attached

LEMMA RemoveArp ==
    ASSUME NEW e \in Engines, NEW key \in Devices \X Ips,
           NEW f \in E!Remove(e, "arp", key)
    PROVE  /\ Frame(e, f) /\ f.dscp = e.dscp /\ f.l2 = e.l2
           /\ Removed(e.arp, e.left, "arp", key, f.arp, f.left)
<1>0. e = [xdp |-> e.xdp, tc |-> e.tc, arp |-> e.arp, dscp |-> e.dscp,
          l2 |-> e.l2, attached |-> e.attached, left |-> e.left]
  BY EngineFields
<1>1. CASE f = [e EXCEPT !["arp"] = @ \ {key}, !.left = @ \ {<<"arp", key>>}]
  <2>1. f = [xdp |-> e.xdp, tc |-> e.tc, arp |-> e.arp \ {key},
             dscp |-> e.dscp, l2 |-> e.l2, attached |-> e.attached,
             left |-> e.left \ {<<"arp", key>>}]
    BY <1>0, <1>1
  <2>2. /\ e.arp \ {key} \in SUBSET (Devices \X Ips)
        /\ e.left \ {<<"arp", key>>} \in SUBSET Entries
    BY EngineFields
  <2>3. f \in Engines
    BY <2>1, <2>2, EngineFields, EngineRecord
  <2> QED BY <2>1, <2>3 DEF Frame, Removed
<1>2. CASE key \in e.arp /\ f = [e EXCEPT !.left = @ \cup {<<"arp", key>>}]
  <2>1. f = [xdp |-> e.xdp, tc |-> e.tc, arp |-> e.arp, dscp |-> e.dscp,
             l2 |-> e.l2, attached |-> e.attached,
             left |-> e.left \cup {<<"arp", key>>}]
    BY <1>0, <1>2
  <2>2. e.left \cup {<<"arp", key>>} \in SUBSET Entries
    BY EngineFields DEF Entries
  <2>3. f \in Engines
    BY <2>1, <2>2, EngineFields, EngineRecord
  <2> QED BY <1>2, <2>1, <2>3 DEF Frame, Removed
<1>3. key \in e["arp"] => key \in e.arp
  OBVIOUS
<1> QED BY <1>1, <1>2, <1>3 DEF E!Remove

LEMMA RemoveDscp ==
    ASSUME NEW e \in Engines, NEW key \in Devices,
           NEW f \in E!Remove(e, "dscp", key)
    PROVE  /\ Frame(e, f) /\ f.arp = e.arp /\ f.l2 = e.l2
           /\ Removed(e.dscp, e.left, "dscp", key, f.dscp, f.left)
<1>0. e = [xdp |-> e.xdp, tc |-> e.tc, arp |-> e.arp, dscp |-> e.dscp,
          l2 |-> e.l2, attached |-> e.attached, left |-> e.left]
  BY EngineFields
<1>1. CASE f = [e EXCEPT !["dscp"] = @ \ {key}, !.left = @ \ {<<"dscp", key>>}]
  <2>1. f = [xdp |-> e.xdp, tc |-> e.tc, arp |-> e.arp,
             dscp |-> e.dscp \ {key}, l2 |-> e.l2, attached |-> e.attached,
             left |-> e.left \ {<<"dscp", key>>}]
    BY <1>0, <1>1
  <2>2. /\ e.dscp \ {key} \in SUBSET Devices
        /\ e.left \ {<<"dscp", key>>} \in SUBSET Entries
    BY EngineFields
  <2>3. f \in Engines
    BY <2>1, <2>2, EngineFields, EngineRecord
  <2> QED BY <2>1, <2>3 DEF Frame, Removed
<1>2. CASE key \in e.dscp /\ f = [e EXCEPT !.left = @ \cup {<<"dscp", key>>}]
  <2>1. f = [xdp |-> e.xdp, tc |-> e.tc, arp |-> e.arp, dscp |-> e.dscp,
             l2 |-> e.l2, attached |-> e.attached,
             left |-> e.left \cup {<<"dscp", key>>}]
    BY <1>0, <1>2
  <2>2. e.left \cup {<<"dscp", key>>} \in SUBSET Entries
    BY EngineFields DEF Entries
  <2>3. f \in Engines
    BY <2>1, <2>2, EngineFields, EngineRecord
  <2> QED BY <1>2, <2>1, <2>3 DEF Frame, Removed
<1>3. key \in e["dscp"] => key \in e.dscp
  OBVIOUS
<1> QED BY <1>1, <1>2, <1>3 DEF E!Remove

LEMMA RemoveL2 ==
    ASSUME NEW e \in Engines, NEW key \in Devices,
           NEW f \in E!Remove(e, "l2", key)
    PROVE  /\ Frame(e, f) /\ f.arp = e.arp /\ f.dscp = e.dscp
           /\ Removed(e.l2, e.left, "l2", key, f.l2, f.left)
<1>0. e = [xdp |-> e.xdp, tc |-> e.tc, arp |-> e.arp, dscp |-> e.dscp,
          l2 |-> e.l2, attached |-> e.attached, left |-> e.left]
  BY EngineFields
<1>1. CASE f = [e EXCEPT !["l2"] = @ \ {key}, !.left = @ \ {<<"l2", key>>}]
  <2>1. f = [xdp |-> e.xdp, tc |-> e.tc, arp |-> e.arp,
             dscp |-> e.dscp, l2 |-> e.l2 \ {key}, attached |-> e.attached,
             left |-> e.left \ {<<"l2", key>>}]
    BY <1>0, <1>1
  <2>2. /\ e.l2 \ {key} \in SUBSET Devices
        /\ e.left \ {<<"l2", key>>} \in SUBSET Entries
    BY EngineFields
  <2>3. f \in Engines
    BY <2>1, <2>2, EngineFields, EngineRecord
  <2> QED BY <2>1, <2>3 DEF Frame, Removed
<1>2. CASE key \in e.l2 /\ f = [e EXCEPT !.left = @ \cup {<<"l2", key>>}]
  <2>1. f = [xdp |-> e.xdp, tc |-> e.tc, arp |-> e.arp, dscp |-> e.dscp,
             l2 |-> e.l2, attached |-> e.attached,
             left |-> e.left \cup {<<"l2", key>>}]
    BY <1>0, <1>2
  <2>2. e.left \cup {<<"l2", key>>} \in SUBSET Entries
    BY EngineFields DEF Entries
  <2>3. f \in Engines
    BY <2>1, <2>2, EngineFields, EngineRecord
  <2> QED BY <1>2, <2>1, <2>3 DEF Frame, Removed
<1>3. key \in e["l2"] => key \in e.l2
  OBVIOUS
<1> QED BY <1>1, <1>2, <1>3 DEF E!Remove

\* No map grows.
Shrinks(e, f) ==
    f.arp \subseteq e.arp /\ f.dscp \subseteq e.dscp /\ f.l2 \subseteq e.l2

\* No ARP entry is left behind that was not, except for one of these keys.
LeavesOnly(e, f, keys) ==
    \A k \in (Devices \X Ips) \ keys :
        <<"arp", k>> \in f.left => <<"arp", k>> \in e.left

LEMMA ClearArpShape ==
    ASSUME NEW e \in Engines, NEW key \in Devices \X Ips,
           NEW f \in E!ClearArpEntry(e, key),
           NEW keys, NEW ids, NEW lens, Owns(e, keys, ids, lens)
    PROVE  /\ Frame(e, f) /\ Shrinks(e, f) /\ LeavesOnly(e, f, {key})
           /\ Owns(f, keys \ {key}, ids, lens)
<1>1. /\ Frame(e, f) /\ f.dscp = e.dscp /\ f.l2 = e.l2
      /\ Removed(e.arp, e.left, "arp", key, f.arp, f.left)
  BY RemoveArp DEF E!ClearArpEntry
<1>2. Holds(f.arp, f.left, "arp", keys \ {key}) /\ f.arp \subseteq e.arp
  BY <1>1, HoldsRemoved DEF Owns
<1>3. f.left = e.left \ {<<"arp", key>>} \/ f.left = e.left \cup {<<"arp", key>>}
  BY <1>1 DEF Removed
<1>4. Holds(f.dscp, f.left, "dscp", ids) /\ Holds(f.l2, f.left, "l2", lens)
  BY <1>1, <1>3, HoldsElsewhere DEF Owns
<1>5. LeavesOnly(e, f, {key})
  BY <1>3 DEF LeavesOnly
<1> QED BY <1>1, <1>2, <1>4, <1>5 DEF Owns, Shrinks

LEMMA ClearIfaceShape ==
    ASSUME NEW e \in Engines, NEW dev \in Devices,
           NEW f \in E!ClearIfaceMaps(e, dev),
           NEW keys, NEW ids, NEW lens, Owns(e, keys, ids, lens)
    PROVE  /\ Frame(e, f) /\ Shrinks(e, f) /\ LeavesOnly(e, f, {})
           /\ Owns(f, keys, ids \ {dev}, lens \ {dev})
<1>1. PICK g \in E!Remove(e, "dscp", dev) : f \in E!Remove(g, "l2", dev)
  BY DEF E!ClearIfaceMaps
<1>2. /\ Frame(e, g) /\ g.arp = e.arp /\ g.l2 = e.l2
      /\ Removed(e.dscp, e.left, "dscp", dev, g.dscp, g.left)
  BY RemoveDscp
<1>3. g \in Engines
  BY <1>2 DEF Frame
<1>4. /\ Frame(g, f) /\ f.arp = g.arp /\ f.dscp = g.dscp
      /\ Removed(g.l2, g.left, "l2", dev, f.l2, f.left)
  BY <1>1, <1>3, RemoveL2
<1>5. g.left = e.left \ {<<"dscp", dev>>} \/ g.left = e.left \cup {<<"dscp", dev>>}
  BY <1>2 DEF Removed
<1>6. f.left = g.left \ {<<"l2", dev>>} \/ f.left = g.left \cup {<<"l2", dev>>}
  BY <1>4 DEF Removed
<1>7. /\ Holds(g.arp, g.left, "arp", keys) /\ Holds(g.l2, g.left, "l2", lens)
      /\ Holds(g.dscp, g.left, "dscp", ids \ {dev}) /\ g.dscp \subseteq e.dscp
  <2>1. Holds(g.dscp, g.left, "dscp", ids \ {dev}) /\ g.dscp \subseteq e.dscp
    BY <1>2, HoldsRemoved DEF Owns
  <2> QED BY <1>2, <1>5, <2>1, HoldsElsewhere DEF Owns
<1>8. /\ Holds(f.arp, f.left, "arp", keys)
      /\ Holds(f.dscp, f.left, "dscp", ids \ {dev})
      /\ Holds(f.l2, f.left, "l2", lens \ {dev}) /\ f.l2 \subseteq g.l2
  <2>1. Holds(f.l2, f.left, "l2", lens \ {dev}) /\ f.l2 \subseteq g.l2
    BY <1>4, <1>7, HoldsRemoved
  <2> QED BY <1>4, <1>6, <1>7, <2>1, HoldsElsewhere
<1>9. LeavesOnly(e, f, {})
  BY <1>5, <1>6 DEF LeavesOnly
<1> QED BY <1>2, <1>4, <1>7, <1>8, <1>9 DEF Frame, Owns, Shrinks

\* A detach of XDP, or of the classifier, changes only that.
DetachesXdp(e, f, dev) ==
    /\ f \in Engines /\ f.xdp \in {e.xdp, e.xdp \ {dev}} /\ f.tc = e.tc
    /\ f.arp = e.arp /\ f.dscp = e.dscp /\ f.l2 = e.l2 /\ f.left = e.left
    /\ f.attached = e.attached

LEMMA DetachXdpShape ==
    ASSUME NEW e \in Engines, NEW dev, NEW f \in E!DetachXdp(e, dev)
    PROVE  DetachesXdp(e, f, dev)
<1>1. CASE f = e
  BY <1>1 DEF DetachesXdp
<1>2. CASE f = [e EXCEPT !.xdp = @ \ {dev}]
  <2>1. f = [xdp |-> e.xdp \ {dev}, tc |-> e.tc, arp |-> e.arp,
             dscp |-> e.dscp, l2 |-> e.l2, attached |-> e.attached,
             left |-> e.left]
    <3>1. e = [xdp |-> e.xdp, tc |-> e.tc, arp |-> e.arp, dscp |-> e.dscp,
               l2 |-> e.l2, attached |-> e.attached, left |-> e.left]
      BY EngineFields
    <3> QED BY <1>2, <3>1
  <2>2. e.xdp \ {dev} \in SUBSET Devices
    BY EngineFields
  <2>3. f \in Engines
    BY <2>1, <2>2, EngineFields, EngineRecord
  <2> QED BY <2>1, <2>3 DEF DetachesXdp
<1> QED BY <1>1, <1>2 DEF E!DetachXdp

\* The engine with the attachment of i forgotten, and the classifier perhaps
\* detached from its device.
LEMMA ForgottenShape ==
    ASSUME NEW e \in Engines, NEW i \in Ifaces, NEW dev,
           NEW g, g = [e EXCEPT !.attached[i] = None],
           NEW f \in {g} \cup E!DetachTc(g, dev)
    PROVE  /\ f \in Engines /\ f.xdp = e.xdp /\ f.tc \in {e.tc, e.tc \ {dev}}
           /\ f.arp = e.arp /\ f.dscp = e.dscp /\ f.l2 = e.l2
           /\ f.left = e.left
           /\ f.attached = [e.attached EXCEPT ![i] = None]
<1> DEFINE att == [e.attached EXCEPT ![i] = None]
<1>1. att \in [Ifaces -> Attachment \cup {None}]
  BY EngineFields
<1>2. g = [xdp |-> e.xdp, tc |-> e.tc, arp |-> e.arp, dscp |-> e.dscp,
           l2 |-> e.l2, attached |-> att, left |-> e.left]
  <2>1. e = [xdp |-> e.xdp, tc |-> e.tc, arp |-> e.arp, dscp |-> e.dscp,
             l2 |-> e.l2, attached |-> e.attached, left |-> e.left]
    BY EngineFields
  <2> QED BY <2>1
<1> HIDE DEF att
<1>3. PICK t \in {e.tc, e.tc \ {dev}} :
         f = [xdp |-> e.xdp, tc |-> t, arp |-> e.arp, dscp |-> e.dscp,
              l2 |-> e.l2, attached |-> att, left |-> e.left]
  <2>1. CASE f = g
    BY <1>2, <2>1
  <2>2. CASE f = [g EXCEPT !.tc = @ \ {dev}]
    <3>1. f = [xdp |-> e.xdp, tc |-> e.tc \ {dev}, arp |-> e.arp,
               dscp |-> e.dscp, l2 |-> e.l2, attached |-> att, left |-> e.left]
      BY <1>2, <2>2
    <3> QED BY <3>1
  <2> QED BY <2>1, <2>2 DEF E!DetachTc
<1>4. t \in SUBSET Devices
  BY <1>3, EngineFields
<1>5. f \in Engines
  BY <1>1, <1>3, <1>4, EngineFields, EngineRecord
<1> QED BY <1>3, <1>5 DEF att

\* What remove_interface leaves of an attached interface: its map entries and
\* the attachment are gone, or the entries are left; the programs may stay.
LEMMA RemoveShape ==
    ASSUME NEW e \in Engines, NEW i \in Ifaces, e.attached[i] # None,
           Exact(e), NEW f \in E!RemoveInterface(e, i),
           NEW a, a = e.attached[i]
    PROVE  /\ f \in Engines
           /\ f.attached = [e.attached EXCEPT ![i] = None]
           /\ f.xdp \in {e.xdp, e.xdp \ {a.dev}}
           /\ f.tc \in {e.tc, e.tc \ {a.dev}}
           /\ Shrinks(e, f) /\ LeavesOnly(e, f, {<<a.dev, a.ip>>})
           /\ Owns(f, OwnKeys(e) \ {<<a.dev, a.ip>>},
                      OwnDevs(e) \ {a.dev}, OwnDevs(e) \ {a.dev})
<1>1. /\ a \in Attachment /\ a.tc = DscpMode /\ DscpMode \in BOOLEAN
      /\ a.dev \in Devices /\ <<a.dev, a.ip>> \in Devices \X Ips
  BY EngineFields, DaemonAssumption DEF Attachment
<1> DEFINE ids == OwnDevs(e) \ {a.dev}
<1>2. PICK forgotten : forgotten = [e EXCEPT !.attached[i] = None]
  OBVIOUS
<1>3. PICK h, g :
         /\ \/ /\ DscpMode
               /\ \E d \in E!DetachTc(forgotten, a.dev) :
                     h \in E!ClearIfaceMaps(d, a.dev)
            \/ ~DscpMode /\ h = forgotten
         /\ g \in E!ClearArpEntry(h, <<a.dev, a.ip>>)
         /\ f \in E!DetachXdp(g, a.dev)
  BY <1>1, <1>2 DEF E!RemoveInterface
<1>4. /\ h \in Engines /\ h.xdp = e.xdp /\ h.tc \in {e.tc, e.tc \ {a.dev}}
      /\ h.attached = [e.attached EXCEPT ![i] = None]
      /\ Shrinks(e, h) /\ LeavesOnly(e, h, {})
      /\ Owns(h, OwnKeys(e), ids, ids)
  <2>1. CASE DscpMode
    <3>1. PICK d \in E!DetachTc(forgotten, a.dev) :
             h \in E!ClearIfaceMaps(d, a.dev)
      BY <1>3, <2>1
    <3>2. /\ d \in Engines /\ d.xdp = e.xdp /\ d.tc \in {e.tc, e.tc \ {a.dev}}
          /\ d.arp = e.arp /\ d.dscp = e.dscp /\ d.l2 = e.l2
          /\ d.left = e.left
          /\ d.attached = [e.attached EXCEPT ![i] = None]
      BY <1>2, ForgottenShape
    <3>3. Owns(d, OwnKeys(e), OwnDevs(e), OwnDevs(e))
      BY <3>2 DEF Exact, Owns
    <3>4. /\ Frame(d, h) /\ Shrinks(d, h) /\ LeavesOnly(d, h, {})
          /\ Owns(h, OwnKeys(e), ids, ids)
      BY <1>1, <3>1, <3>2, <3>3, ClearIfaceShape
    <3> HIDE DEF ids
    <3> QED BY <3>2, <3>4 DEF Frame, Shrinks, LeavesOnly
  <2>2. CASE ~DscpMode
    <3>1. /\ h \in Engines /\ h.xdp = e.xdp /\ h.tc \in {e.tc, e.tc \ {a.dev}}
          /\ h.arp = e.arp /\ h.dscp = e.dscp /\ h.l2 = e.l2
          /\ h.left = e.left
          /\ h.attached = [e.attached EXCEPT ![i] = None]
      <4>1. h \in {forgotten} \cup E!DetachTc(forgotten, a.dev)
        BY <1>3, <2>2
      <4> QED BY <1>2, <4>1, ForgottenShape
    <3>2. ids = OwnDevs(e)
      BY <2>2 DEF OwnDevs
    <3>3. Owns(h, OwnKeys(e), ids, ids)
      BY <3>1, <3>2 DEF Exact, Owns
    <3> HIDE DEF ids
    <3> QED BY <3>1, <3>3 DEF Shrinks, LeavesOnly
  <2> QED BY <1>1, <2>1, <2>2
<1>5. /\ Frame(h, g) /\ Shrinks(h, g) /\ LeavesOnly(h, g, {<<a.dev, a.ip>>})
      /\ Owns(g, OwnKeys(e) \ {<<a.dev, a.ip>>}, ids, ids)
  <2> HIDE DEF ids
  <2> QED BY <1>1, <1>3, <1>4, ClearArpShape
<1>6. DetachesXdp(g, f, a.dev)
  BY <1>3, <1>5, DetachXdpShape DEF Frame
<1>7. LeavesOnly(e, f, {<<a.dev, a.ip>>})
  BY <1>4, <1>5, <1>6 DEF LeavesOnly, DetachesXdp
<1>8. Owns(f, OwnKeys(e) \ {<<a.dev, a.ip>>}, ids, ids)
  <2> HIDE DEF ids
  <2> QED BY <1>5, <1>6 DEF Owns, DetachesXdp
<1>9. Shrinks(e, f)
  BY <1>4, <1>5, <1>6 DEF Shrinks, DetachesXdp
<1> QED BY <1>4, <1>5, <1>6, <1>7, <1>8, <1>9 DEF Frame, DetachesXdp

\* Devices of different interfaces differ, so an entry belongs to one
\* attachment.
LEMMA OwnDevice ==
    ASSUME NEW e \in Engines, InPlace(e), NEW i \in Ifaces, NEW j \in Ifaces,
           e.attached[i] # None, e.attached[j] # None,
           e.attached[i].dev = e.attached[j].dev
    PROVE  i = j
  BY DEF InPlace

LEMMA ShrinksFits ==
    ASSUME NEW e, NEW f, Fits(e), Shrinks(e, f) PROVE Fits(f)
<1>1. /\ IsFiniteSet(f.arp) /\ IsFiniteSet(f.dscp) /\ IsFiniteSet(f.l2)
      /\ Cardinality(f.arp) <= Cardinality(e.arp)
      /\ Cardinality(f.dscp) <= Cardinality(e.dscp)
      /\ Cardinality(f.l2) <= Cardinality(e.l2)
  BY FS_Subset DEF Fits, Shrinks
<1>2. /\ Cardinality(f.arp) \in Nat /\ Cardinality(e.arp) \in Nat
      /\ Cardinality(f.dscp) \in Nat /\ Cardinality(e.dscp) \in Nat
      /\ Cardinality(f.l2) \in Nat /\ Cardinality(e.l2) \in Nat
  BY <1>1, FS_CardinalityType DEF Fits
<1> QED BY <1>1, <1>2, DaemonAssumption DEF Fits

\* remove_interface, however its detaches and removals fare, leaves an engine
\* in order, without the interface.
LEMMA RemoveOK ==
    ASSUME NEW e, EngineOK(e), gen \in [Ifaces -> 1..MaxGen],
           NEW i \in Ifaces, NEW f \in E!RemoveInterface(e, i)
    PROVE  EngineOK(f) /\ f.attached = [e.attached EXCEPT ![i] = None]
<1>1. /\ e \in Engines /\ Fits(e) /\ Exact(e) /\ InPlace(e) /\ LeftInPast(e)
      /\ e.attached \in [Ifaces -> Attachment \cup {None}]
  BY EngineFields DEF EngineOK
<1>2. CASE e.attached[i] = None
  <2>1. f = e
    BY <1>2 DEF E!RemoveInterface
  <2> QED BY <1>1, <1>2, <2>1
<1>3. CASE e.attached[i] # None
  <2>1. PICK a : a = e.attached[i]
    OBVIOUS
  <2>2. /\ f \in Engines
        /\ f.attached = [e.attached EXCEPT ![i] = None]
        /\ f.xdp \in {e.xdp, e.xdp \ {a.dev}}
        /\ f.tc \in {e.tc, e.tc \ {a.dev}}
        /\ Shrinks(e, f) /\ LeavesOnly(e, f, {<<a.dev, a.ip>>})
        /\ Owns(f, OwnKeys(e) \ {<<a.dev, a.ip>>},
                   OwnDevs(e) \ {a.dev}, OwnDevs(e) \ {a.dev})
    BY <1>1, <1>3, <2>1, RemoveShape
  <2>3. \A j \in Ifaces : f.attached[j] = IF j = i THEN None ELSE e.attached[j]
    BY <1>1, <2>2
  <2>4. \A j \in Ifaces : f.attached[j] # None =>
           /\ j # i /\ e.attached[j] # None /\ f.attached[j] = e.attached[j]
           /\ e.attached[j].dev # a.dev
    BY <1>1, <1>3, <2>1, <2>3, OwnDevice
  <2>5. OwnKeys(f) = OwnKeys(e) \ {<<a.dev, a.ip>>}
    <3>1. ASSUME NEW k \in OwnKeys(f)
          PROVE  k \in OwnKeys(e) /\ k # <<a.dev, a.ip>>
      <4>1. PICK j \in Ifaces : /\ f.attached[j] # None
                                /\ k = <<f.attached[j].dev, f.attached[j].ip>>
        BY <3>1 DEF OwnKeys, On
      <4> QED BY <2>4, <4>1 DEF OwnKeys, On
    <3>2. ASSUME NEW k \in OwnKeys(e), k # <<a.dev, a.ip>>
          PROVE  k \in OwnKeys(f)
      <4>1. PICK j \in Ifaces : /\ e.attached[j] # None
                                /\ k = <<e.attached[j].dev, e.attached[j].ip>>
        BY <3>2 DEF OwnKeys, On
      <4>2. j # i
        BY <2>1, <3>2, <4>1
      <4> QED BY <2>3, <4>1, <4>2 DEF OwnKeys, On
    <3> QED BY <3>1, <3>2
  <2>6. OwnDevs(f) = OwnDevs(e) \ {a.dev}
    <3>1. CASE ~DscpMode
      BY <3>1 DEF OwnDevs
    <3>2. CASE DscpMode
      <4>1. ASSUME NEW k \in OwnDevs(f) PROVE k \in OwnDevs(e) /\ k # a.dev
        <5>1. PICK j \in Ifaces : f.attached[j] # None /\ k = f.attached[j].dev
          BY <3>2, <4>1 DEF OwnDevs, On
        <5> QED BY <2>4, <3>2, <5>1 DEF OwnDevs, On
      <4>2. ASSUME NEW k \in OwnDevs(e), k # a.dev PROVE k \in OwnDevs(f)
        <5>1. PICK j \in Ifaces : e.attached[j] # None /\ k = e.attached[j].dev
          BY <3>2, <4>2 DEF OwnDevs, On
        <5>2. j # i
          BY <2>1, <4>2, <5>1
        <5> QED BY <2>3, <3>2, <5>1, <5>2 DEF OwnDevs, On
      <4> QED BY <4>1, <4>2
    <3> QED BY <3>1, <3>2
  <2>7. Fits(f) /\ Exact(f)
    BY <1>1, <2>2, <2>5, <2>6, ShrinksFits DEF Exact
  <2>8. InPlace(f)
    <3> SUFFICES ASSUME NEW j \in Ifaces, f.attached[j] # None
                 PROVE  /\ f.attached[j].dev[1] = j
                        /\ f.attached[j].dev[2] <= gen[j]
                        /\ f.attached[j].dev = Dev(j) =>
                              /\ Dev(j) \in f.xdp
                              /\ DscpMode => Dev(j) \in f.tc
      BY DEF InPlace
    <3>1. e.attached[j] # None /\ f.attached[j] = e.attached[j]
          /\ f.attached[j].dev # a.dev
      BY <2>4
    <3> QED BY <1>1, <2>2, <3>1 DEF InPlace
  <2>9. LeftInPast(f)
    <3>1. a \in Attachment /\ a.dev[1] = i /\ a.dev[2] <= gen[i]
      BY <1>1, <1>3, <2>1 DEF InPlace
    <3>2. ASSUME NEW j \in Ifaces, NEW n \in 1..MaxGen, NEW ip \in Ips,
                 <<"arp", <<<<j, n>>, ip>>>> \in f.left
          PROVE  n <= gen[j]
      <4>1. <<<<j, n>>, ip>> \in Devices \X Ips
        BY DEF Devices
      <4>2. CASE <<<<j, n>>, ip>> = <<a.dev, a.ip>>
        <5>1. a.dev = <<j, n>>
          BY <4>2
        <5> QED BY <3>1, <5>1
      <4>3. CASE <<<<j, n>>, ip>> # <<a.dev, a.ip>>
        <5>1. <<"arp", <<<<j, n>>, ip>>>> \in e.left
          BY <2>2, <3>2, <4>1, <4>3 DEF LeavesOnly
        <5> QED BY <1>1, <5>1 DEF LeftInPast
      <4> QED BY <4>2, <4>3
    <3>3. ASSUME NEW j \in Ifaces, NEW ip \in Ips,
                 f.attached[j] # None, f.attached[j].dev # Dev(j)
          PROVE  <<"arp", <<Dev(j), ip>>>> \notin f.left
      <4>1. j # i /\ e.attached[j] # None /\ e.attached[j].dev # Dev(j)
        BY <2>4, <3>3
      <4>2. <<"arp", <<Dev(j), ip>>>> \notin e.left
        BY <1>1, <4>1 DEF LeftInPast
      <4>3. <<Dev(j), ip>> # <<a.dev, a.ip>> /\ <<Dev(j), ip>> \in Devices \X Ips
        BY <3>1, <4>1 DEF Dev, Devices
      <4> QED BY <2>2, <4>2, <4>3 DEF LeavesOnly
    <3> QED BY <3>2, <3>3 DEF LeftInPast
  <2> QED BY <2>2, <2>7, <2>8, <2>9 DEF EngineOK
<1> QED BY <1>2, <1>3

\* An interface that is not attached owns no entry, so that the rollback of
\* add_interface takes out nothing else.
LEMMA NoEntries ==
    ASSUME NEW e, EngineOK(e), NEW i \in Ifaces, e.attached[i] = None,
           NEW ip \in Ips
    PROVE  <<Dev(i), ip>> \notin OwnKeys(e) /\ Dev(i) \notin OwnDevs(e)
<1>1. \A j \in Ifaces : e.attached[j] # None => e.attached[j].dev # Dev(i)
  <2>1. Dev(i)[1] = i
    BY DEF Dev
  <2> QED BY <2>1 DEF EngineOK, InPlace
<1>2. <<Dev(i), ip>> \notin OwnKeys(e)
  <2> SUFFICES ASSUME <<Dev(i), ip>> \in OwnKeys(e) PROVE FALSE
    OBVIOUS
  <2>1. PICK j \in Ifaces : /\ e.attached[j] # None
                           /\ <<Dev(i), ip>> = <<e.attached[j].dev, e.attached[j].ip>>
    BY DEF OwnKeys, On
  <2> QED BY <1>1, <2>1
<1>3. Dev(i) \notin OwnDevs(e)
  BY <1>1 DEF OwnDevs, On
<1> QED BY <1>2, <1>3

LEMMA SameCardinality == ASSUME NEW m PROVE E!Cardinality(m) = Cardinality(m)
  BY DEF E!Cardinality, Cardinality

\* An insert that is not refused keeps a map within its size.
LEMMA InsertFits ==
    ASSUME NEW m, IsFiniteSet(m), NEW k, NEW size \in Nat,
           Cardinality(m) <= size, ~E!Full(m, k, size)
    PROVE  IsFiniteSet(m \cup {k}) /\ Cardinality(m \cup {k}) <= size
<1>1. Cardinality(m) \in Nat
  BY FS_CardinalityType
<1>2. CASE k \in m
  <2>1. m \cup {k} = m
    BY <1>2
  <2> QED BY <2>1
<1>3. CASE k \notin m
  <2>1. Cardinality(m) < size
    <3>1. ~(Cardinality(m) >= size)
      BY <1>3, SameCardinality DEF E!Full
    <3> QED BY <1>1, <3>1
  <2>2. IsFiniteSet(m \cup {k}) /\ Cardinality(m \cup {k}) = Cardinality(m) + 1
    BY <1>3, FS_AddElement
  <2> QED BY <1>1, <2>1, <2>2
<1> QED BY <1>2, <1>3

\* f is e with an entry of ARP_TABLE more.
WithArp(e, f, key, keys, ids, lens) ==
    /\ Frame(e, f) /\ LeavesOnly(e, f, {})
    /\ f.arp = e.arp \cup {key} /\ f.dscp = e.dscp /\ f.l2 = e.l2
    /\ Owns(f, keys \cup {key}, ids, lens)

LEMMA InsertArp ==
    ASSUME NEW e \in Engines, NEW key \in Devices \X Ips,
           NEW f, f = E!Insert(e, "arp", key),
           NEW keys, NEW ids, NEW lens, Owns(e, keys, ids, lens)
    PROVE  WithArp(e, f, key, keys, ids, lens)
<1>0. e = [xdp |-> e.xdp, tc |-> e.tc, arp |-> e.arp, dscp |-> e.dscp,
           l2 |-> e.l2, attached |-> e.attached, left |-> e.left]
  BY EngineFields
<1>1. f = [e EXCEPT !["arp"] = @ \cup {key}, !.left = @ \ {<<"arp", key>>}]
  BY DEF E!Insert
<1>2. f = [xdp |-> e.xdp, tc |-> e.tc, arp |-> e.arp \cup {key},
           dscp |-> e.dscp, l2 |-> e.l2,
           attached |-> e.attached, left |-> e.left \ {<<"arp", key>>}]
  BY <1>0, <1>1
<1>3. /\ e.arp \cup {key} \in SUBSET (Devices \X Ips)
      /\ e.left \ {<<"arp", key>>} \in SUBSET Entries
  BY EngineFields
<1>4. f \in Engines
  <2>1. /\ e.xdp \in SUBSET Devices /\ e.tc \in SUBSET Devices
        /\ e.arp \in SUBSET (Devices \X Ips)
        /\ e.dscp \in SUBSET Devices /\ e.l2 \in SUBSET Devices
        /\ e.attached \in [Ifaces -> Attachment \cup {None}]
    BY EngineFields
  <2> QED BY <1>2, <1>3, <2>1 DEF Engines
<1>5. /\ f.arp = e.arp \cup {key} /\ f.dscp = e.dscp /\ f.l2 = e.l2
      /\ f.left = e.left \ {<<"arp", key>>}
  BY <1>2
<1>6. Holds(f.arp, f.left, "arp", keys \cup {key})
  <2>1. Inserted(e.arp, e.left, "arp", key, f.arp, f.left)
    BY <1>5 DEF Inserted
  <2> QED BY <2>1, HoldsInserted DEF Owns
<1>7. Owns(f, keys \cup {key}, ids, lens)
  <2>1. /\ Holds(f.dscp, f.left, "dscp", ids)
        /\ Holds(f.l2, f.left, "l2", lens)
    BY <1>5 DEF Owns, Holds
  <2> QED BY <1>6, <2>1 DEF Owns
<1>8. LeavesOnly(e, f, {})
  BY <1>5 DEF LeavesOnly
<1> QED BY <1>2, <1>4, <1>5, <1>7, <1>8 DEF Frame, WithArp

LEMMA InsertDscp ==
    ASSUME NEW e \in Engines, NEW key \in Devices,
           NEW f, f = E!Insert(e, "dscp", key),
           NEW keys, NEW ids, NEW lens, Owns(e, keys, ids, lens)
    PROVE  /\ Frame(e, f) /\ LeavesOnly(e, f, {})
           /\ f.dscp = e.dscp \cup {key} /\ f.arp = e.arp /\ f.l2 = e.l2
           /\ Owns(f, keys, ids \cup {key}, lens)
<1>0. e = [xdp |-> e.xdp, tc |-> e.tc, arp |-> e.arp, dscp |-> e.dscp,
           l2 |-> e.l2, attached |-> e.attached, left |-> e.left]
  BY EngineFields
<1>1. f = [e EXCEPT !["dscp"] = @ \cup {key}, !.left = @ \ {<<"dscp", key>>}]
  BY DEF E!Insert
<1>2. f = [xdp |-> e.xdp, tc |-> e.tc, arp |-> e.arp,
           dscp |-> e.dscp \cup {key}, l2 |-> e.l2,
           attached |-> e.attached, left |-> e.left \ {<<"dscp", key>>}]
  BY <1>0, <1>1
<1>3. /\ e.dscp \cup {key} \in SUBSET (Devices)
      /\ e.left \ {<<"dscp", key>>} \in SUBSET Entries
  BY EngineFields
<1>4. f \in Engines
  <2>1. /\ e.xdp \in SUBSET Devices /\ e.tc \in SUBSET Devices
        /\ e.arp \in SUBSET (Devices \X Ips)
        /\ e.dscp \in SUBSET Devices /\ e.l2 \in SUBSET Devices
        /\ e.attached \in [Ifaces -> Attachment \cup {None}]
    BY EngineFields
  <2> QED BY <1>2, <1>3, <2>1 DEF Engines
<1>5. /\ f.dscp = e.dscp \cup {key} /\ f.arp = e.arp /\ f.l2 = e.l2
      /\ f.left = e.left \ {<<"dscp", key>>}
  BY <1>2
<1>6. Holds(f.dscp, f.left, "dscp", ids \cup {key})
  <2>1. Inserted(e.dscp, e.left, "dscp", key, f.dscp, f.left)
    BY <1>5 DEF Inserted
  <2> QED BY <2>1, HoldsInserted DEF Owns
<1>7. Owns(f, keys, ids \cup {key}, lens)
  <2>1. /\ Holds(f.arp, f.left, "arp", keys)
        /\ Holds(f.l2, f.left, "l2", lens)
    BY <1>5 DEF Owns, Holds
  <2> QED BY <1>6, <2>1 DEF Owns
<1>8. LeavesOnly(e, f, {})
  BY <1>5 DEF LeavesOnly
<1> QED BY <1>2, <1>4, <1>5, <1>7, <1>8 DEF Frame

LEMMA InsertL2 ==
    ASSUME NEW e \in Engines, NEW key \in Devices,
           NEW f, f = E!Insert(e, "l2", key),
           NEW keys, NEW ids, NEW lens, Owns(e, keys, ids, lens)
    PROVE  /\ Frame(e, f) /\ LeavesOnly(e, f, {})
           /\ f.l2 = e.l2 \cup {key} /\ f.arp = e.arp /\ f.dscp = e.dscp
           /\ Owns(f, keys, ids, lens \cup {key})
<1>0. e = [xdp |-> e.xdp, tc |-> e.tc, arp |-> e.arp, dscp |-> e.dscp,
           l2 |-> e.l2, attached |-> e.attached, left |-> e.left]
  BY EngineFields
<1>1. f = [e EXCEPT !["l2"] = @ \cup {key}, !.left = @ \ {<<"l2", key>>}]
  BY DEF E!Insert
<1>2. f = [xdp |-> e.xdp, tc |-> e.tc, arp |-> e.arp,
           dscp |-> e.dscp, l2 |-> e.l2 \cup {key},
           attached |-> e.attached, left |-> e.left \ {<<"l2", key>>}]
  BY <1>0, <1>1
<1>3. /\ e.l2 \cup {key} \in SUBSET (Devices)
      /\ e.left \ {<<"l2", key>>} \in SUBSET Entries
  BY EngineFields
<1>4. f \in Engines
  <2>1. /\ e.xdp \in SUBSET Devices /\ e.tc \in SUBSET Devices
        /\ e.arp \in SUBSET (Devices \X Ips)
        /\ e.dscp \in SUBSET Devices /\ e.l2 \in SUBSET Devices
        /\ e.attached \in [Ifaces -> Attachment \cup {None}]
    BY EngineFields
  <2> QED BY <1>2, <1>3, <2>1 DEF Engines
<1>5. /\ f.l2 = e.l2 \cup {key} /\ f.arp = e.arp /\ f.dscp = e.dscp
      /\ f.left = e.left \ {<<"l2", key>>}
  BY <1>2
<1>6. Holds(f.l2, f.left, "l2", lens \cup {key})
  <2>1. Inserted(e.l2, e.left, "l2", key, f.l2, f.left)
    BY <1>5 DEF Inserted
  <2> QED BY <2>1, HoldsInserted DEF Owns
<1>7. Owns(f, keys, ids, lens \cup {key})
  <2>1. /\ Holds(f.arp, f.left, "arp", keys)
        /\ Holds(f.dscp, f.left, "dscp", ids)
    BY <1>5 DEF Owns, Holds
  <2> QED BY <1>6, <2>1 DEF Owns
<1>8. LeavesOnly(e, f, {})
  BY <1>5 DEF LeavesOnly
<1> QED BY <1>2, <1>4, <1>5, <1>7, <1>8 DEF Frame

\* The engine with XDP on dev as well.
LEMMA WithXdp ==
    ASSUME NEW e \in Engines, NEW dev \in Devices,
           NEW f, f = [e EXCEPT !.xdp = @ \cup {dev}]
    PROVE  /\ f \in Engines /\ f.xdp = e.xdp \cup {dev} /\ f.tc = e.tc
           /\ f.arp = e.arp /\ f.dscp = e.dscp /\ f.l2 = e.l2
           /\ f.left = e.left /\ f.attached = e.attached
<1>1. e = [xdp |-> e.xdp, tc |-> e.tc, arp |-> e.arp, dscp |-> e.dscp,
           l2 |-> e.l2, attached |-> e.attached, left |-> e.left]
  BY EngineFields
<1>2. f = [xdp |-> e.xdp \cup {dev}, tc |-> e.tc, arp |-> e.arp,
           dscp |-> e.dscp, l2 |-> e.l2, attached |-> e.attached,
           left |-> e.left]
  BY <1>1
<1>3. e.xdp \cup {dev} \in SUBSET Devices
  BY EngineFields
<1>4. f \in Engines
  <2>1. /\ e.xdp \in SUBSET Devices /\ e.tc \in SUBSET Devices
        /\ e.arp \in SUBSET (Devices \X Ips)
        /\ e.dscp \in SUBSET Devices /\ e.l2 \in SUBSET Devices
        /\ e.attached \in [Ifaces -> Attachment \cup {None}]
        /\ e.left \in SUBSET Entries
    BY EngineFields
  <2> QED BY <1>2, <1>3, <2>1 DEF Engines
<1> QED BY <1>2, <1>4

\* attach_egress done: the entries and the classifier are in place.
AttachesEgress(e, f, dev, keys, ids, lens) ==
    /\ f \in Engines /\ f.xdp = e.xdp /\ f.tc = e.tc \cup {dev}
    /\ f.attached = e.attached /\ LeavesOnly(e, f, {})
    /\ f.arp = e.arp /\ f.dscp = e.dscp \cup {dev}
    /\ f.l2 = e.l2 \cup {dev}
    /\ Owns(f, keys, ids \cup {dev}, lens \cup {dev})

LEMMA AttachEgressShape ==
    ASSUME NEW e \in Engines, NEW dev \in Devices,
           NEW f, f = E!AttachEgress(e, dev),
           NEW keys, NEW ids, NEW lens, Owns(e, keys, ids, lens)
    PROVE  AttachesEgress(e, f, dev, keys, ids, lens)
<1>1. PICK d : d = E!Insert(e, "dscp", dev)
  OBVIOUS
<1>2. PICK g : g = E!Insert(d, "l2", dev)
  OBVIOUS
<1>3. /\ Frame(e, d) /\ LeavesOnly(e, d, {}) /\ Owns(d, keys, ids \cup {dev}, lens)
      /\ d.arp = e.arp /\ d.dscp = e.dscp \cup {dev} /\ d.l2 = e.l2
  BY <1>1, InsertDscp
<1>4. d \in Engines
  BY <1>3 DEF Frame
<1>5. /\ Frame(d, g) /\ LeavesOnly(d, g, {})
      /\ Owns(g, keys, ids \cup {dev}, lens \cup {dev})
      /\ g.arp = d.arp /\ g.dscp = d.dscp /\ g.l2 = d.l2 \cup {dev}
  BY <1>2, <1>3, <1>4, InsertL2
<1>6. g \in Engines
  BY <1>5 DEF Frame
<1>7. g = [xdp |-> g.xdp, tc |-> g.tc, arp |-> g.arp, dscp |-> g.dscp,
           l2 |-> g.l2, attached |-> g.attached, left |-> g.left]
  BY <1>6, EngineFields
<1>8. f = [g EXCEPT !.tc = @ \cup {dev}]
  BY <1>1, <1>2 DEF E!AttachEgress
<1>9. f = [xdp |-> g.xdp, tc |-> g.tc \cup {dev}, arp |-> g.arp,
           dscp |-> g.dscp, l2 |-> g.l2, attached |-> g.attached,
           left |-> g.left]
  BY <1>7, <1>8
<1>10. g.tc \cup {dev} \in SUBSET Devices
  BY <1>6, EngineFields
<1>11. f \in Engines
  <2>1. /\ g.xdp \in SUBSET Devices /\ g.tc \in SUBSET Devices
        /\ g.arp \in SUBSET (Devices \X Ips)
        /\ g.dscp \in SUBSET Devices /\ g.l2 \in SUBSET Devices
        /\ g.attached \in [Ifaces -> Attachment \cup {None}]
        /\ g.left \in SUBSET Entries
    BY <1>6, EngineFields
  <2> QED BY <1>9, <1>10, <2>1 DEF Engines
<1>12. /\ f.xdp = g.xdp /\ f.tc = g.tc \cup {dev} /\ f.arp = g.arp
       /\ f.dscp = g.dscp /\ f.l2 = g.l2 /\ f.attached = g.attached
       /\ f.left = g.left
  BY <1>9
<1>13. LeavesOnly(e, f, {})
  BY <1>3, <1>5, <1>12 DEF LeavesOnly
<1>14. Owns(f, keys, ids \cup {dev}, lens \cup {dev})
  BY <1>5, <1>12 DEF Owns
<1> QED BY <1>3, <1>5, <1>11, <1>12, <1>13, <1>14 DEF Frame, AttachesEgress

\* What a successful add_interface makes of the engine, field by field.
Adds(e, f, i, dev, ip) ==
    /\ f \in Engines
    /\ f.attached = [e.attached EXCEPT
                       ![i] = [dev |-> dev, ip |-> ip, tc |-> DscpMode]]
    /\ f.xdp = e.xdp \cup {dev}
    /\ f.arp = e.arp \cup {<<dev, ip>>}
    /\ f.dscp = IF DscpMode THEN e.dscp \cup {dev} ELSE e.dscp
    /\ f.l2 = IF DscpMode THEN e.l2 \cup {dev} ELSE e.l2
    /\ f.tc = IF DscpMode THEN e.tc \cup {dev} ELSE e.tc
    /\ LeavesOnly(e, f, {})
    /\ LET ids == IF DscpMode THEN OwnDevs(e) \cup {dev} ELSE OwnDevs(e)
       IN Owns(f, OwnKeys(e) \cup {<<dev, ip>>}, ids, ids)

LEMMA AddShape ==
    ASSUME NEW e \in Engines, Exact(e), NEW i \in Ifaces, NEW dev \in Devices,
           NEW ip \in Ips, NEW f, f = E!AddInterface(e, i, dev, ip)
    PROVE  Adds(e, f, i, dev, ip)
<1>1. PICK a, key : /\ a = [dev |-> dev, ip |-> ip, tc |-> DscpMode]
                    /\ key = <<dev, ip>>
  OBVIOUS
<1>2. PICK att : att = [e.attached EXCEPT ![i] = a]
  OBVIOUS
<1>3. att \in [Ifaces -> Attachment \cup {None}] /\ key \in Devices \X Ips
  BY <1>1, <1>2, EngineFields DEF Attachment
<1>4. PICK x : x = [e EXCEPT !.xdp = @ \cup {dev}]
  OBVIOUS
<1>5. PICK w : w = E!Insert(x, "arp", key)
  OBVIOUS
<1>6. PICK t : t = IF DscpMode THEN E!AttachEgress(w, dev) ELSE w
  OBVIOUS
<1> DEFINE ids == IF DscpMode THEN OwnDevs(e) \cup {dev} ELSE OwnDevs(e)
<1>7. f = [t EXCEPT !.attached[i] = a]
  BY <1>1, <1>4, <1>5, <1>6 DEF E!AddInterface
<1>8. /\ x \in Engines /\ x.xdp = e.xdp \cup {dev} /\ x.tc = e.tc
      /\ x.arp = e.arp /\ x.dscp = e.dscp /\ x.l2 = e.l2
      /\ x.left = e.left /\ x.attached = e.attached
  BY <1>4, WithXdp
<1>9. Owns(x, OwnKeys(e), OwnDevs(e), OwnDevs(e))
  BY <1>8 DEF Exact, Owns
<1>10. /\ Frame(x, w) /\ LeavesOnly(x, w, {})
       /\ w.arp = x.arp \cup {key} /\ w.dscp = x.dscp /\ w.l2 = x.l2
       /\ Owns(w, OwnKeys(e) \cup {key}, OwnDevs(e), OwnDevs(e))
  <2>1. WithArp(x, w, key, OwnKeys(e), OwnDevs(e), OwnDevs(e))
    BY <1>3, <1>5, <1>8, <1>9, InsertArp
  <2> QED BY <2>1 DEF WithArp
<1>11. /\ w \in Engines /\ w.xdp = e.xdp \cup {dev} /\ w.tc = e.tc
       /\ w.attached = e.attached /\ LeavesOnly(e, w, {})
  BY <1>8, <1>10 DEF Frame, LeavesOnly
<1>12. /\ t \in Engines /\ t.xdp = e.xdp \cup {dev}
       /\ t.tc = (IF DscpMode THEN e.tc \cup {dev} ELSE e.tc)
       /\ t.attached = e.attached /\ LeavesOnly(e, t, {})
       /\ t.arp = e.arp \cup {key}
       /\ t.dscp = (IF DscpMode THEN e.dscp \cup {dev} ELSE e.dscp)
       /\ t.l2 = (IF DscpMode THEN e.l2 \cup {dev} ELSE e.l2)
       /\ Owns(t, OwnKeys(e) \cup {key}, ids, ids)
  <2>1. CASE DscpMode
    <3>1. /\ t \in Engines /\ t.xdp = w.xdp /\ t.tc = w.tc \cup {dev}
          /\ t.attached = w.attached /\ LeavesOnly(w, t, {})
          /\ t.arp = w.arp /\ t.dscp = w.dscp \cup {dev}
          /\ t.l2 = w.l2 \cup {dev}
          /\ Owns(t, OwnKeys(e) \cup {key}, OwnDevs(e) \cup {dev},
                     OwnDevs(e) \cup {dev})
      <4>1. t = E!AttachEgress(w, dev)
        BY <1>6, <2>1
      <4>2. /\ w \in Engines
            /\ Owns(w, OwnKeys(e) \cup {key}, OwnDevs(e), OwnDevs(e))
        BY <1>10, <1>11
      <4>3. AttachesEgress(w, t, dev, OwnKeys(e) \cup {key}, OwnDevs(e), OwnDevs(e))
        BY <4>1, <4>2, AttachEgressShape
      <4> QED BY <4>3 DEF AttachesEgress
    <3>2. LeavesOnly(e, t, {})
      BY <1>11, <3>1 DEF LeavesOnly
    <3>3. Owns(t, OwnKeys(e) \cup {key}, ids, ids)
      BY <2>1, <3>1
    <3> QED BY <1>8, <1>10, <1>11, <2>1, <3>1, <3>2, <3>3
  <2>2. CASE ~DscpMode
    BY <1>6, <1>8, <1>10, <1>11, <2>2
  <2> QED BY <2>1, <2>2
<1>13. t = [xdp |-> t.xdp, tc |-> t.tc, arp |-> t.arp, dscp |-> t.dscp,
            l2 |-> t.l2, attached |-> e.attached, left |-> t.left]
  BY <1>12, EngineFields
<1>14. f = [xdp |-> t.xdp, tc |-> t.tc, arp |-> t.arp, dscp |-> t.dscp,
            l2 |-> t.l2, attached |-> att, left |-> t.left]
  BY <1>2, <1>7, <1>13
<1>15. f \in Engines
  <2>1. /\ t.xdp \in SUBSET Devices /\ t.tc \in SUBSET Devices
        /\ t.arp \in SUBSET (Devices \X Ips)
        /\ t.dscp \in SUBSET Devices /\ t.l2 \in SUBSET Devices
        /\ t.attached \in [Ifaces -> Attachment \cup {None}]
        /\ t.left \in SUBSET Entries
    BY <1>12, EngineFields
  <2> QED BY <1>3, <1>14, <2>1 DEF Engines
<1>16. /\ f.xdp = t.xdp /\ f.tc = t.tc /\ f.arp = t.arp /\ f.dscp = t.dscp
       /\ f.l2 = t.l2 /\ f.left = t.left /\ f.attached = att
  BY <1>14
<1>17. LeavesOnly(e, f, {})
  BY <1>12, <1>16 DEF LeavesOnly
<1>18. Owns(f, OwnKeys(e) \cup {key}, ids, ids)
  BY <1>12, <1>16 DEF Owns
<1> QED BY <1>1, <1>2, <1>12, <1>15, <1>16, <1>17, <1>18 DEF Adds

\* add_interface leaves an engine in order, with the interface attached to
\* its device of now.
LEMMA AddOK ==
    ASSUME NEW e, EngineOK(e), gen \in [Ifaces -> 1..MaxGen],
           NEW i \in Ifaces, NEW ip \in Ips,
           E!AddPossible(e, i, Dev(i), ip),
           NEW f, f = E!AddInterface(e, i, Dev(i), ip)
    PROVE  /\ EngineOK(f)
           /\ f.attached = [e.attached EXCEPT
                 ![i] = [dev |-> Dev(i), ip |-> ip, tc |-> DscpMode]]
<1>1. /\ e \in Engines /\ Fits(e) /\ Exact(e) /\ InPlace(e) /\ LeftInPast(e)
      /\ e.attached \in [Ifaces -> Attachment \cup {None}]
  BY EngineFields DEF EngineOK
<1>2. Dev(i) \in Devices /\ Dev(i)[1] = i /\ Dev(i)[2] = gen[i] /\ gen[i] \in Nat
  BY DEF Dev, Devices
<1>3. PICK a, key : /\ a = [dev |-> Dev(i), ip |-> ip, tc |-> DscpMode]
                    /\ key = <<Dev(i), ip>>
  OBVIOUS
<1> DEFINE ids == IF DscpMode THEN OwnDevs(e) \cup {Dev(i)} ELSE OwnDevs(e)
<1>4. /\ f \in Engines
      /\ f.attached = [e.attached EXCEPT ![i] = a]
      /\ f.xdp = e.xdp \cup {Dev(i)}
      /\ f.arp = e.arp \cup {key}
      /\ f.dscp = IF DscpMode THEN e.dscp \cup {Dev(i)} ELSE e.dscp
      /\ f.l2 = IF DscpMode THEN e.l2 \cup {Dev(i)} ELSE e.l2
      /\ f.tc = IF DscpMode THEN e.tc \cup {Dev(i)} ELSE e.tc
      /\ LeavesOnly(e, f, {})
      /\ Owns(f, OwnKeys(e) \cup {key}, ids, ids)
  <2>1. Adds(e, f, i, Dev(i), ip)
    BY <1>1, <1>2, AddShape
  <2> QED BY <1>3, <2>1 DEF Adds
<1>5. a \in Attachment /\ a # None /\ a.dev = Dev(i) /\ a.ip = ip
  <2>1. a \in [dev : Ifaces \X Nat, ip : Ips, tc : BOOLEAN]
    BY <1>2, <1>3, DaemonAssumption DEF Devices
  <2>2. a \in Attachment
    BY <1>2, <1>3 DEF Attachment
  <2> QED BY <1>3, <2>1, <2>2, DaemonAssumption
<1>6. e.attached[i] = None
  BY DEF E!AddPossible
<1>7. \A j \in Ifaces : f.attached[j] = IF j = i THEN a ELSE e.attached[j]
  BY <1>1, <1>4
<1>8. Fits(f)
  <2>1. IsFiniteSet(f.arp) /\ Cardinality(f.arp) <= ArpSize
    <3>1. ~E!Full(e.arp, key, ArpSize)
      BY <1>3 DEF E!AddPossible
    <3> QED BY <1>1, <1>4, <3>1, InsertFits, DaemonAssumption DEF Fits
  <2>2. CASE DscpMode
    <3>1. ~E!Full(e.dscp, Dev(i), DscpSize) /\ ~E!Full(e.l2, Dev(i), DscpSize)
      BY <2>2 DEF E!AddPossible, E!EgressPossible
    <3>2. /\ IsFiniteSet(f.dscp) /\ Cardinality(f.dscp) <= DscpSize
          /\ IsFiniteSet(f.l2) /\ Cardinality(f.l2) <= DscpSize
      BY <1>1, <1>4, <2>2, <3>1, InsertFits, DaemonAssumption DEF Fits
    <3> QED BY <2>1, <3>2 DEF Fits
  <2>3. CASE ~DscpMode
    BY <1>1, <1>4, <2>1, <2>3 DEF Fits
  <2> QED BY <2>2, <2>3
<1>9. On(f) = On(e) \cup {i} /\ i \notin On(e)
      /\ \A j \in On(e) : f.attached[j] = e.attached[j]
  BY <1>5, <1>6, <1>7 DEF On
<1>10. f.attached[i] = a
  BY <1>7
<1>11. OwnKeys(f) = OwnKeys(e) \cup {key}
  <2>1. ASSUME NEW k \in OwnKeys(f) PROVE k \in OwnKeys(e) \cup {key}
    <3>1. PICK j \in On(f) : k = <<f.attached[j].dev, f.attached[j].ip>>
      BY <2>1 DEF OwnKeys
    <3>2. CASE j = i
      BY <1>3, <1>5, <1>10, <3>1, <3>2
    <3>3. CASE j \in On(e)
      BY <1>9, <3>1, <3>3 DEF OwnKeys
    <3> QED BY <1>9, <3>1, <3>2, <3>3
  <2>2. OwnKeys(e) \subseteq OwnKeys(f)
    BY <1>9 DEF OwnKeys
  <2>3. key \in OwnKeys(f)
    <3>1. i \in On(f) /\ key = <<f.attached[i].dev, f.attached[i].ip>>
      BY <1>3, <1>5, <1>9, <1>10
    <3> QED BY <3>1 DEF OwnKeys
  <2> QED BY <2>1, <2>2, <2>3
<1>12. OwnDevs(f) = ids
  <2>1. CASE ~DscpMode
    BY <2>1 DEF OwnDevs
  <2>2. CASE DscpMode
    <3>1. \A k : k \in OwnDevs(f) <=> k \in OwnDevs(e) \cup {Dev(i)}
      BY <1>5, <1>9, <1>10, <2>2 DEF OwnDevs
    <3>2. OwnDevs(f) = OwnDevs(e) \cup {Dev(i)}
      BY <3>1
    <3> QED BY <2>2, <3>2
  <2> QED BY <2>1, <2>2
<1>13. Exact(f)
  <2> HIDE DEF ids
  <2> QED BY <1>4, <1>11, <1>12 DEF Exact
<1>14. InPlace(f)
  <2> SUFFICES ASSUME NEW j \in Ifaces, f.attached[j] # None
               PROVE  /\ f.attached[j].dev[1] = j
                      /\ f.attached[j].dev[2] <= gen[j]
                      /\ f.attached[j].dev = Dev(j) =>
                            /\ Dev(j) \in f.xdp
                            /\ DscpMode => Dev(j) \in f.tc
    BY DEF InPlace
  <2>1. CASE j = i
    <3>1. f.attached[j].dev = Dev(i)
      BY <1>5, <1>10, <2>1
    <3> QED BY <1>2, <1>4, <2>1, <3>1
  <2>2. CASE j # i
    <3>1. f.attached[j] = e.attached[j]
      BY <1>7, <2>2
    <3> QED BY <1>1, <1>4, <3>1 DEF InPlace
  <2> QED BY <2>1, <2>2
<1>15. LeftInPast(f)
  <2>1. ASSUME NEW j \in Ifaces, NEW n \in 1..MaxGen, NEW q \in Ips,
               <<"arp", <<<<j, n>>, q>>>> \in f.left
        PROVE  n <= gen[j]
    <3>1. <<<<j, n>>, q>> \in Devices \X Ips
      BY DEF Devices
    <3>2. <<"arp", <<<<j, n>>, q>>>> \in e.left
      BY <1>4, <2>1, <3>1 DEF LeavesOnly
    <3> QED BY <1>1, <3>2 DEF LeftInPast
  <2>2. ASSUME NEW j \in Ifaces, NEW q \in Ips,
               f.attached[j] # None, f.attached[j].dev # Dev(j)
        PROVE  <<"arp", <<Dev(j), q>>>> \notin f.left
    <3>1. e.attached[j] # None /\ e.attached[j].dev # Dev(j)
      BY <1>5, <1>7, <2>2
    <3>2. <<"arp", <<Dev(j), q>>>> \notin e.left
      BY <1>1, <3>1 DEF LeftInPast
    <3>3. <<Dev(j), q>> \in Devices \X Ips
      BY DEF Dev, Devices
    <3> QED BY <1>4, <3>2, <3>3 DEF LeavesOnly
  <2> QED BY <2>1, <2>2 DEF LeftInPast
<1> QED BY <1>3, <1>4, <1>8, <1>13, <1>14, <1>15 DEF EngineOK

\* However add_interface fails, the attachments and what the maps owe to them
\* are as before: only XDP and the entries of the attempt may be left.
Fails(e, f, dev, ip) ==
    /\ f \in Engines /\ e.xdp \ {dev} \subseteq f.xdp /\ f.tc = e.tc
    /\ f.attached = e.attached /\ Fits(f)
    /\ LeavesOnly(e, f, {<<dev, ip>>})
    /\ Owns(f, OwnKeys(e), OwnDevs(e), OwnDevs(e))

\* Where attach_egress may stop.
LEMMA EgressFailureShape ==
    ASSUME NEW e \in Engines, Fits(e), NEW dev \in Devices,
           NEW f \in E!EgressFailures(e, dev),
           NEW keys, NEW ids, Owns(e, keys, ids, ids)
    PROVE  /\ Frame(e, f) /\ Fits(f) /\ LeavesOnly(e, f, {})
           /\ \E d, l \in {ids, ids \cup {dev}} : Owns(f, keys, d, l)
<1>1. PICK d : d = E!Insert(e, "dscp", dev)
  OBVIOUS
<1>2. PICK g : g = E!Insert(d, "l2", dev)
  OBVIOUS
<1>3. /\ Frame(e, d) /\ LeavesOnly(e, d, {}) /\ Owns(d, keys, ids \cup {dev}, ids)
      /\ d.arp = e.arp /\ d.dscp = e.dscp \cup {dev} /\ d.l2 = e.l2
  BY <1>1, InsertDscp
<1>4. d \in Engines
  BY <1>3 DEF Frame
<1>5. /\ Frame(d, g) /\ LeavesOnly(d, g, {})
      /\ Owns(g, keys, ids \cup {dev}, ids \cup {dev})
      /\ g.arp = d.arp /\ g.dscp = d.dscp /\ g.l2 = d.l2 \cup {dev}
  BY <1>2, <1>3, <1>4, InsertL2
<1>6. \/ f = e
      \/ f = d /\ ~E!Full(e.dscp, dev, DscpSize)
      \/ /\ f = g /\ ~E!Full(e.dscp, dev, DscpSize)
         /\ ~E!Full(e.l2, dev, DscpSize)
  BY <1>1, <1>2 DEF E!EgressFailures
<1>7. CASE f = e
  BY <1>7 DEF Frame, LeavesOnly
<1>8. CASE f = d /\ ~E!Full(e.dscp, dev, DscpSize)
  <2>1. IsFiniteSet(d.dscp) /\ Cardinality(d.dscp) <= DscpSize
    BY <1>3, <1>8, InsertFits, DaemonAssumption DEF Fits
  <2>2. Fits(d)
    BY <1>3, <2>1 DEF Fits
  <2> QED BY <1>3, <1>8, <2>2
<1>9. CASE /\ f = g /\ ~E!Full(e.dscp, dev, DscpSize)
           /\ ~E!Full(e.l2, dev, DscpSize)
  <2>1. /\ IsFiniteSet(d.dscp) /\ Cardinality(d.dscp) <= DscpSize
        /\ IsFiniteSet(g.l2) /\ Cardinality(g.l2) <= DscpSize
    BY <1>3, <1>5, <1>9, InsertFits, DaemonAssumption DEF Fits
  <2>2. Fits(g)
    BY <1>3, <1>5, <2>1 DEF Fits
  <2>3. Frame(e, g) /\ LeavesOnly(e, g, {})
    BY <1>3, <1>5 DEF Frame, LeavesOnly
  <2> QED BY <1>5, <1>9, <2>2, <2>3
<1> QED BY <1>6, <1>7, <1>8, <1>9

LEMMA FailureShape ==
    ASSUME NEW e \in Engines, Fits(e), Exact(e),
           NEW i \in Ifaces, e.attached[i] = None,
           NEW dev \in Devices, NEW ip \in Ips,
           <<dev, ip>> \notin OwnKeys(e), dev \notin OwnDevs(e),
           NEW f \in E!AddFailures(e, i, dev, ip)
    PROVE  Fails(e, f, dev, ip)
<1>1. PICK key : key = <<dev, ip>>
  OBVIOUS
<1>2. PICK x : x = [e EXCEPT !.xdp = @ \cup {dev}]
  OBVIOUS
<1>3. PICK w : w = E!Insert(x, "arp", key)
  OBVIOUS
<1>4. \/ f = e
      \/ f \in E!DetachXdp(x, dev)
      \/ /\ ~E!Full(e.arp, key, ArpSize)
         /\ \E g \in E!EgressFailures(w, dev) : f \in E!UndoAdd(g, dev, ip)
  BY <1>1, <1>2, <1>3 DEF E!AddFailures
<1>5. /\ x \in Engines /\ x.xdp = e.xdp \cup {dev} /\ x.tc = e.tc
      /\ x.arp = e.arp /\ x.dscp = e.dscp /\ x.l2 = e.l2
      /\ x.left = e.left /\ x.attached = e.attached
  BY <1>2, WithXdp
<1>6. Fails(e, e, dev, ip)
  BY DEF Fails, Exact, LeavesOnly
<1>7. CASE f \in E!DetachXdp(x, dev)
  <2>1. DetachesXdp(x, f, dev)
    BY <1>5, <1>7, DetachXdpShape
  <2>2. Fits(f) /\ LeavesOnly(e, f, {<<dev, ip>>})
    BY <1>5, <2>1 DEF DetachesXdp, Fits, LeavesOnly
  <2>3. Owns(f, OwnKeys(e), OwnDevs(e), OwnDevs(e))
    BY <1>5, <2>1 DEF DetachesXdp, Exact, Owns
  <2> QED BY <1>5, <2>1, <2>2, <2>3 DEF Fails, DetachesXdp
<1>8. /\ Frame(x, w) /\ LeavesOnly(x, w, {})
      /\ w.arp = x.arp \cup {key} /\ w.dscp = x.dscp /\ w.l2 = x.l2
      /\ Owns(w, OwnKeys(e) \cup {key}, OwnDevs(e), OwnDevs(e))
  <2>1. Owns(x, OwnKeys(e), OwnDevs(e), OwnDevs(e)) /\ key \in Devices \X Ips
    BY <1>1, <1>5 DEF Exact, Owns
  <2>2. x \in Engines
    BY <1>5
  <2>3. WithArp(x, w, key, OwnKeys(e), OwnDevs(e), OwnDevs(e))
    BY <1>3, <2>1, <2>2, InsertArp
  <2> QED BY <2>3 DEF WithArp
<1>9. CASE /\ ~E!Full(e.arp, key, ArpSize)
           /\ \E g \in E!EgressFailures(w, dev) : f \in E!UndoAdd(g, dev, ip)
  <2>1. PICK g \in E!EgressFailures(w, dev) : f \in E!UndoAdd(g, dev, ip)
    BY <1>9
  <2>2. PICK c, u : /\ c \in E!ClearArpEntry(g, key)
                    /\ u \in E!ClearIfaceMaps(c, dev)
                    /\ f \in E!DetachXdp(u, dev)
    BY <1>1, <2>1 DEF E!UndoAdd
  <2>3. PICK ks, ds : ks = OwnKeys(e) \cup {key} /\ ds = OwnDevs(e)
    OBVIOUS
  <2>4. /\ Frame(x, w) /\ LeavesOnly(x, w, {})
        /\ w.arp = x.arp \cup {key} /\ w.dscp = x.dscp /\ w.l2 = x.l2
        /\ Owns(w, ks, ds, ds)
    BY <1>8, <2>3
  <2>5. Fits(w) /\ w \in Engines
    <3>1. IsFiniteSet(w.arp) /\ Cardinality(w.arp) <= ArpSize
      BY <1>5, <1>9, <2>4, InsertFits, DaemonAssumption DEF Fits
    <3> QED BY <1>5, <2>4, <3>1 DEF Fits, Frame
  <2>6. /\ Frame(w, g) /\ Fits(g) /\ LeavesOnly(w, g, {})
        /\ \E d, l \in {ds, ds \cup {dev}} : Owns(g, ks, d, l)
    BY <2>1, <2>4, <2>5, EgressFailureShape
  <2>7. PICK d \in {ds, ds \cup {dev}}, l \in {ds, ds \cup {dev}} :
           Owns(g, ks, d, l)
    BY <2>6
  <2>8. g \in Engines /\ key \in Devices \X Ips
    BY <1>1, <2>6 DEF Frame
  <2>9. /\ Frame(g, c) /\ Shrinks(g, c) /\ LeavesOnly(g, c, {key})
        /\ Owns(c, ks \ {key}, d, l)
    BY <2>2, <2>7, <2>8, ClearArpShape
  <2>10. c \in Engines
    BY <2>9 DEF Frame
  <2>11. /\ Frame(c, u) /\ Shrinks(c, u) /\ LeavesOnly(c, u, {})
         /\ Owns(u, ks \ {key}, d \ {dev}, l \ {dev})
    BY <2>2, <2>9, <2>10, ClearIfaceShape
  <2>12. u \in Engines
    BY <2>11 DEF Frame
  <2>13. DetachesXdp(u, f, dev)
    BY <2>2, <2>12, DetachXdpShape
  <2>14. ks \ {key} = OwnKeys(e) /\ d \ {dev} = OwnDevs(e) /\ l \ {dev} = OwnDevs(e)
    BY <1>1, <2>3, <2>7
  <2>15. Owns(u, OwnKeys(e), OwnDevs(e), OwnDevs(e))
    BY <2>11, <2>14
  <2>16. Owns(f, OwnKeys(e), OwnDevs(e), OwnDevs(e))
    BY <2>13, <2>15 DEF Owns, DetachesXdp
  <2>17. Fits(f)
    <3>1. Shrinks(g, f)
      BY <2>9, <2>11, <2>13 DEF Shrinks, DetachesXdp
    <3> QED BY <2>6, <3>1, ShrinksFits
  <2>18. LeavesOnly(e, f, {<<dev, ip>>})
    <3>1. f.left = u.left /\ x.left = e.left
      BY <1>5, <2>13 DEF DetachesXdp
    <3> QED BY <1>1, <2>4, <2>6, <2>9, <2>11, <3>1 DEF LeavesOnly
  <2> QED BY <1>5, <2>4, <2>6, <2>9, <2>11, <2>13, <2>16, <2>17, <2>18
          DEF Fails, Frame, DetachesXdp
<1> QED BY <1>4, <1>6, <1>7, <1>9

\* However add_interface fails, the engine stays in order and nothing is
\* attached that was not.
LEMMA FailureOK ==
    ASSUME NEW e, EngineOK(e), gen \in [Ifaces -> 1..MaxGen],
           NEW i \in Ifaces, e.attached[i] = None, NEW ip \in Ips,
           NEW f \in E!AddFailures(e, i, Dev(i), ip)
    PROVE  EngineOK(f) /\ f.attached = e.attached
<1>1. /\ e \in Engines /\ Fits(e) /\ Exact(e) /\ InPlace(e) /\ LeftInPast(e)
      /\ e.attached \in [Ifaces -> Attachment \cup {None}]
  BY EngineFields DEF EngineOK
<1>2. Dev(i) \in Devices /\ Dev(i)[1] = i /\ Dev(i) = <<i, gen[i]>>
  BY DEF Dev, Devices
<1>3. Fails(e, f, Dev(i), ip)
  <2>1. <<Dev(i), ip>> \notin OwnKeys(e) /\ Dev(i) \notin OwnDevs(e)
    BY NoEntries
  <2> QED BY <1>1, <1>2, <2>1, FailureShape
<1>4. f.attached = e.attached
  BY <1>3 DEF Fails
<1>5. OwnKeys(f) = OwnKeys(e) /\ OwnDevs(f) = OwnDevs(e)
  BY <1>4 DEF OwnKeys, OwnDevs, On
<1>6. Exact(f)
  BY <1>3, <1>5 DEF Fails, Exact
<1>7. InPlace(f)
  <2> SUFFICES ASSUME NEW j \in Ifaces, e.attached[j] # None
               PROVE  /\ e.attached[j].dev[1] = j
                      /\ e.attached[j].dev[2] <= gen[j]
                      /\ e.attached[j].dev = Dev(j) =>
                            /\ Dev(j) \in f.xdp
                            /\ DscpMode => Dev(j) \in f.tc
    BY <1>4 DEF InPlace
  <2>1. Dev(j) # Dev(i)
    BY DEF Dev
  <2> QED BY <1>1, <1>3, <2>1 DEF InPlace, Fails
<1>8. LeftInPast(f)
  <2>1. LeavesOnly(e, f, {<<Dev(i), ip>>})
    BY <1>3 DEF Fails
  <2>2. ASSUME NEW j \in Ifaces, NEW n \in 1..MaxGen, NEW q \in Ips,
               <<"arp", <<<<j, n>>, q>>>> \in f.left
        PROVE  n <= gen[j]
    <3>1. <<<<j, n>>, q>> \in Devices \X Ips
      BY DEF Devices
    <3>2. CASE <<<<j, n>>, q>> = <<Dev(i), ip>>
      <4>1. <<j, n>> = <<i, gen[i]>>
        BY <1>2, <3>2
      <4>2. n = gen[j] /\ n \in Nat
        BY <4>1
      <4> QED BY <4>2
    <3>3. CASE <<<<j, n>>, q>> # <<Dev(i), ip>>
      <4>1. <<"arp", <<<<j, n>>, q>>>> \in e.left
        BY <2>1, <2>2, <3>1, <3>3 DEF LeavesOnly
      <4> QED BY <1>1, <4>1 DEF LeftInPast
    <3> QED BY <3>2, <3>3
  <2>3. ASSUME NEW j \in Ifaces, NEW q \in Ips,
               f.attached[j] # None, f.attached[j].dev # Dev(j)
        PROVE  <<"arp", <<Dev(j), q>>>> \notin f.left
    <3>1. j # i /\ <<"arp", <<Dev(j), q>>>> \notin e.left
      BY <1>1, <1>4, <2>3 DEF LeftInPast
    <3>2. <<Dev(j), q>> # <<Dev(i), ip>> /\ <<Dev(j), q>> \in Devices \X Ips
      BY <3>1 DEF Dev, Devices
    <3> QED BY <2>1, <3>1, <3>2 DEF LeavesOnly
  <2> QED BY <2>2, <2>3 DEF LeftInPast
<1> QED BY <1>3, <1>4, <1>6, <1>7, <1>8 DEF EngineOK, Fails

\* The engine of a process that has just started.
LEMMA NewEngineOK ==
    ASSUME NEW e, e = E!NewEngine
    PROVE  EngineOK(e) /\ \A i \in Ifaces : e.attached[i] = None
<1>1. /\ e.xdp = {} /\ e.tc = {} /\ e.arp = {} /\ e.dscp = {} /\ e.l2 = {}
      /\ e.attached = [i \in Ifaces |-> None] /\ e.left = {}
  BY DEF E!NewEngine
<1>2. e \in Engines
  BY DEF E!NewEngine, Engines
<1>3. \A i \in Ifaces : e.attached[i] = None
  BY <1>1
<1>4. Fits(e)
  BY <1>1, FS_EmptySet, DaemonAssumption DEF Fits
<1>5. OwnKeys(e) = {} /\ OwnDevs(e) = {}
  BY <1>3 DEF OwnKeys, OwnDevs, On
<1>6. Exact(e)
  BY <1>1, <1>5 DEF Exact, Owns, Holds
<1>7. InPlace(e) /\ LeftInPast(e)
  BY <1>1, <1>3 DEF InPlace, LeftInPast
<1> QED BY <1>2, <1>3, <1>4, <1>6, <1>7 DEF EngineOK

\* The engine's order carries over to the next state unless an interface is
\* created again.
LEMMA EngineStep ==
    ASSUME gen' = gen, EngineOK(engine') PROVE EngineOK(engine)'
<1>1. /\ engine' \in Engines /\ Fits(engine') /\ Exact(engine')
      /\ InPlace(engine') /\ LeftInPast(engine')
  BY DEF EngineOK
<1>2. Exact(engine)'
  BY <1>1 DEF Exact, Owns, OwnKeys, OwnDevs, On, Holds
<1>3. InPlace(engine)' /\ LeftInPast(engine)'
  BY <1>1 DEF InPlace, LeftInPast, Dev
<1> QED BY <1>1, <1>2, <1>3 DEF EngineOK, Fits

\* An interface that is created again: its former device takes the programs
\* with it, and the attachment is to a device that is no more.
LEMMA RecreatedOK ==
    ASSUME EngineOK(engine), gen \in [Ifaces -> 1..MaxGen],
           NEW i \in Ifaces, Recreated(i)
    PROVE  /\ EngineOK(engine)' /\ engine'.attached = engine.attached
           /\ gen' \in [Ifaces -> 1..MaxGen]
<1>1. /\ engine \in Engines /\ Fits(engine) /\ Exact(engine)
      /\ InPlace(engine) /\ LeftInPast(engine)
  BY DEF EngineOK
<1>2. engine = [xdp |-> engine.xdp, tc |-> engine.tc, arp |-> engine.arp,
                dscp |-> engine.dscp, l2 |-> engine.l2,
                attached |-> engine.attached, left |-> engine.left]
  BY <1>1, EngineFields
<1>3. engine' = [engine EXCEPT !.xdp = @ \ {Dev(i)}, !.tc = @ \ {Dev(i)}]
  BY DEF Recreated, E!DeviceGone
<1>4. engine' = [xdp |-> engine.xdp \ {Dev(i)}, tc |-> engine.tc \ {Dev(i)},
                 arp |-> engine.arp, dscp |-> engine.dscp, l2 |-> engine.l2,
                 attached |-> engine.attached, left |-> engine.left]
  BY <1>2, <1>3
<1>5. engine' \in Engines
  BY <1>1, <1>4 DEF Engines
<1>6. /\ engine'.xdp = engine.xdp \ {Dev(i)} /\ engine'.tc = engine.tc \ {Dev(i)}
      /\ engine'.arp = engine.arp /\ engine'.dscp = engine.dscp
      /\ engine'.l2 = engine.l2 /\ engine'.attached = engine.attached
      /\ engine'.left = engine.left
  BY <1>4
<1>7. /\ gen[i] < MaxGen /\ gen' = [gen EXCEPT ![i] = gen[i] + 1]
      /\ MaxGen \in Nat
  BY DaemonAssumption DEF Recreated
<1>8. gen' \in [Ifaces -> 1..MaxGen]
  BY <1>7
<1>9. Fits(engine)' /\ Exact(engine)'
  BY <1>1, <1>6 DEF Fits, Exact, Owns, OwnKeys, OwnDevs, On, Holds
<1>10. ASSUME NEW j \in Ifaces
       PROVE  /\ j = i => /\ gen'[j] = gen[j] + 1 /\ Dev(j)' = <<j, gen[j] + 1>>
              /\ j # i => gen'[j] = gen[j] /\ Dev(j)' = Dev(j) /\ Dev(j) # Dev(i)
              /\ gen[j] \in 1..MaxGen /\ gen[j] <= gen'[j]
  BY <1>7 DEF Dev
<1>11. InPlace(engine)'
  <2> SUFFICES ASSUME NEW j \in Ifaces, engine.attached[j] # None
               PROVE  /\ engine.attached[j].dev[1] = j
                      /\ engine.attached[j].dev[2] <= gen'[j]
                      /\ engine.attached[j].dev = Dev(j)' =>
                            /\ Dev(j)' \in engine'.xdp
                            /\ DscpMode => Dev(j)' \in engine'.tc
    BY <1>6 DEF InPlace
  <2>1. /\ engine.attached[j].dev[1] = j
        /\ engine.attached[j].dev[2] <= gen[j]
        /\ engine.attached[j].dev = Dev(j) =>
              /\ Dev(j) \in engine.xdp
              /\ DscpMode => Dev(j) \in engine.tc
    BY <1>1 DEF InPlace
  <2>2. engine.attached[j].dev[2] \in Nat
    BY <1>1 DEF Engines, Attachment, Devices
  <2>3. CASE j = i
    <3>1. gen[j] \in Nat /\ gen'[j] = gen[j] + 1 /\ Dev(j)'[2] = gen[j] + 1
      BY <1>10, <2>3
    <3>2. engine.attached[j].dev # Dev(j)'
      BY <2>1, <2>2, <3>1
    <3> QED BY <2>1, <2>2, <3>1, <3>2
  <2>4. CASE j # i
    BY <1>6, <1>10, <2>1, <2>4
  <2> QED BY <2>3, <2>4
<1>12. LeftInPast(engine)'
  <2>1. ASSUME NEW j \in Ifaces, NEW n \in 1..MaxGen, NEW ip \in Ips,
               <<"arp", <<<<j, n>>, ip>>>> \in engine.left
        PROVE  n <= gen[j] /\ n <= gen'[j]
    BY <1>1, <1>10, <2>1, DaemonAssumption DEF LeftInPast
  <2>2. ASSUME NEW j \in Ifaces, NEW ip \in Ips,
               engine.attached[j] # None, engine.attached[j].dev # Dev(j)'
        PROVE  <<"arp", <<Dev(j)', ip>>>> \notin engine.left
    <3>1. CASE j = i
      <4>1. gen[j] + 1 \in 1..MaxGen /\ ~(gen[j] + 1 <= gen[j])
        BY <1>7, <1>10, <3>1
      <4>2. Dev(j)' = <<j, gen[j] + 1>>
        BY <1>10, <3>1
      <4> QED BY <2>1, <4>1, <4>2
    <3>2. CASE j # i
      BY <1>1, <1>10, <2>2, <3>2 DEF LeftInPast
    <3> QED BY <3>1, <3>2
  <2> QED BY <1>6, <2>1, <2>2 DEF LeftInPast
<1> QED BY <1>5, <1>6, <1>8, <1>9, <1>11, <1>12 DEF EngineOK

-----------------------------------------------------------------------------
(* Steps of the tasks.                                                     *)

\* A task is not concerned by what happens to other interfaces.
LEMMA OthersAgree ==
    ASSUME NEW j \in Ifaces, TaskAgrees(j),
           leases'[j] = leases[j], pc'[j] = pc[j], offer'[j] = offer[j],
           neigh'[j] = neigh[j], engine'.attached[j] = engine.attached[j]
    PROVE  TaskAgrees(j)'
  BY DEF TaskAgrees

LEMMA OrphansCounted ==
    ASSUME orphans \in 0..MaxOrphans, NEW i \in Ifaces, AbortsNeigh(i)
    PROVE  orphans' \in 0..MaxOrphans
  BY DaemonAssumption DEF AbortsNeigh

\* A step of one interface that leaves the engine and the commands alone.
TableStep(i) ==
    /\ UNCHANGED <<engine, blocking, pinned, gwMac, gen>>
    /\ orphans' \in 0..MaxOrphans
    /\ \A j \in Ifaces \ {i} : /\ leases'[j] = leases[j] /\ pc'[j] = pc[j]
                              /\ offer'[j] = offer[j] /\ neigh'[j] = neigh[j]

LEMMA TableStepInv ==
    ASSUME DaemonInv, NEW i \in Ifaces, TableStep(i),
           leases' \in [Ifaces -> Lease \cup {None}],
           offer' \in [Ifaces -> Lease \cup {None}],
           pc' \in [Ifaces -> Steps],
           neigh' \in [Ifaces -> Refreshers \cup {None}],
           (neigh'[i] # None /\ neigh'[i].pc # "probe") => neigh'[i].mac \in Macs,
           TaskAgrees(i)'
    PROVE  DaemonInv'
<1>1. TableTypes'
  BY DEF DaemonInv, TableTypes, TableStep
<1>2. MoreTypes'
  <2>1. \A j \in Ifaces : (neigh'[j] # None /\ neigh'[j].pc # "probe") =>
                             neigh'[j].mac \in Macs
    BY DEF DaemonInv, MoreTypes, TableStep
  <2> QED BY <2>1 DEF DaemonInv, MoreTypes, TableStep
<1>3. EngineOK(engine)'
  BY EngineStep DEF DaemonInv, TableStep
<1>4. TasksAgree'
  <2>1. ASSUME NEW j \in Ifaces, j # i PROVE TaskAgrees(j)'
    BY <2>1, OthersAgree DEF DaemonInv, TasksAgree, TableStep
  <2> QED BY <2>1 DEF TasksAgree
<1> QED BY <1>1, <1>2, <1>3, <1>4 DEF DaemonInv

LEMMA StartClientInv ==
    ASSUME DaemonInv, NEW i \in Ifaces, StartClient(i) PROVE DaemonInv'
<1>1. TableTypes /\ MoreTypes /\ TaskAgrees(i)
  BY DEF DaemonInv, TasksAgree
<1>2. /\ pc[i] = "init" /\ pc' = [pc EXCEPT ![i] = "wait"]
      /\ UNCHANGED <<engine, leases, offer, neigh, blocking, orphans, pinned,
                     gwMac, gen>>
  BY DEF StartClient, jobs, world
<1>3. TableStep(i) /\ pc' \in [Ifaces -> Steps]
  BY <1>1, <1>2 DEF TableTypes, TableStep, Steps
<1>4. TaskAgrees(i)'
  BY <1>1, <1>2 DEF TableTypes, TaskAgrees
<1> QED BY <1>1, <1>2, <1>3, <1>4, TableStepInv DEF TableTypes, MoreTypes

LEMMA StoreLeaseInv ==
    ASSUME DaemonInv, NEW i \in Ifaces, StoreLease(i) PROVE DaemonInv'
<1>1. TableTypes /\ MoreTypes /\ TaskAgrees(i)
  BY DEF DaemonInv, TasksAgree
<1>2. /\ pc[i] = "store" /\ pc' = [pc EXCEPT ![i] = "wait"]
      /\ leases' = [leases EXCEPT ![i] = offer[i]]
      /\ neigh' = [neigh EXCEPT ![i] = Refresher(offer[i])]
      /\ offer' = [offer EXCEPT ![i] = None]
      /\ AbortsNeigh(i)
      /\ UNCHANGED <<engine, blocking, pinned, gwMac, gen>>
  BY DEF StoreLease, world
<1>3. /\ offer[i] # None /\ offer[i] \in Lease
      /\ engine.attached[i] # None /\ engine.attached[i].ip = offer[i].ip
  BY <1>1, <1>2 DEF TaskAgrees, TableTypes
<1>4. orphans' \in 0..MaxOrphans
  BY <1>1, <1>2, OrphansCounted DEF TableTypes
<1>5. /\ Refresher(offer[i]) \in Refreshers
      /\ Refresher(offer[i]).pc = "probe"
      /\ Refresher(offer[i]).gateway = offer[i].gateway
  BY <1>3 DEF Refresher, Refreshers, Lease
<1>6. /\ TableStep(i) /\ pc' \in [Ifaces -> Steps]
      /\ leases' \in [Ifaces -> Lease \cup {None}]
      /\ offer' \in [Ifaces -> Lease \cup {None}]
      /\ neigh' \in [Ifaces -> Refreshers \cup {None}]
  BY <1>1, <1>2, <1>3, <1>4, <1>5 DEF TableTypes, MoreTypes, TableStep, Steps
<1>7. /\ pc'[i] = "wait" /\ leases'[i] = offer[i]
      /\ neigh'[i] = Refresher(offer[i])
  BY <1>1, <1>2 DEF TableTypes, MoreTypes
<1>8. TaskAgrees(i)'
  BY <1>2, <1>3, <1>5, <1>7 DEF TaskAgrees
<1> QED BY <1>5, <1>6, <1>7, <1>8, TableStepInv

LEMMA DropLeaseInv ==
    ASSUME DaemonInv, NEW i \in Ifaces, DropLease(i) PROVE DaemonInv'
<1>1. TableTypes /\ MoreTypes /\ TaskAgrees(i)
  BY DEF DaemonInv, TasksAgree
<1>2. /\ pc[i] = "drop" /\ pc' = [pc EXCEPT ![i] = "wait"]
      /\ leases' = [leases EXCEPT ![i] = None]
      /\ UNCHANGED <<engine, offer, neigh, blocking, orphans, pinned, gwMac, gen>>
  BY DEF DropLease, jobs, world
<1>3. /\ TableStep(i) /\ pc' \in [Ifaces -> Steps]
      /\ leases' \in [Ifaces -> Lease \cup {None}]
      /\ offer' \in [Ifaces -> Lease \cup {None}]
  BY <1>1, <1>2 DEF TableTypes, TableStep, Steps
<1>4. TaskAgrees(i)'
  BY <1>1, <1>2 DEF TableTypes, TaskAgrees
<1> QED BY <1>1, <1>2, <1>3, <1>4, TableStepInv DEF MoreTypes

LEMMA ForgetInv ==
    ASSUME DaemonInv, NEW i \in Ifaces,
           ForgetOnError(i) \/ ForgetOnClose(i)
    PROVE  DaemonInv'
<1>1. TableTypes /\ MoreTypes /\ TaskAgrees(i)
  BY DEF DaemonInv, TasksAgree
<1>2. /\ \/ pc[i] = "forgetOnError" /\ pc' = [pc EXCEPT ![i] = "close"]
         \/ pc[i] = "forget" /\ pc' = [pc EXCEPT ![i] = "init"]
      /\ leases' = [leases EXCEPT ![i] = None]
      /\ UNCHANGED <<engine, offer, neigh, blocking, orphans, pinned, gwMac, gen>>
  BY DEF ForgetOnError, ForgetOnClose, Forget, jobs, world
<1>3. /\ TableStep(i) /\ pc' \in [Ifaces -> Steps]
      /\ leases' \in [Ifaces -> Lease \cup {None}]
  BY <1>1, <1>2 DEF TableTypes, TableStep, Steps
<1>4. TaskAgrees(i)'
  BY <1>1, <1>2 DEF TableTypes, TaskAgrees
<1> QED BY <1>1, <1>2, <1>3, <1>4, TableStepInv DEF MoreTypes, TableTypes

\* What a lease event makes of the engine: the interface answers for the new
\* address and the task goes on to the table, or it is detached.
LEMMA LeaseEventShape ==
    ASSUME DaemonInv, NEW i \in Ifaces, NEW l \in Lease, LeaseEvent(i, l)
    PROVE  /\ EngineOK(engine')
           /\ \A j \in Ifaces \ {i} : engine'.attached[j] = engine.attached[j]
           /\ \/ /\ pc' = [pc EXCEPT ![i] = "store"]
                 /\ offer' = [offer EXCEPT ![i] = l]
                 /\ engine'.attached[i] # None
                 /\ engine'.attached[i].ip = l.ip
              \/ /\ pc' = [pc EXCEPT ![i] = "drop"] /\ offer' = offer
                 /\ engine'.attached[i] = None
<1>1. /\ EngineOK(engine) /\ gen \in [Ifaces -> 1..MaxGen] /\ l.ip \in Ips
      /\ engine.attached \in [Ifaces -> Attachment \cup {None}]
  BY DEF DaemonInv, MoreTypes, Lease, EngineOK, Engines
<1>2. PICK e \in E!RemoveInterface(engine, i) :
         \/ /\ E!AddPossible(e, i, Dev(i), l.ip)
            /\ engine' = E!AddInterface(e, i, Dev(i), l.ip)
            /\ pc' = [pc EXCEPT ![i] = "store"]
            /\ offer' = [offer EXCEPT ![i] = l]
         \/ /\ engine' \in E!AddFailures(e, i, Dev(i), l.ip)
            /\ pc' = [pc EXCEPT ![i] = "drop"] /\ offer' = offer
  BY DEF LeaseEvent
<1>3. EngineOK(e) /\ e.attached = [engine.attached EXCEPT ![i] = None]
  BY <1>1, RemoveOK
<1>4. e.attached[i] = None /\ e.attached \in [Ifaces -> Attachment \cup {None}]
      /\ \A j \in Ifaces \ {i} : e.attached[j] = engine.attached[j]
  BY <1>1, <1>3
<1>5. CASE /\ E!AddPossible(e, i, Dev(i), l.ip)
           /\ engine' = E!AddInterface(e, i, Dev(i), l.ip)
           /\ pc' = [pc EXCEPT ![i] = "store"]
           /\ offer' = [offer EXCEPT ![i] = l]
  <2> DEFINE a == [dev |-> Dev(i), ip |-> l.ip, tc |-> DscpMode]
  <2>1. EngineOK(engine') /\ engine'.attached = [e.attached EXCEPT ![i] = a]
    BY <1>1, <1>3, <1>5, AddOK
  <2>2. a # None /\ a.ip = l.ip
    <3>1. a \in [dev : Ifaces \X Nat, ip : Ips, tc : BOOLEAN]
      BY <1>1, DaemonAssumption DEF Dev
    <3>2. a.ip = l.ip
      OBVIOUS
    <3> HIDE DEF a
    <3> QED BY <3>1, <3>2, DaemonAssumption
  <2> HIDE DEF a
  <2>3. engine'.attached[i] = a
        /\ \A j \in Ifaces \ {i} : engine'.attached[j] = e.attached[j]
    BY <1>4, <2>1
  <2> QED BY <1>4, <1>5, <2>1, <2>2, <2>3
<1>6. CASE /\ engine' \in E!AddFailures(e, i, Dev(i), l.ip)
           /\ pc' = [pc EXCEPT ![i] = "drop"] /\ offer' = offer
  <2>1. EngineOK(engine') /\ engine'.attached = e.attached
    BY <1>1, <1>3, <1>4, <1>6, FailureOK
  <2> QED BY <1>4, <1>6, <2>1
<1> QED BY <1>2, <1>5, <1>6

\* A step of one interface that changes the engine and not the table.
LEMMA EngineStepInv ==
    ASSUME DaemonInv, NEW i \in Ifaces,
           EngineOK(engine'),
           \A j \in Ifaces \ {i} :
              /\ engine'.attached[j] = engine.attached[j] /\ pc'[j] = pc[j]
              /\ offer'[j] = offer[j] /\ neigh'[j] = neigh[j],
           pc' \in [Ifaces -> Steps],
           offer' \in [Ifaces -> Lease \cup {None}],
           neigh' \in [Ifaces -> Refreshers \cup {None}],
           neigh'[i] \in {neigh[i], None},
           orphans' \in 0..MaxOrphans,
           UNCHANGED <<leases, blocking, pinned, gwMac, gen>>,
           TaskAgrees(i)'
    PROVE  DaemonInv'
<1>1. TableTypes'
  BY DEF DaemonInv, TableTypes
<1>2. MoreTypes'
  <2>1. \A j \in Ifaces : (neigh'[j] # None /\ neigh'[j].pc # "probe") =>
                             neigh'[j].mac \in Macs
    BY DEF DaemonInv, MoreTypes
  <2> QED BY <2>1 DEF DaemonInv, MoreTypes
<1>3. EngineOK(engine)'
  BY EngineStep
<1>4. TasksAgree'
  <2>1. ASSUME NEW j \in Ifaces, j # i PROVE TaskAgrees(j)'
    BY <2>1, OthersAgree DEF DaemonInv, TasksAgree
  <2> QED BY <2>1 DEF TasksAgree
<1> QED BY <1>1, <1>2, <1>3, <1>4 DEF DaemonInv

LEMMA LeaseEventInv ==
    ASSUME DaemonInv, NEW i \in Ifaces, NEW l \in Lease, LeaseEvent(i, l)
    PROVE  DaemonInv'
<1>1. TableTypes /\ MoreTypes
  BY DEF DaemonInv
<1>2. UNCHANGED <<leases, neigh, blocking, orphans, pinned, gwMac, gen>>
  BY DEF LeaseEvent, jobs, world
<1>3. /\ EngineOK(engine')
      /\ \A j \in Ifaces \ {i} : engine'.attached[j] = engine.attached[j]
      /\ \/ /\ pc' = [pc EXCEPT ![i] = "store"]
            /\ offer' = [offer EXCEPT ![i] = l]
            /\ engine'.attached[i] # None
            /\ engine'.attached[i].ip = l.ip
         \/ /\ pc' = [pc EXCEPT ![i] = "drop"] /\ offer' = offer
            /\ engine'.attached[i] = None
  BY LeaseEventShape
<1>4. /\ pc' \in [Ifaces -> Steps] /\ offer' \in [Ifaces -> Lease \cup {None}]
      /\ \A j \in Ifaces \ {i} : pc'[j] = pc[j] /\ offer'[j] = offer[j]
  BY <1>1, <1>2, <1>3 DEF TableTypes, Steps
<1>5. l # None
  BY DaemonAssumption
<1>6. \/ /\ pc'[i] = "store" /\ offer'[i] = l
         /\ engine'.attached[i] # None /\ engine'.attached[i].ip = l.ip
      \/ pc'[i] = "drop" /\ engine'.attached[i] = None
  BY <1>1, <1>3 DEF TableTypes
<1>7. TaskAgrees(i)'
  BY <1>4, <1>5, <1>6 DEF TaskAgrees
<1> QED BY <1>1, <1>2, <1>3, <1>4, <1>7, EngineStepInv DEF TableTypes, MoreTypes

\* The three detaches: the interface is out of the engine.
LEMMA DetachShape ==
    ASSUME DaemonInv, NEW i \in Ifaces, NEW from, NEW to, NEW aborts,
           Detach(i, from, to, aborts)
    PROVE  /\ EngineOK(engine') /\ engine'.attached[i] = None
           /\ \A j \in Ifaces \ {i} : engine'.attached[j] = engine.attached[j]
<1>1. /\ EngineOK(engine) /\ engine' \in E!RemoveInterface(engine, i)
      /\ gen \in [Ifaces -> 1..MaxGen]
      /\ engine.attached \in [Ifaces -> Attachment \cup {None}]
  BY DEF DaemonInv, MoreTypes, Detach, EngineOK, Engines
<1>2. EngineOK(engine') /\ engine'.attached = [engine.attached EXCEPT ![i] = None]
  BY <1>1, RemoveOK
<1> QED BY <1>1, <1>2

LEMMA DetachInv ==
    ASSUME DaemonInv, NEW i \in Ifaces,
           ErrorEvent(i) \/ StreamEnds(i) \/ Close(i)
    PROVE  DaemonInv'
<1>1. TableTypes /\ MoreTypes
  BY DEF DaemonInv
<1>2. /\ EngineOK(engine') /\ engine'.attached[i] = None
      /\ \A j \in Ifaces \ {i} : engine'.attached[j] = engine.attached[j]
  BY DetachShape DEF ErrorEvent, StreamEnds, Close
<1>3. /\ UNCHANGED <<leases, offer, blocking, pinned, gwMac, gen>>
      /\ \/ pc' = [pc EXCEPT ![i] = "forgetOnError"] /\ UNCHANGED <<neigh, orphans>>
         \/ /\ pc' = [pc EXCEPT ![i] = "forget"]
            /\ neigh' = [neigh EXCEPT ![i] = None] /\ AbortsNeigh(i)
  BY DEF ErrorEvent, StreamEnds, Close, Detach, world
<1>4. orphans' \in 0..MaxOrphans
  BY <1>1, <1>3, OrphansCounted DEF TableTypes
<1>5. /\ pc' \in [Ifaces -> Steps] /\ neigh' \in [Ifaces -> Refreshers \cup {None}]
      /\ \A j \in Ifaces \ {i} : pc'[j] = pc[j] /\ neigh'[j] = neigh[j]
      /\ neigh'[i] \in {neigh[i], None}
  BY <1>1, <1>3 DEF TableTypes, MoreTypes, Steps
<1>6. pc'[i] = "forgetOnError" \/ (pc'[i] = "forget" /\ neigh'[i] = None)
  BY <1>1, <1>3 DEF TableTypes, MoreTypes
<1>7. TaskAgrees(i)'
  BY <1>2, <1>6 DEF TaskAgrees
<1> QED BY <1>1, <1>2, <1>3, <1>4, <1>5, <1>7, EngineStepInv DEF TableTypes

\* The refresher's steps keep its gateway, and no MAC but a probed one is
\* ever handed to a command.
LEMMA ProbeInv ==
    ASSUME DaemonInv, NEW i \in Ifaces, Probe(i) PROVE DaemonInv'
<1>1. TableTypes /\ MoreTypes /\ TaskAgrees(i)
  BY DEF DaemonInv, TasksAgree
<1>2. /\ neigh[i] # None /\ neigh[i] \in Refreshers
      /\ UNCHANGED <<engine, leases, pc, offer, blocking, orphans, pinned, gwMac, gen>>
  BY <1>1 DEF Probe, jobs, world, MoreTypes
<1>3. CASE neigh' = [neigh EXCEPT ![i] = None]
  <2>1. /\ neigh' \in [Ifaces -> Refreshers \cup {None}] /\ neigh'[i] = None
        /\ TableStep(i)
    BY <1>1, <1>2, <1>3 DEF MoreTypes, TableStep, TableTypes
  <2>2. TaskAgrees(i)'
    BY <1>1, <1>2, <2>1 DEF TaskAgrees
  <2> QED BY <1>1, <1>2, <2>1, <2>2, TableStepInv DEF TableTypes
<1>4. CASE /\ ProbeGatewayMac(neigh[i].gateway) # None
           /\ neigh' = [neigh EXCEPT ![i].mac = ProbeGatewayMac(neigh[i].gateway),
                                     ![i].pc = "pin"]
  <2> DEFINE m == gwMac[neigh[i].gateway]
             r == [gateway |-> neigh[i].gateway, mac |-> m, pc |-> "pin"]
  <2>1. m \in Macs
    BY <1>1, <1>2, <1>4 DEF ProbeGatewayMac, MoreTypes, Refreshers
  <2>2. neigh' = [neigh EXCEPT ![i].mac = m, ![i].pc = "pin"]
    BY <1>4 DEF ProbeGatewayMac
  <2> HIDE DEF m
  <2>3. neigh'[i] = r /\ \A j \in Ifaces \ {i} : neigh'[j] = neigh[j]
    BY <1>1, <1>2, <2>2 DEF MoreTypes, Refreshers
  <2>4. r \in Refreshers /\ r.mac \in Macs /\ r.gateway = neigh[i].gateway
    BY <1>2, <2>1 DEF Refreshers
  <2> HIDE DEF r
  <2>5. neigh' \in [Ifaces -> Refreshers \cup {None}]
    <3>1. neigh' = [j \in Ifaces |-> neigh'[j]]
      BY <1>1, <2>2 DEF MoreTypes
    <3>2. \A j \in Ifaces : neigh'[j] \in Refreshers \cup {None}
      BY <1>1, <2>3, <2>4 DEF MoreTypes
    <3> QED BY <3>1, <3>2
  <2>6. TableStep(i)
    BY <1>1, <1>2, <2>3 DEF TableStep, TableTypes
  <2>7. TaskAgrees(i)'
    BY <1>1, <1>2, <2>3, <2>4 DEF TaskAgrees
  <2> QED BY <1>1, <1>2, <2>3, <2>4, <2>5, <2>6, <2>7, TableStepInv DEF TableTypes
<1> QED BY <1>3, <1>4 DEF Probe

\* A refresher moves on from where it was, with the gateway and the MAC it has.
SameRefresher(r, q) ==
    /\ (q = None) <=> (r = None)
    /\ r # None => /\ q \in Refreshers
                   /\ q.gateway = r.gateway /\ q.mac = r.mac
                   /\ q.pc # "probe" => r.pc # "probe"

\* A step that concerns neither the engine nor the lease table.
LEMMA NeighStepInv ==
    ASSUME DaemonInv,
           UNCHANGED <<engine, leases, pc, offer, gen>>,
           blocking' \subseteq Commands, orphans' \in 0..MaxOrphans,
           pinned' \in [Ifaces \X Gateways -> Macs \cup {None}],
           gwMac' \in [Gateways -> Macs \cup {None}],
           neigh' = [j \in Ifaces |-> neigh'[j]],
           \A j \in Ifaces : SameRefresher(neigh[j], neigh'[j])
    PROVE  DaemonInv'
<1>1. TableTypes'
  BY DEF DaemonInv, TableTypes
<1>2. neigh' \in [Ifaces -> Refreshers \cup {None}]
  <2>1. \A j \in Ifaces : neigh'[j] \in Refreshers \cup {None}
    BY DEF SameRefresher
  <2> QED BY <2>1
<1>3. \A j \in Ifaces : (neigh'[j] # None /\ neigh'[j].pc # "probe") =>
                           neigh'[j].mac \in Macs
  BY DEF DaemonInv, MoreTypes, SameRefresher
<1>4. MoreTypes'
  BY <1>2, <1>3 DEF DaemonInv, MoreTypes
<1>5. EngineOK(engine)'
  BY EngineStep DEF DaemonInv
<1>6. ASSUME NEW j \in Ifaces PROVE TaskAgrees(j)'
  <2>1. TaskAgrees(j) /\ SameRefresher(neigh[j], neigh'[j])
    BY DEF DaemonInv, TasksAgree
  <2> QED BY <2>1 DEF TaskAgrees, SameRefresher
<1> QED BY <1>1, <1>4, <1>5, <1>6 DEF DaemonInv, TasksAgree

\* Setting only the step of a refresher.
LEMMA PcSet ==
    ASSUME MoreTypes, NEW i \in Ifaces, neigh[i] # None,
           neigh[i].pc # "probe",
           NEW p \in {"pin", "pinning", "tick"},
           neigh' = [neigh EXCEPT ![i].pc = p]
    PROVE  /\ neigh' = [j \in Ifaces |-> neigh'[j]]
           /\ \A j \in Ifaces : SameRefresher(neigh[j], neigh'[j])
<1>1. neigh[i] \in Refreshers
  BY DEF MoreTypes
<1>2. neigh' = [j \in Ifaces |-> neigh'[j]]
  BY DEF MoreTypes
<1> DEFINE r == [gateway |-> neigh[i].gateway, mac |-> neigh[i].mac, pc |-> p]
<1>3. neigh'[i] = r /\ \A j \in Ifaces \ {i} : neigh'[j] = neigh[j]
  BY <1>1 DEF MoreTypes, Refreshers
<1>4. /\ r \in Refreshers /\ r.gateway = neigh[i].gateway /\ r.mac = neigh[i].mac
  BY <1>1 DEF Refreshers
<1>5. r # None
  <2> HIDE DEF r
  <2> QED BY <1>4, DaemonAssumption DEF Refreshers
<1> HIDE DEF r
<1>6. SameRefresher(neigh[i], neigh'[i])
  BY <1>3, <1>4, <1>5 DEF SameRefresher
<1>7. \A j \in Ifaces \ {i} : SameRefresher(neigh[j], neigh'[j])
  BY <1>3 DEF SameRefresher, MoreTypes
<1> QED BY <1>2, <1>6, <1>7

LEMMA Unmoved ==
    ASSUME MoreTypes, neigh' = neigh
    PROVE  /\ neigh' = [j \in Ifaces |-> neigh'[j]]
           /\ \A j \in Ifaces : SameRefresher(neigh[j], neigh'[j])
  BY DEF MoreTypes, SameRefresher

LEMMA PinInv ==
    ASSUME DaemonInv, NEW i \in Ifaces, Pin(i) PROVE DaemonInv'
<1>1. TableTypes /\ MoreTypes
  BY DEF DaemonInv
<1>2. /\ neigh[i] # None /\ neigh[i] \in Refreshers /\ neigh[i].pc # "probe"
      /\ neigh[i].mac \in Macs /\ neigh[i].gateway \in Gateways
  BY <1>1 DEF Pin, MoreTypes, Refreshers
<1>3. /\ neigh' = [neigh EXCEPT ![i].pc = "pinning"]
      /\ blocking' = blocking \cup {<<i, neigh[i].gateway, neigh[i].mac>>}
      /\ UNCHANGED <<engine, leases, pc, offer, orphans, pinned, gwMac, gen>>
  BY DEF Pin, world
<1>4. blocking' \subseteq Commands
  BY <1>1, <1>2, <1>3 DEF TableTypes, Commands
<1>5. /\ neigh' = [j \in Ifaces |-> neigh'[j]]
      /\ \A j \in Ifaces : SameRefresher(neigh[j], neigh'[j])
  BY <1>1, <1>2, <1>3, PcSet
<1> QED BY <1>1, <1>3, <1>4, <1>5, NeighStepInv DEF TableTypes, MoreTypes

LEMMA RunIpNeighInv ==
    ASSUME DaemonInv, NEW c \in blocking, NEW ok \in BOOLEAN, RunIpNeigh(c, ok)
    PROVE  DaemonInv'
<1>1. TableTypes /\ MoreTypes
  BY DEF DaemonInv
<1>2. c[1] \in Ifaces /\ c[2] \in Gateways /\ c[3] \in Macs
  BY <1>1 DEF TableTypes, Commands
<1>3. /\ blocking' = blocking \ {c}
      /\ UNCHANGED <<engine, leases, pc, offer, orphans, gwMac, gen>>
  BY DEF RunIpNeigh
<1>4. pinned' \in [Ifaces \X Gateways -> Macs \cup {None}]
  <2>1. CASE pinned' = pinned
    BY <1>1, <2>1 DEF TableTypes
  <2>2. CASE pinned' = [pinned EXCEPT ![<<c[1], c[2]>>] = c[3]]
    BY <1>1, <1>2, <2>2 DEF TableTypes
  <2> QED BY <2>1, <2>2 DEF RunIpNeigh
<1>5. /\ neigh' = [j \in Ifaces |-> neigh'[j]]
      /\ \A j \in Ifaces : SameRefresher(neigh[j], neigh'[j])
  <2>1. CASE neigh' = neigh
    BY <1>1, <2>1, Unmoved
  <2>2. CASE /\ neigh[c[1]] # None /\ neigh[c[1]].pc = "pinning"
             /\ neigh' = [neigh EXCEPT ![c[1]].pc = "tick"]
    BY <1>1, <1>2, <2>2, PcSet
  <2> QED BY <2>1, <2>2 DEF RunIpNeigh
<1> QED BY <1>1, <1>3, <1>4, <1>5, NeighStepInv DEF TableTypes, MoreTypes

LEMMA OrphanEndsInv == ASSUME DaemonInv, OrphanEnds PROVE DaemonInv'
<1>1. TableTypes /\ MoreTypes
  BY DEF DaemonInv
<1>2. UNCHANGED <<engine, leases, pc, offer, neigh, blocking, pinned, gwMac, gen>>
  BY DEF OrphanEnds, world
<1>3. orphans' \in 0..MaxOrphans
  BY <1>1, DaemonAssumption DEF OrphanEnds, TableTypes
<1> QED BY <1>1, <1>2, <1>3, Unmoved, NeighStepInv DEF TableTypes, MoreTypes

LEMMA GatewayReplacedInv ==
    ASSUME DaemonInv, NEW g \in Gateways, NEW m \in Macs \cup {None},
           GatewayReplaced(g, m)
    PROVE  DaemonInv'
<1>1. TableTypes /\ MoreTypes
  BY DEF DaemonInv
<1>2. /\ gwMac' = [gwMac EXCEPT ![g] = m]
      /\ UNCHANGED <<engine, leases, pc, offer, neigh, blocking, orphans, pinned, gen>>
  BY DEF GatewayReplaced, jobs
<1>3. gwMac' \in [Gateways -> Macs \cup {None}]
  BY <1>1, <1>2 DEF MoreTypes
<1> QED BY <1>1, <1>2, <1>3, Unmoved, NeighStepInv DEF TableTypes

LEMMA RecreatedInv ==
    ASSUME DaemonInv, NEW i \in Ifaces, Recreated(i) PROVE DaemonInv'
<1>1. /\ EngineOK(engine)' /\ engine'.attached = engine.attached
      /\ gen' \in [Ifaces -> 1..MaxGen]
  BY RecreatedOK DEF DaemonInv, MoreTypes
<1>2. UNCHANGED <<leases, pc, offer, neigh, blocking, orphans, pinned, gwMac>>
  BY DEF Recreated, jobs
<1>3. TableTypes' /\ MoreTypes'
  BY <1>1, <1>2 DEF DaemonInv, TableTypes, MoreTypes
<1>4. TasksAgree'
  BY <1>1, <1>2, OthersAgree DEF DaemonInv, TasksAgree
<1> QED BY <1>1, <1>3, <1>4 DEF DaemonInv

\* A process that has just started, the first or a later one.
Started ==
    /\ engine = E!NewEngine
    /\ leases = [i \in Ifaces |-> None]
    /\ pc = [i \in Ifaces |-> "init"]
    /\ offer = [i \in Ifaces |-> None]
    /\ neigh = [i \in Ifaces |-> None]
    /\ blocking = {} /\ orphans = 0
    /\ pinned \in [Ifaces \X Gateways -> Macs \cup {None}]
    /\ gwMac \in [Gateways -> Macs \cup {None}]
    /\ gen \in [Ifaces -> 1..MaxGen]

LEMMA StartedInv == Started => DaemonInv
<1> SUFFICES ASSUME Started PROVE DaemonInv
  OBVIOUS
<1>1. TableTypes /\ MoreTypes
  BY DaemonAssumption DEF Started, TableTypes, MoreTypes, Steps
<1>2. EngineOK(engine) /\ \A i \in Ifaces : engine.attached[i] = None
  BY NewEngineOK DEF Started
<1>3. TasksAgree
  BY <1>2 DEF Started, TasksAgree, TaskAgrees
<1> QED BY <1>1, <1>2, <1>3 DEF DaemonInv

LEMMA DaemonInit == Init => DaemonInv
<1>1. Init => Started
  BY DaemonAssumption DEF Init, Started
<1> QED BY <1>1, StartedInv

LEMMA RestartInv == DaemonInv /\ Restart => DaemonInv'
<1>1. DaemonInv /\ Restart => Started'
  BY DEF DaemonInv, TableTypes, MoreTypes, Restart, Started, world
<1>2. Started' => DaemonInv'
  BY StartedInv, PTL
<1> QED BY <1>1, <1>2

LEMMA StutterInv == DaemonInv /\ UNCHANGED vars => DaemonInv'
<1> SUFFICES ASSUME DaemonInv, UNCHANGED vars PROVE DaemonInv'
  OBVIOUS
<1>1. UNCHANGED <<engine, leases, pc, offer, neigh, blocking, orphans, pinned,
                  gwMac, gen>>
  BY DEF vars, jobs, world
<1> QED BY <1>1, Unmoved, NeighStepInv DEF DaemonInv, TableTypes, MoreTypes

LEMMA NextInv == DaemonInv /\ [Next]_vars => DaemonInv'
<1> SUFFICES ASSUME DaemonInv, [Next]_vars PROVE DaemonInv'
  OBVIOUS
<1>1. ASSUME NEW i \in Ifaces, DhcpStep(i) PROVE DaemonInv'
  BY <1>1, StartClientInv, StoreLeaseInv, DropLeaseInv, ForgetInv, DetachInv
     DEF DhcpStep
<1>2. ASSUME NEW i \in Ifaces, NEW l \in Lease, LeaseEvent(i, l) PROVE DaemonInv'
  BY <1>2, LeaseEventInv
<1>3. ASSUME NEW i \in Ifaces, ErrorEvent(i) \/ StreamEnds(i) PROVE DaemonInv'
  BY <1>3, DetachInv
<1>4. ASSUME NEW i \in Ifaces, Probe(i) PROVE DaemonInv'
  BY <1>4, ProbeInv
<1>5. ASSUME NEW i \in Ifaces, Pin(i) PROVE DaemonInv'
  BY <1>5, PinInv
<1>6. ASSUME NEW i \in Ifaces, Recreated(i) PROVE DaemonInv'
  BY <1>6, RecreatedInv
<1>7. ASSUME NEW c \in blocking, NEW ok \in BOOLEAN, RunIpNeigh(c, ok)
      PROVE  DaemonInv'
  BY <1>7, RunIpNeighInv
<1>8. CASE OrphanEnds
  BY <1>8, OrphanEndsInv
<1>9. CASE Restart
  BY <1>9, RestartInv
<1>10. ASSUME NEW g \in Gateways, NEW m \in Macs \cup {None}, GatewayReplaced(g, m)
       PROVE  DaemonInv'
  BY <1>10, GatewayReplacedInv
<1>11. CASE UNCHANGED vars
  BY <1>11, StutterInv
<1> QED BY <1>1, <1>2, <1>3, <1>4, <1>5, <1>6, <1>7, <1>8, <1>9, <1>10, <1>11
        DEF Next

-----------------------------------------------------------------------------
(* Theorems.                                                               *)

\* The invariant the results below follow from: an engine in order, and each
\* DHCP task's knowledge of its lease between the engine's lock and the
\* table's (dhcp.rs, state.rs).
THEOREM DaemonInvariant == Spec => []DaemonInv
  BY DaemonInit, NextInv, PTL DEF Spec

\* The variables keep their types: no map outgrows its max_entries, and no
\* `ip neigh replace` is ever given an unknown MAC.
THEOREM DaemonTypes == Spec => []TypeOK
<1>1. DaemonInv => TypeOK
  BY DEF DaemonInv, TableTypes, EngineOK, Fits, TypeOK
<1> QED BY DaemonInvariant, <1>1, PTL

\* Whatever the point at which add_interface or remove_interface fails,
\* whichever removals of map entries fail and are ignored, and whenever
\* interfaces are created again, the maps hold the entries of the interfaces
\* the engine counts as attached, and beyond them only entries whose own
\* removal was tried and failed.
THEOREM NothingEverLeaks == Spec => []NothingLeaks
<1>1. DaemonInv => NothingLeaks
  <2> SUFFICES ASSUME DaemonInv PROVE NothingLeaks
    OBVIOUS
  <2>1. Owns(engine, OwnKeys(engine), OwnDevs(engine), OwnDevs(engine))
    BY DEF DaemonInv, EngineOK, Exact
  <2>2. On(engine) = Attached
    BY DEF On, Attached
  <2> QED BY <2>1, <2>2 DEF Owns, Holds, OwnKeys, OwnDevs, NothingLeaks
<1> QED BY DaemonInvariant, <1>1, PTL

\* When a DHCP task waits for an event, ARP on its interface is answered for
\* the address GET /leases names and for no other whose entry could be
\* removed; if the interface was created again since the lease came, for none.
THEOREM AdvertisedAlwaysAnswered == Spec => []AdvertisedIsAnswered
<1>1. DaemonInv => AdvertisedIsAnswered
  <2> SUFFICES ASSUME DaemonInv, NEW i \in Ifaces, pc[i] \in {"wait", "init"}
               PROVE  IF i \in Attached /\ engine.attached[i].dev # Dev(i)
                      THEN Answered(i) = {}
                      ELSE /\ Advertised(i) \subseteq Answered(i)
                           /\ Answered(i) \subseteq Advertised(i) \cup LeftIps(i)
                           /\ (DscpMode /\ i \in Attached) => Dev(i) \in engine.tc
    BY DEF AdvertisedIsAnswered
  <2>1. /\ engine \in Engines /\ Exact(engine) /\ InPlace(engine)
        /\ LeftInPast(engine)
        /\ TaskAgrees(i) /\ leases[i] \in Lease \cup {None}
    BY DEF DaemonInv, EngineOK, TasksAgree, TableTypes
  <2>2. Dev(i)[1] = i
    BY DEF Dev
  <2>3. ASSUME NEW ip \in Answered(i), ip \notin LeftIps(i)
        PROVE  /\ i \in Attached /\ engine.attached[i].dev = Dev(i)
               /\ engine.attached[i].ip = ip
    <3>1. <<Dev(i), ip>> \in OwnKeys(engine)
      BY <2>1, <2>3 DEF Answered, LeftIps, E!Answers, Exact, Owns, Holds
    <3>2. PICK j \in Ifaces :
             /\ engine.attached[j] # None
             /\ <<Dev(i), ip>> = <<engine.attached[j].dev, engine.attached[j].ip>>
      BY <3>1 DEF OwnKeys, On
    <3>3. engine.attached[j].dev = Dev(i) /\ engine.attached[j].ip = ip
      BY <3>2
    <3>4. j = i
      BY <2>1, <2>2, <3>2, <3>3 DEF InPlace
    <3> QED BY <3>2, <3>3, <3>4 DEF Attached
  <2>4. CASE i \notin Attached
    <3>1. Answered(i) \subseteq LeftIps(i)
      BY <2>3, <2>4
    <3>2. leases[i] = None
      BY <2>1, <2>4 DEF TaskAgrees, Attached
    <3>3. Advertised(i) = {}
      BY <3>2 DEF Advertised
    <3> QED BY <2>4, <3>1, <3>3
  <2>5. CASE i \in Attached /\ engine.attached[i].dev # Dev(i)
    <3>1. LeftIps(i) = {}
      BY <2>1, <2>5 DEF LeftIps, LeftInPast, Attached
    <3> QED BY <2>3, <2>5, <3>1
  <2>6. CASE i \in Attached /\ engine.attached[i].dev = Dev(i)
    <3>1. engine.attached[i] # None /\ i \in On(engine)
      BY <2>6 DEF Attached, On
    <3> DEFINE ip == engine.attached[i].ip
    <3>2. /\ Dev(i) \in engine.xdp /\ (DscpMode => Dev(i) \in engine.tc)
          /\ ip \in Ips /\ <<Dev(i), ip>> \in engine.arp
      <4>1. ip \in Ips
        BY <2>1, <3>1 DEF Engines, Attachment
      <4>2. Dev(i) \in engine.xdp /\ (DscpMode => Dev(i) \in engine.tc)
        BY <2>1, <2>6, <3>1 DEF InPlace
      <4>3. <<engine.attached[i].dev, engine.attached[i].ip>> \in OwnKeys(engine)
        BY <3>1 DEF OwnKeys
      <4>4. <<engine.attached[i].dev, engine.attached[i].ip>> \in engine.arp
        BY <2>1, <4>3 DEF Exact, Owns, Holds
      <4> QED BY <2>6, <4>1, <4>2, <4>4
    <3>3. leases[i] # None /\ leases[i].ip = ip
      BY <2>1, <3>1 DEF TaskAgrees
    <3>4. Advertised(i) = {ip}
      <4> HIDE DEF ip
      <4> QED BY <3>3 DEF Advertised
    <3>5. ip \in Answered(i)
      <4> HIDE DEF ip
      <4> QED BY <3>2 DEF Answered, E!Answers
    <3>6. \A x \in Answered(i) : x = ip \/ x \in LeftIps(i)
      BY <2>3
    <3> HIDE DEF ip
    <3> QED BY <2>6, <3>2, <3>4, <3>5, <3>6
  <2> QED BY <2>4, <2>5, <2>6
<1> QED BY DaemonInvariant, <1>1, PTL

\* A refresher runs only under a DHCP client, and between events it pins the
\* gateway of the lease in force.
THEOREM RefresherAlwaysServesLease == Spec => []RefresherServesLease
<1>1. DaemonInv => RefresherServesLease
  BY DEF DaemonInv, TasksAgree, TaskAgrees, RefresherServesLease
<1> QED BY DaemonInvariant, <1>1, PTL

-----------------------------------------------------------------------------
(* Refinement of Advertising.                                              *)

answeredBy == [i \in Ifaces |-> AttachedIp(i)]
advertisedBy == [i \in Ifaces |-> LeasedIp(i)]

LEMMA InitAdvertises == Init => Promise!Init
<1> SUFFICES ASSUME Init PROVE Promise!Init
  OBVIOUS
<1>1. \A i \in Ifaces : AttachedIp(i) = None /\ LeasedIp(i) = None
  BY NewEngineOK DEF Init, AttachedIp, LeasedIp, Attached
<1> QED BY <1>1 DEF Promise!Init

\* Only i's side of the engine changes: an Answer.
LEMMA EngineStepAnswers ==
    ASSUME DaemonInv, DaemonInv', NEW i \in Ifaces, leases' = leases,
           \A j \in Ifaces \ {i} : engine'.attached[j] = engine.attached[j]
    PROVE  \E ip \in Ips \cup {None} : Promise!Answer(i, ip)
<1>1. AttachedIp(i)' \in Ips \cup {None}
  <2>1. engine'.attached[i] \in Attachment \cup {None}
    BY DEF DaemonInv, EngineOK, Engines
  <2> QED BY <2>1 DEF AttachedIp, Attached, Attachment
<1>2. \A j \in Ifaces \ {i} : AttachedIp(j)' = AttachedIp(j)
  BY DEF AttachedIp, Attached
<1>3. answeredBy' = [answeredBy EXCEPT ![i] = AttachedIp(i)']
  BY <1>2 DEF answeredBy
<1>4. advertisedBy' = advertisedBy
  BY DEF advertisedBy, LeasedIp
<1>5. Promise!Answer(i, AttachedIp(i)')
  BY <1>3, <1>4 DEF Promise!Answer, answeredBy, advertisedBy
<1> QED BY <1>1, <1>5

\* Only i's side of the table changes, to what the engine holds: a Publish.
LEMMA TableStepPublishes ==
    ASSUME NEW i \in Ifaces, engine' = engine,
           \A j \in Ifaces \ {i} : leases'[j] = leases[j],
           LeasedIp(i)' = AttachedIp(i)
    PROVE  Promise!Publish(i)
<1>1. \A j \in Ifaces \ {i} : LeasedIp(j)' = LeasedIp(j)
  BY DEF LeasedIp
<1>2. advertisedBy' = [advertisedBy EXCEPT ![i] = answeredBy[i]]
  BY <1>1 DEF advertisedBy, answeredBy
<1>3. answeredBy' = answeredBy
  BY DEF answeredBy, AttachedIp, Attached
<1> QED BY <1>2, <1>3 DEF Promise!Publish, answeredBy, advertisedBy

\* Neither side changes.
LEMMA NeitherChanges ==
    ASSUME engine'.attached = engine.attached, leases' = leases
    PROVE  answeredBy' = answeredBy /\ advertisedBy' = advertisedBy
  BY DEF answeredBy, advertisedBy, AttachedIp, Attached, LeasedIp

LEMMA NextAdvertises ==
    ASSUME DaemonInv, DaemonInv', [Next]_vars
    PROVE  Promise!Next \/ (answeredBy' = answeredBy /\ advertisedBy' = advertisedBy)
<1>1. ASSUME NEW i \in Ifaces, NEW l \in Lease, LeaseEvent(i, l)
      PROVE  \E ip \in Ips \cup {None} : Promise!Answer(i, ip)
  BY <1>1, LeaseEventShape, EngineStepAnswers DEF LeaseEvent
<1>2. ASSUME NEW i \in Ifaces, ErrorEvent(i) \/ StreamEnds(i) \/ Close(i)
      PROVE  \E ip \in Ips \cup {None} : Promise!Answer(i, ip)
  <2>1. /\ leases' = leases
        /\ \A j \in Ifaces \ {i} : engine'.attached[j] = engine.attached[j]
    BY <1>2, DetachShape DEF ErrorEvent, StreamEnds, Close, Detach
  <2> QED BY <2>1, EngineStepAnswers
<1>3. ASSUME NEW i \in Ifaces, StoreLease(i) PROVE Promise!Publish(i)
  <2>1. /\ engine' = engine /\ leases' = [leases EXCEPT ![i] = offer[i]]
        /\ TaskAgrees(i) /\ pc[i] = "store"
        /\ leases \in [Ifaces -> Lease \cup {None}]
    BY <1>3 DEF StoreLease, DaemonInv, TasksAgree, TableTypes
  <2>2. LeasedIp(i)' = AttachedIp(i)
    BY <2>1 DEF TaskAgrees, LeasedIp, AttachedIp, Attached
  <2> QED BY <2>1, <2>2, TableStepPublishes
<1>4. ASSUME NEW i \in Ifaces, DropLease(i) \/ ForgetOnError(i) \/ ForgetOnClose(i)
      PROVE  Promise!Publish(i)
  <2>1. /\ engine' = engine /\ leases' = [leases EXCEPT ![i] = None]
        /\ TaskAgrees(i) /\ pc[i] \in {"drop", "forgetOnError", "forget"}
        /\ leases \in [Ifaces -> Lease \cup {None}]
    BY <1>4 DEF DropLease, ForgetOnError, ForgetOnClose, Forget, DaemonInv,
                TasksAgree, TableTypes
  <2>2. LeasedIp(i)' = AttachedIp(i)
    BY <2>1 DEF TaskAgrees, LeasedIp, AttachedIp, Attached
  <2> QED BY <2>1, <2>2, TableStepPublishes
<1>5. ASSUME NEW i \in Ifaces, StartClient(i) \/ Probe(i) \/ Pin(i) \/ Recreated(i)
      PROVE  answeredBy' = answeredBy /\ advertisedBy' = advertisedBy
  <2>1. CASE Recreated(i)
    <3>1. engine'.attached = engine.attached /\ leases' = leases
      BY <2>1, RecreatedOK DEF DaemonInv, MoreTypes, Recreated
    <3> QED BY <3>1, NeitherChanges
  <2>2. CASE StartClient(i) \/ Probe(i) \/ Pin(i)
    BY <2>2, NeitherChanges DEF StartClient, Probe, Pin
  <2> QED BY <1>5, <2>1, <2>2
<1>6. ASSUME NEW c \in blocking, NEW ok \in BOOLEAN, RunIpNeigh(c, ok)
      PROVE  answeredBy' = answeredBy /\ advertisedBy' = advertisedBy
  BY <1>6, NeitherChanges DEF RunIpNeigh
<1>7. ASSUME \/ OrphanEnds \/ UNCHANGED vars
             \/ \E g \in Gateways, m \in Macs \cup {None} : GatewayReplaced(g, m)
      PROVE  answeredBy' = answeredBy /\ advertisedBy' = advertisedBy
  BY <1>7, NeitherChanges DEF OrphanEnds, GatewayReplaced, vars
<1>8. CASE Restart
  <2>1. \A i \in Ifaces : engine'.attached[i] = None /\ leases'[i] = None
    BY <1>8, NewEngineOK DEF Restart
  <2>2. \A i \in Ifaces : AttachedIp(i)' = None /\ LeasedIp(i)' = None
    BY <2>1 DEF AttachedIp, LeasedIp, Attached
  <2>3. Promise!Reset
    BY <2>2 DEF Promise!Reset
  <2> QED BY <2>3 DEF Promise!Next
<1> QED BY <1>1, <1>2, <1>3, <1>4, <1>5, <1>6, <1>7, <1>8
        DEF Next, DhcpStep, Promise!Next

\* The lease table, changed under its own lock after the engine was, never
\* comes to name an address the engine does not hold at that moment: dumbarpd
\* implements Advertising.
THEOREM DaemonAdvertises == Spec => ImplementsAdvertising
<1>1. DaemonInv /\ DaemonInv' /\ [Next]_vars =>
         [Promise!Next]_<<answeredBy, advertisedBy>>
  BY NextAdvertises
<1>2. DaemonInv /\ DaemonInv' /\ [Next]_vars => [Promise!Next]_(Promise!vars)
  BY <1>1 DEF answeredBy, advertisedBy, Promise!vars
<1> QED BY <1>2, InitAdvertises, DaemonInvariant, PTL
        DEF Spec, ImplementsAdvertising, Promise!Spec
=============================================================================
