------------------------------ MODULE DscpPath ------------------------------
(***************************************************************************)
(* The way of a DSCP-mode flow: stamped by the XDP program of the daemon   *)
(* its lease is on (dumbarp-ebpf, try_stamp), turned into a mark by the    *)
(* router (dumbarp-routerd-ebpf, steer) that conntrack keeps for the       *)
(* reply, and restored by the daemon's egress classifier (try_terminate).  *)
(* A daemon is named by its dumbarpd_id, and the mark is the id.           *)
(*                                                                         *)
(* Conntrack and the two nftables rules are external: the rules are those  *)
(* nix/reconciler-module.nix installs beside the router.                   *)
(***************************************************************************)
EXTENDS Checksum, FiniteSets

CONSTANTS
    Daemons,    \* ids
    Flows,
    Home,       \* flow -> the daemon its lease address is on
    Rest,       \* flow -> sum of the other words of its headers
    ClientTos,  \* tos bytes clients send
    ServerTos,  \* tos bytes servers send of their own accord
    MaxWire,    \* bound: packets under way
    None

VARIABLES
    egress,     \* daemon -> how far the DSCP side of its interface is set up
    orig,       \* daemon -> ORIG_DSCP
    known,      \* the router's DSCP_IDS
    ct,         \* conntrack: flow -> [mark, replied] or None
    wire,       \* packets under way
    sent,       \* history: flow -> DSCP of its last packet that was stamped
    lost,       \* history: flows whose last stamped packet has no record:
                \* it was not written, or was evicted since
    bare,       \* history: flow -> ids of others it came with unstamped
    torn        \* history: packets with a new tos and the old checksum

vars == <<egress, orig, known, ct, wire, sent, lost, bare, torn>>

ASSUME DscpPathAssumption ==
    /\ Daemons \subseteq 1..63
    /\ Home \in [Flows -> Daemons]
    /\ \A f \in Flows : Rest[f] \in U16
    /\ ClientTos \subseteq 0..255 /\ ServerTos \subseteq 0..255
    /\ MaxWire \in Nat
    /\ None \notin Nat /\ None \notin [mark : Nat, replied : BOOLEAN]

\* A flow key, and a packet of that flow and direction.
Key(f, dir) == <<f, dir>>
Reversed(key) == <<key[1], IF key[2] = "in" THEN "out" ELSE "in">>
ReplyKey(p) == Key(p.flow, "out")
Keys == Flows \X {"in", "out"}

RightSum(f, tos) == Not16((HeaderWord(tos) + Rest[f]) % 65535)
Packet(f, dir, at, tos, check) ==
    [flow |-> f, dir |-> dir, at |-> at, via |-> None, tos |-> tos,
     check |-> check]

\* The header with another DSCP, its checksum updated in place.
Rewrite(p, dscp) ==
    LET tos == TosWithDscp(p.tos, dscp)
    IN [p EXCEPT !.tos = tos,
                 !.check = CsumReplace2(@, HeaderWord(p.tos), HeaderWord(tos))]

Init ==
    /\ egress = [d \in Daemons |-> "up"]
    /\ orig = [d \in Daemons |-> [k \in Keys |-> None]]
    /\ known = {}
    /\ ct = [f \in Flows |-> None]
    /\ wire = {}
    /\ sent = [f \in Flows |-> None]
    /\ lost = {}
    /\ bare = [f \in Flows |-> {}]
    /\ torn = {}

-----------------------------------------------------------------------------
(* The daemon.                                                             *)

\* Seeded fault: traffic that carries a DSCP of its own is left alone.
StampsUntagged(p, d) == egress[d] # "off" /\ DscpOf(p.tos) = 0

\* Whether try_stamp rewrites: DSCP_ID has an entry and the header differs.
Stamps(p, d) == egress[d] # "off" /\ TosWithDscp(p.tos, d) # p.tos

\* Seeded fault: the record is filed under the key of the request.
FiledUnderRequest(p) == Key(p.flow, "in")

\* Where try_stamp files the original DSCP: under the key of the reply.
FiledUnder(p) == Reversed(Key(p.flow, "in"))

\* A client's packet arrives at the daemon and goes on to the router.  The
\* insert of the record may fail, which is ignored: the packet is stamped all
\* the same, and the record of an earlier packet stays on file.
Stamp(f, tos) ==
    LET d == Home[f]
        p == Packet(f, "in", "router", tos, RightSum(f, tos))
    IN /\ Cardinality(wire) < MaxWire
       /\ IF Stamps(p, d)
          THEN /\ wire' = wire \cup {Rewrite(p, d)}
               /\ \/ /\ orig' = [orig EXCEPT ![d][FiledUnder(p)] =
                                    DscpOf(tos)]
                     /\ lost' = lost \ {f}
                  \/ lost' = lost \cup {f} /\ UNCHANGED orig
          ELSE wire' = wire \cup {p} /\ UNCHANGED <<orig, lost>>
       /\ IF egress[d] = "off"
          THEN /\ bare' = [bare EXCEPT ![f] =
                              @ \cup ({DscpOf(tos)} \cap (Daemons \ {d}))]
               /\ UNCHANGED sent
          ELSE sent' = [sent EXCEPT ![f] = DscpOf(tos)] /\ UNCHANGED bare
       /\ UNCHANGED <<egress, known, ct, torn>>

\* Seeded fault: without a record the tag is left in place.
RestoredOrTag(record, d) == IF record = None THEN d ELSE record

\* The DSCP try_terminate puts back in the place of the tag.
Restored(record, d) == IF record = None THEN 0 ELSE record

\* A reply leaves by daemon d.  The classifier must be attached; a DSCP other
\* than the daemon's own id is not touched.
Terminate(p) ==
    LET d == p.via
        restored == Restored(orig[d][ReplyKey(p)], d)
    IN /\ p \in wire
       /\ p.at = "daemon"
       /\ wire' = (wire \ {p}) \cup
                     {[(IF egress[d] = "up" /\ DscpOf(p.tos) = d
                       THEN Rewrite(p, restored) ELSE p) EXCEPT !.at = "client"]}
       /\ UNCHANGED <<egress, orig, known, ct, sent, lost, bare, torn>>

\* A helper fails for a reply with the tag, and the packet leaves as it is:
\* untouched if the header cannot be loaded or the tos not stored, with the
\* new tos and the old checksum if the checksum is not replaced.  If only the
\* ports cannot be loaded, the key without them finds no record.
TerminateFails(p) ==
    LET d == p.via
        restored == TosWithDscp(p.tos, Restored(orig[d][ReplyKey(p)], d))
        half == [p EXCEPT !.at = "client", !.tos = restored]
    IN /\ p \in wire
       /\ p.at = "daemon"
       /\ egress[d] = "up" /\ DscpOf(p.tos) = d
       /\ \/ /\ wire' = (wire \ {p}) \cup {[p EXCEPT !.at = "client"]}
             /\ UNCHANGED torn
          \/ wire' = (wire \ {p}) \cup {half} /\ torn' = torn \cup {half}
          \/ /\ wire' = (wire \ {p}) \cup
                           {[Rewrite(p, Restored(None, d))
                                EXCEPT !.at = "client"]}
             /\ UNCHANGED torn
       /\ UNCHANGED <<egress, orig, known, ct, sent, lost, bare>>

Arrive(p) ==
    /\ p \in wire
    /\ p.at = "client"
    /\ wire' = wire \ {p}
    /\ torn' = torn \ {p}
    /\ UNCHANGED <<egress, orig, known, ct, sent, lost, bare>>

\* The engine takes the interface out: the classifier first, then DSCP_ID;
\* and puts it in: DSCP_ID first, then the classifier.  The two half-way
\* states treat packets alike and are one.
DetachTc(d) == egress[d] = "up" /\ egress' = [egress EXCEPT ![d] = "noTc"]
ClearIds(d) == egress[d] = "noTc" /\ egress' = [egress EXCEPT ![d] = "off"]
InsertId(d) == egress[d] = "off" /\ egress' = [egress EXCEPT ![d] = "noTc"]
AttachTc(d) == egress[d] = "noTc" /\ egress' = [egress EXCEPT ![d] = "up"]

Reattach(d) ==
    /\ DetachTc(d) \/ ClearIds(d) \/ InsertId(d) \/ AttachTc(d)
    /\ UNCHANGED <<orig, known, ct, wire, sent, lost, bare, torn>>

\* ORIG_DSCP is an LRU map: an entry may go at any time.
Evict(f) ==
    /\ orig[Home[f]][Key(f, "out")] # None
    /\ orig' = [orig EXCEPT ![Home[f]][Key(f, "out")] = None]
    /\ lost' = lost \cup {f}
    /\ UNCHANGED <<egress, known, ct, wire, sent, bare, torn>>

-----------------------------------------------------------------------------
(* The router.                                                             *)

\* The mark steer gives a packet, 0 being none.
Steer(tos) == IF DscpOf(tos) # 0 /\ DscpOf(tos) \in known THEN DscpOf(tos) ELSE 0

\* `ct state new meta mark != 0 ct mark set meta mark`: new lasts until a
\* reply has been seen.
CtSave(entry, mark) ==
    CASE entry = None -> [mark |-> mark, replied |-> FALSE]
      [] entry # None /\ ~entry.replied /\ mark # 0 -> [entry EXCEPT !.mark = mark]
      [] OTHER -> entry

Forward(p) ==
    /\ p \in wire
    /\ p.dir = "in" /\ p.at = "router"
    /\ ct' = [ct EXCEPT ![p.flow] = CtSave(@, Steer(p.tos))]
    /\ wire' = (wire \ {p}) \cup {[p EXCEPT !.at = "server"]}
    /\ UNCHANGED <<egress, orig, known, sent, lost, bare, torn>>

\* The server's reply takes over the tos of the request, or has its own.
Reply(p, tos) ==
    /\ p \in wire
    /\ p.dir = "in" /\ p.at = "server"
    /\ wire' = (wire \ {p}) \cup
                  {Packet(p.flow, "out", "router", tos, RightSum(p.flow, tos))}
    /\ UNCHANGED <<egress, orig, known, ct, sent, lost, bare, torn>>

\* `meta mark 0 ct mark != 0 meta mark set ct mark`: the marked reply goes to
\* that daemon; without a mark the default route takes it out of sight.
Return(p) ==
    /\ p \in wire
    /\ p.dir = "out" /\ p.at = "router"
    /\ ct' = [ct EXCEPT ![p.flow] =
                 IF @ = None THEN [mark |-> 0, replied |-> FALSE]
                             ELSE [@ EXCEPT !.replied = TRUE]]
    /\ wire' = (wire \ {p}) \cup
                  {[p EXCEPT !.at = "daemon", !.via = ct[p.flow].mark] :
                      q \in {r \in {ct[p.flow]} : r # None /\ r.mark # 0}}
    /\ UNCHANGED <<egress, orig, known, sent, lost, bare, torn>>

\* sync_ids adds or drops an id, as routerd hears of daemons.
SyncIds(d) ==
    /\ known' \in {known \cup {d}, known \ {d}}
    /\ UNCHANGED <<egress, orig, ct, wire, sent, lost, bare, torn>>

\* The conntrack entry times out.
CtExpires(f) ==
    /\ ct' = [ct EXCEPT ![f] = None]
    /\ UNCHANGED <<egress, orig, known, wire, sent, lost, bare, torn>>

Next ==
    \/ \E f \in Flows : \/ \E tos \in ClientTos : Stamp(f, tos)
                        \/ Evict(f) \/ CtExpires(f)
    \/ \E p \in wire : \/ Forward(p) \/ Return(p)
                       \/ Terminate(p) \/ TerminateFails(p) \/ Arrive(p)
                       \/ \E tos \in ServerTos \cup {p.tos} : Reply(p, tos)
    \/ \E d \in Daemons : Reattach(d) \/ SyncIds(d)

Spec == Init /\ [][Next]_vars

-----------------------------------------------------------------------------
(* Properties.                                                             *)

\* The header checksum of every packet is right, however often it has been
\* rewritten, by csum_replace2 in XDP and by its counterpart on egress; but for
\* a reply whose l3_csum_replace failed after its tos was stored.
ChecksumsRight ==
    \A p \in wire \ torn :
        ValidSum(HeaderWord(p.tos), Rest[p.flow], p.check)

\* The reply of a flow is steered to the daemon the flow came in by.  Only
\* while that daemon is re-attaching can a client's own DSCP, that happens to
\* be the id of another daemon, lead it astray.
RepliesGoHome ==
    \A f \in Flows :
        ct[f] # None => ct[f].mark \in {0, Home[f]} \cup bare[f]

\* A tag does not leave the network: unless a helper failed, the reply a daemon
\* has just let go while its classifier was attached does not carry its id.
TagNeverEscapes ==
    [][\A p \in wire, q \in wire' \ wire :
          (Terminate(p) /\ egress[p.via] = "up") => DscpOf(q.tos) # p.via]_vars

\* A reply that comes home with the tag leaves with the DSCP the flow's last
\* stamped packet had and with its own ECN bits, although packets of the flow
\* overtake one another and records of earlier ones may still be on file; as
\* long as that packet's DSCP was not the tag itself, its record was written
\* and not evicted since, and no helper failed for the reply.
OriginalRestored ==
    [][\A p \in wire, q \in wire' \ wire :
          LET d == Home[p.flow]
          IN (/\ Terminate(p) /\ p.via = d /\ egress[d] = "up"
              /\ DscpOf(p.tos) = d
              /\ p.flow \notin lost
              /\ sent[p.flow] \notin {None, d}) =>
                 q.tos = TosWithDscp(p.tos, sent[p.flow])]_vars

\* What the comment on steer says: the daemon at the edge restores the
\* original DSCP, whatever that was.
OriginalAlwaysRestored ==
    [][\A p \in wire, q \in wire' \ wire :
          LET d == Home[p.flow]
          IN (/\ Terminate(p) /\ p.via = d /\ egress[d] = "up"
              /\ DscpOf(p.tos) = d
              /\ p.flow \notin lost
              /\ sent[p.flow] # None) =>
                 DscpOf(q.tos) = sent[p.flow]]_vars
=============================================================================
