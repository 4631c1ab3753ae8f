--------------------------- MODULE DscpPathProofs ---------------------------
(***************************************************************************)
(* The way of a DSCP-mode flow, for any number of daemons and flows: the   *)
(* checksums are right, replies go home, no tag gets out and the original  *)
(* DSCP is put back.  PathInv is what the three programs and conntrack     *)
(* keep between them.                                                      *)
(***************************************************************************)
EXTENDS DscpPath, TLAPS

-----------------------------------------------------------------------------
(* What the header rewrites guarantee, for every header.                   *)

\* A carry takes a multiple of 65535 away.
LEMMA CarryIsCongruent ==
    ASSUME NEW s \in Nat
    PROVE  \E k \in Nat : s = Carry(s) + 65535 * k
<1>1. s \div 65536 \in Nat
  BY SMT
<1>2. s = Carry(s) + 65535 * (s \div 65536)
  BY SMT DEF Carry
<1> QED
  BY SMT, <1>1, <1>2

\* Two carries are enough for three u16 addends: csum_replace2's u32 sum fits
\* a u16 after the second, so `sum as u16` cuts nothing off.
THEOREM TwoCarriesFit ==
    ASSUME NEW check \in U16, NEW old \in U16, NEW new \in U16
    PROVE  Carry(Carry(Not16(check) + Not16(old) + new)) \in U16
<1> DEFINE s == Not16(check) + Not16(old) + new
<1>1. s \in Nat /\ s <= 196605
  BY SMT DEF U16, Not16
<1> HIDE DEF s
<1>2. Carry(s) \in Nat /\ Carry(s) <= 65537
  BY SMT, <1>1 DEF Carry
<1>3. Carry(Carry(s)) \in Nat /\ Carry(Carry(s)) < 65536
  BY SMT, <1>2 DEF Carry
<1> QED
  BY SMT, <1>3 DEF s, U16

\* A header whose checksum was right still has a right one after the
\* incremental update, whatever word is replaced by whatever other.
THEOREM ChecksumStaysValid ==
    ASSUME NEW check \in U16, NEW old \in U16, NEW new \in U16,
           NEW rest \in Nat,
           ValidSum(old, rest, check)
    PROVE  ValidSum(new, rest, CsumReplace2(check, old, new))
<1> DEFINE s == Not16(check) + Not16(old) + new
           r == CsumReplace2(check, old, new)
<1>1. s \in Nat /\ s = 131070 - check - old + new
  BY SMT DEF U16, Not16
<1>2. Carry(s) \in Nat
  BY SMT, <1>1 DEF Carry
<1>3. PICK j \in Nat : s = Carry(s) + 65535 * j
  BY SMT, <1>1, CarryIsCongruent
<1>4. PICK k \in Nat : Carry(s) = Carry(Carry(s)) + 65535 * k
  BY SMT, <1>2, CarryIsCongruent
<1>5. Carry(Carry(s)) \in U16
  BY SMT, TwoCarriesFit
<1>6. r = 65535 - Carry(Carry(s))
  BY SMT, <1>5 DEF CsumReplace2, Not16, U16
<1>7. new + rest + r = (old + rest + check) + 65535 * (j + k - 1)
  BY SMT, <1>1, <1>3, <1>4, <1>5, <1>6 DEF U16
<1>8. PICK m \in Int : old + rest + check = 65535 * m
  BY SMT DEF ValidSum, U16
<1>9. new + rest + r = 65535 * (m + j + k - 1)
  BY SMT, <1>7, <1>8
<1>10. m + j + k - 1 \in Int
  BY SMT, <1>3, <1>4, <1>8
<1> QED
  BY SMT, <1>9, <1>10 DEF ValidSum

\* Stamping and restoring change the DSCP and nothing else of the tos byte.
THEOREM TosKeepsEcn ==
    ASSUME NEW tos \in Nat, tos < 256, NEW dscp \in Nat, dscp < 64
    PROVE  /\ TosWithDscp(tos, dscp) \in Nat /\ TosWithDscp(tos, dscp) < 256
           /\ DscpOf(TosWithDscp(tos, dscp)) = dscp
           /\ TosWithDscp(tos, dscp) % 4 = tos % 4
<1>1. (4 * dscp) % 256 = 4 * dscp
  BY SMT
<1> QED
  BY SMT, <1>1 DEF TosWithDscp, DscpOf

-----------------------------------------------------------------------------
(* The invariant.                                                          *)

Dscps == 0..63
Tos == 0..255

PacketType ==
    [flow : Flows, dir : {"in", "out"},
     at : {"router", "server", "daemon", "client"},
     via : Daemons \cup {None}, tos : Tos, check : U16]

CtType == [mark : Daemons \cup {0}, replied : BOOLEAN]

PathTypes ==
    /\ egress \in [Daemons -> {"up", "noTc", "off"}]
    /\ orig \in [Daemons -> [Keys -> Dscps \cup {None}]]
    /\ known \subseteq Daemons
    /\ ct \in [Flows -> CtType \cup {None}]
    /\ sent \in [Flows -> Dscps \cup {None}]
    /\ lost \subseteq Flows
    /\ bare \in [Flows -> SUBSET Daemons]
    /\ \A p \in torn : p.at = "client"

\* A header with a right checksum.
Right(p) == ValidSum(HeaderWord(p.tos), Rest[p.flow], p.check)

\* A packet in the hands of a daemon was sent there by a mark.
ViaKnown(p) == p.at = "daemon" => p.via \in Daemons

\* A request on its way to the router has the id of its daemon, one that it
\* brought along while the daemon was re-attaching, or none at all.
TaggedHome(p) ==
    (p.dir = "in" /\ p.at = "router" /\ DscpOf(p.tos) \in Daemons) =>
        DscpOf(p.tos) \in {Home[p.flow]} \cup bare[p.flow]

Good(p) == p \in PacketType /\ Right(p) /\ ViaKnown(p) /\ TaggedHome(p)

\* The tag of a daemon is never filed as an original DSCP by that daemon.
NoTagFiled == \A d \in Daemons : \A k \in Keys : orig[d][k] # d

\* What a flow was last sent with is on file, unless it was the tag, or the
\* record was not written or evicted since.
FiledAsSent ==
    \A f \in Flows :
        (f \notin lost /\ sent[f] \notin {None, Home[f]}) =>
            orig[Home[f]][Key(f, "out")] = sent[f]

PathInv ==
    /\ PathTypes
    /\ \A p \in wire \ torn : Good(p)
    /\ NoTagFiled /\ FiledAsSent
    /\ RepliesGoHome

-----------------------------------------------------------------------------
(* The operators on headers.                                               *)

LEMMA IdsAreDscps ==
    /\ Daemons \subseteq Dscps /\ 0 \notin Daemons /\ 0 \in Dscps
    /\ None \notin Daemons /\ None \notin Dscps /\ None \notin CtType
<1>1. 1..63 \subseteq 0..63 /\ 1..63 \subseteq Nat /\ 0 \notin 1..63 /\ 0 \in 0..63
      /\ 0..63 \subseteq Nat
  OBVIOUS
<1>2. Daemons \cup {0} \subseteq Nat
  BY <1>1, DscpPathAssumption
<1>3. CtType \subseteq [mark : Nat, replied : BOOLEAN]
  BY <1>2 DEF CtType
<1>4. Daemons \subseteq 1..63 /\ None \notin Nat
      /\ None \notin [mark : Nat, replied : BOOLEAN]
  BY DscpPathAssumption
<1>5. Daemons \subseteq Dscps /\ 0 \notin Daemons /\ 0 \in Dscps
  BY <1>1, <1>4 DEF Dscps
<1>6. None \notin Daemons /\ None \notin Dscps
  BY <1>1, <1>2, <1>4 DEF Dscps
<1> QED BY <1>3, <1>4, <1>5, <1>6, Zenon

LEMMA TosFacts ==
    ASSUME NEW tos \in Tos, NEW dscp \in Dscps
    PROVE  /\ DscpOf(tos) \in Dscps /\ HeaderWord(tos) \in U16
           /\ TosWithDscp(tos, dscp) \in Tos
           /\ DscpOf(TosWithDscp(tos, dscp)) = dscp
           /\ TosWithDscp(tos, dscp) = tos <=> DscpOf(tos) = dscp
<1>1. /\ TosWithDscp(tos, dscp) \in Nat /\ TosWithDscp(tos, dscp) < 256
      /\ DscpOf(TosWithDscp(tos, dscp)) = dscp
  <2>1. tos \in Nat /\ tos < 256 /\ dscp \in Nat /\ dscp < 64
    BY DEF Tos, Dscps
  <2> QED BY <2>1, TosKeepsEcn
<1>2. DscpOf(tos) \in Dscps /\ HeaderWord(tos) \in U16
  BY DEF Tos, Dscps, DscpOf, HeaderWord, U16
<1>3. ASSUME DscpOf(tos) = dscp PROVE TosWithDscp(tos, dscp) = tos
  <2>1. dscp = tos \div 4 /\ (4 * dscp) % 256 = 4 * dscp
    BY <1>3 DEF DscpOf, Dscps
  <2> QED BY <2>1 DEF TosWithDscp, Tos
<1>4. TosWithDscp(tos, dscp) \in Tos
  BY <1>1 DEF Tos
<1> QED BY <1>1, <1>2, <1>3, <1>4

\* What is missing to a multiple of 65535 makes it one.
LEMMA ComplementOfSum ==
    ASSUME NEW s \in Nat
    PROVE  /\ Not16(s % 65535) \in U16
           /\ (s + Not16(s % 65535)) % 65535 = 0
  BY SMT DEF Not16, U16

\* The checksum a sender computes is right.
LEMMA RightSumIsValid ==
    ASSUME NEW f \in Flows, NEW tos \in Tos
    PROVE  /\ RightSum(f, tos) \in U16
           /\ ValidSum(HeaderWord(tos), Rest[f], RightSum(f, tos))
<1>1. HeaderWord(tos) + Rest[f] \in Nat
  <2>1. Rest[f] \in Nat
    BY DscpPathAssumption DEF U16
  <2>2. HeaderWord(tos) \in Nat
    BY DEF Tos, HeaderWord
  <2> QED BY <2>1, <2>2
<1>2. /\ RightSum(f, tos) \in U16
      /\ ((HeaderWord(tos) + Rest[f]) + RightSum(f, tos)) % 65535 = 0
  BY <1>1, ComplementOfSum DEF RightSum
<1> QED BY <1>2 DEF ValidSum

\* Rewriting the DSCP keeps the checksum right and the rest of the packet.
LEMMA RewriteIsRight ==
    ASSUME NEW p \in PacketType, Right(p), NEW dscp \in Dscps, NEW r,
           r = Rewrite(p, dscp)
    PROVE  /\ r \in PacketType /\ Right(r)
           /\ r.tos = TosWithDscp(p.tos, dscp)
           /\ r.flow = p.flow /\ r.dir = p.dir /\ r.at = p.at /\ r.via = p.via
<1> DEFINE tos == TosWithDscp(p.tos, dscp)
           check == CsumReplace2(p.check, HeaderWord(p.tos), HeaderWord(tos))
<1>1. /\ p.tos \in Tos /\ p.check \in U16 /\ p.flow \in Flows
      /\ Rest[p.flow] \in Nat
  BY DscpPathAssumption DEF PacketType, U16
<1>2. tos \in Tos /\ HeaderWord(p.tos) \in U16 /\ HeaderWord(tos) \in U16
  BY <1>1, TosFacts
<1>3. check \in U16
  <2>1. Carry(Carry(Not16(p.check) + Not16(HeaderWord(p.tos)) + HeaderWord(tos))) \in U16
    BY <1>1, <1>2, TwoCarriesFit
  <2> QED BY <2>1 DEF CsumReplace2, Not16, U16
<1>4. ValidSum(HeaderWord(tos), Rest[p.flow], check)
  BY <1>1, <1>2, ChecksumStaysValid DEF Right
<1>5. r = [p EXCEPT !.tos = tos, !.check = check]
  BY DEF Rewrite
<1> HIDE DEF tos, check
<1>6. /\ r \in PacketType /\ r.tos = tos /\ r.check = check
      /\ r.flow = p.flow /\ r.dir = p.dir /\ r.at = p.at /\ r.via = p.via
  BY <1>2, <1>3, <1>5 DEF PacketType
<1> QED BY <1>4, <1>6 DEF Right, tos

\* A packet as it is built is a right one.
LEMMA PacketIsRight ==
    ASSUME NEW f \in Flows, NEW dir \in {"in", "out"}, NEW tos \in Tos, NEW p,
           p = Packet(f, dir, "router", tos, RightSum(f, tos))
    PROVE  /\ p \in PacketType /\ Right(p)
           /\ p.flow = f /\ p.dir = dir /\ p.at = "router" /\ p.tos = tos
           /\ p.via = None
<1>1. /\ RightSum(f, tos) \in U16
      /\ ValidSum(HeaderWord(tos), Rest[f], RightSum(f, tos))
  BY RightSumIsValid
<1>2. /\ p \in PacketType /\ p.check = RightSum(f, tos)
      /\ p.flow = f /\ p.dir = dir /\ p.at = "router" /\ p.tos = tos
      /\ p.via = None
  BY <1>1 DEF Packet, PacketType
<1> QED BY <1>1, <1>2 DEF Right

-----------------------------------------------------------------------------
(* The steps.                                                              *)

\* A packet that has not left is in order.
LEMMA UnderWay ==
    ASSUME PathInv, NEW p \in wire, p.at # "client"
    PROVE  p \notin torn /\ Good(p)
  BY DEF PathInv, PathTypes

\* A step that changes the packets under way and nothing else that matters.
LEMMA OnlyWire ==
    ASSUME PathInv, UNCHANGED <<egress, orig, known, ct, sent, lost, bare>>,
           \A q \in torn' : q.at = "client",
           \A q \in wire' \ torn' : Good(q)
    PROVE  PathInv'
<1>1. PathTypes' /\ NoTagFiled' /\ FiledAsSent' /\ RepliesGoHome'
  BY DEF PathInv, PathTypes, NoTagFiled, FiledAsSent, RepliesGoHome
<1>2. \A q \in wire' \ torn' : Good(q)'
  BY DEF Good, TaggedHome, ViaKnown, Right
<1> QED BY <1>1, <1>2 DEF PathInv

\* A packet that is not a request before the router carries no claim.
LEMMA PastTheRouter ==
    ASSUME NEW p \in PacketType, p.dir = "out" \/ p.at # "router"
    PROVE  TaggedHome(p)
  BY DEF TaggedHome

LEMMA FiledType ==
    ASSUME orig \in [Daemons -> [Keys -> Dscps \cup {None}]],
           NEW d \in Daemons, NEW k \in Keys, NEW x \in Dscps \cup {None}
    PROVE  [orig EXCEPT ![d][k] = x] \in [Daemons -> [Keys -> Dscps \cup {None}]]
<1>1. [orig[d] EXCEPT ![k] = x] \in [Keys -> Dscps \cup {None}]
  OBVIOUS
<1> QED BY <1>1

LEMMA StampInv ==
    ASSUME PathInv, NEW f \in Flows, NEW tos \in ClientTos, Stamp(f, tos)
    PROVE  PathInv'
<1> DEFINE d == Home[f]
           p == Packet(f, "in", "router", tos, RightSum(f, tos))
           x == DscpOf(tos)
<1>1. d \in Daemons /\ d \in Dscps /\ tos \in Tos
  BY DscpPathAssumption, IdsAreDscps DEF Tos
<1>2. /\ p \in PacketType /\ Right(p) /\ p.flow = f /\ p.dir = "in"
      /\ p.at = "router" /\ p.tos = tos /\ p.via = None
  BY <1>1, PacketIsRight
<1>3. /\ x \in Dscps /\ DscpOf(TosWithDscp(tos, d)) = d
      /\ TosWithDscp(tos, d) = tos <=> x = d
  BY <1>1, TosFacts
<1>4. FiledUnder(p) = Key(f, "out") /\ Key(f, "out") \in Keys
  BY <1>2 DEF FiledUnder, Reversed, Key, Keys
<1>s. Stamps(p, d) <=> (egress[d] # "off" /\ x # d)
  BY <1>2, <1>3 DEF Stamps
<1>5. /\ IF Stamps(p, d)
         THEN /\ wire' = wire \cup {Rewrite(p, d)}
              /\ \/ /\ orig' = [orig EXCEPT ![d][Key(f, "out")] = x]
                    /\ lost' = lost \ {f}
                 \/ lost' = lost \cup {f} /\ UNCHANGED orig
         ELSE wire' = wire \cup {p} /\ UNCHANGED <<orig, lost>>
      /\ IF egress[d] = "off"
         THEN /\ bare' = [bare EXCEPT ![f] = @ \cup ({x} \cap (Daemons \ {d}))]
              /\ UNCHANGED sent
         ELSE sent' = [sent EXCEPT ![f] = x] /\ UNCHANGED bare
      /\ UNCHANGED <<egress, known, ct, torn>>
  BY <1>4 DEF Stamp
<1>r. PICK r : r = Rewrite(p, d)
  OBVIOUS
<1>6. /\ r \in PacketType /\ Right(r) /\ r.tos = TosWithDscp(tos, d)
      /\ r.flow = f /\ r.dir = "in" /\ r.at = "router"
  BY <1>1, <1>2, <1>r, RewriteIsRight
<1> HIDE DEF d, p, x
<1>t. PathTypes
  BY DEF PathInv
<1>7. PathTypes'
  <2>1. orig' \in [Daemons -> [Keys -> Dscps \cup {None}]]
    <3>1. orig \in [Daemons -> [Keys -> Dscps \cup {None}]]
      BY <1>t DEF PathTypes
    <3>2. [orig EXCEPT ![d][Key(f, "out")] = x]
             \in [Daemons -> [Keys -> Dscps \cup {None}]]
      BY <1>1, <1>3, <1>4, <3>1, FiledType
    <3> QED BY <1>5, <3>1, <3>2
  <2>3. lost' \subseteq Flows
    BY <1>5, <1>t DEF PathTypes
  <2>2. sent' \in [Flows -> Dscps \cup {None}] /\ bare' \in [Flows -> SUBSET Daemons]
    BY <1>3, <1>5, <1>t DEF PathTypes
  <2> QED BY <1>5, <1>t, <2>1, <2>2, <2>3 DEF PathTypes
<1>8. \A g \in Flows : bare[g] \subseteq bare'[g]
  BY <1>5, <1>t DEF PathTypes
<1>9. ASSUME NEW q \in wire' \ torn' PROVE Good(q)'
  <2>1. CASE q \in wire
    <3>1. Good(q) /\ q.flow \in Flows
      BY <2>1, <1>5, <1>9 DEF PathInv, Good, PacketType
    <3> QED BY <1>8, <3>1 DEF Good, Right, ViaKnown, TaggedHome
  <2>2. CASE q = r /\ q \notin wire /\ Stamps(p, d)
    BY <2>2, <1>3, <1>6 DEF Good, Right, ViaKnown, TaggedHome, d
  <2>3. CASE q = p /\ ~Stamps(p, d)
    <3>1. CASE egress[d] # "off"
      BY <2>3, <3>1, <1>2, <1>s DEF Good, Right, ViaKnown, TaggedHome, d, x
    <3>2. CASE egress[d] = "off"
      <4>1. bare'[f] = bare[f] \cup ({x} \cap (Daemons \ {d}))
        BY <3>2, <1>5, <1>t DEF PathTypes
      <4> QED BY <2>3, <4>1, <1>2 DEF Good, Right, ViaKnown, TaggedHome, x, d
    <3> QED BY <3>1, <3>2
  <2> QED BY <1>5, <1>r, <2>1, <2>2, <2>3
<1>10. NoTagFiled'
  BY <1>1, <1>3, <1>4, <1>5, <1>s, <1>t DEF PathInv, NoTagFiled, PathTypes
<1>11. ASSUME NEW g \in Flows, g \notin lost', sent'[g] \notin {None, Home[g]}
       PROVE  orig'[Home[g]][Key(g, "out")] = sent'[g]
  <2>h. Home[g] \in Daemons /\ Key(g, "out") \in Keys
    BY DscpPathAssumption DEF Key, Keys
  <2>1. CASE g # f
    <3>1. Key(g, "out") # Key(f, "out")
      BY <2>1 DEF Key
    <3>2. orig'[Home[g]][Key(g, "out")] = orig[Home[g]][Key(g, "out")]
      BY <3>1, <2>h, <1>1, <1>4, <1>5, <1>t DEF PathTypes
    <3>3. sent'[g] = sent[g] /\ g \notin lost
      BY <2>1, <1>5, <1>t, <1>11 DEF PathTypes
    <3> QED BY <3>2, <3>3, <1>11 DEF PathInv, FiledAsSent
  <2>2. CASE g = f /\ egress[d] # "off"
    <3>1. sent'[g] = x
      BY <2>2, <1>5, <1>t DEF PathTypes
    <3>2. Stamps(p, d)
      BY <2>2, <3>1, <1>11, <1>s DEF d
    <3>3. orig' = [orig EXCEPT ![d][Key(f, "out")] = x]
      BY <2>2, <3>2, <1>5, <1>11
    <3> QED BY <2>2, <3>1, <3>3, <1>1, <1>4, <1>t DEF PathTypes, d
  <2>3. CASE g = f /\ egress[d] = "off"
    BY <2>3, <1>5, <1>s, <1>11 DEF PathInv, FiledAsSent
  <2> QED BY <2>1, <2>2, <2>3
<1>12. RepliesGoHome'
  <2> SUFFICES ASSUME NEW g \in Flows, ct[g] # None
               PROVE  ct[g].mark \in {0, Home[g]} \cup bare'[g]
    BY <1>5 DEF RepliesGoHome
  <2> QED BY <1>8 DEF PathInv, RepliesGoHome
<1> QED BY <1>7, <1>9, <1>10, <1>11, <1>12 DEF PathInv, FiledAsSent

\* What a daemon puts in the place of its tag is not the tag.
LEMMA RestoredIsNotTag ==
    ASSUME PathInv, NEW d \in Daemons, NEW k \in Keys
    PROVE  Restored(orig[d][k], d) \in Dscps \ {d}
<1>1. orig[d][k] \in Dscps \cup {None} /\ orig[d][k] # d
  BY DEF PathInv, PathTypes, NoTagFiled
<1> QED BY <1>1, IdsAreDscps DEF Restored

\* The packet a daemon lets go.
LEMMA TerminateLetsGo ==
    ASSUME PathInv, NEW p \in wire, Terminate(p)
    PROVE  /\ p.via \in Daemons
           /\ \E q \in PacketType :
                 /\ wire' = (wire \ {p}) \cup {q}
                 /\ Right(q) /\ q.at = "client" /\ q.flow = p.flow
                 /\ q.tos = IF egress[p.via] = "up" /\ DscpOf(p.tos) = p.via
                            THEN TosWithDscp(p.tos,
                                    Restored(orig[p.via][ReplyKey(p)], p.via))
                            ELSE p.tos
<1> DEFINE d == p.via
           restored == Restored(orig[d][ReplyKey(p)], d)
           rewrites == egress[d] = "up" /\ DscpOf(p.tos) = d
<1>1. p \in PacketType /\ Right(p) /\ p.at = "daemon" /\ d \in Daemons
  BY UnderWay DEF Good, ViaKnown, Terminate
<1>2. ReplyKey(p) \in Keys
  BY <1>1 DEF ReplyKey, Key, Keys, PacketType
<1>3. restored \in Dscps
  BY <1>1, <1>2, RestoredIsNotTag
<1>4. PICK b : b = IF rewrites THEN Rewrite(p, restored) ELSE p
  OBVIOUS
<1>5. /\ b \in PacketType /\ Right(b) /\ b.flow = p.flow
      /\ b.tos = IF rewrites THEN TosWithDscp(p.tos, restored) ELSE p.tos
  BY <1>1, <1>3, <1>4, RewriteIsRight
<1>6. PICK q : q = [b EXCEPT !.at = "client"]
  OBVIOUS
<1>7. wire' = (wire \ {p}) \cup {q}
  BY <1>4, <1>6 DEF Terminate
<1> HIDE DEF d, restored, rewrites
<1>8. /\ q \in PacketType /\ q.at = "client" /\ q.flow = b.flow
      /\ q.tos = b.tos /\ q.check = b.check
  BY <1>5, <1>6 DEF PacketType
<1>9. Right(q)
  BY <1>5, <1>8 DEF Right
<1> QED BY <1>1, <1>5, <1>7, <1>8, <1>9 DEF d, restored, rewrites

LEMMA TerminateInv ==
    ASSUME PathInv, NEW p \in wire, Terminate(p)
    PROVE  PathInv'
<1>1. PICK q \in PacketType :
         wire' = (wire \ {p}) \cup {q} /\ Right(q) /\ q.at = "client"
  BY TerminateLetsGo
<1>2. Good(q)
  BY <1>1, PastTheRouter DEF Good, ViaKnown
<1>3. UNCHANGED torn
  BY DEF Terminate
<1>4. \A r \in wire' \ torn' : Good(r)
  BY <1>1, <1>2, <1>3 DEF PathInv
<1> QED BY <1>3, <1>4, OnlyWire DEF Terminate, PathInv, PathTypes

\* Whatever helper fails, the reply leaves, and only the one whose checksum
\* was not replaced leaves with a wrong one.
LEMMA TerminateFailsInv ==
    ASSUME PathInv, NEW p \in wire, TerminateFails(p)
    PROVE  PathInv'
<1> DEFINE d == p.via
           restored == TosWithDscp(p.tos, Restored(orig[d][ReplyKey(p)], d))
<1>1. p \in PacketType /\ Right(p) /\ p.at = "daemon" /\ d \in Daemons
  BY UnderWay DEF Good, ViaKnown, TerminateFails
<1>2. PICK kept : kept = [p EXCEPT !.at = "client"]
  OBVIOUS
<1>3. PICK half : half = [p EXCEPT !.at = "client", !.tos = restored]
  OBVIOUS
<1>4. PICK zero : zero = Rewrite(p, Restored(None, d))
  OBVIOUS
<1>5. PICK bare0 : bare0 = [zero EXCEPT !.at = "client"]
  OBVIOUS
<1>6. \/ wire' = (wire \ {p}) \cup {kept} /\ torn' = torn
      \/ wire' = (wire \ {p}) \cup {half} /\ torn' = torn \cup {half}
      \/ wire' = (wire \ {p}) \cup {bare0} /\ torn' = torn
  BY <1>2, <1>3, <1>4, <1>5 DEF TerminateFails
<1> HIDE DEF d, restored
<1>7. Good(kept)
  <2>1. /\ kept \in PacketType /\ kept.at = "client" /\ kept.flow = p.flow
        /\ kept.tos = p.tos /\ kept.check = p.check
    BY <1>1, <1>2 DEF PacketType
  <2> QED BY <1>1, <2>1, PastTheRouter DEF Good, ViaKnown, Right
<1>8. half.at = "client"
  BY <1>1, <1>3 DEF PacketType
<1>9. Good(bare0)
  <2>1. Restored(None, d) \in Dscps
    BY IdsAreDscps DEF Restored
  <2>2. zero \in PacketType /\ Right(zero)
    BY <1>1, <1>4, <2>1, RewriteIsRight
  <2>3. /\ bare0 \in PacketType /\ bare0.at = "client" /\ bare0.flow = zero.flow
        /\ bare0.tos = zero.tos /\ bare0.check = zero.check
    BY <1>5, <2>2 DEF PacketType
  <2> QED BY <2>2, <2>3, PastTheRouter DEF Good, ViaKnown, Right
<1>10. \A q \in torn' : q.at = "client"
  BY <1>6, <1>8 DEF PathInv, PathTypes
<1>11. \A r \in wire' \ torn' : Good(r)
  BY <1>6, <1>7, <1>9 DEF PathInv
<1> QED BY <1>10, <1>11, OnlyWire DEF TerminateFails

LEMMA ArriveInv == ASSUME PathInv, NEW p \in wire, Arrive(p) PROVE PathInv'
<1>1. \A r \in wire' \ torn' : Good(r)
  BY DEF PathInv, Arrive
<1>2. \A q \in torn' : q.at = "client"
  BY DEF PathInv, PathTypes, Arrive
<1> QED BY <1>1, <1>2, OnlyWire DEF Arrive

LEMMA ReplyInv ==
    ASSUME PathInv, NEW p \in wire, NEW tos \in ServerTos \cup {p.tos},
           Reply(p, tos)
    PROVE  PathInv'
<1>1. p \in PacketType /\ p.flow \in Flows /\ tos \in Tos
  <2>1. p \in PacketType /\ p.flow \in Flows /\ p.tos \in Tos
    BY UnderWay DEF Good, PacketType, Reply
  <2>2. ServerTos \subseteq Tos
    BY DscpPathAssumption DEF Tos
  <2> QED BY <2>1, <2>2
<1>2. PICK q : q = Packet(p.flow, "out", "router", tos, RightSum(p.flow, tos))
  OBVIOUS
<1>3. q \in PacketType /\ Right(q) /\ q.dir = "out" /\ q.at = "router"
  BY <1>1, <1>2, PacketIsRight
<1>4. Good(q)
  BY <1>3, PastTheRouter DEF Good, ViaKnown
<1>5. \A r \in wire' \ torn' : Good(r)
  BY <1>2, <1>4 DEF PathInv, Reply
<1> QED BY <1>5, OnlyWire DEF Reply, PathInv, PathTypes

LEMMA ReattachInv ==
    ASSUME PathInv, NEW d \in Daemons, Reattach(d)
    PROVE  PathInv'
<1>1. egress' \in [Daemons -> {"up", "noTc", "off"}]
  BY DEF PathInv, PathTypes, Reattach, DetachTc, ClearIds, InsertId, AttachTc
<1>2. UNCHANGED <<orig, known, ct, wire, sent, lost, bare, torn>>
  BY DEF Reattach
<1>3. PathTypes' /\ NoTagFiled' /\ FiledAsSent' /\ RepliesGoHome'
  BY <1>1, <1>2 DEF PathInv, PathTypes, NoTagFiled, FiledAsSent, RepliesGoHome
<1>4. \A q \in wire' \ torn' : Good(q)'
  BY <1>2 DEF PathInv, Good, TaggedHome, ViaKnown, Right
<1> QED BY <1>3, <1>4 DEF PathInv

LEMMA SyncIdsInv ==
    ASSUME PathInv, NEW d \in Daemons, SyncIds(d)
    PROVE  PathInv'
<1>1. /\ known' \subseteq Daemons
      /\ UNCHANGED <<egress, orig, ct, wire, sent, lost, bare, torn>>
  BY DEF PathInv, PathTypes, SyncIds
<1>3. PathTypes' /\ NoTagFiled' /\ FiledAsSent' /\ RepliesGoHome'
  BY <1>1 DEF PathInv, PathTypes, NoTagFiled, FiledAsSent, RepliesGoHome
<1>4. \A q \in wire' \ torn' : Good(q)'
  BY <1>1 DEF PathInv, Good, TaggedHome, ViaKnown, Right
<1> QED BY <1>3, <1>4 DEF PathInv

LEMMA EvictInv == ASSUME PathInv, NEW f \in Flows, Evict(f) PROVE PathInv'
<1>1. /\ orig' = [orig EXCEPT ![Home[f]][Key(f, "out")] = None]
      /\ lost' = lost \cup {f}
      /\ UNCHANGED <<egress, known, ct, wire, sent, bare, torn>>
  BY DEF Evict
<1>2. Home[f] \in Daemons /\ Key(f, "out") \in Keys
  BY DscpPathAssumption DEF Key, Keys
<1>3. PathTypes'
  BY <1>1, <1>2, FiledType DEF PathInv, PathTypes
<1>4. NoTagFiled'
  BY <1>1, <1>2, IdsAreDscps DEF PathInv, PathTypes, NoTagFiled
<1>5. ASSUME NEW g \in Flows, g \notin lost', sent'[g] \notin {None, Home[g]}
      PROVE  orig'[Home[g]][Key(g, "out")] = sent'[g]
  <2>1. g # f /\ g \notin lost /\ Key(g, "out") # Key(f, "out")
    BY <1>1, <1>5 DEF Key
  <2>2. Home[g] \in Daemons /\ Key(g, "out") \in Keys
    BY DscpPathAssumption DEF Key, Keys
  <2>3. orig'[Home[g]][Key(g, "out")] = orig[Home[g]][Key(g, "out")]
    BY <1>1, <1>2, <2>1, <2>2 DEF PathInv, PathTypes
  <2> QED BY <1>1, <1>5, <2>1, <2>3 DEF PathInv, FiledAsSent
<1>6. RepliesGoHome' /\ \A q \in wire' \ torn' : Good(q)'
  BY <1>1 DEF PathInv, RepliesGoHome, Good, TaggedHome, ViaKnown, Right
<1> QED BY <1>3, <1>4, <1>5, <1>6 DEF PathInv, FiledAsSent

\* A step of conntrack: the entry of one flow changes and is as it should be.
LEMMA ConntrackStep ==
    ASSUME PathInv, UNCHANGED <<egress, orig, known, sent, lost, bare, torn>>,
           NEW f \in Flows, NEW entry \in CtType \cup {None},
           entry # None => entry.mark \in {0, Home[f]} \cup bare[f],
           ct' = [ct EXCEPT ![f] = entry],
           \A q \in wire' \ torn' : Good(q)
    PROVE  PathInv'
<1>1. PathTypes' /\ NoTagFiled' /\ FiledAsSent'
  BY DEF PathInv, PathTypes, NoTagFiled, FiledAsSent
<1>2. RepliesGoHome'
  BY DEF PathInv, PathTypes, RepliesGoHome
<1>3. \A q \in wire' \ torn' : Good(q)'
  BY DEF Good, TaggedHome, ViaKnown, Right
<1> QED BY <1>1, <1>2, <1>3 DEF PathInv

LEMMA CtExpiresInv ==
    ASSUME PathInv, NEW f \in Flows, CtExpires(f)
    PROVE  PathInv'
<1>1. \A q \in wire' \ torn' : Good(q)
  BY DEF PathInv, CtExpires
<1> QED BY <1>1, ConntrackStep DEF CtExpires

LEMMA ForwardInv == ASSUME PathInv, NEW p \in wire, Forward(p) PROVE PathInv'
<1> DEFINE mark == Steer(p.tos)
           old == ct[p.flow]
<1>1. /\ p \in PacketType /\ Right(p) /\ TaggedHome(p) /\ p.flow \in Flows
      /\ p.dir = "in" /\ p.at = "router"
  BY UnderWay DEF Good, PacketType, Forward
<1>2. mark \in Daemons \cup {0} /\ mark \in {0, Home[p.flow]} \cup bare[p.flow]
  BY <1>1 DEF Steer, TaggedHome, PathInv, PathTypes
<1>3. /\ old \in CtType \cup {None}
      /\ old # None => old.mark \in {0, Home[p.flow]} \cup bare[p.flow]
  BY <1>1 DEF PathInv, PathTypes, RepliesGoHome
<1>4. PICK entry : entry = CtSave(old, mark)
  OBVIOUS
<1>5. ct' = [ct EXCEPT ![p.flow] = entry]
  BY <1>1, <1>4 DEF Forward, PathInv, PathTypes
<1>6. entry \in CtType /\ entry.mark \in {0, Home[p.flow]} \cup bare[p.flow]
  <2> HIDE DEF mark, old
  <2>1. CASE old = None
    BY <1>2, <1>4, <2>1 DEF CtSave, CtType
  <2>2. CASE old # None /\ ~old.replied /\ mark # 0
    <3>1. entry = [old EXCEPT !.mark = mark]
      BY <1>4, <2>2 DEF CtSave
    <3> QED BY <1>2, <1>3, <2>2, <3>1 DEF CtType
  <2>3. CASE old # None /\ ~(~old.replied /\ mark # 0)
    BY <1>3, <1>4, <2>3 DEF CtSave
  <2> QED BY <2>1, <2>2, <2>3
<1>7. PICK q : q = [p EXCEPT !.at = "server"]
  OBVIOUS
<1>8. /\ q \in PacketType /\ q.at = "server" /\ q.tos = p.tos /\ q.check = p.check
      /\ q.flow = p.flow
  BY <1>1, <1>7 DEF PacketType
<1>9. Good(q)
  BY <1>1, <1>8, PastTheRouter DEF Good, ViaKnown, Right
<1>10. \A r \in wire' \ torn' : Good(r)
  BY <1>7, <1>9 DEF PathInv, Forward
<1>11. UNCHANGED <<egress, orig, known, sent, lost, bare, torn>>
  BY DEF Forward
<1> QED BY <1>1, <1>5, <1>6, <1>10, <1>11, ConntrackStep

LEMMA ReturnInv == ASSUME PathInv, NEW p \in wire, Return(p) PROVE PathInv'
<1> DEFINE old == ct[p.flow]
<1>1. /\ p \in PacketType /\ Right(p) /\ p.flow \in Flows
      /\ p.dir = "out" /\ p.at = "router"
  BY UnderWay DEF Good, PacketType, Return
<1>2. /\ old \in CtType \cup {None}
      /\ old # None => old.mark \in {0, Home[p.flow]} \cup bare[p.flow]
  BY <1>1 DEF PathInv, PathTypes, RepliesGoHome
<1>3. PICK entry : entry = IF old = None THEN [mark |-> 0, replied |-> FALSE]
                           ELSE [old EXCEPT !.replied = TRUE]
  OBVIOUS
<1>4. ct' = [ct EXCEPT ![p.flow] = entry]
  BY <1>1, <1>3 DEF Return, PathInv, PathTypes
<1>5. PICK q : q = [p EXCEPT !.at = "daemon", !.via = old.mark]
  OBVIOUS
<1>6. wire' \subseteq wire \cup {q} /\ (q \in wire' => q \in wire \/ (old # None /\ old.mark # 0))
  BY <1>5 DEF Return
<1> HIDE DEF old
<1>7. entry \in CtType /\ entry.mark \in {0, Home[p.flow]} \cup bare[p.flow]
  BY <1>2, <1>3 DEF CtType
<1>8. ASSUME old # None /\ old.mark # 0 PROVE Good(q)
  <2>1. old.mark \in Daemons
    BY <1>2, <1>8 DEF CtType
  <2>2. /\ q \in PacketType /\ q.via = old.mark /\ q.tos = p.tos
        /\ q.check = p.check /\ q.flow = p.flow /\ q.dir = "out"
    BY <1>1, <1>5, <2>1 DEF PacketType
  <2> QED BY <1>1, <2>1, <2>2, PastTheRouter DEF Good, ViaKnown, Right
<1>10. UNCHANGED <<egress, orig, known, sent, lost, bare, torn>>
  BY DEF Return
<1>9. \A r \in wire' \ torn' : Good(r)
  BY <1>6, <1>8, <1>10 DEF PathInv
<1> QED BY <1>1, <1>4, <1>7, <1>9, <1>10, ConntrackStep

LEMMA InitPath == Init => PathInv
<1> SUFFICES ASSUME Init PROVE PathInv
  OBVIOUS
<1>1. PathTypes
  BY DEF Init, PathTypes
<1>2. NoTagFiled
  BY IdsAreDscps DEF Init, NoTagFiled
<1>3. FiledAsSent /\ RepliesGoHome /\ \A p \in wire \ torn : Good(p)
  BY DEF Init, FiledAsSent, RepliesGoHome
<1> QED BY <1>1, <1>2, <1>3 DEF PathInv

LEMMA NextPath == PathInv /\ [Next]_vars => PathInv'
<1> SUFFICES ASSUME PathInv, [Next]_vars PROVE PathInv'
  OBVIOUS
<1>1. ASSUME NEW f \in Flows, \/ \E tos \in ClientTos : Stamp(f, tos)
                              \/ Evict(f) \/ CtExpires(f)
      PROVE  PathInv'
  BY <1>1, StampInv, EvictInv, CtExpiresInv
<1>2. ASSUME NEW p \in wire, \/ Forward(p) \/ Return(p)
                             \/ Terminate(p) \/ TerminateFails(p) \/ Arrive(p)
      PROVE  PathInv'
  BY <1>2, ForwardInv, ReturnInv, TerminateInv, TerminateFailsInv, ArriveInv
<1>3. ASSUME NEW p \in wire, NEW tos \in ServerTos \cup {p.tos}, Reply(p, tos)
      PROVE  PathInv'
  BY <1>3, ReplyInv
<1>4. ASSUME NEW d \in Daemons, Reattach(d) \/ SyncIds(d) PROVE PathInv'
  BY <1>4, ReattachInv, SyncIdsInv
<1>5. CASE UNCHANGED vars
  <2>1. \A q \in wire' \ torn' : Good(q)
    BY <1>5 DEF PathInv, vars
  <2> QED BY <1>5, <2>1, OnlyWire DEF vars, PathInv, PathTypes
<1> QED BY <1>1, <1>2, <1>3, <1>4, <1>5 DEF Next

-----------------------------------------------------------------------------
(* The theorems.                                                           *)

\* PathInv is an invariant: what the XDP program, the router's classifier,
\* conntrack and the egress classifier keep between them.
THEOREM PathInvariant == Spec => []PathInv
  BY InitPath, NextPath, PTL DEF Spec

\* No interleaving of stamping, restoring and re-attaching leaves a header
\* with a wrong checksum, but for a reply whose checksum helper failed.
THEOREM ChecksumsAlwaysRight == Spec => []ChecksumsRight
<1>1. PathInv => ChecksumsRight
  BY DEF PathInv, Good, Right, ChecksumsRight
<1> QED BY <1>1, PathInvariant, PTL

\* Conntrack never keeps the mark of another daemon for a flow, but for one
\* the flow brought along while its own daemon was re-attaching.
THEOREM RepliesAlwaysGoHome == Spec => []RepliesGoHome
<1>1. PathInv => RepliesGoHome
  BY DEF PathInv
<1> QED BY <1>1, PathInvariant, PTL

\* A daemon with its classifier attached lets no reply go with its own id,
\* unless a helper fails.
THEOREM TagsNeverEscape == Spec => TagNeverEscapes
<1>1. ASSUME PathInv, [Next]_vars,
             NEW p \in wire, NEW q \in wire' \ wire, Terminate(p),
             egress[p.via] = "up"
      PROVE  DscpOf(q.tos) # p.via
  <2>1. PICK r \in PacketType :
           /\ wire' = (wire \ {p}) \cup {r}
           /\ r.tos = IF egress[p.via] = "up" /\ DscpOf(p.tos) = p.via
                      THEN TosWithDscp(p.tos,
                              Restored(orig[p.via][ReplyKey(p)], p.via))
                      ELSE p.tos
    BY <1>1, TerminateLetsGo
  <2>2. q = r
    BY <1>1, <2>1
  <2>3. p.via \in Daemons /\ p.tos \in Tos /\ ReplyKey(p) \in Keys
    BY <1>1, TerminateLetsGo, UnderWay
       DEF Terminate, Good, PacketType, ReplyKey, Key, Keys
  <2>4. Restored(orig[p.via][ReplyKey(p)], p.via) \in Dscps \ {p.via}
    BY <1>1, <2>3, RestoredIsNotTag
  <2> QED BY <1>1, <2>1, <2>2, <2>3, <2>4, TosFacts
<1>2. PathInv /\ [Next]_vars =>
         [\A p \in wire, q \in wire' \ wire :
            (Terminate(p) /\ egress[p.via] = "up") => DscpOf(q.tos) # p.via]_vars
  BY <1>1
<1> QED BY <1>2, PathInvariant, PTL DEF Spec, TagNeverEscapes

\* A reply that comes home with the tag leaves with the DSCP the flow's last
\* stamped packet had, and with its own ECN bits, unless the record of it was
\* not written or was evicted, that DSCP was the tag, or a helper fails.
THEOREM OriginalsRestored == Spec => OriginalRestored
<1>1. ASSUME PathInv, [Next]_vars,
             NEW p \in wire, NEW q \in wire' \ wire, Terminate(p),
             p.via = Home[p.flow], egress[Home[p.flow]] = "up",
             DscpOf(p.tos) = Home[p.flow], p.flow \notin lost,
             sent[p.flow] \notin {None, Home[p.flow]}
      PROVE  q.tos = TosWithDscp(p.tos, sent[p.flow])
  <2>1. PICK r \in PacketType :
           /\ wire' = (wire \ {p}) \cup {r}
           /\ r.tos = IF egress[p.via] = "up" /\ DscpOf(p.tos) = p.via
                      THEN TosWithDscp(p.tos,
                              Restored(orig[p.via][ReplyKey(p)], p.via))
                      ELSE p.tos
    BY <1>1, TerminateLetsGo
  <2>2. q = r
    BY <1>1, <2>1
  <2>3. p.flow \in Flows
    BY <1>1, UnderWay DEF Terminate, Good, PacketType
  <2>4. orig[p.via][ReplyKey(p)] = sent[p.flow]
    BY <1>1, <2>3 DEF PathInv, FiledAsSent, ReplyKey
  <2>5. Restored(orig[p.via][ReplyKey(p)], p.via) = sent[p.flow]
    BY <1>1, <2>4 DEF Restored
  <2> QED BY <1>1, <2>1, <2>2, <2>5
<1>2. PathInv /\ [Next]_vars =>
         [\A p \in wire, q \in wire' \ wire :
            LET d == Home[p.flow]
            IN (/\ Terminate(p) /\ p.via = d /\ egress[d] = "up"
                /\ DscpOf(p.tos) = d
                /\ p.flow \notin lost
                /\ sent[p.flow] \notin {None, d}) =>
                   q.tos = TosWithDscp(p.tos, sent[p.flow])]_vars
  BY <1>1
<1> QED BY <1>2, PathInvariant, PTL DEF Spec, OriginalRestored
=============================================================================
