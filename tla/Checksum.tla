------------------------------ MODULE Checksum ------------------------------
(***************************************************************************)
(* dumbarp-common/src/lib.rs: the two rewrites of an IPv4 header that the  *)
(* eBPF programs make, at the width of the code: u8, u16 and u32.          *)
(***************************************************************************)
EXTENDS Integers

U16 == {n \in Nat : n < 65536}

\* Bitwise not of a u16, and one end-around carry of a u32 sum.
Not16(x) == 65535 - x
Carry(sum) == (sum % 65536) + (sum \div 65536)

\* Seeded fault: the second carry is left out, and what does not fit is cut.
CsumReplaceOneCarry(check, old, new) ==
    Not16(Carry(Not16(check) + Not16(old) + new) % 65536)

\* csum_replace2: `sum as u16` keeps the low half.
CsumReplace2(check, old, new) ==
    Not16(Carry(Carry(Not16(check) + Not16(old) + new)) % 65536)

\* tos_with_dscp, the shift being one of a u8; and the DSCP of a tos.
TosWithDscp(tos, dscp) == ((4 * dscp) % 256) + (tos % 4)
DscpOf(tos) == tos \div 4

\* The first word of a header with no options: version and length, tos.
HeaderWord(tos) == 17664 + tos

\* What a receiver checks: the one's complement sum over a word of the header,
\* the rest of it and the checksum has all bits set, in one of its two forms.
ValidSum(word, rest, check) == (word + rest + check) % 65535 = 0
=============================================================================
