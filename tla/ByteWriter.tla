------------------------------ MODULE ByteWriter -----------------------------
(***************************************************************************)
(* How avro.Writer encodes numbers (writer.go): zigzag, then a varint      *)
(* whose first two lengths have branches of their own.                     *)
(***************************************************************************)
EXTENDS Integers, Sequences

CONSTANT GroupBits  \* bits of a group of a varint: 7 in the code

Group == 2 ^ GroupBits

\* WriteInt and WriteLong: (i << 1) ^ (i >> (width - 1)).
ZigZagged(i) == IF i >= 0 THEN 2 * i ELSE -2 * i - 1

\* The groups of u, least significant first: the i-th one, and how many matter.
Digit(u, i)  == (u \div 2 ^ (GroupBits * (i - 1))) % Group
Holds(u, n)  == u < 2 ^ (GroupBits * n)
Digits(u)    == CHOOSE n \in 1 .. u + 1 : Holds(u, n) /\ \A k \in 1 .. n - 1 : ~Holds(u, k)

\* binary.AppendUvarint.
Uvarint(u) == [i \in 1 .. Digits(u) |-> Digit(u, i) + (IF i < Digits(u) THEN Group ELSE 0)]

\* byte(v) | 0x80, where a byte is one bit wider than a group.
Flagged(v) == (v % Group) + Group

\* Mutant: the two-byte branch ends one value too late.
AppendVarintLate(u) ==
  IF u < Group THEN << u >>
  ELSE IF u <= 2 ^ (2 * GroupBits) THEN << Flagged(u), (u \div Group) % (2 * Group) >>
  ELSE Uvarint(u)

AppendVarint(u) ==
  IF u < Group THEN << u >>
  ELSE IF u < 2 ^ (2 * GroupBits) THEN << Flagged(u), (u \div Group) % (2 * Group) >>
  ELSE Uvarint(u)

WriteNumber(i) == AppendVarint(ZigZagged(i))
==============================================================================
