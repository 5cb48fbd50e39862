----------------------------- MODULE BlockFormat -----------------------------
(***************************************************************************)
(* The wire format of arrays and maps: blocks, each with a count and       *)
(* perhaps the size of its data, and a count of zero at the end.  A cell   *)
(* is one number or one byte; a number's own bytes are ByteStream's        *)
(* subject.  An item is the sequence of the strings it is made of: none    *)
(* for an array of null, one for an array of bytes, the key and perhaps a  *)
(* value for a map.                                                        *)
(***************************************************************************)
EXTENDS Integers, Sequences, SequencesExt

StringCells(s) == << Len(s) >> \o s

ItemCells(item) == FlattenSeq([k \in DOMAIN item |-> StringCells(item[k])])

ItemsCells(items) == FlattenSeq([k \in DOMAIN items |-> ItemCells(items[k])])

\* A block gives the size of its data, after the negated count, or it does not.
BlockCells(b) ==
  LET data == ItemsCells(b.items)
  IN  IF b.sized THEN << -Len(b.items), Len(data) >> \o data
                 ELSE << Len(b.items) >> \o data

\* What a writer that follows the format puts on the wire for these blocks.
Framed(blocks) ==
  FlattenSeq([k \in DOMAIN blocks |-> BlockCells(blocks[k])]) \o << 0 >>

ItemsOf(blocks) == FlattenSeq([k \in DOMAIN blocks |-> blocks[k].items])
==============================================================================
