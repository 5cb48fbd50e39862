----------------------------- MODULE MCByteReader ----------------------------
(***************************************************************************)
(* avro.Reader on every short stream over a few bytes: with GroupBits = 2  *)
(* these are 0, 1 (the largest last byte of a full-length varint), 2 (one  *)
(* too big there) and 6 and 7 (more bytes follow).  And what a Writer      *)
(* wrote: two numbers, over their whole range, read back or skipped.       *)
(***************************************************************************)
EXTENDS WrittenNumbers

CONSTANT MaxStream  \* bound: bytes of a stream

ByteValues == {0, 1, 2, 6, 7}

\* The least long, a full-length varint before other bytes, a block header with
\* a size in two groups, bytes that end with the buffer.
Longer == { << 7, 7, 1, 2 >>, << 7, 6, 1, 2, 1 >>, << 7, 6, 2, 0 >>, << 1, 6, 1, 2 >>, << 6, 1, 1, 2, 7, 7 >> }

Streams    == UNION { [1 .. n -> ByteValues] : n \in 0 .. MaxStream } \cup Longer

Op(kind, n) == [kind |-> kind, n |-> n]

Scalars == { Op(kind, 0) : kind \in {"Int", "Long", "SkipInt", "SkipLong", "Bool", "Peek"} }
Blocks  == { Op(kind, 0) : kind \in {"Bytes", "SkipBytes", "BlockHeader"} }
Raw     == { Op("Read", 2), Op("Skip", 2) }
AllOps  == Scalars \cup Blocks \cup Raw

\* The second number is the least long, the largest int or a short one.
Seconds == { m \in Numbers : m.n \in {-(2 ^ (LongBits - 1)), -1, 1, 2 ^ (IntBits - 1) - 1} }

AnyInit ==
  /\ sent = << >>
  /\ stream \in Streams
  /\ Init

PairInit ==
  /\ sent \in Numbers \X Seconds
  /\ WrittenInit
  /\ streaming = TRUE /\ end = "eof"

\* On any other stream any operation is called.
Written == sent # << >>

MCNext == (Run \/ \E o \in Ops : (Written => Matching(o)) /\ Call(o)) /\ UNCHANGED sent
MCFair == (AnyInit \/ PairInit) /\ [][MCNext]_<< vars, sent >> /\ WF_vars(Run)
==============================================================================
