---------------------------- MODULE WrittenNumbers ---------------------------
(***************************************************************************)
(* What avro.Writer wrote and avro.Reader reads: any ints and longs, one   *)
(* after the other, are read or skipped with the operations that fit them, *)
(* in whatever pieces they come, until the end of the stream is seen.      *)
(***************************************************************************)
EXTENDS ByteReader

Writer == INSTANCE ByteWriter

VARIABLE sent  \* the numbers that were written, each as an int or as a long

\* The numbers of w bits.
Signed(w) == -(2 ^ (w - 1)) .. 2 ^ (w - 1) - 1
Numbers   == [as : {"Int"}, n : Signed(IntBits)] \cup [as : {"Long"}, n : Signed(LongBits)]

\* What the buffer of the Writer holds after the first k of them.
Encoded(numbers, k) ==
  LET buf[i \in 0 .. k] ==
        IF i = 0 THEN << >> ELSE buf[i - 1] \o Writer!WriteNumber(numbers[i].n)
  IN  buf[k]

WrittenInit ==
  /\ sent \in Seq(Numbers)
  /\ stream = Encoded(sent, Len(sent))
  /\ Init

\* Where the first k numbers end, and how many were read by the position.
End(k)   == Len(Encoded(sent, k))
ReadAt(k) == k \in 0 .. Len(sent) /\ pos = End(k)

\* What was written is read with the operations of the schema it was written
\* with, and at its end a byte is looked for.
Matching(o) ==
  \E k \in 0 .. Len(sent) :
    /\ ReadAt(k)
    /\ IF k = Len(sent) THEN o.kind = "Peek"
       ELSE o.kind \in (IF sent[k + 1].as = "Int" THEN {"Int", "SkipInt"} ELSE {"Long", "SkipLong"})

WrittenNext == (Run \/ \E o \in Ops : Matching(o) /\ Call(o)) /\ UNCHANGED sent
WrittenSpec == WrittenInit /\ [][WrittenNext]_<< vars, sent >>
------------------------------------------------------------------------------
(***************************************************************************)
(* Every number a Writer wrote, by its branches for one and two bytes or   *)
(* by the general one (writer.go:139), is read back as it was or skipped   *)
(* to its end, in whatever pieces it comes (reader.go:281); a healthy      *)
(* source ends only after the last one.                                    *)
(***************************************************************************)
WrittenReadsBack ==
  sent # << >> /\ op = Idle =>
    \E k \in 0 .. Len(sent) :
      /\ ReadAt(k)
      /\ err # "nil" => k = Len(sent) \/ err = "noprogress"
      /\ (err = "nil" /\ ret.op.kind \in {"Int", "Long"}) => k > 0 /\ ret.val = << sent[k].n >>
==============================================================================
