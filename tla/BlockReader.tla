----------------------------- MODULE BlockReader -----------------------------
(***************************************************************************)
(* The loops that read arrays and maps: into a slice or a map              *)
(* (codec_array.go, codec_map.go), through a callback (reader_generic.go), *)
(* and skipping them (codec_skip.go).  All read blocks by ReadBlockHeader  *)
(* (reader.go) until a count of zero.  ByteStream says when a single       *)
(* number or string can be read; here a number is one cell.                *)
(***************************************************************************)
EXTENDS BlockFormat

CONSTANTS MaxItems,  \* Config.MaxSliceAllocSize or MaxMapAllocSize
          MinLong,   \* math.MinInt64
          MaxLong    \* math.MaxInt64

ASSUME ReaderAssumption ==
  MaxLong \in Nat /\ MaxItems \in 0 .. MaxLong /\ MinLong = -MaxLong - 1

Ops == {"array", "map", "arrayCB", "mapCB", "skip"}

\* An element is null or one string; a map has keys too.
WidthsOf(o) == CASE o \in {"array", "arrayCB"} -> {0, 1}
                 [] o \in {"map", "mapCB"}     -> {1, 2}
                 [] o = "skip"                 -> {0, 1, 2}

Long == MinLong .. MaxLong

VARIABLES op,
          width,   \* how many strings an item of the schema is made of
          stream,  \* the cells of the Reader
          pos,     \* cells consumed
          total,   \* items announced by the headers accepted so far
          left,    \* items of this block still to read
          out,     \* the items read; a map keeps the last one of a key
          failed,  \* Reader.Error /= nil
          pc       \* "header", "items", "done" or "stopped"

vars == << op, width, stream, pos, total, left, out, failed, pc >>

AtEnd(p) == p >= Len(stream)

\* ReadLong: a number, or an error.
NumberAt(p) == IF AtEnd(p) THEN [ok |-> FALSE, next |-> p]
                           ELSE [ok |-> TRUE, next |-> p + 1, n |-> stream[p + 1]]

\* ReadBlockHeader.  Size is 0 when the block does not give it.
HeaderAt(p) ==
  LET l == NumberAt(p)
      s == NumberAt(p + 1)
      bad == [ok |-> FALSE, next |-> p]
  IN  IF ~l.ok THEN bad
      ELSE IF l.n >= 0 THEN [ok |-> TRUE, l |-> l.n, size |-> 0, next |-> p + 1]
      ELSE IF l.n = MinLong \/ ~s.ok THEN bad
      ELSE IF s.n < 0 THEN bad
      ELSE [ok |-> TRUE, l |-> -l.n, size |-> s.n, next |-> p + 2]

\* ReadString or SkipString.
StringAt(p) ==
  LET l == NumberAt(p)
  IN  IF ~l.ok THEN l
      ELSE IF l.n < 0 \/ l.n > Len(stream) - l.next THEN [ok |-> FALSE, next |-> p]
      ELSE [ok |-> TRUE, next |-> l.next + l.n, s |-> SubSeq(stream, l.next + 1, l.next + l.n)]

\* The key, for a map, and the element's decoder: width strings in a row.
ItemAt(p) ==
  LET first  == StringAt(p)
      second == StringAt(first.next)
      bad    == [ok |-> FALSE, next |-> p]
  IN  IF width = 0 THEN [ok |-> TRUE, next |-> p, item |-> << >>]
      ELSE IF ~first.ok THEN bad
      ELSE IF width = 1 THEN [ok |-> TRUE, next |-> first.next, item |-> << first.s >>]
      ELSE IF ~second.ok THEN bad
      ELSE [ok |-> TRUE, next |-> second.next, item |-> << first.s, second.s >>]

\* Mutant: every block may be as long as the limit.
LimitPerBlock(l) == op /= "skip" /\ l > MaxItems

\* Size is greater than MaxSliceAllocSize, or MaxMapAllocSize: the limit is on
\* all blocks together.  The skip decoders have none.
OverLimit(l) == op /= "skip" /\ l > MaxItems - total

\* Mutant: a block without a size is skipped as if its size were zero.
SkipUnsized(h) == op = "skip"

\* The skip decoders skip by the size of a block when it gives one.
Skippable(h) == op = "skip" /\ h.size > 0

Fail ==
  /\ failed' = TRUE /\ pc' = "done"
  /\ UNCHANGED << op, width, stream, pos, total, left, out >>

BadHeader == pc = "header" /\ ~HeaderAt(pos).ok /\ Fail

EndMark ==
  /\ pc = "header" /\ HeaderAt(pos).ok /\ HeaderAt(pos).l = 0
  /\ pos' = HeaderAt(pos).next /\ pc' = "done"
  /\ UNCHANGED << op, width, stream, total, left, out, failed >>

HeaderOver ==
  LET h == HeaderAt(pos) IN
  /\ pc = "header" /\ h.ok /\ h.l > 0 /\ OverLimit(h.l)
  /\ Fail

\* SkipNBytesInt64: to the end of the block, or an error at the end of input.
SkipBlock ==
  LET h == HeaderAt(pos) IN
  /\ pc = "header" /\ h.ok /\ h.l > 0 /\ Skippable(h)
  /\ IF h.size > Len(stream) - h.next
       THEN Fail
       ELSE /\ pos' = h.next + h.size
            /\ UNCHANGED << op, width, stream, total, left, out, failed, pc >>

EnterBlock ==
  LET h == HeaderAt(pos) IN
  /\ pc = "header" /\ h.ok /\ h.l > 0 /\ ~OverLimit(h.l) /\ ~Skippable(h)
  /\ pos' = h.next /\ total' = total + h.l /\ left' = h.l /\ pc' = "items"
  /\ UNCHANGED << op, width, stream, out, failed >>

\* The loop over the items of a block.  A callback may end the reading.
ReadItem ==
  LET i == ItemAt(pos) IN
  /\ pc = "items" /\ i.ok
  /\ pos' = i.next /\ left' = left - 1
  /\ out' = IF op = "skip" THEN out ELSE Append(out, i.item)
  /\ \/ pc' = IF left = 1 THEN "header" ELSE "items"
     \/ op \in {"arrayCB", "mapCB"} /\ pc' = "stopped"
  /\ UNCHANGED << op, width, stream, total, failed >>

BadItem == pc = "items" /\ ~ItemAt(pos).ok /\ Fail

Next == BadHeader \/ EndMark \/ HeaderOver \/ SkipBlock \/ EnterBlock \/ ReadItem \/ BadItem

Start(o, w, s) ==
  /\ op = o /\ width = w /\ stream = s
  /\ pos = 0 /\ total = 0 /\ left = 0 /\ out = << >> /\ failed = FALSE
  /\ pc = "header"

Init == \E o \in Ops : \E w \in WidthsOf(o), s \in Seq(Long) : Start(o, w, s)

Spec == Init /\ [][Next]_vars

\* Types; the reader is within its input, whatever lengths and sizes that gives.
TypeOK ==
  /\ op \in Ops /\ width \in WidthsOf(op)
  /\ stream \in Seq(Long) /\ pos \in 0 .. Len(stream)
  /\ total \in Nat /\ left \in Nat /\ out \in Seq(Seq(Seq(Long)))
  /\ failed \in BOOLEAN /\ pc \in {"header", "items", "done", "stopped"}

(***************************************************************************)
(* Whatever the stream says, the blocks accepted by a decoder or by a      *)
(* callback loop announce no more items than the limit between them, and   *)
(* no more items are stored than were announced: a value in many blocks    *)
(* gets no further than one in a single block (codec_array.go:63,          *)
(* codec_map.go:70, reader_generic.go:234 and 255).                        *)
(***************************************************************************)
LimitHolds ==
  op /= "skip" => Len(out) + left <= total /\ total <= MaxItems
==============================================================================
