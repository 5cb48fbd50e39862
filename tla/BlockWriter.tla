----------------------------- MODULE BlockWriter -----------------------------
(***************************************************************************)
(* The array and map encoders (codec_array.go, codec_map.go) over          *)
(* Writer.WriteBlockCB (writer.go), which leaves room for a header, lets   *)
(* the callback append the data, then writes the header over the room and  *)
(* moves the data down behind it, in the same memory.                      *)
(***************************************************************************)
EXTENDS BlockFormat, FiniteSetsExt

CONSTANTS BlockLength,  \* Config.BlockLength
          Room,         \* cells of the dummy header
          Inputs        \* the sequences of items to encode

VARIABLES kind,         \* "array" or "map"
          sizes,        \* not Config.DisableBlockSizeHeader
          items,        \* what is encoded
          next,         \* items taken so far
          memory,       \* the memory behind Writer.buf
          len,          \* len(Writer.buf)
          headerStart,  \* WriteBlockCB's headerStart
          count,        \* items the callback has encoded in this block
          failed,       \* Writer.Error /= nil
          pc

vars == << kind, sizes, items, next, memory, len, headerStart, count, failed, pc >>

Before == << 7, 7 >>           \* cells of values written earlier
Stale  == << 9, 9, 9, 9, 9 >>  \* what an earlier use of the memory left behind

\* append in place: the cells overwrite whatever the memory holds there.
Put(mem, at, cells) ==
  [k \in 1 .. Max({Len(mem), at + Len(cells)}) |->
     IF k \in at + 1 .. at + Len(cells) THEN cells[k - at] ELSE mem[k]]

\* Mutant: a sized header whenever sizes are on, so that zero bytes are a size.
HeaderAlwaysSized(l, s) == IF sizes THEN << -l, s >> ELSE << l >>

\* WriteBlockHeader.
Header(l, s) == IF s > 0 /\ sizes THEN << -l, s >> ELSE << l >>

Init ==
  /\ kind \in {"array", "map"} /\ sizes \in BOOLEAN /\ items \in Inputs
  /\ next = 0 /\ count = 0 /\ headerStart = 0 /\ failed = FALSE
  /\ memory = Before \o Stale /\ len = Len(Before)
  /\ pc = "block"

MoreItems == next < Len(items)

\* The dummy header.  The array encoder starts no block without an item for
\* it; the map encoder asks its iterator only inside the block.
BeginBlock ==
  /\ pc = "block" /\ (kind = "map" \/ MoreItems)
  /\ memory' = Put(memory, len, [k \in 1 .. Room |-> 0])
  /\ len' = len + Room
  /\ headerStart' = len /\ count' = 0 /\ pc' = "items"
  /\ UNCHANGED << kind, sizes, items, next, failed >>

EncodeItem ==
  /\ pc = "items" /\ ~failed /\ MoreItems /\ count < BlockLength
  /\ LET cells == ItemCells(items[next + 1])
     IN  memory' = Put(memory, len, cells) /\ len' = len + Len(cells)
  /\ next' = next + 1 /\ count' = count + 1
  /\ UNCHANGED << kind, sizes, items, headerStart, failed, pc >>

\* The element's encoder sets Writer.Error, some of its cells being written.
ItemFails ==
  /\ pc = "items" /\ ~failed /\ MoreItems /\ count < BlockLength
  /\ \E n \in 0 .. Len(ItemCells(items[next + 1])) :
       LET cells == SubSeq(ItemCells(items[next + 1]), 1, n)
       IN  memory' = Put(memory, len, cells) /\ len' = len + n
  /\ next' = next + 1 /\ failed' = TRUE
  /\ UNCHANGED << kind, sizes, items, headerStart, count, pc >>

\* The header over the room, then the data, read from where the callback put
\* it in the same memory, behind it.
Moved(mem, header) ==
  LET under == Put(mem, headerStart, header)
      data  == SubSeq(under, headerStart + Room + 1, len)
  IN  Put(under, headerStart + Len(header), data)

\* The end of WriteBlockCB, and what the encoder's loop does with its result:
\* the map encoder stops after a block without items, which is the end mark.
EndBlock ==
  /\ pc = "items" /\ (failed \/ ~MoreItems \/ count = BlockLength)
  /\ LET size   == len - (headerStart + Room)
         header == Header(count, size)
     IN  /\ memory' = Moved(memory, header)
         /\ len' = headerStart + Len(header) + size
  /\ pc' = IF kind = "map" THEN IF failed \/ count = 0 THEN "done" ELSE "block"
                           ELSE IF failed THEN "end" ELSE "block"
  /\ UNCHANGED << kind, sizes, items, next, headerStart, count, failed >>

\* The array encoder writes the end mark itself, also after a failure.
EndArray ==
  /\ kind = "array" /\ (pc = "end" \/ (pc = "block" /\ ~MoreItems))
  /\ memory' = Put(memory, len, Header(0, 0)) /\ len' = len + 1
  /\ pc' = "done"
  /\ UNCHANGED << kind, sizes, items, next, headerStart, count, failed >>

Next == BeginBlock \/ EncodeItem \/ ItemFails \/ EndBlock \/ EndArray

Spec == Init /\ [][Next]_vars

\* All blocks but the last are full; a block says its size if it has one.
Chunks ==
  [k \in 1 .. (Len(items) + BlockLength - 1) \div BlockLength |->
     LET chunk == SubSeq(items, (k - 1) * BlockLength + 1,
                         Min({k * BlockLength, Len(items)}))
     IN  [items |-> chunk, sized |-> sizes /\ ItemsCells(chunk) /= << >>]]

(***************************************************************************)
(* A collection encoded without error is on the wire exactly as the        *)
(* format frames its full blocks, behind what was written before it:       *)
(* whatever its length, the header settings, items without bytes, stale    *)
(* memory and the moves in place of WriteBlockCB (writer.go:189).          *)
(***************************************************************************)
WrittenIsFramed ==
  pc = "done" /\ ~failed => SubSeq(memory, 1, len) = Before \o Framed(Chunks)
==============================================================================
