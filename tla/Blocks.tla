-------------------------------- MODULE Blocks --------------------------------
(***************************************************************************)
(* Encoders and decoders of collections joined: what BlockWriter leaves in *)
(* its buffer is read or skipped by BlockReader.  The reader also gets     *)
(* what other writers frame, whole or cut off anywhere, and streams that   *)
(* need not be well-formed.                                                *)
(***************************************************************************)
EXTENDS BlockReader

CONSTANTS BlockLength, Room, Inputs, \* of BlockWriter
          Framings(_),  \* the blocks of items of this width that others frame
          Streams,      \* other streams
          Rest          \* the start of the next value

ItemsOfWidth(w) == [1 .. w -> Seq(Long)]

\* The dummy header has room for a header's two numbers.
ASSUME WriterAssumption ==
  /\ BlockLength \in 1 .. MaxLong
  /\ Room \in Nat /\ Room >= 2
  /\ \A all \in Inputs : \E w \in 0 .. 2 : all \in Seq(ItemsOfWidth(w))

\* A block has items: a count of zero is the end mark.
ASSUME FramingAssumption ==
  /\ Rest \in Seq(Long)
  /\ \A w \in 0 .. 2 : \A bs \in Framings(w) :
       /\ bs \in Seq([items : Seq(ItemsOfWidth(w)), sized : BOOLEAN])
       /\ \A k \in DOMAIN bs : Len(bs[k].items) \in 1 .. MaxLong

VARIABLES kind, sizes, items, next, memory, len, headerStart, count, wfailed, wpc

wvars == << kind, sizes, items, next, memory, len, headerStart, count, wfailed, wpc >>

W == INSTANCE BlockWriter WITH failed <- wfailed, pc <- wpc

VARIABLES blocks,  \* what was framed
          input    \* "writing", "whole", "cut" before the end mark, or "any" numbers

bvars == << op, width, stream, pos, total, left, out, failed, pc, wvars, blocks, input >>

NoWriter ==
  /\ kind = "array" /\ sizes = FALSE /\ items = << >> /\ next = 0 /\ memory = << >>
  /\ len = 0 /\ headerStart = 0 /\ count = 0 /\ wfailed = FALSE /\ wpc = "done"

FramedInit ==
  /\ NoWriter
  /\ \E o \in Ops : \E w \in WidthsOf(o) : \E bs \in Framings(w) :
       LET whole == Framed(bs)
       IN  /\ blocks = bs
           /\ \/ input = "whole" /\ Start(o, w, whole \o Rest)
              \/ input = "cut" /\ \E k \in 0 .. Len(whole) - 1 : Start(o, w, SubSeq(whole, 1, k))

AnyInit ==
  /\ NoWriter
  /\ blocks = << >> /\ input = "any"
  /\ \E o \in Ops : \E w \in WidthsOf(o), s \in Streams : Start(o, w, s)

WritingInit ==
  /\ W!Init /\ blocks = << >> /\ input = "writing"
  /\ Start("skip", 0, << >>)

BlocksInit == WritingInit \/ FramedInit \/ AnyInit

Write == input = "writing" /\ W!Next /\ UNCHANGED << vars, blocks, input >>

\* A reader whose schema is the writer's, or that skips the value, gets the buffer.
Deliver(o) ==
  /\ input = "writing" /\ wpc = "done" /\ ~wfailed
  /\ o \in {"skip", kind, kind \o "CB"}
  /\ width' \in { w \in WidthsOf(o) : items # << >> => w = Len(items[1]) }
  /\ op' = o
  /\ stream' = SubSeq(memory, Len(W!Before) + 1, len) \o Rest
  /\ blocks' = W!Chunks /\ input' = "whole"
  /\ UNCHANGED << pos, total, left, out, failed, pc, wvars >>

Read == input # "writing" /\ Next /\ UNCHANGED << wvars, blocks, input >>

BlocksNext == Write \/ (\E o \in Ops : Deliver(o)) \/ Read

BlocksSpec == BlocksInit /\ [][BlocksNext]_bvars

Fits == op = "skip" \/ Len(ItemsOf(blocks)) <= MaxItems

(***************************************************************************)
(* However a writer cut a collection into blocks and whichever blocks give *)
(* their size, every way to read it ends without error right behind the    *)
(* end mark, with the items in order, unless there are more items than the *)
(* limit: then reading fails.  Skipping by sizes (codec_skip.go:188) and   *)
(* reading items land on the same cell.  A collection whose end mark is    *)
(* missing is never taken for a whole one, wherever it is cut: between     *)
(* blocks, inside one, inside a header.                                    *)
(***************************************************************************)
FramedReadsBack ==
  /\ input = "whole" /\ pc = "done" =>
       /\ failed <=> ~Fits
       /\ ~failed => /\ pos = Len(stream) - Len(Rest)
                     /\ out = IF op = "skip" THEN << >> ELSE ItemsOf(blocks)
  /\ input = "cut" /\ pc = "done" => failed

(***************************************************************************)
(* A collection encoded without error is on the wire exactly as the        *)
(* format frames its full blocks, behind what was written before it:       *)
(* whatever its length, the header settings, items without bytes, stale    *)
(* memory and the moves in place of WriteBlockCB (writer.go:189).          *)
(***************************************************************************)
WrittenIsFramed == input = "writing" => W!WrittenIsFramed
==============================================================================
