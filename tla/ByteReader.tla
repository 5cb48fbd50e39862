------------------------------ MODULE ByteReader -----------------------------
(***************************************************************************)
(* avro.Reader (reader.go, reader_skip.go) over an io.Reader that delivers *)
(* its bytes in pieces of any size, may return none at all, and may report *)
(* its end together with the last bytes or after them.                     *)
(*                                                                         *)
(* An operation runs on the buffered bytes and calls loadMore when they    *)
(* are used up; a varint has a fast path for a full buffer and a slow one  *)
(* that resumes where the last piece ended.                                *)
(***************************************************************************)
EXTENDS Integers, Sequences

CONSTANTS
  GroupBits, IntBits, LongBits,  \* bits of a group of a varint, an int, a long
  MaxByteSliceSize,  \* Config.MaxByteSliceSize; 0 stands for disabled
  BufSize,           \* size of the buffer, and so of a piece
  MaxEmptyReads,     \* maxConsecutiveEmptyReads
  Ops                \* the operations callers use: [kind, n]

ASSUME BitsAssumption ==
  GroupBits \in Nat \ {0} /\ IntBits \in Nat \ {0} /\ LongBits \in Nat \ {0}
ASSUME BufferAssumption ==
  BufSize \in Nat \ {0} /\ MaxEmptyReads \in Nat /\ MaxByteSliceSize \in Int

VARIABLES
  streaming,    \* an io.Reader is attached; else Reset gave all the bytes
  stream, end,  \* what the source delivers, and what it says after it
  rest,         \* bytes the source has not delivered yet
  avail,        \* Reader.buf[head:tail]
  pending,      \* Reader.pendingErr
  err,          \* Reader.Error
  empties,      \* emptyReads of the loadMore in progress
  op,           \* the operation in progress, or Idle
  job,          \* where it is
  ret,          \* history: the last operation that returned, and its value
  pos           \* history: bytes consumed by the operations that succeeded

vars == << stream, streaming, end, rest, avail, pending, err, empties, op, job, ret, pos >>

\* The promise, and with it the names of the widths and errors.
Stream == INSTANCE ByteStream

Kinds == {"Int", "Long", "SkipInt", "SkipLong", "Bool", "Read", "Skip", "Peek",
          "Bytes", "SkipBytes", "BlockHeader"}
ASSUME OpsAssumption == Ops \subseteq [kind : Kinds, n : Nat]

Idle == [kind |-> "none", n |-> 0]

\* Steps of an operation: varint (choose the path), scan (its slow path), skip
\* (a varint is skipped), take (n bytes), peek, got (a varint v was read) and
\* size (the second one of a block header was read).
Job(do) == [do |-> do, used |-> 0, v |-> 0, n |-> 0, data |-> << >>]

Width == IF op.kind \in {"Int", "SkipInt"} THEN IntBits ELSE LongBits
MaxSize == Stream!Size(Width)

Least(a, b)   == IF a < b THEN a ELSE b
Drop(s, k)    == SubSeq(s, k + 1, Len(s))
Consumed      == Len(stream) - Len(rest) - Len(avail)

Init ==
  /\ stream \in Seq(0 .. 2 * Stream!Group - 1) /\ streaming \in BOOLEAN
  /\ end \in IF streaming THEN {"eof", "err"} ELSE {"eof"}
  /\ rest = IF streaming THEN stream ELSE << >>
  /\ avail = IF streaming THEN << >> ELSE stream
  /\ pending = "nil" /\ err = "nil" /\ empties = 0
  /\ op = Idle /\ job = Job("none") /\ ret = Stream!NoReturn
  /\ pos = 0
------------------------------------------------------------------------------
\* ReportError keeps an earlier error unless that was the end of the stream.
Reported(e) == IF e = "nil" \/ e \in Stream!EOFs THEN "report" ELSE e

\* The operation returns val and leaves the error e and the buffer a.
Finish(val, e, a) ==
  /\ op' = Idle /\ job' = Job("none")
  /\ err' = e /\ avail' = a
  /\ ret' = [op |-> op, val |-> IF e = "nil" THEN val ELSE << >>]
  /\ pos' = IF e = "nil" THEN Len(stream) - Len(rest) - Len(a) ELSE pos

Unloaded == UNCHANGED << stream, streaming, end, rest, pending, empties >>
Working  == UNCHANGED << stream, streaming, end, err, op, ret, pos >>

\* ReadInt and ReadLong return 0 at once when there is an error already.
Call(o) ==
  /\ op = Idle
  /\ op' = o
  /\ job' = CASE o.kind \in {"Int", "Long", "Bytes", "SkipBytes", "BlockHeader"} ->
                   Job(IF err = "nil" THEN "varint" ELSE "got")
              [] o.kind \in {"SkipInt", "SkipLong"} -> Job("skip")
              [] o.kind = "Bool" -> [Job("take") EXCEPT !.n = 1]
              [] o.kind \in {"Read", "Skip"} -> [Job("take") EXCEPT !.n = o.n]
              [] o.kind = "Peek" -> Job("peek")
  /\ ret' = Stream!NoReturn
  /\ UNCHANGED << stream, streaming, end, rest, avail, pending, err, empties, pos >>

\* Mutant: the last byte of a full-length varint is not limited.
AnyLast(b, w) == FALSE

\* The check on the byte that may be the last one the width allows.
TooBig(b, w) == b > Stream!LastMax(w)

\* The loop over the buffered bytes, from byte number used of the varint on:
\* over (too big), done at byte k with value v, or more bytes wanted.
Scan(bytes, used, value) ==
  LET n == Len(bytes)
      more(v, k)  == [at |-> "more", v |-> v, k |-> k]
      step[i \in 0 .. n] ==
        IF i = 0 THEN more(value, 0)
        ELSE LET s == step[i - 1]
                 b == bytes[i]
                 v == s.v + (b % Stream!Group) * 2 ^ (GroupBits * (used + i - 1))
             IN  CASE s.at # "more" -> s
                   [] s.at = "more" /\ used + i = MaxSize /\ TooBig(b, Width) ->
                        [at |-> "over", v |-> 0, k |-> 0]
                   [] s.at = "more" /\ ~(used + i = MaxSize /\ TooBig(b, Width)) ->
                        IF Stream!More(b) THEN more(v, i) ELSE [at |-> "done", v |-> v, k |-> i]
  IN  step[n]

\* What a caller of ReadInt or ReadLong does next with the number it got.
Next2(do) == IF op.kind = "BlockHeader" /\ job.n # 0 THEN "size" ELSE do

Scanned(s) ==
  \/ s.at = "over" /\ Finish(<< >>, Reported(err), avail)
  \/ /\ s.at = "done"
     /\ avail' = Drop(avail, s.k)
     /\ job' = [job EXCEPT !.do = Next2("got"), !.v = Stream!ZigZag(s.v), !.used = 0]
     /\ UNCHANGED << err, op, ret, pos >>
  \/ /\ s.at = "more"
     /\ avail' = Drop(avail, s.k)
     /\ job' = [job EXCEPT !.do = "scan", !.v = s.v, !.used = @ + s.k]
     /\ UNCHANGED << err, op, ret, pos >>

\* Enough bytes for the longest varint: they are scanned in one go.
FastVarint ==
  /\ job.do = "varint" /\ Len(avail) >= MaxSize
  /\ Scanned(Scan(SubSeq(avail, 1, MaxSize), 0, 0))
  /\ Unloaded

\* The slow path starts, or resumes after loadMore.
SlowVarint ==
  /\ \/ job.do = "varint" /\ Len(avail) < MaxSize
     \/ job.do = "scan" /\ avail # << >>
  /\ Scanned(Scan(SubSeq(avail, 1, Least(Len(avail), MaxSize - job.used)), job.used, job.v))
  /\ Unloaded

\* skipVarint: one byte; at most MaxSize of them.
SkipByte ==
  /\ job.do = "skip" /\ err = "nil" /\ avail # << >>
  /\ LET b    == avail[1]
         last == job.used + 1 = MaxSize
     IN  IF last /\ TooBig(b, Width) THEN Finish(<< >>, Reported(err), Drop(avail, 1))
         ELSE IF ~Stream!More(b) \/ last THEN Finish(<< >>, err, Drop(avail, 1))
         ELSE /\ avail' = Drop(avail, 1) /\ job' = [job EXCEPT !.used = @ + 1]
              /\ UNCHANGED << err, op, ret, pos >>
  /\ Unloaded

SkipRefused ==
  /\ job.do = "skip" /\ err # "nil"
  /\ Finish(<< >>, err, avail)
  /\ Unloaded

\* Read and SkipNBytes: what the buffer has of the n bytes still wanted.
TakeSome ==
  /\ job.do = "take" /\ job.n > 0 /\ avail # << >>
  /\ LET k == Least(job.n, Len(avail)) IN
     /\ avail' = Drop(avail, k)
     /\ job' = [job EXCEPT !.n = @ - k, !.data = @ \o SubSeq(avail, 1, k)]
  /\ UNCHANGED << stream, streaming, end, rest, pending, empties, err, op, ret, pos >>

TakeDone ==
  /\ job.do = "take" /\ job.n = 0
  /\ CASE op.kind \in {"Skip", "SkipBytes"} -> Finish(<< >>, err, avail)
       [] op.kind = "Bool" ->
            Finish(job.data, IF job.data[1] \in {0, 1} THEN err ELSE Reported(err), avail)
       [] OTHER -> Finish(job.data, err, avail)
  /\ Unloaded

Peek ==
  /\ job.do = "peek" /\ avail # << >>
  /\ Finish(<< avail[1] >>, err, avail)
  /\ Unloaded

\* The limit on the bytes of one value; skipping has none.
OverLimit(l) == MaxByteSliceSize > 0 /\ l > MaxByteSliceSize

\* A length that is refused: negative, or over the limit.
BadLength(l) == l < 0 \/ (op.kind = "Bytes" /\ OverLimit(l))

\* A number was read: return it, or go on with it.
Got ==
  /\ job.do = "got"
  /\ LET v == job.v IN
     \/ op.kind \in {"Int", "Long"} /\ Finish(<< v >>, err, avail)
     \/ op.kind \in {"Bytes", "SkipBytes"} /\ BadLength(v) /\ Finish(<< >>, Reported(err), avail)
     \/ /\ op.kind \in {"Bytes", "SkipBytes"} /\ ~BadLength(v)
        /\ job' = [Job("take") EXCEPT !.n = v]
        /\ UNCHANGED << avail, err, op, ret, pos >>
     \/ op.kind = "BlockHeader" /\ v >= 0 /\ Finish(<< v, 0 >>, err, avail)
     \/ op.kind = "BlockHeader" /\ v = Stream!MinLong /\ Finish(<< >>, Reported(err), avail)
     \/ /\ op.kind = "BlockHeader" /\ v < 0 /\ v # Stream!MinLong
        /\ job' = [Job("varint") EXCEPT !.n = -v]
        /\ UNCHANGED << avail, err, op, ret, pos >>
  /\ Unloaded

\* ReadBlockHeader has the size too.
GotSize ==
  /\ job.do = "size"
  /\ IF job.v < 0 THEN Finish(<< >>, Reported(err), avail)
     ELSE Finish(<< job.n, job.v >>, err, avail)
  /\ Unloaded
------------------------------------------------------------------------------
\* The buffer is used up and the operation wants a byte.
WantsByte ==
  /\ avail = << >>
  /\ job.do \in {"scan", "peek"} \/ (job.do = "take" /\ job.n > 0) \/ (job.do = "skip" /\ err = "nil")

\* reportUnexpectedEOF, of readByte, Read and SkipNBytes.
Unexpected(e) == IF e \in Stream!EOFs THEN "unexpected" ELSE e
Wrapped(e)    == IF e = "eof" THEN "weof" ELSE e

\* loadMore returned false with this error: the operation gives up.
LoadFailed(e) ==
  LET e1 == IF err = "nil" THEN e ELSE err IN
  /\ Finish(<< >>, CASE job.do = "scan" -> Wrapped(e1)
                     [] job.do = "peek" -> e1
                     [] OTHER -> Unexpected(e1), avail)
  /\ empties' = 0

\* The error that came with the last bytes.
LoadPending ==
  /\ WantsByte /\ pending # "nil"
  /\ LoadFailed(pending)
  /\ pending' = "nil"
  /\ UNCHANGED << stream, streaming, end, rest >>

\* No io.Reader: the bytes given to Reset are all there is.
LoadNothing ==
  /\ WantsByte /\ pending = "nil" /\ ~streaming
  /\ LoadFailed("eof")
  /\ UNCHANGED << stream, streaming, end, rest, pending >>

\* With its last bytes a source may return its error already, or not yet.
PendingErr(k) == IF k = Len(rest) THEN {"nil", end} ELSE {"nil"}

\* The source delivers k bytes.
LoadPiece(k) ==
  /\ WantsByte /\ pending = "nil" /\ streaming
  /\ k <= Len(rest)
  /\ avail' = SubSeq(rest, 1, k) /\ rest' = Drop(rest, k)
  /\ pending' \in PendingErr(k)
  /\ empties' = 0
  /\ UNCHANGED job /\ Working

\* Mutant: the count starts again after one empty read.
CountRestarts == 1 - empties
Counted    == empties + 1

\* The source returns no bytes and no error: try again, but not for ever.
LoadEmpty ==
  /\ WantsByte /\ pending = "nil" /\ streaming
  /\ IF empties < MaxEmptyReads
     THEN empties' = Counted /\ UNCHANGED << avail, job >> /\ Working
     ELSE LoadFailed("noprogress") /\ UNCHANGED << stream, streaming, end >>
  /\ UNCHANGED << rest, pending >>

LoadEnd ==
  /\ WantsByte /\ pending = "nil" /\ streaming /\ rest = << >>
  /\ LoadFailed(end)
  /\ UNCHANGED << stream, streaming, end, rest, pending >>

Run ==
  \/ FastVarint \/ SlowVarint \/ SkipByte \/ SkipRefused
  \/ TakeSome \/ TakeDone \/ Peek \/ Got \/ GotSize
  \/ LoadPending \/ LoadNothing \/ LoadEmpty \/ LoadEnd
  \/ \E k \in 1 .. BufSize : LoadPiece(k)

Next == Run \/ \E o \in Ops : Call(o)

Spec == Init /\ [][Next]_vars

\* An operation that was called runs on.
FairSpec == Spec /\ WF_vars(Run)
------------------------------------------------------------------------------
\* Every variable keeps its type.
TypeOK ==
  /\ Consumed \in 0 .. Len(stream) /\ pos \in 0 .. Consumed
  /\ {pending, err} \subseteq {"nil", "eof", "weof", "err", "unexpected", "report", "noprogress"}
  /\ empties \in 0 .. MaxEmptyReads
  /\ op \in Ops \cup {Idle} /\ ret.op \in Ops \cup {Idle}

\* The pieces in which bytes arrive, the fast path and the slow one make no
\* difference: every operation returns what it would on the whole stream, and
\* fails exactly when that does not hold what it wants.
ImplementsByteStream == Stream!Spec

\* Every operation returns, also on a source that delivers nothing for ever.
OperationsReturn == (op # Idle) ~> (op = Idle)
==============================================================================
