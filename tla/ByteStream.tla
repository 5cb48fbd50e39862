------------------------------ MODULE ByteStream -----------------------------
(***************************************************************************)
(* What avro.Reader promises about primitive values: each operation acts   *)
(* on the bytes of the stream as a whole, however they arrive, or fails.   *)
(*                                                                         *)
(* Bytes are scaled down: a byte carries GroupBits bits of a varint and a  *)
(* continuation flag, an int has IntBits bits and a long LongBits (7, 32   *)
(* and 64 in the code).                                                    *)
(***************************************************************************)
EXTENDS Integers, Sequences

CONSTANTS
  GroupBits, IntBits, LongBits,
  MaxByteSliceSize,  \* Config.MaxByteSliceSize; 0 stands for disabled
  Ops                \* the operations callers use: [kind, n]

VARIABLES
  stream,  \* all the bytes the source will deliver
  end,     \* what it says after them: "eof" or "err"
  pos,     \* bytes consumed by the operations that succeeded
  err,     \* Reader.Error
  ret      \* the last operation that returned, and its value

vars == << stream, end, pos, err, ret >>

EOFs == {"eof", "weof"}  \* io.EOF itself, and wrapped in another error
------------------------------------------------------------------------------
Group      == 2 ^ GroupBits
More(b)    == b >= Group
Size(w)    == (w + GroupBits - 1) \div GroupBits
LastMax(w) == 2 ^ (w - GroupBits * (Size(w) - 1)) - 1
MinLong    == -(2 ^ (LongBits - 1))

ZigZag(u) == IF u % 2 = 0 THEN u \div 2 ELSE -((u + 1) \div 2)

\* The value of the first k bytes of s after p as groups, least significant first.
Groups(s, p, k) ==
  LET sum[i \in 0 .. k] ==
        IF i = 0 THEN 0 ELSE sum[i - 1] + (s[p + i] % Group) * 2 ^ (GroupBits * (i - 1))
  IN  sum[k]

\* Outcomes: the error, the value and the bytes consumed.  A source says e at
\* its end; eof is what an operation makes of the end of the stream.
Ok(val, len)   == [err |-> "nil", val |-> val, len |-> len]
Error(e)       == [err |-> e, val |-> << >>, len |-> 0]
Report         == Error("report")
AtEnd(e, eof)  == Error(IF e = "eof" THEN eof ELSE "err")

\* The first byte after p that ends a varint.
Ends(s, p, w, k) ==
  /\ k \in 1 .. Size(w) /\ p + k <= Len(s)
  /\ \A i \in 1 .. k - 1 : More(s[p + i])
  /\ ~More(s[p + k])

\* The last byte the width allows has bits it does not.
TooLarge(s, p, w) ==
  /\ p + Size(w) <= Len(s)
  /\ \A i \in 1 .. Size(w) - 1 : More(s[p + i])
  /\ s[p + Size(w)] > LastMax(w)

Varint(s, e, p, w, eof) ==
  CASE TooLarge(s, p, w) -> Report
    [] ~TooLarge(s, p, w) /\ (\E k \in 1 .. Size(w) : Ends(s, p, w, k)) ->
         LET k == CHOOSE i \in 1 .. Size(w) : Ends(s, p, w, i)
         IN  Ok(<< ZigZag(Groups(s, p, k)) >>, k)
    [] OTHER -> AtEnd(e, eof)

Take(s, e, p, n) ==
  IF p + n <= Len(s) THEN Ok(SubSeq(s, p + 1, p + n), n) ELSE AtEnd(e, "unexpected")

\* q consumed some bytes; r follows it.
Then(q, r) == IF r.err = "nil" THEN Ok(r.val, q.len + r.len) ELSE r
NoValue(r) == IF r.err = "nil" THEN Ok(<< >>, r.len) ELSE r

Outcome(o, s, e, p) ==
  LET long == Varint(s, e, p, LongBits, "weof")
      l    == long.val[1]
      next == Varint(s, e, p + long.len, LongBits, "weof")
      body == Take(s, e, p + long.len, l)
  IN
  CASE o.kind = "Int"      -> Varint(s, e, p, IntBits, "weof")
    [] o.kind = "Long"     -> long
    [] o.kind = "SkipInt"  -> NoValue(Varint(s, e, p, IntBits, "unexpected"))
    [] o.kind = "SkipLong" -> NoValue(Varint(s, e, p, LongBits, "unexpected"))
    [] o.kind = "Bool"     -> LET b == Take(s, e, p, 1) IN
                              IF b.err = "nil" /\ b.val[1] \notin {0, 1} THEN Report ELSE b
    [] o.kind = "Read"     -> Take(s, e, p, o.n)
    [] o.kind = "Skip"     -> NoValue(Take(s, e, p, o.n))
    [] o.kind = "Peek"     -> IF p < Len(s) THEN Ok(<< s[p + 1] >>, 0) ELSE AtEnd(e, "eof")
    [] o.kind = "Bytes"    -> CASE long.err # "nil" -> long
                                [] long.err = "nil" /\ (l < 0 \/ (MaxByteSliceSize > 0 /\ l > MaxByteSliceSize)) -> Report
                                [] OTHER -> Then(long, body)
    [] o.kind = "SkipBytes" -> CASE long.err # "nil" -> long
                                 [] long.err = "nil" /\ l < 0 -> Report
                                 [] OTHER -> NoValue(Then(long, body))
    [] o.kind = "BlockHeader" ->
         CASE long.err # "nil" -> long
           [] long.err = "nil" /\ l >= 0 -> Ok(<< l, 0 >>, long.len)
           [] long.err = "nil" /\ l = MinLong -> Report
           [] OTHER -> IF next.err # "nil" THEN next
                       ELSE IF next.val[1] < 0 THEN Report
                       ELSE Ok(<< -l, next.val[1] >>, long.len + next.len)
------------------------------------------------------------------------------
NoReturn == [op |-> [kind |-> "none", n |-> 0], val |-> << >>]

Init == pos = 0 /\ err = "nil" /\ ret = NoReturn

\* An operation is called; what the last one returned is history.
Call == ret' = NoReturn /\ UNCHANGED << stream, end, pos, err >>

\* A healthy reader: the outcome is a function of the stream and the position.
Do(o) ==
  LET r == Outcome(o, stream, end, pos) IN
  /\ err = "nil"
  /\ err' = r.err /\ pos' = pos + r.len /\ ret' = [op |-> o, val |-> r.val]
  /\ UNCHANGED << stream, end >>

\* The source keeps returning nothing.
NoProgress(o) ==
  /\ err = "nil"
  /\ err' = "noprogress" /\ ret' = [op |-> o, val |-> << >>]
  /\ UNCHANGED << stream, end, pos >>

\* A failed reader stays failed; only the end of the stream may be renamed.
StillFailed(o) ==
  /\ err # "nil"
  /\ err' \in IF err \in EOFs THEN {err, "unexpected", "report"} ELSE {err}
  /\ ret' = [op |-> o, val |-> << >>]
  /\ UNCHANGED << stream, end, pos >>

Next == Call \/ \E o \in Ops : Do(o) \/ NoProgress(o) \/ StillFailed(o)

Spec == Init /\ [][Next]_vars
==============================================================================
