----------------------------- MODULE Blocks_proofs -----------------------------
(***************************************************************************)
(* Arrays and maps on the wire, for every collection, every length and     *)
(* number of blocks, every limit and every framing: what the encoders      *)
(* leave in their buffer is what the format frames, and every way to read  *)
(* framed blocks yields their items and ends behind them.  The numbers of  *)
(* the limit come first; then what a sequence of sequences adds up to,     *)
(* the writer's memory, its blocks, the reader's place, and the two        *)
(* joined.                                                                 *)
(***************************************************************************)
EXTENDS Blocks, SequenceTheorems, Induction

(***************************************************************************)
(* The induction needs the phase as well: no items are due between blocks, *)
(* and at least one inside a block.                                        *)
(***************************************************************************)
LimitInv ==
  /\ TypeOK
  /\ LimitHolds
  /\ pc = "header" => left = 0
  /\ pc = "items" => left > 0

\* A number that is read is a long, and the reader stays within its input.
LEMMA NumberTypes ==
  ASSUME TypeOK, NEW p \in 0 .. Len(stream), NumberAt(p).ok
  PROVE  NumberAt(p).next \in 0 .. Len(stream) /\ NumberAt(p).n \in Int
         /\ NumberAt(p).next = p + 1 /\ NumberAt(p).n = stream[p + 1] /\ p < Len(stream)
<1>1. ~AtEnd(p)
  BY DEF NumberAt
<1>2. p < Len(stream) /\ p + 1 \in 1 .. Len(stream)
  BY <1>1 DEF AtEnd, TypeOK
<1>3. stream[p + 1] \in Int
  BY <1>2, ReaderAssumption DEF TypeOK, Long
<1> QED  BY <1>1, <1>2, <1>3 DEF NumberAt

\* A header that is accepted announces a natural number of items.
LEMMA HeaderTypes ==
  ASSUME TypeOK, HeaderAt(pos).ok
  PROVE  HeaderAt(pos).l \in Nat /\ HeaderAt(pos).size \in Nat
         /\ HeaderAt(pos).next \in 0 .. Len(stream)
<1> DEFINE l == NumberAt(pos)
           s == NumberAt(pos + 1)
<1>1. pos \in 0 .. Len(stream)
  BY DEF TypeOK
<1>2. l.ok
  BY DEF HeaderAt
<1>3. l.n \in Int /\ pos + 1 \in 0 .. Len(stream)
  BY <1>1, <1>2, NumberTypes
<1>4. CASE l.n >= 0
  BY <1>2, <1>3, <1>4 DEF HeaderAt
<1>5. CASE ~(l.n >= 0)
  <2>1. s.ok
    BY <1>2, <1>5 DEF HeaderAt
  <2> DEFINE q == pos + 1
  <2>2. s.n \in Int /\ s.next \in 0 .. Len(stream) /\ s.next = q + 1
    <3>1. q \in 0 .. Len(stream) /\ NumberAt(q).ok
      BY <1>3, <2>1
    <3> HIDE DEF q
    <3>2. NumberAt(q).n \in Int /\ NumberAt(q).next \in 0 .. Len(stream) /\ NumberAt(q).next = q + 1
      BY <3>1, NumberTypes
    <3> QED  BY <3>2 DEF q
  <2>3. pos + 2 \in 0 .. Len(stream)
    BY <1>1, <2>2
  <2> QED  BY <1>2, <1>3, <1>5, <2>1, <2>2, <2>3 DEF HeaderAt
<1> QED  BY <1>4, <1>5

\* A string that is read is a sequence of cells within the input.
LEMMA StringTypes ==
  ASSUME TypeOK, NEW p \in 0 .. Len(stream), StringAt(p).ok
  PROVE  StringAt(p).next \in 0 .. Len(stream) /\ StringAt(p).s \in Seq(Long)
<1> DEFINE l == NumberAt(p)
<1>1. l.ok
  BY DEF StringAt
<1>2. l.n \in Int /\ l.next \in 0 .. Len(stream)
  BY <1>1, NumberTypes
<1>3. ~(l.n < 0 \/ l.n > Len(stream) - l.next)
  BY <1>1 DEF StringAt
<1>4. StringAt(p).next = l.next + l.n /\ StringAt(p).s = SubSeq(stream, l.next + 1, l.next + l.n)
  BY <1>1, <1>3 DEF StringAt
<1>5. l.next + l.n \in 0 .. Len(stream)
  BY <1>2, <1>3 DEF TypeOK
<1>6. SubSeq(stream, l.next + 1, l.next + l.n) \in Seq(Long)
  BY <1>2, <1>3, <1>5 DEF TypeOK
<1> QED  BY <1>4, <1>5, <1>6

\* An item that is read is a sequence of strings within the input.
LEMMA ItemTypes ==
  ASSUME TypeOK, ItemAt(pos).ok
  PROVE  ItemAt(pos).next \in 0 .. Len(stream) /\ ItemAt(pos).item \in Seq(Seq(Long))
<1> DEFINE first == StringAt(pos)
           second == StringAt(first.next)
<1>1. pos \in 0 .. Len(stream)
  BY DEF TypeOK
<1>2. CASE width = 0
  BY <1>1, <1>2 DEF ItemAt
<1>3. CASE width # 0
  <2>1. first.ok
    BY <1>3 DEF ItemAt
  <2>2. first.next \in 0 .. Len(stream) /\ first.s \in Seq(Long)
    BY <1>1, <2>1, StringTypes
  <2>3. CASE width = 1
    BY <2>1, <2>2, <2>3 DEF ItemAt
  <2>4. CASE width # 1
    <3>1. second.ok
      BY <1>3, <2>1, <2>4 DEF ItemAt
    <3>2. second.next \in 0 .. Len(stream) /\ second.s \in Seq(Long)
      BY <2>2, <3>1, StringTypes
    <3> QED  BY <1>3, <2>1, <2>2, <2>4, <3>1, <3>2 DEF ItemAt
  <2> QED  BY <2>3, <2>4
<1> QED  BY <1>2, <1>3

\* Every reader starts with nothing announced.
LEMMA LimitInit == Init => LimitInv
<1> SUFFICES ASSUME NEW o \in Ops, NEW w \in WidthsOf(o), NEW s \in Seq(Long), Start(o, w, s)
             PROVE  LimitInv
  BY DEF Init
<1>1. out \in Seq(Seq(Seq(Long))) /\ Len(out) = 0
  BY DEF Start
<1>2. op \in Ops /\ width \in WidthsOf(op)
  BY Zenon DEF Start
<1>3. stream \in Seq(Long) /\ pos \in 0 .. Len(stream)
  BY DEF Start
<1>4. TypeOK
  BY <1>1, <1>2, <1>3 DEF Start, TypeOK
<1>5. LimitHolds
  BY <1>1, ReaderAssumption DEF Start, LimitHolds
<1> QED  BY <1>4, <1>5 DEF Start, LimitInv

\* No step of a reader accepts more than the limit leaves.
LEMMA LimitStep == LimitInv /\ [Next]_vars => LimitInv'
<1> SUFFICES ASSUME LimitInv, [Next]_vars
             PROVE  LimitInv'
  OBVIOUS
<1> USE DEF LimitInv
<1>1. CASE BadHeader \/ HeaderOver \/ BadItem
  BY <1>1 DEF BadHeader, HeaderOver, BadItem, Fail, TypeOK, LimitHolds
<1>2. CASE EndMark
  BY <1>2, HeaderTypes DEF EndMark, TypeOK, LimitHolds
<1>3. CASE SkipBlock
  <2>1. HeaderAt(pos).size \in Nat /\ HeaderAt(pos).next \in 0 .. Len(stream)
    BY <1>3, HeaderTypes DEF SkipBlock
  <2>2. CASE HeaderAt(pos).size > Len(stream) - HeaderAt(pos).next
    BY <1>3, <2>2 DEF SkipBlock, Fail, TypeOK, LimitHolds
  <2>3. CASE ~(HeaderAt(pos).size > Len(stream) - HeaderAt(pos).next)
    <3>1. pos' = HeaderAt(pos).next + HeaderAt(pos).size
          /\ UNCHANGED << op, width, stream, total, left, out, failed, pc >>
      BY <1>3, <2>3 DEF SkipBlock
    <3>2. pos' \in 0 .. Len(stream)
      BY <2>1, <2>3, <3>1 DEF TypeOK
    <3> QED  BY <3>1, <3>2 DEF TypeOK, LimitHolds
  <2> QED  BY <2>2, <2>3
<1>4. CASE EnterBlock
  <2>1. HeaderAt(pos).l \in Nat /\ HeaderAt(pos).next \in 0 .. Len(stream)
    BY <1>4, HeaderTypes DEF EnterBlock
  <2>2. TypeOK'
    BY <1>4, <2>1 DEF EnterBlock, TypeOK
  <2>3. LimitHolds'
    BY <1>4, <2>1, ReaderAssumption DEF EnterBlock, OverLimit, TypeOK, LimitHolds
  <2> QED  BY <1>4, <2>1, <2>2, <2>3 DEF EnterBlock
<1>5. CASE ReadItem
  <2>1. ItemAt(pos).next \in 0 .. Len(stream) /\ ItemAt(pos).item \in Seq(Seq(Long))
    BY <1>5, ItemTypes DEF ReadItem
  <2>2. left \in Nat /\ left > 0 /\ left' = left - 1
    BY <1>5 DEF ReadItem, TypeOK
  <2>3. out' \in Seq(Seq(Seq(Long))) /\ Len(out') <= Len(out) + 1
    BY <1>5, <2>1 DEF ReadItem, TypeOK
  <2>4. TypeOK'
    BY <1>5, <2>1, <2>2, <2>3 DEF ReadItem, TypeOK
  <2>5. LimitHolds'
    BY <1>5, <2>2, <2>3, ReaderAssumption DEF ReadItem, TypeOK, LimitHolds
  <2>6. pc' = "header" => left' = 0
    BY <1>5, <2>2 DEF ReadItem
  <2>7. pc' = "items" => left' > 0
    BY <1>5, <2>2 DEF ReadItem
  <2> QED  BY <2>4, <2>5, <2>6, <2>7
<1>6. CASE UNCHANGED vars
  BY <1>6 DEF vars, TypeOK, LimitHolds
<1> QED
  BY <1>1, <1>2, <1>3, <1>4, <1>5, <1>6 DEF Next

(***************************************************************************)
(* No reader of arrays and maps accepts more items than the limit, over    *)
(* all blocks together.                                                    *)
(***************************************************************************)
THEOREM LimitAlwaysHolds == Spec => []LimitHolds
<1>1. LimitInv => LimitHolds
  BY DEF LimitInv
<1> QED  BY LimitInit, LimitStep, <1>1, PTL DEF Spec

(***************************************************************************)
(* A reader stays within its input and holds values of the right types.    *)
(***************************************************************************)
THEOREM ReaderTypes == Spec => []TypeOK
<1>1. LimitInv => TypeOK
  BY DEF LimitInv
<1> QED  BY LimitInit, LimitStep, <1>1, PTL DEF Spec

(***************************************************************************)
(* FlattenSeq, as the sums of its parts.                                   *)
(***************************************************************************)

\* The empty sequence of sequences adds up to nothing.
LEMMA FlattenEmpty == FlattenSeq(<< >>) = << >>
BY DEF FlattenSeq

\* f[i] is the first i parts of seqs put together.
Sums(f, seqs, S) ==
  /\ f \in [0 .. Len(seqs) -> Seq(S)]
  /\ f[0] = << >>
  /\ \A i \in 1 .. Len(seqs) : f[i] = f[i - 1] \o seqs[i]

\* The recursive function behind FlattenSeq exists: its value at each number is determined.
LEMMA SumsExist ==
  ASSUME NEW S, NEW seqs \in Seq(Seq(S))
  PROVE  \E f : Sums(f, seqs, S)
<1> DEFINE n == Len(seqs)
           step == [i \in 1 .. n |-> [v \in Seq(S) |-> v \o seqs[i]]]
<1>1. \A i \in 1 .. n : seqs[i] \in Seq(S)
  OBVIOUS
<1>2. \A v \in Seq(S), u \in Seq(S) : v \o u \in Seq(S)
  OBVIOUS
<1>3. IsStep(step, n, Seq(S))
  BY <1>1, <1>2 DEF IsStep
<1>4. << >> \in Seq(S) /\ n \in Nat
  OBVIOUS
<1>5. PICK f : IsRecursive(f, n, Seq(S), << >>, step)
  <2> HIDE DEF step, n
  <2> QED  BY <1>3, <1>4, Recursion
<1>6. \A i \in 1 .. n : f[i] = f[i - 1] \o seqs[i]
  <2> SUFFICES ASSUME NEW i \in 1 .. n PROVE f[i] = f[i - 1] \o seqs[i]
    OBVIOUS
  <2>1. i - 1 \in 0 .. n
    OBVIOUS
  <2>2. f[i - 1] \in Seq(S)
    BY <1>5, <2>1 DEF IsRecursive
  <2>3. f[i] = step[i][f[i - 1]]
    BY <1>5 DEF IsRecursive
  <2> QED  BY <2>2, <2>3
<1> QED  BY <1>5, <1>6 DEF IsRecursive, Sums

\* The whole is the last of the sums.
LEMMA FlattenIsLast ==
  ASSUME NEW S, NEW seqs \in Seq(Seq(S)), NEW f, Sums(f, seqs, S)
  PROVE  FlattenSeq(seqs) = f[Len(seqs)]
<1> DEFINE n == Len(seqs)
           Is(g) == g = [i \in 1 .. n |-> IF i = 1 THEN seqs[i] ELSE g[i - 1] \o seqs[i]]
<1>3. \A i \in 1 .. n : i = 1 => f[i - 1] = << >>
  BY DEF Sums
<1>1. CASE n = 0
  BY <1>1, EmptySeq DEF FlattenSeq, Sums
<1>2. CASE n # 0
  <2> DEFINE flatten == CHOOSE g : Is(g)
             h == [i \in 1 .. n |-> f[i]]
  <2>1. FlattenSeq(seqs) = flatten[n]
    BY <1>2 DEF FlattenSeq
  <2>2. Is(h)
    <3>1. \A i \in 1 .. n : h[i] = IF i = 1 THEN seqs[i] ELSE h[i - 1] \o seqs[i]
      <4> SUFFICES ASSUME NEW i \in 1 .. n
                   PROVE  h[i] = IF i = 1 THEN seqs[i] ELSE h[i - 1] \o seqs[i]
        OBVIOUS
      <4>1. f[i] = f[i - 1] \o seqs[i] /\ seqs[i] \in Seq(S)
        BY DEF Sums
      <4>2. CASE i = 1
        <5>1. << >> \o seqs[i] = seqs[i] /\ f[i - 1] = << >>
          BY <1>3, <4>1, <4>2, ConcatEmptySeq
        <5> QED  BY <4>1, <4>2, <5>1
      <4>3. CASE i # 1
        <5>1. i - 1 \in 1 .. n
          BY <4>3
        <5> QED  BY <4>1, <4>3, <5>1
      <4> QED  BY <4>2, <4>3
    <3> QED  BY <3>1
  <2>3. Is(flatten)
    <3>1. \E g : Is(g)
      <4> HIDE DEF Is, h
      <4> QED  BY <2>2
    <3> HIDE DEF Is
    <3> QED  BY <3>1
  <2> HIDE DEF flatten
  <2>4. \A i \in 1 .. n : flatten[i] = IF i = 1 THEN seqs[i] ELSE flatten[i - 1] \o seqs[i]
    BY <2>3
  <2> DEFINE Same == {i \in 0 .. n : i # 0 => flatten[i] = f[i]}
  <2>5. 0 \in Same
    OBVIOUS
  <2>6. ASSUME NEW i \in 1 .. n, i - 1 \in Same PROVE i \in Same
    <3>1. f[i] = f[i - 1] \o seqs[i] /\ seqs[i] \in Seq(S)
      BY DEF Sums
    <3>2. CASE i = 1
      <4>1. << >> \o seqs[i] = seqs[i] /\ f[i - 1] = << >>
        BY <1>3, <3>1, <3>2, ConcatEmptySeq
      <4>2. flatten[i] = f[i]
        BY <2>4, <3>1, <3>2, <4>1
      <4> QED  BY <4>2
    <3>3. CASE i # 1
      <4>1. flatten[i] = flatten[i - 1] \o seqs[i]
        BY <2>4, <3>3
      <4>2. flatten[i - 1] = f[i - 1]
        BY <2>6, <3>3
      <4>3. flatten[i] = f[i]
        BY <3>1, <4>1, <4>2
      <4> QED  BY <4>3
    <3> QED  BY <3>2, <3>3
  <2>7. n \in Same
    <3> HIDE DEF Same
    <3>1. n \in Nat /\ n \in 0 .. n
      OBVIOUS
    <3>2. 0 .. n \subseteq Same
      BY <2>5, <2>6, <3>1, BoundedInduction
    <3> QED  BY <3>1, <3>2
  <2> QED  BY <1>2, <2>1, <2>7
<1> QED  BY <1>1, <1>2

\* The sums are what the beginnings of the sequence come to.
LEMMA SumsAreFlat ==
  ASSUME NEW S, NEW seqs \in Seq(Seq(S)), NEW f, Sums(f, seqs, S), NEW i \in 0 .. Len(seqs)
  PROVE  f[i] = FlattenSeq(SubSeq(seqs, 1, i))
<1> DEFINE t == SubSeq(seqs, 1, i)
           g == [j \in 0 .. i |-> f[j]]
<1>1. t \in Seq(Seq(S)) /\ Len(t) = i /\ \A j \in 1 .. i : t[j] = seqs[j]
  OBVIOUS
<1>2. g \in [0 .. i -> Seq(S)] /\ g[0] = << >>
  BY SMTT(30) DEF Sums
<1>3. \A j \in 1 .. i : g[j] = g[j - 1] \o t[j]
  <2> SUFFICES ASSUME NEW j \in 1 .. i PROVE g[j] = g[j - 1] \o t[j]
    OBVIOUS
  <2>1. j \in 1 .. Len(seqs) /\ j \in 0 .. i /\ j - 1 \in 0 .. i
    OBVIOUS
  <2> QED  BY <1>1, <2>1 DEF Sums
<1>4. Sums(g, t, S)
  <2> HIDE DEF g, t
  <2> QED  BY <1>1, <1>2, <1>3 DEF Sums
<1>5. FlattenSeq(t) = g[Len(t)]
  <2> HIDE DEF g, t
  <2> QED  BY <1>1, <1>4, FlattenIsLast
<1> QED  BY <1>1, <1>5

\* One more part goes to the end.
LEMMA FlattenNext ==
  ASSUME NEW S, NEW seqs \in Seq(Seq(S)), NEW i \in 1 .. Len(seqs)
  PROVE  /\ FlattenSeq(SubSeq(seqs, 1, i)) = FlattenSeq(SubSeq(seqs, 1, i - 1)) \o seqs[i]
         /\ FlattenSeq(SubSeq(seqs, 1, i - 1)) \in Seq(S)
<1>1. PICK f : Sums(f, seqs, S)
  BY SumsExist
<1>2. i \in 0 .. Len(seqs) /\ i - 1 \in 0 .. Len(seqs)
  OBVIOUS
<1>3. f[i] = FlattenSeq(SubSeq(seqs, 1, i)) /\ f[i - 1] = FlattenSeq(SubSeq(seqs, 1, i - 1))
  BY <1>1, <1>2, SumsAreFlat
<1>4. f[i] = f[i - 1] \o seqs[i] /\ f[i - 1] \in Seq(S)
  BY <1>1, <1>2 DEF Sums
<1> QED  BY <1>3, <1>4

\* Sequences over a set add up to a sequence over it.
LEMMA FlattenType ==
  ASSUME NEW S, NEW seqs \in Seq(Seq(S))
  PROVE  FlattenSeq(seqs) \in Seq(S)
<1>1. PICK f : Sums(f, seqs, S)
  BY SumsExist
<1>2. Len(seqs) \in 0 .. Len(seqs)
  OBVIOUS
<1> QED  BY <1>1, <1>2, FlattenIsLast DEF Sums

\* x is the beginning of y.
Begins(x, y, S) == \E rest \in Seq(S) : y = x \o rest

\* Any part divides the whole into what comes before it, itself and the rest.
LEMMA FlattenSplit ==
  ASSUME NEW S, NEW seqs \in Seq(Seq(S)), NEW i \in 0 .. Len(seqs)
  PROVE  Begins(FlattenSeq(SubSeq(seqs, 1, i)), FlattenSeq(seqs), S)
<1>1. PICK f : Sums(f, seqs, S)
  BY SumsExist
<1> DEFINE n == Len(seqs)
           Splits(j) == \E rest \in Seq(S) : f[j] = f[i] \o rest
           Good == {d \in 0 .. n - i : Splits(i + d)}
<1>2. 0 \in Good
  <2>1. f[i] \in Seq(S) /\ i + 0 = i /\ 0 \in 0 .. n - i
    BY <1>1 DEF Sums
  <2>2. f[i] = f[i] \o << >> /\ << >> \in Seq(S)
    BY <2>1, ConcatEmptySeq
  <2>3. Splits(i + 0)
    BY <2>1, <2>2
  <2> HIDE DEF Splits
  <2> QED  BY <2>1, <2>3
<1>3. ASSUME NEW d \in 1 .. n - i, d - 1 \in Good PROVE d \in Good
  <2>1. i + d \in 1 .. n /\ (i + d) - 1 = i + (d - 1) /\ d \in 0 .. n - i
    OBVIOUS
  <2>2. PICK rest \in Seq(S) : f[i + (d - 1)] = f[i] \o rest
    BY <1>3
  <2>3. f[i + d] = f[i + (d - 1)] \o seqs[i + d]
    BY <1>1, <2>1 DEF Sums
  <2>4. f[i] \in Seq(S)
    BY <1>1 DEF Sums
  <2>8. seqs[i + d] \in Seq(S)
    BY <2>1
  <2>9. (f[i] \o rest) \o seqs[i + d] = f[i] \o (rest \o seqs[i + d])
    <3> DEFINE a == f[i]
               c == seqs[i + d]
    <3>1. a \in Seq(S) /\ c \in Seq(S)
      BY <2>4, <2>8
    <3> HIDE DEF a, c
    <3>2. (a \o rest) \o c = a \o (rest \o c)
      BY <3>1, SMTT(30)
    <3> QED  BY <3>2 DEF a, c
  <2>5. f[i + d] = f[i] \o (rest \o seqs[i + d])
    BY <2>2, <2>3, <2>9
  <2>6. rest \o seqs[i + d] \in Seq(S)
    BY <2>8
  <2>7. Splits(i + d)
    BY <2>5, <2>6
  <2> HIDE DEF Splits
  <2> QED  BY <2>1, <2>7
<1>4. n - i \in Good
  <2>1. n - i \in Nat /\ n - i \in 0 .. n - i
    OBVIOUS
  <2> HIDE DEF Good
  <2>2. 0 .. n - i \subseteq Good
    BY <1>2, <1>3, <2>1, BoundedInduction
  <2> QED  BY <2>1, <2>2
<1>5. PICK rest \in Seq(S) : f[n] = f[i] \o rest
  <2>1. i + (n - i) = n
    OBVIOUS
  <2> QED  BY <1>4, <2>1
<1>6. FlattenSeq(seqs) = f[n]
  BY <1>1, FlattenIsLast
<1>7. f[i] = FlattenSeq(SubSeq(seqs, 1, i))
  BY <1>1, SumsAreFlat
<1> QED  BY <1>5, <1>6, <1>7 DEF Begins

\* The encoder has its own copy of the format: they are the same.
LEMMA SameFlatten == \A s : W!FlattenSeq(s) = FlattenSeq(s)
BY DEF W!FlattenSeq, FlattenSeq

\* The same for an item,
LEMMA SameItem == \A item : W!ItemCells(item) = ItemCells(item)
BY SameFlatten DEF W!ItemCells, ItemCells, W!StringCells, StringCells

\* for items in a row,
LEMMA SameItems == \A all : W!ItemsCells(all) = ItemsCells(all)
<1> TAKE all
<1>1. [k \in DOMAIN all |-> W!ItemCells(all[k])] = [k \in DOMAIN all |-> ItemCells(all[k])]
  BY SameItem
<1> QED  BY <1>1, SameFlatten DEF W!ItemsCells, ItemsCells

\* for a block,
LEMMA SameBlock == \A b : W!BlockCells(b) = BlockCells(b)
BY SameItems DEF W!BlockCells, BlockCells

\* and for a whole collection.
LEMMA SameFramed == \A bs : W!Framed(bs) = Framed(bs)
<1> TAKE bs
<1>1. [k \in DOMAIN bs |-> W!BlockCells(bs[k])] = [k \in DOMAIN bs |-> BlockCells(bs[k])]
  BY SameBlock
<1> QED  BY <1>1, SameFlatten DEF W!Framed, Framed

\* Two runs of cells in a row are as long as both together.
LEMMA LongerBy ==
  ASSUME NEW x \in Seq(Int), NEW y \in Seq(Int)
  PROVE  x \o y \in Seq(Int) /\ Len(x \o y) = Len(x) + Len(y)
OBVIOUS

\* They may be grouped either way.
LEMMA Regroup ==
  ASSUME NEW x \in Seq(Int), NEW y \in Seq(Int), NEW z \in Seq(Int)
  PROVE  (x \o y) \o z = x \o (y \o z)
BY SMT

\* mem holds cells behind the first at.
Holds(mem, at, cells) ==
  /\ at \in Nat /\ at + Len(cells) <= Len(mem)
  /\ \A j \in 1 .. Len(cells) : mem[at + j] = cells[j]

\* Cells that are held are the part of the memory there.
LEMMA HoldsSub ==
  ASSUME NEW mem \in Seq(Int), NEW at, NEW cells \in Seq(Int), Holds(mem, at, cells)
  PROVE  SubSeq(mem, at + 1, at + Len(cells)) = cells
<1> DEFINE s == SubSeq(mem, at + 1, at + Len(cells))
<1>0. at \in Nat /\ at + Len(cells) <= Len(mem) /\ Len(cells) \in Nat
  BY DEF Holds
<1>1. \A j \in 1 .. Len(cells) : at + j \in 1 .. Len(mem) /\ (at + 1) + j - 1 = at + j
  BY <1>0
<1>2. s \in Seq(Int) /\ Len(s) = Len(cells)
  BY <1>0
<1>3. \A j \in 1 .. Len(cells) : s[j] = mem[at + j]
  BY <1>0, <1>1
<1>4. \A j \in 1 .. Len(cells) : s[j] = cells[j]
  BY <1>3 DEF Holds
<1> HIDE DEF s
<1>5. s = cells
  BY <1>2, <1>4, SeqEqual
<1> QED  BY <1>5 DEF s

\* Cells held in a row are held together.
LEMMA HoldsConcat ==
  ASSUME NEW mem \in Seq(Int), NEW at, NEW x \in Seq(Int), NEW y \in Seq(Int),
         Holds(mem, at, x), Holds(mem, at + Len(x), y)
  PROVE  Holds(mem, at, x \o y)
<1>1. at \in Nat /\ Len(x) \in Nat /\ Len(y) \in Nat /\ Len(x \o y) = Len(x) + Len(y)
  BY DEF Holds
<1>2. at + Len(x \o y) <= Len(mem)
  BY <1>1 DEF Holds
<1>3. ASSUME NEW j \in 1 .. Len(x \o y) PROVE mem[at + j] = (x \o y)[j]
  <2>1. CASE j <= Len(x)
    <3>1. j \in 1 .. Len(x) /\ (x \o y)[j] = x[j]
      BY <1>1, <2>1
    <3> QED  BY <3>1 DEF Holds
  <2>2. CASE ~(j <= Len(x))
    <3>1. j - Len(x) \in 1 .. Len(y) /\ (x \o y)[j] = y[j - Len(x)]
      BY <1>1, <2>2
    <3>2. (at + Len(x)) + (j - Len(x)) = at + j
      BY <1>1
    <3> QED  BY <3>1, <3>2 DEF Holds
  <2> QED  BY <2>1, <2>2
<1> QED  BY <1>1, <1>2, <1>3 DEF Holds

\* Put keeps the memory behind and before what it writes.
LEMMA PutType ==
  ASSUME NEW mem \in Seq(Int), NEW at \in 0 .. Len(mem), NEW cells \in Seq(Int)
  PROVE  /\ W!Put(mem, at, cells) \in Seq(Int)
         /\ Len(W!Put(mem, at, cells)) >= Len(mem)
         /\ Len(W!Put(mem, at, cells)) >= at + Len(cells)
         /\ \A k \in 1 .. Len(W!Put(mem, at, cells)) :
              W!Put(mem, at, cells)[k] = IF k \in at + 1 .. at + Len(cells) THEN cells[k - at] ELSE mem[k]
<1> DEFINE a == Len(mem)
           b == at + Len(cells)
           m == W!Max({a, b})
           new == [k \in 1 .. m |-> IF k \in at + 1 .. b THEN cells[k - at] ELSE mem[k]]
<1>1. a \in Nat /\ b \in Nat /\ at \in Nat
  OBVIOUS
<1>2. m = IF a >= b THEN a ELSE b
  <2> HIDE DEF a, b
  <2> QED  BY <1>1 DEF W!Max
<1>3. W!Put(mem, at, cells) = new
  BY DEF W!Put
<1>4. m \in Nat /\ m >= a /\ m >= b
  BY <1>1, <1>2
<1>5. ASSUME NEW k \in 1 .. m PROVE (IF k \in at + 1 .. b THEN cells[k - at] ELSE mem[k]) \in Int
  <2>1. CASE k \in at + 1 .. b
    <3>1. k - at \in 1 .. Len(cells)
      BY <2>1
    <3> QED  BY <2>1, <3>1
  <2>2. CASE k \notin at + 1 .. b
    <3>1. k \in 1 .. a
      BY <1>1, <1>2, <2>2
    <3> QED  BY <2>2, <3>1
  <2> QED  BY <2>1, <2>2
<1> HIDE DEF m
<1>6. new \in [1 .. m -> Int]
  BY <1>5
<1>7. new \in Seq(Int) /\ Len(new) = m
  BY <1>4, <1>6, SeqDef, LenProperties
<1> QED  BY <1>3, <1>4, <1>7

\* Cells that are appended are held where they were put,
LEMMA PutHolds ==
  ASSUME NEW mem \in Seq(Int), NEW at \in 0 .. Len(mem), NEW cells \in Seq(Int)
  PROVE  Holds(W!Put(mem, at, cells), at, cells)
<1> DEFINE new == W!Put(mem, at, cells)
<1>1. ASSUME NEW j \in 1 .. Len(cells) PROVE new[at + j] = cells[j]
  <2>1. at + j \in at + 1 .. at + Len(cells) /\ (at + j) - at = j /\ at + j \in 1 .. at + Len(cells)
    OBVIOUS
  <2>2. at + j \in 1 .. Len(new)
    BY <2>1, PutType
  <2> QED  BY <2>1, <2>2, PutType
<1> QED  BY <1>1, PutType DEF Holds

\* and what is held elsewhere stays.
LEMMA PutKeeps ==
  ASSUME NEW mem \in Seq(Int), NEW at \in 0 .. Len(mem), NEW cells \in Seq(Int),
         NEW a, NEW x \in Seq(Int), Holds(mem, a, x),
         a + Len(x) <= at \/ a >= at + Len(cells)
  PROVE  Holds(W!Put(mem, at, cells), a, x)
<1> DEFINE new == W!Put(mem, at, cells)
<1>0. a \in Nat /\ a + Len(x) <= Len(mem) /\ Len(new) >= Len(mem) /\ Len(new) \in Nat /\ Len(x) \in Nat
      /\ Len(mem) \in Nat /\ Len(cells) \in Nat /\ at \in Nat
  BY PutType DEF Holds
<1>1. ASSUME NEW j \in 1 .. Len(x) PROVE new[a + j] = x[j]
  <2>1. a + j \in 1 .. Len(new) /\ a + j \notin at + 1 .. at + Len(cells)
    <3>1. j \in Nat /\ j >= 1 /\ j <= Len(x)
      BY <1>0
    <3>2. a + j <= Len(new) /\ a + j >= 1
      <4> HIDE DEF new
      <4> QED  BY <1>0, <3>1
    <3>3. ~(a + j >= at + 1 /\ a + j <= at + Len(cells))
      <4> HIDE DEF new
      <4> QED  BY <1>0, <3>1, SMTT(30)
    <3> HIDE DEF new
    <3> QED  BY <1>0, <3>1, <3>2, <3>3
  <2>2. new[a + j] = mem[a + j]
    <3>1. \A k \in 1 .. Len(new) :
            new[k] = IF k \in at + 1 .. at + Len(cells) THEN cells[k - at] ELSE mem[k]
      BY PutType
    <3> HIDE DEF new
    <3> QED  BY <2>1, <3>1
  <2> QED  BY <2>2 DEF Holds
<1>2. a + Len(x) <= Len(new)
  <2> HIDE DEF new
  <2> QED  BY <1>0
<1> QED  BY <1>0, <1>1, <1>2 DEF Holds

\* What division with remainder means.
LEMMA Quotient ==
  ASSUME NEW a \in Nat, NEW b \in Nat \ {0}
  PROVE  a \div b \in Nat /\ (a \div b) * b <= a /\ a < (a \div b) * b + b
OBVIOUS

\* How many blocks n items fill, and how many items the first k of them hold.
Number(n) == (n + BlockLength - 1) \div BlockLength
Taken(n, k) == IF k * BlockLength <= n THEN k * BlockLength ELSE n

\* Before the last block there is an item for another one; behind it there is none.
LEMMA NumberFacts ==
  ASSUME NEW n \in Nat
  PROVE  /\ Number(n) \in Nat
         /\ \A k \in 0 .. Number(n) :
              /\ k * BlockLength \in Nat /\ (k + 1) * BlockLength = k * BlockLength + BlockLength
              /\ k * BlockLength < n => k + 1 <= Number(n)
              /\ k * BlockLength >= n => k = Number(n)
              /\ k + 1 <= Number(n) => k * BlockLength < n
         /\ Number(n) * BlockLength >= n
<1> DEFINE b == BlockLength
           q == Number(n)
<1>1. b \in Nat \ {0} /\ b \in Nat /\ b >= 1
  BY WriterAssumption, ReaderAssumption
<1>2. q \in Nat /\ q * b <= n + b - 1 /\ n + b - 1 < q * b + b
  <2>1. n + b - 1 \in Nat
    BY <1>1
  <2> HIDE DEF b
  <2>2. (n + b - 1) \div b \in Nat /\ ((n + b - 1) \div b) * b <= n + b - 1
        /\ n + b - 1 < ((n + b - 1) \div b) * b + b
    BY <1>1, <2>1, Quotient
  <2> QED  BY <2>2 DEF Number, b
<1> HIDE DEF b, q
<1>3. q * b \in Nat
  BY <1>1, <1>2
<1>4. q * b >= n
  BY <1>1, <1>2, <1>3
<1>5. ASSUME NEW k \in 0 .. q
      PROVE  /\ k * b \in Nat /\ (k + 1) * b = k * b + b
             /\ k * b < n => k + 1 <= q
             /\ k * b >= n => k = q
             /\ k + 1 <= q => k * b < n
  <2>1. k \in Nat /\ k <= q
    BY <1>2
  <2>2. k * b \in Nat /\ (k + 1) * b = k * b + b
    BY <1>1, <2>1
  <2>3. k + 1 <= q => (k + 1) * b <= q * b
    BY <1>1, <1>2, <2>1
  <2>4. k + 1 <= q => k * b < n
    BY <1>1, <1>2, <1>3, <2>2, <2>3
  <2>5. k * b < n => k # q
    BY <1>3, <1>4
  <2>6. k # q => k + 1 <= q
    BY <1>2, <2>1
  <2> QED  BY <1>1, <1>3, <2>2, <2>4, <2>5, <2>6
<1> QED  BY <1>2, <1>4, <1>5 DEF b, q

\* What the writer has to put into its blocks.
LEMMA ChunksAre ==
  ASSUME NEW n \in Nat, items \in Seq(Seq(Seq(Int))), n = Len(items), sizes \in BOOLEAN
  PROVE  /\ W!Chunks \in Seq([items : Seq(Seq(Seq(Int))), sized : BOOLEAN])
         /\ Len(W!Chunks) = Number(n)
         /\ \A k \in 0 .. Number(n) - 1 :
              LET chunk == SubSeq(items, k * BlockLength + 1, Taken(n, k + 1))
              IN  /\ W!Chunks[k + 1].items = chunk
                  /\ W!Chunks[k + 1].sized <=> (sizes /\ ItemsCells(chunk) /= << >>)
<1> DEFINE hi(k) == W!Min({k * BlockLength, Len(items)})
           chunk(k) == SubSeq(items, (k - 1) * BlockLength + 1, hi(k))
           rec(k) == [items |-> chunk(k), sized |-> sizes /\ W!ItemsCells(chunk(k)) /= << >>]
           N == Number(n)
<1>1. W!Chunks = [k \in 1 .. N |-> rec(k)]
  BY DEF W!Chunks, Number
<1>2. N \in Nat
  BY NumberFacts
<1>3. ASSUME NEW k \in 0 .. N - 1
      PROVE  hi(k + 1) = Taken(n, k + 1) /\ Taken(n, k + 1) \in 0 .. n
             /\ k * BlockLength \in Nat /\ (k + 1) - 1 = k
  <2>1. k \in 0 .. N /\ k * BlockLength \in Nat /\ (k + 1) * BlockLength = k * BlockLength + BlockLength
    <3>1. k \in 0 .. N
      BY <1>2
    <3> QED  BY <3>1, NumberFacts
  <2> DEFINE m == (k + 1) * BlockLength
  <2>2. m \in Nat
    BY <2>1, WriterAssumption
  <2> HIDE DEF m
  <2>3. W!Min({m, n}) = IF m <= n THEN m ELSE n
    BY <2>2 DEF W!Min
  <2>4. k \in Nat
    BY <1>2
  <2> QED  BY <2>1, <2>2, <2>3, <2>4 DEF Taken, m
<1>4. ASSUME NEW k \in 1 .. N PROVE chunk(k) \in Seq(Seq(Seq(Int)))
  <2>1. k - 1 \in 0 .. N - 1 /\ (k - 1) + 1 = k
    BY <1>2
  <2>2. hi(k) \in 0 .. n /\ (k - 1) * BlockLength \in Nat
    <3> HIDE DEF hi, N
    <3>1. hi((k - 1) + 1) \in 0 .. n /\ (k - 1) * BlockLength \in Nat
      BY <1>3, <2>1
    <3> QED  BY <2>1, <3>1
  <2> HIDE DEF hi
  <2> QED  BY <2>2
<1>5. ASSUME NEW k \in 1 .. N
      PROVE  rec(k) \in [items : Seq(Seq(Seq(Int))), sized : BOOLEAN]
  <2>1. chunk(k) \in Seq(Seq(Seq(Int)))
    BY <1>4
  <2> HIDE DEF chunk
  <2> QED  BY <2>1
<1>6. W!Chunks \in Seq([items : Seq(Seq(Seq(Int))), sized : BOOLEAN]) /\ Len(W!Chunks) = N
  <2> HIDE DEF rec, N
  <2>1. W!Chunks \in [1 .. N -> [items : Seq(Seq(Seq(Int))), sized : BOOLEAN]]
    BY <1>1, <1>5
  <2>2. W!Chunks \in Seq([items : Seq(Seq(Seq(Int))), sized : BOOLEAN])
    <3> DEFINE R == [items : Seq(Seq(Seq(Int))), sized : BOOLEAN]
    <3>1. W!Chunks \in [1 .. N -> R]
      BY <2>1
    <3> HIDE DEF R
    <3>2. W!Chunks \in Seq(R)
      BY <1>2, <3>1, SeqDef
    <3> QED  BY <3>2 DEF R
  <2>3. DOMAIN W!Chunks = 1 .. N
    BY <2>1
  <2> QED  BY <1>2, <2>2, <2>3, LenProperties
<1>7. ASSUME NEW k \in 0 .. N - 1
      PROVE  LET c == SubSeq(items, k * BlockLength + 1, Taken(n, k + 1))
             IN  /\ W!Chunks[k + 1].items = c
                 /\ W!Chunks[k + 1].sized <=> (sizes /\ ItemsCells(c) /= << >>)
  <2>1. k + 1 \in 1 .. N
    BY <1>2
  <2>2. W!Chunks[k + 1] = rec(k + 1)
    <3> HIDE DEF rec, N
    <3> QED  BY <1>1, <2>1
  <2>3. chunk(k + 1) = SubSeq(items, k * BlockLength + 1, Taken(n, k + 1))
    BY <1>3
  <2> HIDE DEF chunk
  <2>4. W!Chunks[k + 1].items = chunk(k + 1)
    BY <2>2
  <2>5. W!Chunks[k + 1].sized <=> (sizes /\ ItemsCells(chunk(k + 1)) /= << >>)
    <3>1. W!ItemsCells(chunk(k + 1)) = ItemsCells(chunk(k + 1))
      BY SameItems
    <3> DEFINE f == sizes /\ W!ItemsCells(chunk(k + 1)) /= << >>
    <3>2. W!Chunks[k + 1].sized = f
      <4>1. rec(k + 1).sized = f
        OBVIOUS
      <4> HIDE DEF f, rec
      <4> QED  BY <2>2, <4>1
    <3> QED  BY <3>1, <3>2
  <2> QED  BY <2>3, <2>4, <2>5
<1> QED  BY <1>6, <1>7

Items    == Seq(Seq(Int))
BlockSet == [items : Seq(Items), sized : BOOLEAN]

\* The first k parts put together.
SumOf(part, k) == FlattenSeq([j \in 1 .. k |-> part[j]])

\* Partial sums grow part by part, and each begins the whole.
LEMMA PartialSums ==
  ASSUME NEW S, NEW n \in Nat, NEW part \in [1 .. n -> Seq(S)]
  PROVE  /\ SumOf(part, 0) = << >>
         /\ \A k \in 0 .. n : SumOf(part, k) \in Seq(S)
         /\ \A k \in 0 .. n - 1 : SumOf(part, k + 1) = SumOf(part, k) \o part[k + 1]
         /\ \A k \in 0 .. n : Begins(SumOf(part, k), SumOf(part, n), S)
<1> DEFINE sum(k) == SumOf(part, k)
<1>1. part \in Seq(Seq(S)) /\ Len(part) = n
  BY SeqDef, LenProperties
<1>2. \A k \in 0 .. n : [j \in 1 .. k |-> part[j]] = SubSeq(part, 1, k)
  BY <1>1
<1>3. \A k \in 0 .. n : sum(k) = FlattenSeq(SubSeq(part, 1, k))
  BY <1>2 DEF SumOf
<1>4. [j \in 1 .. n |-> part[j]] = part
  OBVIOUS
<1>5. sum(n) = FlattenSeq(part)
  BY <1>4 DEF SumOf
<1>6. sum(0) = << >>
  <2>1. [j \in 1 .. 0 |-> part[j]] = << >>
    OBVIOUS
  <2> QED  BY <2>1, FlattenEmpty DEF SumOf
<1> HIDE DEF sum
<1>7. ASSUME NEW k \in 0 .. n - 1 PROVE sum(k + 1) = sum(k) \o part[k + 1]
  <2>1. k + 1 \in 1 .. Len(part) /\ (k + 1) - 1 = k /\ k \in 0 .. n /\ k + 1 \in 0 .. n
    BY <1>1
  <2>2. FlattenSeq(SubSeq(part, 1, k + 1)) = FlattenSeq(SubSeq(part, 1, (k + 1) - 1)) \o part[k + 1]
    BY <1>1, <2>1, FlattenNext
  <2> QED  BY <1>3, <2>1, <2>2
<1>8. ASSUME NEW k \in 0 .. n
      PROVE  sum(k) \in Seq(S) /\ Begins(sum(k), sum(n), S)
  <2>1. Begins(FlattenSeq(SubSeq(part, 1, k)), FlattenSeq(part), S)
    BY <1>1, FlattenSplit
  <2>2. SubSeq(part, 1, k) \in Seq(Seq(S))
    BY <1>1
  <2>3. FlattenSeq(SubSeq(part, 1, k)) \in Seq(S)
    BY <2>2, FlattenType
  <2> QED  BY <1>3, <1>5, <2>1, <2>3
<1> QED  BY <1>6, <1>7, <1>8 DEF sum

\* An item is written as numbers.
LEMMA ItemCellsType == \A item \in Items : ItemCells(item) \in Seq(Int)
<1> TAKE item \in Items
<1> DEFINE cells == [k \in DOMAIN item |-> StringCells(item[k])]
<1>1. item \in Seq(Seq(Int))
  BY DEF Items
<1>2. \A k \in 1 .. Len(item) : StringCells(item[k]) \in Seq(Int)
  BY <1>1 DEF StringCells
<1>3. cells \in [1 .. Len(item) -> Seq(Int)] /\ Len(item) \in Nat
  BY <1>1, <1>2
<1> HIDE DEF cells
<1>4. cells \in Seq(Seq(Int))
  BY <1>3, SeqDef
<1>5. FlattenSeq(cells) \in Seq(Int)
  BY <1>4, FlattenType
<1> QED  BY <1>5 DEF ItemCells, cells

\* The cells of items grow item by item.
LEMMA ItemsCellsFacts ==
  ASSUME NEW all \in Seq(Items)
  PROVE  /\ ItemsCells(SubSeq(all, 1, 0)) = << >>
         /\ \A k \in 0 .. Len(all) : ItemsCells(SubSeq(all, 1, k)) \in Seq(Int)
         /\ \A k \in 0 .. Len(all) - 1 :
              ItemsCells(SubSeq(all, 1, k + 1)) = ItemsCells(SubSeq(all, 1, k)) \o ItemCells(all[k + 1])
         /\ \A k \in 0 .. Len(all) : Begins(ItemsCells(SubSeq(all, 1, k)), ItemsCells(all), Int)
<1> DEFINE n == Len(all)
           part == [j \in 1 .. n |-> ItemCells(all[j])]
<1>1. n \in Nat /\ SubSeq(all, 1, n) = all /\ part \in [1 .. n -> Seq(Int)]
  BY ItemCellsType
<1>2. \A k \in 0 .. n : [j \in DOMAIN SubSeq(all, 1, k) |-> ItemCells(SubSeq(all, 1, k)[j])]
                          = [j \in 1 .. k |-> part[j]]
  OBVIOUS
<1>3. \A k \in 0 .. n : ItemsCells(SubSeq(all, 1, k)) = SumOf(part, k)
  <2> HIDE DEF part
  <2> QED  BY <1>2 DEF ItemsCells, SumOf
<1>4. ItemsCells(all) = SumOf(part, n)
  <2>1. n \in 0 .. n
    OBVIOUS
  <2> HIDE DEF part, n
  <2> QED  BY <1>1, <1>3, <2>1
<1>5. \A k \in 0 .. n - 1 : part[k + 1] = ItemCells(all[k + 1]) /\ k \in 0 .. n /\ k + 1 \in 0 .. n
  OBVIOUS
<1>6. 0 \in 0 .. n
  OBVIOUS
<1> HIDE DEF part, n
<1>7. \A k \in 0 .. n - 1 : SumOf(part, k + 1) = SumOf(part, k) \o part[k + 1]
  BY <1>1, PartialSums
<1>8. /\ SumOf(part, 0) = << >>
      /\ \A k \in 0 .. n : SumOf(part, k) \in Seq(Int)
  BY <1>1, PartialSums
<1>9. \A k \in 0 .. n : Begins(SumOf(part, k), SumOf(part, n), Int)
  BY <1>1, PartialSums
<1> QED  BY <1>3, <1>4, <1>5, <1>6, <1>7, <1>8, <1>9 DEF n

\* Items in a row are written as numbers.
LEMMA ItemsCellsType == \A all \in Seq(Items) : ItemsCells(all) \in Seq(Int)
<1> TAKE all \in Seq(Items)
<1>1. SubSeq(all, 1, Len(all)) = all /\ Len(all) \in 0 .. Len(all)
  OBVIOUS
<1> QED  BY <1>1, ItemsCellsFacts

\* No items are no cells.
LEMMA ItemsCellsEmpty == ItemsCells(<< >>) = << >>
<1>1. [k \in DOMAIN << >> |-> ItemCells(<< >>[k])] = << >>
  OBVIOUS
<1> QED  BY <1>1, FlattenEmpty DEF ItemsCells

\* The next item is written behind the others.
LEMMA ItemsCellsAppend ==
  ASSUME NEW all \in Seq(Items), NEW item \in Items
  PROVE  ItemsCells(Append(all, item)) = ItemsCells(all) \o ItemCells(item)
<1> DEFINE more == Append(all, item)
           n == Len(all)
<1>1. more \in Seq(Items) /\ n \in 0 .. Len(more) - 1 /\ more[n + 1] = item
  OBVIOUS
<1>2. SubSeq(more, 1, n + 1) = more /\ SubSeq(more, 1, n) = all
  OBVIOUS
<1> HIDE DEF more, n
<1>3. ItemsCells(SubSeq(more, 1, n + 1)) = ItemsCells(SubSeq(more, 1, n)) \o ItemCells(more[n + 1])
  BY <1>1, ItemsCellsFacts
<1> QED  BY <1>1, <1>2, <1>3 DEF more

\* A block is written as numbers.
LEMMA BlockCellsType == \A b \in BlockSet : BlockCells(b) \in Seq(Int)
<1> TAKE b \in BlockSet
<1> DEFINE data == ItemsCells(b.items)
<1>1. b.items \in Seq(Items) /\ b.sized \in BOOLEAN
  BY DEF BlockSet
<1>2. data \in Seq(Int)
  BY <1>1, ItemsCellsType
<1>3. Len(b.items) \in Int /\ Len(data) \in Int
  BY <1>1, <1>2
<1> HIDE DEF data
<1>4. << -Len(b.items), Len(data) >> \in Seq(Int) /\ << Len(b.items) >> \in Seq(Int)
  BY <1>3
<1>5. << -Len(b.items), Len(data) >> \o data \in Seq(Int) /\ << Len(b.items) >> \o data \in Seq(Int)
  BY <1>2, <1>4
<1> QED  BY <1>5 DEF BlockCells, data

\* The first k blocks on the wire.
Lead(bs, k) == FlattenSeq([j \in 1 .. k |-> BlockCells(bs[j])])

\* The first blocks, grown block by block, begin the whole.
LEMMA LeadFacts ==
  ASSUME NEW bs \in Seq(BlockSet)
  PROVE  /\ Lead(bs, 0) = << >>
         /\ Framed(bs) = Lead(bs, Len(bs)) \o << 0 >>
         /\ \A k \in 0 .. Len(bs) : Lead(bs, k) \in Seq(Int)
         /\ \A k \in 0 .. Len(bs) - 1 : Lead(bs, k + 1) = Lead(bs, k) \o BlockCells(bs[k + 1])
         /\ \A k \in 0 .. Len(bs) : Begins(Lead(bs, k), Lead(bs, Len(bs)), Int)
<1> DEFINE n == Len(bs)
           part == [j \in 1 .. n |-> BlockCells(bs[j])]
<1>1. n \in Nat /\ DOMAIN bs = 1 .. n /\ part \in [1 .. n -> Seq(Int)]
  BY BlockCellsType
<1>2. \A k \in 0 .. n : [j \in 1 .. k |-> part[j]] = [j \in 1 .. k |-> BlockCells(bs[j])]
  OBVIOUS
<1>3. \A k \in 0 .. n : Lead(bs, k) = SumOf(part, k)
  <2> HIDE DEF part
  <2> QED  BY <1>2 DEF Lead, SumOf
<1>4. Framed(bs) = Lead(bs, n) \o << 0 >>
  BY <1>1 DEF Framed, Lead
<1>5. \A k \in 0 .. n - 1 : part[k + 1] = BlockCells(bs[k + 1]) /\ k \in 0 .. n /\ k + 1 \in 0 .. n
  OBVIOUS
<1>6. 0 \in 0 .. n /\ n \in 0 .. n
  OBVIOUS
<1> HIDE DEF part, n
<1>7. \A k \in 0 .. n - 1 : SumOf(part, k + 1) = SumOf(part, k) \o part[k + 1]
  BY <1>1, PartialSums
<1>8. /\ SumOf(part, 0) = << >>
      /\ \A k \in 0 .. n : SumOf(part, k) \in Seq(Int)
  BY <1>1, PartialSums
<1>9. \A k \in 0 .. n : Begins(SumOf(part, k), SumOf(part, n), Int)
  BY <1>1, PartialSums
<1> QED  BY <1>3, <1>4, <1>5, <1>6, <1>7, <1>8, <1>9 DEF n

\* The items of the first k blocks.
ItemsUpTo(bs, k) == FlattenSeq([j \in 1 .. k |-> bs[j].items])

\* The same for the items of the first blocks.
LEMMA ItemsUpToFacts ==
  ASSUME NEW bs \in Seq(BlockSet)
  PROVE  /\ ItemsUpTo(bs, 0) = << >>
         /\ ItemsOf(bs) = ItemsUpTo(bs, Len(bs))
         /\ \A k \in 0 .. Len(bs) : ItemsUpTo(bs, k) \in Seq(Items)
         /\ \A k \in 0 .. Len(bs) - 1 : ItemsUpTo(bs, k + 1) = ItemsUpTo(bs, k) \o bs[k + 1].items
         /\ \A k \in 0 .. Len(bs) : Begins(ItemsUpTo(bs, k), ItemsOf(bs), Items)
<1> DEFINE n == Len(bs)
           part == [j \in 1 .. n |-> bs[j].items]
<1>0. \A b \in BlockSet : b.items \in Seq(Items)
  BY DEF BlockSet
<1>1. n \in Nat /\ DOMAIN bs = 1 .. n /\ part \in [1 .. n -> Seq(Items)]
  BY <1>0
<1>2. \A k \in 0 .. n : [j \in 1 .. k |-> part[j]] = [j \in 1 .. k |-> bs[j].items]
  OBVIOUS
<1>3. \A k \in 0 .. n : ItemsUpTo(bs, k) = SumOf(part, k)
  <2> HIDE DEF part
  <2> QED  BY <1>2 DEF ItemsUpTo, SumOf
<1>4. ItemsOf(bs) = ItemsUpTo(bs, n)
  BY <1>1 DEF ItemsOf, ItemsUpTo
<1>5. \A k \in 0 .. n - 1 : part[k + 1] = bs[k + 1].items /\ k \in 0 .. n /\ k + 1 \in 0 .. n
  OBVIOUS
<1>6. 0 \in 0 .. n /\ n \in 0 .. n
  OBVIOUS
<1> HIDE DEF part, n
<1>7. \A k \in 0 .. n - 1 : SumOf(part, k + 1) = SumOf(part, k) \o part[k + 1]
  BY <1>1, PartialSums
<1>8. /\ SumOf(part, 0) = << >>
      /\ \A k \in 0 .. n : SumOf(part, k) \in Seq(Items)
  BY <1>1, PartialSums
<1>9. \A k \in 0 .. n : Begins(SumOf(part, k), SumOf(part, n), Items)
  BY <1>1, PartialSums
<1> QED  BY <1>3, <1>4, <1>5, <1>6, <1>7, <1>8, <1>9 DEF n

(***************************************************************************)
(* The writer.  Between blocks the memory holds what was written before    *)
(* and the first blocks, and so many items are taken; inside a block it    *)
(* also holds, behind the room for the header, the items of the block.     *)
(***************************************************************************)
Written(k) == W!Before \o Lead(W!Chunks, k)

BlockInv ==
  \E k \in 0 .. Number(Len(items)) :
    /\ next = Taken(Len(items), k)
    /\ len = Len(Written(k)) /\ Holds(memory, 0, Written(k))

ItemsInv ==
  \E k \in 0 .. Number(Len(items)) :
    LET start == Taken(Len(items), k)
        data  == ItemsCells(SubSeq(items, start + 1, next))
    IN  /\ next = start + count
        /\ kind = "array" /\ count = 0 => next < Len(items)
        /\ headerStart = Len(Written(k)) /\ Holds(memory, 0, Written(k))
        /\ len = headerStart + Room + Len(data) /\ Holds(memory, headerStart + Room, data)

DoneInv ==
  LET all == W!Before \o Framed(W!Chunks)
  IN  len = Len(all) /\ Holds(memory, 0, all)

WriterTypes ==
  /\ kind \in {"array", "map"} /\ sizes \in BOOLEAN /\ items \in Inputs
  /\ next \in 0 .. Len(items) /\ memory \in Seq(Int) /\ len \in 0 .. Len(memory)
  /\ headerStart \in Nat /\ count \in 0 .. BlockLength /\ wfailed \in BOOLEAN
  /\ wpc \in {"block", "items", "end", "done"}
  /\ wpc = "items" => headerStart + Room <= len

WriterInv ==
  /\ WriterTypes
  /\ ~wfailed => /\ wpc = "block" => BlockInv
                 /\ wpc = "items" => ItemsInv
                 /\ wpc # "end"
                 /\ wpc = "done" => DoneInv

\* Items of a width are sequences of that many sequences of numbers.
LEMMA WidthFacts ==
  ASSUME NEW w \in 0 .. 2
  PROVE  \A item \in ItemsOfWidth(w) : item \in Items /\ Len(item) = w
<1> TAKE item \in ItemsOfWidth(w)
<1>1. item \in [1 .. w -> Seq(Long)] /\ w \in Nat
  BY DEF ItemsOfWidth
<1>2. Seq(Long) \subseteq Seq(Int)
  BY ReaderAssumption DEF Long
<1>3. item \in [1 .. w -> Seq(Int)]
  BY <1>1, <1>2
<1>4. item \in Seq(Seq(Int))
  BY <1>1, <1>3, SeqDef
<1> QED  BY <1>1, <1>4, LenProperties DEF Items

\* What follows a collection are numbers.
LEMMA RestType == Rest \in Seq(Int)
BY FramingAssumption, ReaderAssumption DEF Long

\* A collection to encode holds items of one width.
LEMMA InputTypes ==
  ASSUME NEW all \in Inputs
  PROVE  /\ all \in Seq(Items)
         /\ \E w \in 0 .. 2 : \A k \in 1 .. Len(all) : Len(all[k]) = w
<1>1. PICK w \in 0 .. 2 : all \in Seq(ItemsOfWidth(w))
  BY WriterAssumption
<1>2. \A item \in ItemsOfWidth(w) : item \in Items /\ Len(item) = w
  BY WidthFacts
<1>3. all \in Seq(Items)
  <2>1. ItemsOfWidth(w) \subseteq Items
    BY <1>2
  <2>2. all \in [1 .. Len(all) -> ItemsOfWidth(w)] /\ Len(all) \in Nat
    BY <1>1
  <2>3. all \in [1 .. Len(all) -> Items]
    BY <2>1, <2>2
  <2> QED  BY <2>2, <2>3, SeqDef
<1>4. \A k \in 1 .. Len(all) : Len(all[k]) = w
  <2> TAKE k \in 1 .. Len(all)
  <2>1. all[k] \in ItemsOfWidth(w)
    BY <1>1
  <2> QED  BY <1>2, <2>1
<1> QED  BY <1>3, <1>4

\* The types of what the encoder works with.
LEMMA WriterFacts ==
  ASSUME WriterTypes
  PROVE  /\ items \in Seq(Items) /\ Len(items) \in Nat
         /\ W!Chunks \in Seq(BlockSet) /\ Len(W!Chunks) = Number(Len(items))
         /\ Number(Len(items)) \in Nat
         /\ W!Before \in Seq(Int) /\ Len(W!Before) = 2
         /\ \A k \in 0 .. Number(Len(items)) :
              /\ Written(k) \in Seq(Int)
              /\ Taken(Len(items), k) \in 0 .. Len(items)
<1>1. items \in Seq(Items) /\ Len(items) \in Nat
  <2>1. items \in Inputs
    BY DEF WriterTypes
  <2>2. items \in Seq(Items)
    BY <2>1, InputTypes
  <2> QED  BY <2>2
<1>2. W!Chunks \in Seq(BlockSet) /\ Len(W!Chunks) = Number(Len(items))
  <2>1. sizes \in BOOLEAN /\ items \in Seq(Seq(Seq(Int)))
    BY <1>1 DEF WriterTypes, Items
  <2> QED  BY <1>1, <2>1, ChunksAre DEF BlockSet, Items
<1>3. W!Before \in Seq(Int) /\ Len(W!Before) = 2
  BY DEF W!Before
<1>4. Number(Len(items)) \in Nat
  BY <1>1, NumberFacts
<1>5. ASSUME NEW k \in 0 .. Number(Len(items))
      PROVE  Written(k) \in Seq(Int) /\ Taken(Len(items), k) \in 0 .. Len(items)
  <2>1. Lead(W!Chunks, k) \in Seq(Int)
    BY <1>2, LeadFacts
  <2>2. Written(k) \in Seq(Int)
    BY <1>3, <2>1 DEF Written
  <2>3. k * BlockLength \in Nat
    BY <1>1, NumberFacts
  <2> QED  BY <1>1, <2>2, <2>3 DEF Taken
<1> QED  BY <1>1, <1>2, <1>3, <1>4, <1>5

\* What is to be written is fixed from the start.
LEMMA ChunksStay ==
  ASSUME UNCHANGED << items, sizes >>
  PROVE  W!Chunks' = W!Chunks /\ \A k : Written(k)' = Written(k)
<1>1. W!Chunks' = W!Chunks
  BY DEF W!Chunks
<1> QED  BY <1>1 DEF Written

\* Before the first block no block is written.
LEMMA WriterStarts == W!Init => WriterInv
<1> SUFFICES ASSUME W!Init PROVE WriterInv
  OBVIOUS
<1>0. items \in Inputs
  BY DEF W!Init
<1>1. memory \in Seq(Int) /\ Len(memory) = 7 /\ len = 2 /\ \A j \in 1 .. 2 : memory[j] = W!Before[j]
  BY DEF W!Init, W!Before, W!Stale
<1>2. items \in Seq(Items) /\ Len(items) \in Nat
  BY <1>0, InputTypes
<1>3. WriterTypes
  <2>1. BlockLength \in Nat
    BY WriterAssumption
  <2>2. kind \in {"array", "map"} /\ sizes \in BOOLEAN /\ next = 0 /\ count = 0
        /\ headerStart = 0 /\ wfailed = FALSE /\ wpc = "block"
    BY DEF W!Init
  <2>3. next \in 0 .. Len(items) /\ len \in 0 .. Len(memory) /\ count \in 0 .. BlockLength
        /\ headerStart \in Nat
    BY <1>1, <1>2, <2>1, <2>2
  <2> QED  BY <1>0, <1>1, <2>2, <2>3 DEF WriterTypes
<1>4. Written(0) = W!Before
  <2>1. Lead(W!Chunks, 0) = << >>
    BY <1>3, WriterFacts, LeadFacts
  <2>2. W!Before \o << >> = W!Before
    BY <1>3, WriterFacts, ConcatEmptySeq
  <2> QED  BY <2>1, <2>2 DEF Written
<1>5. 0 \in 0 .. Number(Len(items)) /\ Taken(Len(items), 0) = 0
  <2>1. 0 * BlockLength = 0
    BY WriterAssumption
  <2>2. Number(Len(items)) \in Nat
    BY <1>3, WriterFacts
  <2> QED  BY <1>2, <2>1, <2>2 DEF Taken
<1>6. Holds(memory, 0, Written(0)) /\ len = Len(Written(0))
  <2>1. \A j \in 1 .. 2 : 0 + j = j
    OBVIOUS
  <2>2. Len(W!Before) = 2
    BY <1>3, WriterFacts
  <2>3. Holds(memory, 0, W!Before)
    <3> DEFINE bef == W!Before
    <3>1. Len(bef) = 2 /\ \A j \in 1 .. 2 : memory[0 + j] = bef[j]
      BY <1>1, <2>1, <2>2
    <3> HIDE DEF bef
    <3>2. Holds(memory, 0, bef)
      BY <1>1, <3>1 DEF Holds
    <3> QED  BY <3>2 DEF bef
  <2> QED  BY <1>1, <1>4, <2>2, <2>3
<1>7. BlockInv
  <2>1. next = 0
    BY DEF W!Init
  <2> QED  BY <1>5, <1>6, <2>1 DEF BlockInv
<1> QED  BY <1>3, <1>7 DEF WriterInv, W!Init


\* The dummy header leaves what is written before it.
LEMMA WriterBegins ==
  ASSUME WriterInv, W!BeginBlock
  PROVE  WriterInv'
<1> DEFINE zeros == [k \in 1 .. Room |-> 0]
           n == Len(items)
<1>1. zeros \in Seq(Int) /\ Len(zeros) = Room /\ Room \in Nat
  <2>1. Room \in Nat /\ zeros \in [1 .. Room -> Int]
    BY WriterAssumption
  <2>2. DOMAIN zeros = 1 .. Room
    OBVIOUS
  <2> HIDE DEF zeros
  <2> QED  BY <2>1, <2>2, SeqDef, LenProperties
<1>2. WriterTypes /\ memory \in Seq(Int) /\ len \in 0 .. Len(memory)
  BY DEF WriterInv, WriterTypes
<1> HIDE DEF zeros
<1>3. memory' = W!Put(memory, len, zeros) /\ len' = len + Room /\ headerStart' = len
      /\ count' = 0 /\ wpc' = "items" /\ UNCHANGED << kind, sizes, items, next, wfailed >>
  BY DEF W!BeginBlock, zeros
<1>4. memory' \in Seq(Int) /\ Len(memory') >= len + Room
  BY <1>1, <1>2, <1>3, PutType
<1>5. WriterTypes'
  <2>1. len' \in 0 .. Len(memory')
    BY <1>1, <1>2, <1>3, <1>4
  <2>2. headerStart' \in Nat /\ headerStart' + Room <= len'
    BY <1>1, <1>2, <1>3
  <2>3. count' \in 0 .. BlockLength
    BY <1>3, WriterAssumption
  <2> QED  BY <1>2, <1>3, <1>4, <2>1, <2>2, <2>3 DEF WriterTypes
<1>6. ASSUME ~wfailed PROVE ItemsInv'
  <2>1. PICK k \in 0 .. Number(n) : /\ next = Taken(n, k)
                                    /\ len = Len(Written(k)) /\ Holds(memory, 0, Written(k))
    BY <1>6 DEF WriterInv, BlockInv, W!BeginBlock
  <2>2. Written(k) \in Seq(Int) /\ next \in Nat /\ items \in Seq(Items)
    BY <1>2, <2>1, WriterFacts DEF WriterTypes
  <2>3. Holds(memory', 0, Written(k))
    <3>1. 0 + Len(Written(k)) <= len
      BY <2>1, <2>2
    <3> QED  BY <1>1, <1>2, <1>3, <2>1, <2>2, <3>1, PutKeeps
  <2>4. ItemsCells(SubSeq(items, next + 1, next)) = << >>
    <3>1. SubSeq(items, next + 1, next) = << >>
      BY <2>2
    <3> QED  BY <3>1, ItemsCellsEmpty
  <2>5. Holds(memory', len + Room, << >>)
    <3>1. Len(<< >>) = 0
      OBVIOUS
    <3> QED  BY <1>1, <1>2, <1>4, <3>1 DEF Holds
  <2>6. Written(k)' = Written(k)
    BY <1>3, ChunksStay
  <2>7. kind = "array" => next < n
    BY DEF W!BeginBlock, W!MoreItems
  <2>8. next = next + 0 /\ len + Room = len + Room + 0
    BY <1>1, <1>2, <2>2
  <2> HIDE DEF n
  <2>9. ItemsCells(SubSeq(items, next + 1, next))' = << >>
    BY <1>3, <2>4
  <2> QED  BY <1>3, <2>1, <2>3, <2>4, <2>5, <2>6, <2>7, <2>8 DEF ItemsInv, n
<1> QED  BY <1>3, <1>5, <1>6 DEF WriterInv

\* An item is written behind the items of its block.
LEMMA WriterTakes ==
  ASSUME WriterInv, W!EncodeItem
  PROVE  WriterInv'
<1> DEFINE item == items[next + 1]
           cells == ItemCells(item)
           n == Len(items)
<1>1. WriterTypes /\ memory \in Seq(Int) /\ len \in 0 .. Len(memory) /\ next \in 0 .. n /\ n \in Nat
      /\ headerStart \in Nat /\ count \in 0 .. BlockLength /\ items \in Seq(Items)
      /\ headerStart + Room <= len /\ wpc = "items" /\ ~wfailed
  BY WriterFacts DEF WriterInv, WriterTypes, W!EncodeItem
<1>2. next < n /\ count < BlockLength
  BY DEF W!EncodeItem, W!MoreItems
<1>3. item \in Items
  BY <1>1, <1>2
<1>4. cells \in Seq(Int) /\ Len(cells) \in Nat
  BY <1>3, ItemCellsType
<1>5. memory' = W!Put(memory, len, cells) /\ len' = len + Len(cells)
      /\ next' = next + 1 /\ count' = count + 1
      /\ UNCHANGED << kind, sizes, items, headerStart, wfailed, wpc >>
  BY SameItem DEF W!EncodeItem
<1> HIDE DEF cells
<1>6. memory' \in Seq(Int) /\ Len(memory') >= len + Len(cells)
  BY <1>1, <1>4, <1>5, PutType
<1>7. WriterTypes'
  <2>0. BlockLength \in Nat /\ Room \in Nat
    BY WriterAssumption
  <2>1. len' \in 0 .. Len(memory') /\ headerStart' + Room <= len'
    BY <1>1, <1>4, <1>5, <1>6, <2>0
  <2>2. next' \in 0 .. Len(items')
    BY <1>1, <1>2, <1>5
  <2>3. count' \in 0 .. BlockLength
    BY <1>1, <1>2, <1>5, <2>0
  <2> QED  BY <1>1, <1>5, <1>6, <2>1, <2>2, <2>3 DEF WriterTypes
<1>8. PICK k \in 0 .. Number(n) :
        LET start == Taken(n, k)
            data  == ItemsCells(SubSeq(items, start + 1, next))
        IN  /\ next = start + count
            /\ headerStart = Len(Written(k)) /\ Holds(memory, 0, Written(k))
            /\ len = headerStart + Room + Len(data) /\ Holds(memory, headerStart + Room, data)
  BY <1>1 DEF WriterInv, ItemsInv
<1> DEFINE start == Taken(n, k)
           chunk == SubSeq(items, start + 1, next)
           data  == ItemsCells(chunk)
<1>9. Written(k) \in Seq(Int) /\ start \in 0 .. n
  BY <1>1, WriterFacts
<1>10. chunk \in Seq(Items) /\ SubSeq(items, start + 1, next + 1) = Append(chunk, item)
  <2>1. start <= next /\ next + 1 <= n
    BY <1>1, <1>2, <1>8, <1>9, WriterAssumption, SMTT(30)
  <2>2. start \in Nat /\ next + 1 \in 1 .. Len(items) /\ next \in Nat
    BY <1>1, <1>2, <1>9
  <2> HIDE DEF start, n
  <2>3. chunk \in Seq(Items) /\ Len(chunk) = next - start
    BY <1>1, <2>1, <2>2
  <2> DEFINE a == SubSeq(items, start + 1, next + 1)
             c == Append(chunk, item)
  <2>4. a \in Seq(Items) /\ Len(a) = next + 1 - start
        /\ \A j \in 1 .. next + 1 - start : a[j] = items[start + j]
    BY <1>1, <2>1, <2>2
  <2>5. c \in Seq(Items) /\ Len(c) = next + 1 - start
        /\ \A j \in 1 .. next + 1 - start : c[j] = items[start + j]
    BY <1>1, <1>3, <2>1, <2>2, <2>3
  <2> HIDE DEF a, c
  <2>6. a = c
    BY <2>4, <2>5, SeqEqual
  <2> QED  BY <2>3, <2>6 DEF a, c
<1> HIDE DEF start, chunk, item
<1>11. data \in Seq(Int) /\ ItemsCells(SubSeq(items, start + 1, next + 1)) = data \o cells
  <2>1. ItemsCells(Append(chunk, item)) = ItemsCells(chunk) \o ItemCells(item)
    BY <1>3, <1>10, ItemsCellsAppend
  <2> QED  BY <1>10, <2>1, ItemsCellsType DEF cells
<1> HIDE DEF data
<1>12. Holds(memory', 0, Written(k))
  <2>1. 0 + Len(Written(k)) <= len
    BY <1>1, <1>8, <1>9, WriterAssumption
  <2>2. Holds(memory, 0, Written(k))
    BY <1>8
  <2> QED  BY <1>1, <1>4, <1>5, <1>9, <2>1, <2>2, PutKeeps
<1>13. len = headerStart + Room + Len(data) /\ Holds(memory, headerStart + Room, data)
  BY <1>8 DEF data, chunk, start
<1>14. Holds(memory', headerStart + Room, data \o cells)
  <2>1. headerStart + Room + Len(data) <= len
    BY <1>1, <1>13
  <2>2. Holds(memory', headerStart + Room, data)
    BY <1>1, <1>4, <1>5, <1>11, <1>13, <2>1, PutKeeps
  <2>3. Holds(memory', len, cells)
    BY <1>1, <1>4, <1>5, PutHolds
  <2> QED  BY <1>4, <1>6, <1>11, <1>13, <2>2, <2>3, HoldsConcat
<1>15. len' = headerStart + Room + Len(data \o cells)
  BY <1>1, <1>4, <1>5, <1>11, <1>13, WriterAssumption
<1>16. Written(k)' = Written(k)
  BY <1>5, ChunksStay
<1>17. next' = start + count' /\ count' # 0
  <2>1. next = start + count
    BY <1>8 DEF start
  <2> QED  BY <1>1, <1>5, <1>9, <2>1, WriterAssumption
<1>18. headerStart = Len(Written(k))
  BY <1>8
<1>19. ItemsInv'
  BY <1>5, <1>11, <1>12, <1>14, <1>15, <1>16, <1>17, <1>18 DEF ItemsInv, start
<1> QED  BY <1>1, <1>5, <1>7, <1>19 DEF WriterInv

\* After a failure only the types matter.
LEMMA WriterFails ==
  ASSUME WriterInv, W!ItemFails
  PROVE  WriterInv'
<1> DEFINE all == ItemCells(items[next + 1])
<1>1. WriterTypes /\ memory \in Seq(Int) /\ len \in 0 .. Len(memory) /\ next \in 0 .. Len(items)
      /\ headerStart \in Nat /\ items \in Seq(Items) /\ Len(items) \in Nat
      /\ headerStart + Room <= len /\ next < Len(items)
  BY WriterFacts DEF WriterInv, WriterTypes, W!ItemFails, W!MoreItems
<1>2. all \in Seq(Int)
  BY <1>1, ItemCellsType
<1>3. PICK n \in 0 .. Len(all) :
        memory' = W!Put(memory, len, SubSeq(all, 1, n)) /\ len' = len + n
  <2>1. W!ItemCells(items[next + 1]) = all
    BY SameItem
  <2> HIDE DEF all
  <2> QED  BY <2>1 DEF W!ItemFails
<1> DEFINE cells == SubSeq(all, 1, n)
<1>4. cells \in Seq(Int) /\ Len(cells) = n /\ n \in Nat
  <2> HIDE DEF all
  <2> QED  BY <1>2
<1> HIDE DEF cells
<1>5. memory' \in Seq(Int) /\ Len(memory') >= len + n
  BY <1>1, <1>3, <1>4, PutType DEF cells
<1>6. next' = next + 1 /\ wfailed' = TRUE
      /\ UNCHANGED << kind, sizes, items, headerStart, count, wpc >>
  BY DEF W!ItemFails
<1>7. len' \in 0 .. Len(memory') /\ headerStart' + Room <= len' /\ next' \in 0 .. Len(items')
  BY <1>1, <1>3, <1>4, <1>5, <1>6, WriterAssumption
<1>8. WriterTypes'
  BY <1>1, <1>5, <1>6, <1>7 DEF WriterTypes
<1> QED  BY <1>6, <1>8 DEF WriterInv

\* The header and the data end up behind each other, where the room was.
LEMMA MovedHolds ==
  ASSUME NEW mem \in Seq(Int), len \in 0 .. Len(mem), headerStart \in Nat,
         headerStart + Room <= len, NEW header \in Seq(Int), Len(header) <= Room
  PROVE  /\ W!Moved(mem, header) \in Seq(Int)
         /\ headerStart + Len(header) + (len - (headerStart + Room)) <= Len(W!Moved(mem, header))
         /\ \A x \in Seq(Int) : Holds(mem, 0, x) /\ Len(x) <= headerStart => Holds(W!Moved(mem, header), 0, x)
         /\ \A x \in Seq(Int) : Holds(mem, headerStart + Room, x) /\ Len(x) = len - (headerStart + Room)
                                  => Holds(W!Moved(mem, header), headerStart, header \o x)
<1> DEFINE under == W!Put(mem, headerStart, header)
           at    == headerStart + Len(header)
           data  == SubSeq(under, headerStart + Room + 1, len)
           new   == W!Put(under, at, data)
<1>1. W!Moved(mem, header) = new
  BY DEF W!Moved
<1>2. Room \in Nat /\ len \in Nat /\ headerStart \in 0 .. Len(mem) /\ Len(header) \in Nat /\ at \in Nat
  BY WriterAssumption
<1>3. under \in Seq(Int) /\ Len(under) \in Nat /\ Len(under) >= Len(mem) /\ Len(under) >= at
  BY <1>2, PutType
<1> HIDE DEF under
<1>4. data \in Seq(Int) /\ Len(data) = len - (headerStart + Room)
  BY <1>2, <1>3
<1> HIDE DEF data
<1>5. new \in Seq(Int) /\ Len(new) >= at + Len(data)
  BY <1>2, <1>3, <1>4, PutType
<1>6. headerStart + Len(header) + (len - (headerStart + Room)) <= Len(new)
  BY <1>4, <1>5
<1>7. Holds(under, headerStart, header)
  BY <1>2, PutHolds DEF under
<1>8. at \in 0 .. Len(under)
  BY <1>2, <1>3
<1>9. ASSUME NEW x \in Seq(Int), Holds(mem, 0, x), Len(x) <= headerStart
      PROVE  Holds(new, 0, x)
  <2>1. 0 + Len(x) <= headerStart /\ 0 + Len(x) <= at
    BY <1>2, <1>9
  <2>2. Holds(under, 0, x)
    BY <1>2, <1>9, <2>1, PutKeeps DEF under
  <2> QED  BY <1>3, <1>4, <1>8, <2>1, <2>2, PutKeeps
<1>10. ASSUME NEW x \in Seq(Int), Holds(mem, headerStart + Room, x),
              Len(x) = len - (headerStart + Room)
       PROVE  Holds(new, headerStart, header \o x)
  <2> DEFINE from == headerStart + Room
  <2>1. from >= headerStart + Len(header) /\ from + Len(x) = len
    BY <1>2, <1>10
  <2>2. Holds(under, from, x)
    BY <1>2, <1>10, <2>1, PutKeeps DEF under
  <2>3. data = x
    BY <1>3, <2>1, <2>2, HoldsSub DEF data
  <2>4. Holds(new, headerStart, header)
    <3>1. headerStart + Len(header) <= at
      OBVIOUS
    <3> QED  BY <1>3, <1>4, <1>7, <1>8, <3>1, PutKeeps
  <2>5. Holds(new, at, x)
    BY <1>3, <1>4, <1>8, <2>3, PutHolds
  <2> HIDE DEF new
  <2> QED  BY <1>5, <2>4, <2>5, HoldsConcat
<1> HIDE DEF new
<1> QED  BY <1>1, <1>5, <1>6, <1>9, <1>10

\* A header fits the room left for it.
LEMMA HeaderType ==
  ASSUME NEW l \in Int, NEW s \in Int
  PROVE  W!Header(l, s) \in Seq(Int) /\ Len(W!Header(l, s)) \in 1 .. Room
BY WriterAssumption DEF W!Header

\* What is written for a block is what the format says.
LEMMA HeaderFrames ==
  ASSUME NEW b \in BlockSet, sizes \in BOOLEAN,
         b.sized <=> (sizes /\ ItemsCells(b.items) # << >>)
  PROVE  W!Header(Len(b.items), Len(ItemsCells(b.items))) \o ItemsCells(b.items) = BlockCells(b)
<1> DEFINE data == ItemsCells(b.items)
<1>1. data \in Seq(Int)
  BY ItemsCellsType DEF BlockSet
<1> HIDE DEF data
<1>2. Len(data) > 0 <=> data # << >>
  BY <1>1, EmptySeq
<1>3. b.sized <=> (sizes /\ data # << >>)
  BY DEF data
<1>4. W!Header(Len(b.items), Len(data)) =
        IF b.sized THEN << -Len(b.items), Len(data) >> ELSE << Len(b.items) >>
  BY <1>2, <1>3 DEF W!Header
<1> QED  BY <1>4 DEF BlockCells, data

\* Header and moved data are the next block, whatever lay beneath.
LEMMA WriterEndsBlock ==
  ASSUME WriterInv, W!EndBlock
  PROVE  WriterInv'
<1> DEFINE n      == Len(items)
           size   == len - (headerStart + Room)
           header == W!Header(count, size)
<1>1. WriterTypes /\ memory \in Seq(Int) /\ len \in 0 .. Len(memory) /\ next \in 0 .. n /\ n \in Nat
      /\ headerStart \in Nat /\ count \in 0 .. BlockLength /\ items \in Seq(Items)
      /\ headerStart + Room <= len /\ sizes \in BOOLEAN /\ kind \in {"array", "map"}
      /\ wfailed \in BOOLEAN
  BY WriterFacts DEF WriterInv, WriterTypes, W!EndBlock
<1>2. Room \in Nat /\ BlockLength \in Nat \ {0}
  BY WriterAssumption
<1>3. header \in Seq(Int) /\ Len(header) <= Room /\ Len(header) \in Nat
  <2>1. count \in Int /\ size \in Int
    BY <1>1, <1>2
  <2> HIDE DEF size
  <2>2. header \in Seq(Int) /\ Len(header) \in 1 .. Room
    BY <2>1, HeaderType
  <2> QED  BY <1>2, <2>2
<1>4. memory' = W!Moved(memory, header) /\ len' = headerStart + Len(header) + size
      /\ UNCHANGED << kind, sizes, items, next, headerStart, count, wfailed >>
  BY DEF W!EndBlock
<1>5. wpc' = IF kind = "map" THEN IF wfailed \/ count = 0 THEN "done" ELSE "block"
                             ELSE IF wfailed THEN "end" ELSE "block"
  BY DEF W!EndBlock
<1> DEFINE new == W!Moved(memory, header)
<1> HIDE DEF header
<1>6. new \in Seq(Int) /\ headerStart + Len(header) + size <= Len(new)
  BY <1>1, <1>3, MovedHolds
<1>7. \A x \in Seq(Int) : Holds(memory, 0, x) /\ Len(x) <= headerStart => Holds(new, 0, x)
  BY <1>1, <1>3, MovedHolds
<1>8. \A x \in Seq(Int) : Holds(memory, headerStart + Room, x) /\ Len(x) = size
                            => Holds(new, headerStart, header \o x)
  BY <1>1, <1>3, MovedHolds
<1> HIDE DEF new
<1>9. WriterTypes'
  <2>1. len' \in 0 .. Len(memory')
    BY <1>1, <1>2, <1>3, <1>4, <1>6 DEF new
  <2>2. memory' \in Seq(Int)
    BY <1>4, <1>6 DEF new
  <2>3. wpc' \in {"block", "end", "done"}
    BY <1>5
  <2> QED  BY <1>1, <1>4, <2>1, <2>2, <2>3 DEF WriterTypes
<1>10. ASSUME ~wfailed
       PROVE  IF count = 0 THEN wpc' = "done" /\ DoneInv' ELSE wpc' = "block" /\ BlockInv'
  <2>1. PICK k \in 0 .. Number(n) :
        LET start == Taken(n, k)
            data  == ItemsCells(SubSeq(items, start + 1, next))
        IN  /\ next = start + count
            /\ kind = "array" /\ count = 0 => next < n
            /\ headerStart = Len(Written(k)) /\ Holds(memory, 0, Written(k))
            /\ len = headerStart + Room + Len(data) /\ Holds(memory, headerStart + Room, data)
    BY <1>10 DEF WriterInv, ItemsInv, W!EndBlock
  <2> DEFINE start == Taken(n, k)
             chunk == SubSeq(items, start + 1, next)
             data  == ItemsCells(chunk)
             bs    == W!Chunks
  <2>2. Written(k) \in Seq(Int) /\ start \in 0 .. n
    BY <1>1, WriterFacts
  <2>3. chunk \in Seq(Items) /\ Len(chunk) = count
    <3>1. next = start + count
      BY <2>1
    <3> HIDE DEF start
    <3> QED  BY <1>1, <2>2, <3>1
  <2> HIDE DEF chunk
  <2>4. data \in Seq(Int) /\ Len(data) \in Nat
    BY <2>3, ItemsCellsType
  <2>5. len = headerStart + Room + Len(data) /\ Holds(memory, headerStart + Room, data)
    BY <2>1 DEF chunk
  <2>6. size = Len(data)
    BY <1>1, <1>2, <2>4, <2>5
  <2> HIDE DEF size, data
  <2>7. Holds(new, headerStart, header \o data) /\ header \o data \in Seq(Int)
        /\ Len(header \o data) = Len(header) + Len(data)
    BY <1>3, <1>8, <2>4, <2>5, <2>6
  <2>8. Holds(new, 0, Written(k)) /\ headerStart = Len(Written(k))
    BY <1>1, <1>7, <2>1, <2>2
  <2>9. Holds(new, 0, Written(k) \o (header \o data))
        /\ len' = Len(Written(k) \o (header \o data))
    <3>1. 0 + Len(Written(k)) = headerStart
      BY <1>1, <2>8
    <3>2. Holds(new, 0, Written(k) \o (header \o data))
      BY <1>6, <2>2, <2>7, <2>8, <3>1, HoldsConcat
    <3>3. Len(Written(k) \o (header \o data)) = Len(Written(k)) + Len(header \o data)
      BY <2>2, <2>7
    <3> QED  BY <1>1, <1>3, <1>4, <2>4, <2>6, <2>7, <2>8, <3>2, <3>3
  <2>10. bs \in Seq(BlockSet) /\ Len(bs) = Number(n) /\ Number(n) \in Nat /\ W!Before \in Seq(Int)
    BY <1>1, WriterFacts
  <2>11. bs' = bs
    BY <1>4, ChunksStay
  <2>12. Lead(bs, k) \in Seq(Int)
    BY <2>10, LeadFacts
  <2>13. next = start + count /\ (kind = "array" /\ count = 0 => next < n)
    BY <2>1
  <2>14. count = BlockLength \/ next = n
    BY <1>1, <1>10 DEF W!EndBlock, W!MoreItems
  <2>15. CASE count = 0
    <3>1. next = n /\ kind = "map" /\ start = n
      <4> HIDE DEF start
      <4> QED  BY <1>1, <1>2, <2>2, <2>13, <2>14, <2>15
    <3>2. k = Number(n)
      <4>1. k * BlockLength >= n
        <5>1. k * BlockLength \in Nat
          BY <1>1, NumberFacts
        <5> QED  BY <1>1, <3>1, <5>1 DEF Taken
      <4> QED  BY <1>1, <4>1, NumberFacts
    <3>3. data = << >>
      <4>1. chunk = << >>
        BY <2>3, <2>15, EmptySeq
      <4> QED  BY <4>1, ItemsCellsEmpty DEF data
    <3>4. header \o data = << 0 >>
      <4>1. size = 0
        BY <2>6, <3>3, EmptySeq
      <4>2. header = << 0 >>
        BY <2>15, <4>1 DEF header, W!Header
      <4> QED  BY <3>3, <4>2
    <3>5. Written(k) \o << 0 >> = W!Before \o Framed(bs)
      <4>1. Framed(bs) = Lead(bs, k) \o << 0 >>
        BY <2>10, <3>2, LeadFacts
      <4>2. << 0 >> \in Seq(Int)
        OBVIOUS
      <4> DEFINE lead == Lead(bs, k)
      <4> HIDE DEF lead, bs
      <4>3. lead \in Seq(Int)
        BY <2>12 DEF lead
      <4>4. (W!Before \o lead) \o << 0 >> = W!Before \o (lead \o << 0 >>)
        BY <2>10, <4>2, <4>3, Regroup
      <4> QED  BY <4>1, <4>4 DEF Written, lead, bs
    <3>6. Framed(bs)' = Framed(bs)
      BY <2>11 DEF Framed
    <3>7. DoneInv'
      BY <1>4, <2>9, <2>11, <3>4, <3>5 DEF DoneInv, new
    <3> QED  BY <1>5, <1>10, <2>15, <3>1, <3>7
  <2>16. CASE count # 0
    <3>1. start < n /\ start + 1 <= next
      <4> HIDE DEF start
      <4> QED  BY <1>1, <2>2, <2>13, <2>16
    <3>2. start = k * BlockLength /\ k * BlockLength < n /\ k * BlockLength \in Nat
          /\ (k + 1) * BlockLength = k * BlockLength + BlockLength /\ k + 1 <= Number(n)
      <4>1. k * BlockLength \in Nat /\ (k + 1) * BlockLength = k * BlockLength + BlockLength
            /\ (k * BlockLength < n => k + 1 <= Number(n))
        BY <1>1, NumberFacts
      <4>2. start = k * BlockLength
        BY <3>1 DEF Taken
      <4> HIDE DEF start
      <4> QED  BY <3>1, <4>1, <4>2
    <3>3. Taken(n, k + 1) = next
      <4>1. next = k * BlockLength + count
        BY <2>13, <3>2
      <4>2. (k + 1) * BlockLength = k * BlockLength + BlockLength /\ k * BlockLength \in Nat
        BY <3>2
      <4> DEFINE a == k * BlockLength
                 c == (k + 1) * BlockLength
      <4>3. next = a + count /\ c = a + BlockLength /\ a \in Nat
        BY <4>1, <4>2
      <4> HIDE DEF a, c
      <4>4. (IF c <= n THEN c ELSE n) = next
        BY <1>1, <1>2, <2>14, <4>3
      <4> QED  BY <4>4 DEF Taken, c
    <3>4. k \in 0 .. Number(n) - 1 /\ k + 1 \in 0 .. Number(n)
      BY <2>10, <3>2
    <3>5. bs[k + 1].items = chunk /\ (bs[k + 1].sized <=> (sizes /\ data # << >>))
      <4>1. items \in Seq(Seq(Seq(Int)))
        BY <1>1 DEF Items
      <4> DEFINE c == SubSeq(items, k * BlockLength + 1, Taken(n, k + 1))
      <4>2. bs[k + 1].items = c /\ (bs[k + 1].sized <=> (sizes /\ ItemsCells(c) # << >>))
        BY <1>1, <3>4, <4>1, ChunksAre
      <4>3. c = chunk
        BY <3>2, <3>3 DEF chunk
      <4> HIDE DEF c, bs
      <4> QED  BY <4>2, <4>3 DEF data
    <3>6. BlockCells(bs[k + 1]) = header \o data
      <4> DEFINE b == bs[k + 1]
      <4>1. b \in BlockSet
        BY <2>10, <3>4
      <4>2. b.items = chunk /\ (b.sized <=> (sizes /\ ItemsCells(b.items) # << >>))
        BY <3>5 DEF data
      <4> HIDE DEF b
      <4>3. W!Header(Len(b.items), Len(ItemsCells(b.items))) \o ItemsCells(b.items) = BlockCells(b)
        BY <1>1, <4>1, <4>2, HeaderFrames
      <4>4. W!Header(Len(b.items), Len(ItemsCells(b.items))) = header
        BY <2>3, <2>6, <4>2 DEF header, data
      <4> QED  BY <4>2, <4>3, <4>4 DEF b, data
    <3>7. Written(k + 1) = Written(k) \o (header \o data)
      <4>1. Lead(bs, k + 1) = Lead(bs, k) \o BlockCells(bs[k + 1])
        BY <2>10, <3>4, LeadFacts
      <4> DEFINE lead == Lead(bs, k)
                 block == header \o data
      <4>2. lead \in Seq(Int) /\ block \in Seq(Int)
        BY <2>7, <2>12
      <4>3. Lead(bs, k + 1) = lead \o block
        BY <3>6, <4>1
      <4> HIDE DEF lead, block, bs
      <4>4. (W!Before \o lead) \o block = W!Before \o (lead \o block)
        BY <2>10, <4>2, Regroup
      <4> QED  BY <4>3, <4>4 DEF Written, lead, bs, block
    <3>8. Written(k + 1)' = Written(k + 1)
      BY <1>4, ChunksStay
    <3>9. BlockInv'
      BY <1>4, <2>9, <3>3, <3>4, <3>7, <3>8 DEF BlockInv, new
    <3>10. wpc' = "block"
      BY <1>1, <1>5, <1>10, <2>16
    <3> QED  BY <2>16, <3>9, <3>10
  <2> QED  BY <2>15, <2>16
<1> QED  BY <1>4, <1>9, <1>10 DEF WriterInv

\* The end mark completes the collection.
LEMMA WriterEndsArray ==
  ASSUME WriterInv, W!EndArray
  PROVE  WriterInv'
<1> DEFINE n == Len(items)
           mark == << 0 >>
<1>1. WriterTypes /\ memory \in Seq(Int) /\ len \in 0 .. Len(memory) /\ n \in Nat
      /\ next \in 0 .. n /\ wfailed \in BOOLEAN
  BY WriterFacts DEF WriterInv, WriterTypes
<1>2. mark \in Seq(Int) /\ Len(mark) = 1
  OBVIOUS
<1>3. memory' = W!Put(memory, len, mark) /\ len' = len + 1 /\ wpc' = "done"
      /\ UNCHANGED << kind, sizes, items, next, headerStart, count, wfailed >>
  BY DEF W!EndArray, W!Header
<1> HIDE DEF mark
<1>4. memory' \in Seq(Int) /\ Len(memory') >= len + 1
  BY <1>1, <1>2, <1>3, PutType
<1>5. WriterTypes'
  <2>1. len' \in 0 .. Len(memory')
    BY <1>1, <1>3, <1>4
  <2> QED  BY <1>1, <1>3, <1>4, <2>1 DEF WriterTypes
<1>6. ASSUME ~wfailed PROVE DoneInv'
  <2>1. PICK k \in 0 .. Number(n) : /\ next = Taken(n, k)
                                    /\ len = Len(Written(k)) /\ Holds(memory, 0, Written(k))
    BY <1>6 DEF WriterInv, BlockInv, W!EndArray
  <2> DEFINE bs == W!Chunks
             lead == Lead(bs, k)
  <2>2. bs \in Seq(BlockSet) /\ Len(bs) = Number(n) /\ Number(n) \in Nat /\ W!Before \in Seq(Int)
    BY <1>1, WriterFacts
  <2>3. next = n
    BY <1>1, <1>6 DEF WriterInv, W!EndArray, W!MoreItems
  <2>4. k = Number(n)
    <3>1. k * BlockLength \in Nat
      BY <1>1, NumberFacts
    <3>2. k * BlockLength >= n
      BY <1>1, <2>1, <2>3, <3>1 DEF Taken
    <3> QED  BY <1>1, <3>2, NumberFacts
  <2>5. lead \in Seq(Int) /\ Framed(bs) = lead \o mark
    BY <2>2, <2>4, LeadFacts DEF mark
  <2>6. Written(k) = W!Before \o lead /\ Written(k) \in Seq(Int)
    BY <1>1, WriterFacts DEF Written
  <2> HIDE DEF lead, bs
  <2>7. W!Before \o Framed(bs) = Written(k) \o mark
    <3>1. (W!Before \o lead) \o mark = W!Before \o (lead \o mark)
      BY <1>2, <2>2, <2>5, Regroup
    <3> QED  BY <2>5, <2>6, <3>1
  <2>8. Holds(memory', 0, Written(k))
    <3>1. 0 + Len(Written(k)) <= len
      BY <1>1, <2>1
    <3> QED  BY <1>1, <1>2, <1>3, <2>1, <2>6, <3>1, PutKeeps
  <2>9. Holds(memory', 0, Written(k) \o mark)
    <3>1. Holds(memory', len, mark)
      BY <1>1, <1>2, <1>3, PutHolds
    <3>2. len = 0 + Len(Written(k))
      BY <1>1, <2>1
    <3> QED  BY <1>2, <1>4, <2>6, <2>8, <3>1, <3>2, HoldsConcat
  <2>10. len' = Len(Written(k) \o mark)
    <3> DEFINE w == Written(k)
    <3>1. w \in Seq(Int) /\ len = Len(w)
      BY <2>1, <2>6
    <3> HIDE DEF w
    <3>2. Len(w \o mark) = Len(w) + 1
      BY <1>2, <3>1, LongerBy
    <3> QED  BY <1>3, <3>1, <3>2 DEF w
  <2>11. bs' = bs
    BY <1>3, ChunksStay DEF bs
  <2> QED  BY <2>7, <2>9, <2>10, <2>11 DEF DoneInv, bs
<1> QED  BY <1>3, <1>5, <1>6 DEF WriterInv

(***************************************************************************)
(* The reader.  What it can see of the stream are the blocks, framed; it   *)
(* stands before a block or before an item of one, has the items before    *)
(* that place, and has failed only if the blocks hold too many items or    *)
(* the stream was cut.                                                     *)
(***************************************************************************)
BlocksFit ==
  /\ blocks \in Seq(BlockSet)
  /\ \A k \in 1 .. Len(blocks) :
       /\ Len(blocks[k].items) \in 1 .. MaxLong
       /\ \A i \in 1 .. Len(blocks[k].items) : Len(blocks[k].items[i]) = width

StreamIsFramed ==
  /\ stream \in Seq(Int)
  /\ \A p \in 1 .. Len(stream) : p <= Len(Framed(blocks)) => stream[p] = Framed(blocks)[p]
  /\ input = "whole" => Len(stream) = Len(Framed(blocks)) + Len(Rest)
  /\ input = "cut" => Len(stream) < Len(Framed(blocks))

\* The items read are those of the first k blocks, n of them were announced.
HasRead(all, n) ==
  IF op = "skip" THEN out = << >>
  ELSE out = all /\ total = n /\ n <= MaxItems

BeforeBlock(k) ==
  /\ left = 0 /\ pos = Len(Lead(blocks, k))
  /\ HasRead(ItemsUpTo(blocks, k), Len(ItemsUpTo(blocks, k)))

HeaderCells(b) == IF b.sized THEN << -Len(b.items), Len(ItemsCells(b.items)) >> ELSE << Len(b.items) >>

BeforeItem(k, i) ==
  LET all == blocks[k + 1].items
      got == SubSeq(all, 1, i)
  IN  /\ left = Len(all) - i
      /\ pos = Len(Lead(blocks, k)) + Len(HeaderCells(blocks[k + 1])) + Len(ItemsCells(got))
      /\ HasRead(ItemsUpTo(blocks, k) \o got, Len(ItemsUpTo(blocks, k + 1)))

AtTheEnd ==
  /\ input = "whole" /\ Fits /\ pos = Len(Framed(blocks))
  /\ out = IF op = "skip" THEN << >> ELSE ItemsOf(blocks)

ReaderInv ==
  /\ op \in Ops /\ width \in 0 .. 2 /\ failed \in BOOLEAN
  /\ BlocksFit /\ StreamIsFramed
  /\ pc = "header" => \E k \in 0 .. Len(blocks) : BeforeBlock(k)
  /\ pc = "items" => \E k \in 0 .. Len(blocks) - 1 :
                       \E i \in 0 .. Len(blocks[k + 1].items) - 1 : BeforeItem(k, i)
  /\ pc = "done" /\ ~failed => AtTheEnd
  /\ failed => pc = "done" /\ (input = "whole" => ~Fits)

Fresh == Start(op, width, << >>)

BlocksInv ==
  /\ input \in {"writing", "whole", "cut", "any"}
  /\ input = "writing" => WriterInv /\ Fresh
  /\ input \in {"whole", "cut"} => ReaderInv

\* Where the stream reaches, it has these cells behind the first at.
Agrees(at, cells) ==
  \A j \in 1 .. Len(cells) : at + j <= Len(stream) => stream[at + j] = cells[j]

\* A stream that agrees with two runs of cells agrees with each at its place.
LEMMA AgreesSplit ==
  ASSUME stream \in Seq(Int), NEW at \in Nat, NEW x \in Seq(Int), NEW y \in Seq(Int),
         Agrees(at, x \o y)
  PROVE  Agrees(at, x) /\ Agrees(at + Len(x), y)
<1>1. Len(x) \in Nat /\ Len(y) \in Nat /\ Len(x \o y) = Len(x) + Len(y)
  OBVIOUS
<1>2. ASSUME NEW j \in 1 .. Len(x), at + j <= Len(stream) PROVE stream[at + j] = x[j]
  <2>1. j \in 1 .. Len(x \o y) /\ (x \o y)[j] = x[j]
    BY <1>1
  <2> QED  BY <1>2, <2>1 DEF Agrees
<1>3. ASSUME NEW j \in 1 .. Len(y), at + Len(x) + j <= Len(stream) PROVE stream[at + Len(x) + j] = y[j]
  <2> DEFINE i == Len(x) + j
  <2>1. i \in 1 .. Len(x \o y) /\ (x \o y)[i] = y[j]
    BY <1>1
  <2>2. at + i = at + Len(x) + j
    BY <1>1
  <2> QED  BY <1>3, <2>1, <2>2 DEF Agrees
<1> QED  BY <1>2, <1>3 DEF Agrees

\* A number that is read is the one there; it is read if the stream goes so far.
LEMMA NumberRead ==
  ASSUME stream \in Seq(Int), NEW p \in Nat
  PROVE  /\ NumberAt(p).ok => /\ NumberAt(p).next = p + 1 /\ NumberAt(p).n = stream[p + 1]
                              /\ p + 1 <= Len(stream)
         /\ p + 1 <= Len(stream) => NumberAt(p).ok
<1>1. Len(stream) \in Nat
  OBVIOUS
<1> QED  BY <1>1 DEF NumberAt, AtEnd

\* The same for a string.
LEMMA StringRead ==
  ASSUME stream \in Seq(Int), NEW p \in Nat, NEW s \in Seq(Int), Agrees(p, StringCells(s))
  PROVE  /\ StringAt(p).ok => /\ StringAt(p).next = p + 1 + Len(s) /\ StringAt(p).s = s
                              /\ p + 1 + Len(s) <= Len(stream)
         /\ p + 1 + Len(s) <= Len(stream) => StringAt(p).ok
<1> DEFINE l == NumberAt(p)
           m == Len(s)
<1>1. m \in Nat /\ Len(stream) \in Nat
  OBVIOUS
<1>2. Agrees(p, << m >>) /\ Agrees(p + 1, s)
  <2>1. << m >> \in Seq(Int) /\ Len(<< m >>) = 1
    BY <1>1
  <2>2. Agrees(p, << m >> \o s)
    BY DEF StringCells
  <2> HIDE DEF m
  <2>3. Agrees(p, << m >>) /\ Agrees(p + Len(<< m >>), s)
    BY <2>1, <2>2, AgreesSplit
  <2> QED  BY <2>1, <2>3
<1>3. p + 1 <= Len(stream) => stream[p + 1] = m
  BY <1>1, <1>2 DEF Agrees
<1>4. l.ok => l.next = p + 1 /\ l.n = m /\ p + 1 <= Len(stream)
  BY <1>3, NumberRead
<1>5. p + 1 <= Len(stream) => l.ok
  BY NumberRead
<1>6. ASSUME StringAt(p).ok
      PROVE  StringAt(p).next = p + 1 + m /\ StringAt(p).s = s /\ p + 1 + m <= Len(stream)
  <2>1. l.ok /\ ~(l.n < 0 \/ l.n > Len(stream) - l.next)
    BY <1>6 DEF StringAt
  <2>2. StringAt(p) = [ok |-> TRUE, next |-> l.next + l.n,
                       s |-> SubSeq(stream, l.next + 1, l.next + l.n)]
    BY <2>1 DEF StringAt
  <2>3. p + 1 + m <= Len(stream)
    BY <1>1, <1>4, <2>1
  <2>4. SubSeq(stream, (p + 1) + 1, (p + 1) + m) = s
    <3>1. Holds(stream, p + 1, s)
      BY <1>1, <1>2, <2>3 DEF Agrees, Holds
    <3> QED  BY <3>1, HoldsSub
  <2>5. l.next = p + 1 /\ l.n = m
    BY <1>4, <2>1
  <2> HIDE DEF l, m
  <2> QED  BY <2>2, <2>3, <2>4, <2>5
<1>7. ASSUME p + 1 + m <= Len(stream) PROVE StringAt(p).ok
  <2>1. p + 1 <= Len(stream)
    BY <1>1, <1>7
  <2>2. l.ok /\ l.next = p + 1 /\ l.n = m
    BY <1>4, <1>5, <2>1
  <2>3. ~(m < 0 \/ m > Len(stream) - (p + 1))
    BY <1>1, <1>7
  <2> HIDE DEF l, m
  <2> QED  BY <2>2, <2>3 DEF StringAt, l
<1> QED  BY <1>6, <1>7

\* What an item is on the wire.
LEMMA ItemCellsAre ==
  ASSUME NEW item \in Items
  PROVE  /\ Len(item) = 0 => ItemCells(item) = << >>
         /\ Len(item) = 1 => ItemCells(item) = StringCells(item[1])
         /\ Len(item) = 2 => ItemCells(item) = StringCells(item[1]) \o StringCells(item[2])
<1> DEFINE n == Len(item)
           part == [j \in 1 .. n |-> StringCells(item[j])]
<1>1. item \in Seq(Seq(Int)) /\ n \in Nat /\ DOMAIN item = 1 .. n
  BY DEF Items
<1>2. \A j \in 1 .. n : StringCells(item[j]) \in Seq(Int)
  BY <1>1 DEF StringCells
<1>3. part \in [1 .. n -> Seq(Int)] /\ \A j \in 1 .. n : part[j] = StringCells(item[j])
  BY <1>2
<1>4. ItemCells(item) = SumOf(part, n)
  <2>1. [j \in 1 .. n |-> part[j]] = part
    OBVIOUS
  <2>2. [k \in DOMAIN item |-> StringCells(item[k])] = part
    BY <1>1
  <2> HIDE DEF part
  <2> QED  BY <2>1, <2>2 DEF ItemCells, SumOf
<1> HIDE DEF part
<1>5. SumOf(part, 0) = << >> /\ \A k \in 0 .. n - 1 : SumOf(part, k + 1) = SumOf(part, k) \o part[k + 1]
  BY <1>1, <1>3, PartialSums
<1>6. ASSUME n >= 1 PROVE SumOf(part, 1) = StringCells(item[1])
  <2>1. 0 \in 0 .. n - 1 /\ 0 + 1 = 1 /\ 1 \in 1 .. n
    BY <1>1, <1>6
  <2>2. SumOf(part, 1) = << >> \o part[1]
    BY <1>5, <2>1
  <2>3. part[1] = StringCells(item[1]) /\ part[1] \in Seq(Int)
    BY <1>2, <1>3, <2>1
  <2> QED  BY <2>2, <2>3, ConcatEmptySeq
<1>7. ASSUME n = 2 PROVE SumOf(part, 2) = StringCells(item[1]) \o StringCells(item[2])
  <2>1. 1 \in 0 .. n - 1 /\ 1 + 1 = 2 /\ 2 \in 1 .. n /\ n >= 1
    BY <1>1, <1>7
  <2>2. SumOf(part, 2) = SumOf(part, 1) \o part[2]
    BY <1>5, <2>1
  <2> QED  BY <1>3, <1>6, <2>1, <2>2
<1>8. n = 1 => n >= 1
  OBVIOUS
<1> HIDE DEF n
<1>9. /\ n = 0 => ItemCells(item) = << >>
      /\ n = 1 => ItemCells(item) = StringCells(item[1])
      /\ n = 2 => ItemCells(item) = StringCells(item[1]) \o StringCells(item[2])
  BY <1>4, <1>5, <1>6, <1>7, <1>8
<1> QED  BY <1>9 DEF n

\* The same for an item of the width of the reader's schema.
LEMMA ItemRead ==
  ASSUME stream \in Seq(Int), NEW p \in Nat, NEW item \in Items, width \in 0 .. 2,
         Len(item) = width, Agrees(p, ItemCells(item))
  PROVE  /\ ItemAt(p).ok => ItemAt(p).next = p + Len(ItemCells(item)) /\ ItemAt(p).item = item
         /\ p + Len(ItemCells(item)) <= Len(stream) => ItemAt(p).ok
<1> DEFINE cells == ItemCells(item)
           first == StringAt(p)
           second == StringAt(first.next)
<1>1. item \in Seq(Seq(Int)) /\ Len(stream) \in Nat
  BY DEF Items
<1>2. CASE width = 0
  <2>1. cells = << >> /\ Len(cells) = 0 /\ item = << >>
    BY <1>1, <1>2, ItemCellsAre, EmptySeq
  <2>2. ItemAt(p) = [ok |-> TRUE, next |-> p, item |-> << >>]
    BY <1>2 DEF ItemAt
  <2> QED  BY <2>1, <2>2
<1>3. CASE width = 1
  <2> DEFINE s == item[1]
  <2>1. s \in Seq(Int) /\ item = << s >> /\ cells = StringCells(s)
    BY <1>1, <1>3, ItemCellsAre
  <2> HIDE DEF s
  <2>2. Len(cells) = 1 + Len(s) /\ Len(s) \in Nat
    BY <2>1 DEF StringCells
  <2>3. /\ first.ok => first.next = p + 1 + Len(s) /\ first.s = s
        /\ p + 1 + Len(s) <= Len(stream) => first.ok
    BY <2>1, StringRead
  <2>4. p + 1 + Len(s) = p + Len(cells)
    BY <2>2
  <2>5. first.ok => ItemAt(p) = [ok |-> TRUE, next |-> first.next, item |-> << first.s >>]
    BY <1>3 DEF ItemAt
  <2>6. ~first.ok => ~ItemAt(p).ok
    BY <1>3 DEF ItemAt
  <2> HIDE DEF first, cells
  <2> QED  BY <2>1, <2>3, <2>4, <2>5, <2>6 DEF cells
<1>4. CASE width = 2
  <2> DEFINE s == item[1]
             t == item[2]
  <2>1. s \in Seq(Int) /\ t \in Seq(Int) /\ item = << s, t >> /\ cells = StringCells(s) \o StringCells(t)
    <3>1. Len(item) = 2 /\ item[1] \in Seq(Int) /\ item[2] \in Seq(Int)
      <4>1. Len(item) = 2 /\ 1 \in 1 .. 2 /\ 2 \in 1 .. 2
        BY <1>4
      <4>2. \A j \in 1 .. Len(item) : item[j] \in Seq(Int)
        BY <1>1
      <4> HIDE DEF cells
      <4> QED  BY <4>1, <4>2
    <3>2. item = << item[1], item[2] >>
      BY <1>1, <3>1
    <3>3. cells = StringCells(item[1]) \o StringCells(item[2])
      BY <3>1, ItemCellsAre
    <3> QED  BY <3>1, <3>2, <3>3
  <2> HIDE DEF s, t
  <2>2. /\ StringCells(s) \in Seq(Int) /\ Len(StringCells(s)) = 1 + Len(s) /\ Len(s) \in Nat
        /\ StringCells(t) \in Seq(Int) /\ Len(StringCells(t)) = 1 + Len(t) /\ Len(t) \in Nat
    BY <2>1 DEF StringCells
  <2> DEFINE q == p + 1 + Len(s)
  <2>3. Agrees(p, StringCells(s)) /\ Agrees(q, StringCells(t))
    <3>0. Agrees(p, StringCells(s) \o StringCells(t))
      BY <2>1
    <3>1. Agrees(p, StringCells(s)) /\ Agrees(p + Len(StringCells(s)), StringCells(t))
      BY <2>2, <3>0, AgreesSplit
    <3>2. p + Len(StringCells(s)) = q
      BY <2>2
    <3> HIDE DEF q
    <3> QED  BY <3>1, <3>2
  <2>4. /\ first.ok => first.next = q /\ first.s = s
        /\ p + 1 + Len(s) <= Len(stream) => first.ok
    BY <2>1, <2>3, StringRead
  <2>5. q \in Nat /\ q + 1 + Len(t) = p + Len(cells)
    <3>1. Len(cells) = Len(StringCells(s)) + Len(StringCells(t))
      <4>1. Len(StringCells(s) \o StringCells(t)) = Len(StringCells(s)) + Len(StringCells(t))
        BY <2>2, ConcatProperties
      <4> QED  BY <2>1, <4>1
    <3> QED  BY <2>2, <3>1
  <2> HIDE DEF q
  <2>6. /\ StringAt(q).ok => StringAt(q).next = q + 1 + Len(t) /\ StringAt(q).s = t
        /\ q + 1 + Len(t) <= Len(stream) => StringAt(q).ok
    BY <2>1, <2>3, <2>5, StringRead
  <2>7. first.ok /\ second.ok =>
          ItemAt(p) = [ok |-> TRUE, next |-> second.next, item |-> << first.s, second.s >>]
    BY <1>4 DEF ItemAt
  <2>8. ~(first.ok /\ second.ok) => ~ItemAt(p).ok
    BY <1>4 DEF ItemAt
  <2>9. first.ok => second = StringAt(q)
    BY <2>4
  <2>10. p + Len(cells) <= Len(stream) => q <= Len(stream)
    BY <1>1, <2>2, <2>5 DEF q
  <2> HIDE DEF first, second, cells
  <2> QED  BY <2>1, <2>4, <2>5, <2>6, <2>7, <2>8, <2>9, <2>10, SMTT(30) DEF cells, q
<1> QED  BY <1>2, <1>3, <1>4

\* A block is a header and the cells of its items.
LEMMA HeaderCellsFacts ==
  ASSUME NEW b \in BlockSet
  PROVE  /\ b.items \in Seq(Items) /\ b.sized \in BOOLEAN
         /\ ItemsCells(b.items) \in Seq(Int) /\ Len(ItemsCells(b.items)) \in Nat
         /\ HeaderCells(b) \in Seq(Int) /\ Len(HeaderCells(b)) \in 1 .. 2
         /\ BlockCells(b) = HeaderCells(b) \o ItemsCells(b.items)
<1>1. b.items \in Seq(Items) /\ b.sized \in BOOLEAN
  BY DEF BlockSet
<1> DEFINE data == ItemsCells(b.items)
<1>2. data \in Seq(Int) /\ Len(data) \in Nat /\ Len(b.items) \in Nat
  BY <1>1, ItemsCellsType
<1>3. BlockCells(b) = HeaderCells(b) \o data
  BY DEF BlockCells, HeaderCells
<1> HIDE DEF data
<1>4. HeaderCells(b) \in Seq(Int) /\ Len(HeaderCells(b)) \in 1 .. 2
  BY <1>1, <1>2 DEF HeaderCells, data
<1> QED  BY <1>1, <1>2, <1>3, <1>4 DEF data

\* The header of a block is read as it is, if the stream goes so far.
LEMMA HeaderRead ==
  ASSUME stream \in Seq(Int), NEW p \in Nat, NEW b \in BlockSet, Len(b.items) \in 1 .. MaxLong,
         Agrees(p, HeaderCells(b))
  PROVE  /\ HeaderAt(p).ok =>
              /\ HeaderAt(p).l = Len(b.items) /\ HeaderAt(p).next = p + Len(HeaderCells(b))
              /\ HeaderAt(p).size = IF b.sized THEN Len(ItemsCells(b.items)) ELSE 0
         /\ p + Len(HeaderCells(b)) <= Len(stream) => HeaderAt(p).ok
<1> DEFINE l == NumberAt(p)
           s == NumberAt(p + 1)
           n == Len(b.items)
           m == Len(ItemsCells(b.items))
           length == Len(stream)
<1>1. n \in Nat /\ n >= 1 /\ n <= MaxLong /\ m \in Nat /\ length \in Nat /\ b.sized \in BOOLEAN
      /\ MaxLong \in Nat /\ MinLong = -MaxLong - 1
  BY HeaderCellsFacts, ReaderAssumption
<1>2. /\ l.ok => l.next = p + 1 /\ l.n = stream[p + 1] /\ p + 1 <= length
      /\ p + 1 <= length => l.ok
  BY NumberRead
<1>3. /\ s.ok => s.n = stream[p + 2] /\ p + 2 <= length
      /\ p + 2 <= length => s.ok
  <2> DEFINE q == p + 1
  <2>1. q \in Nat /\ q + 1 = p + 2
    OBVIOUS
  <2> HIDE DEF q
  <2>2. /\ NumberAt(q).ok => NumberAt(q).n = stream[q + 1] /\ q + 1 <= length
        /\ q + 1 <= length => NumberAt(q).ok
    BY <2>1, NumberRead
  <2> QED  BY <2>1, <2>2 DEF q
<1>4. CASE b.sized
  <2>1. HeaderCells(b) = << -n, m >>
    BY <1>4 DEF HeaderCells
  <2>2. /\ p + 1 <= length => stream[p + 1] = -n
        /\ p + 2 <= length => stream[p + 2] = m
    <3> HIDE DEF n, m, length
    <3> QED  BY <2>1 DEF Agrees, length
  <2>3. -n < 0 /\ -n # MinLong /\ -(-n) = n /\ ~(m < 0)
    BY <1>1
  <2>4. ASSUME HeaderAt(p).ok
        PROVE  HeaderAt(p).l = n /\ HeaderAt(p).next = p + 2 /\ HeaderAt(p).size = m
    <3> HIDE DEF l, s, n, m, length
    <3>1. l.ok
      BY <2>4 DEF HeaderAt, l
    <3>2. l.n = -n
      BY <1>2, <2>2, <3>1
    <3>3. s.ok
      BY <1>1, <2>3, <2>4, <3>1, <3>2 DEF HeaderAt, l, s
    <3>4. s.n = m
      BY <1>3, <2>2, <3>3
    <3> QED  BY <1>1, <2>3, <2>4, <3>1, <3>2, <3>3, <3>4 DEF HeaderAt, l, s
  <2>5. ASSUME p + 2 <= length PROVE HeaderAt(p).ok
    <3> HIDE DEF l, s, n, m, length
    <3>1. l.ok /\ s.ok /\ l.n = -n /\ s.n = m
      BY <1>1, <1>2, <1>3, <2>2, <2>5
    <3> QED  BY <1>1, <2>3, <3>1 DEF HeaderAt, l, s
  <2>6. Len(HeaderCells(b)) = 2
    BY <2>1
  <2> QED  BY <1>4, <2>4, <2>5, <2>6
<1>5. CASE ~b.sized
  <2>1. HeaderCells(b) = << n >>
    BY <1>5 DEF HeaderCells
  <2>2. p + 1 <= length => stream[p + 1] = n
    <3> HIDE DEF n, m, length
    <3> QED  BY <2>1 DEF Agrees, length
  <2>3. ASSUME HeaderAt(p).ok
        PROVE  HeaderAt(p).l = n /\ HeaderAt(p).next = p + 1 /\ HeaderAt(p).size = 0
    <3> HIDE DEF l, s, n, m, length
    <3>1. l.ok
      BY <2>3 DEF HeaderAt, l
    <3>2. l.n = n
      BY <1>2, <2>2, <3>1
    <3> QED  BY <1>1, <2>3, <3>1, <3>2 DEF HeaderAt, l, s
  <2>4. ASSUME p + 1 <= length PROVE HeaderAt(p).ok
    <3> HIDE DEF l, s, n, m, length
    <3>1. l.ok /\ l.n = n
      BY <1>2, <2>2, <2>4
    <3> QED  BY <1>1, <3>1 DEF HeaderAt, l, s
  <2>5. Len(HeaderCells(b)) = 1
    BY <2>1
  <2> QED  BY <1>5, <2>3, <2>4, <2>5
<1> QED  BY <1>1, <1>4, <1>5

\* The end mark is read as it is.
LEMMA MarkRead ==
  ASSUME stream \in Seq(Int), NEW p \in Nat, Agrees(p, << 0 >>)
  PROVE  /\ HeaderAt(p).ok => HeaderAt(p).l = 0 /\ HeaderAt(p).next = p + 1 /\ p + 1 <= Len(stream)
         /\ p + 1 <= Len(stream) => HeaderAt(p).ok
<1> DEFINE l == NumberAt(p)
<1>1. /\ l.ok => l.next = p + 1 /\ l.n = stream[p + 1] /\ p + 1 <= Len(stream)
      /\ p + 1 <= Len(stream) => l.ok
  BY NumberRead
<1>2. p + 1 <= Len(stream) => stream[p + 1] = 0
  BY DEF Agrees
<1> HIDE DEF l
<1> QED  BY <1>1, <1>2 DEF HeaderAt, l

\* Where a block is in the stream.
LEMMA BlockPlace ==
  ASSUME BlocksFit, StreamIsFramed, NEW k \in 0 .. Len(blocks) - 1, NEW b, b = blocks[k + 1]
  PROVE  LET at   == Len(Lead(blocks, k))
             head == Len(HeaderCells(b))
             data == ItemsCells(b.items)
         IN  /\ b \in BlockSet /\ at \in Nat /\ head \in 1 .. 2
             /\ Agrees(at, HeaderCells(b)) /\ Agrees(at + head, data)
             /\ Len(Lead(blocks, k + 1)) = at + head + Len(data)
             /\ Len(Lead(blocks, k + 1)) < Len(Framed(blocks))
<1> DEFINE n    == Len(blocks)
           lead == Lead(blocks, k)
           all  == Lead(blocks, n)
           data == ItemsCells(b.items)
           head == HeaderCells(b)
           cells == BlockCells(b)
           more  == Lead(blocks, k + 1)
           mark == << 0 >>
<1>1. blocks \in Seq(BlockSet) /\ n \in Nat /\ b \in BlockSet /\ k \in 0 .. n /\ k + 1 \in 0 .. n
      /\ n \in 0 .. n /\ stream \in Seq(Int)
  BY DEF BlocksFit, StreamIsFramed
<1>2. data \in Seq(Int) /\ head \in Seq(Int) /\ Len(head) \in 1 .. 2 /\ cells = head \o data
      /\ Len(data) \in Nat
  BY <1>1, HeaderCellsFacts
<1>3. lead \in Seq(Int) /\ all \in Seq(Int) /\ Framed(blocks) = all \o mark /\ mark \in Seq(Int)
      /\ more \in Seq(Int)
  BY <1>1, LeadFacts
<1>4. more = lead \o cells
  BY <1>1, LeadFacts
<1>5. PICK rest \in Seq(Int) : all = more \o rest
  BY <1>1, LeadFacts DEF Begins
<1>6. Agrees(0, Framed(blocks))
  <2> HIDE DEF n, lead, all, data, head, cells, more, mark
  <2>1. \A j \in 1 .. Len(Framed(blocks)) : j <= Len(stream) => stream[j] = Framed(blocks)[j]
    <3>1. Len(stream) \in Nat /\ Framed(blocks) \in Seq(Int)
      BY <1>1, <1>3
    <3> QED  BY <3>1 DEF StreamIsFramed
  <2> QED  BY <2>1 DEF Agrees
<1>7. Len(mark) = 1
  OBVIOUS
<1> HIDE DEF n, lead, all, data, head, cells, more, mark
<1>8. Agrees(0, all)
  BY <1>1, <1>3, <1>6, AgreesSplit
<1>9. Agrees(0, more)
  BY <1>1, <1>3, <1>5, <1>8, AgreesSplit
<1>10. cells \in Seq(Int)
  BY <1>2
<1>11. Agrees(Len(lead), cells) /\ Len(lead) \in Nat
  <2>1. Agrees(0 + Len(lead), cells) /\ Len(lead) \in Nat
    BY <1>1, <1>3, <1>4, <1>9, <1>10, AgreesSplit
  <2> QED  BY <2>1
<1>12. Agrees(Len(lead), head) /\ Agrees(Len(lead) + Len(head), data)
  BY <1>1, <1>2, <1>11, AgreesSplit
<1>13. Len(more) = Len(lead) + Len(head) + Len(data)
  <2>1. Len(lead \o cells) = Len(lead) + Len(cells)
    BY <1>3, <1>10, ConcatProperties
  <2>2. Len(head \o data) = Len(head) + Len(data)
    BY <1>2, ConcatProperties
  <2> QED  BY <1>2, <1>4, <1>11, <2>1, <2>2
<1>14. Len(more) < Len(Framed(blocks))
  <2>1. Len(all \o mark) = Len(all) + 1
    <3>1. Len(all \o mark) = Len(all) + Len(mark)
      BY <1>3, ConcatProperties
    <3> QED  BY <1>7, <3>1
  <2>2. Len(more \o rest) = Len(more) + Len(rest) /\ Len(rest) \in Nat /\ Len(more) \in Nat
    BY <1>3, <1>5, ConcatProperties
  <2> QED  BY <1>3, <1>5, <2>1, <2>2
<1> QED  BY <1>1, <1>2, <1>11, <1>12, <1>13, <1>14 DEF lead, data, head, more

\* Where an item of a block is.
LEMMA ItemPlace ==
  ASSUME BlocksFit, StreamIsFramed, NEW k \in 0 .. Len(blocks) - 1, NEW b, b = blocks[k + 1],
         NEW i \in 0 .. Len(b.items) - 1
  PROVE  LET base == Len(Lead(blocks, k)) + Len(HeaderCells(b))
             at   == base + Len(ItemsCells(SubSeq(b.items, 1, i)))
             item == b.items[i + 1]
         IN  /\ at \in Nat /\ item \in Items /\ Len(item) = width
             /\ Agrees(at, ItemCells(item))
             /\ at + Len(ItemCells(item)) = base + Len(ItemsCells(SubSeq(b.items, 1, i + 1)))
             /\ at + Len(ItemCells(item)) <= Len(Lead(blocks, k + 1))
<1> DEFINE all  == b.items
           base == Len(Lead(blocks, k)) + Len(HeaderCells(b))
           data == ItemsCells(all)
           got  == ItemsCells(SubSeq(all, 1, i))
           more == ItemsCells(SubSeq(all, 1, i + 1))
           cells == ItemCells(all[i + 1])
           end  == Len(Lead(blocks, k + 1))
<1>1. b \in BlockSet /\ base \in Nat /\ Agrees(base, data) /\ end = base + Len(data)
  BY BlockPlace, SMTT(30)
<1>2. all \in Seq(Items) /\ i \in 0 .. Len(all) /\ i + 1 \in 0 .. Len(all) /\ i + 1 \in 1 .. Len(all)
      /\ k + 1 \in 1 .. Len(blocks)
  <2>1. all \in Seq(Items) /\ k + 1 \in 1 .. Len(blocks)
    BY <1>1, HeaderCellsFacts DEF BlocksFit
  <2>2. Len(all) \in Nat
    BY <2>1
  <2> QED  BY <2>1, <2>2
<1>3. all[i + 1] \in Items /\ Len(all[i + 1]) = width
  BY <1>2 DEF BlocksFit
<1>4. stream \in Seq(Int)
  BY DEF StreamIsFramed
<1>5. data \in Seq(Int) /\ got \in Seq(Int) /\ more \in Seq(Int) /\ cells \in Seq(Int)
  BY <1>2, <1>3, ItemsCellsFacts, ItemsCellsType, ItemCellsType
<1>6. more = got \o cells
  BY <1>2, ItemsCellsFacts
<1>7. PICK rest \in Seq(Int) : data = more \o rest
  BY <1>2, ItemsCellsFacts DEF Begins
<1> HIDE DEF base, data, got, more, cells, end
<1>8. Agrees(base, more)
  BY <1>1, <1>4, <1>5, <1>7, AgreesSplit
<1>9. Agrees(base + Len(got), cells)
  BY <1>1, <1>4, <1>5, <1>6, <1>8, AgreesSplit
<1>10. Len(more) = Len(got) + Len(cells) /\ Len(data) = Len(more) + Len(rest)
  <2>1. Len(got \o cells) = Len(got) + Len(cells) /\ Len(more \o rest) = Len(more) + Len(rest)
    BY <1>5, <1>7, ConcatProperties
  <2> QED  BY <1>6, <1>7, <2>1
<1>11. Len(got) \in Nat /\ Len(cells) \in Nat /\ Len(rest) \in Nat /\ Len(more) \in Nat
  BY <1>5, <1>7
<1>12. base + Len(got) \in Nat /\ base + Len(got) + Len(cells) = base + Len(more)
       /\ base + Len(got) + Len(cells) <= end
  BY <1>1, <1>10, <1>11
<1> QED  BY <1>3, <1>9, <1>12 DEF base, got, more, cells, end

\* The end mark follows the last block.
LEMMA MarkPlace ==
  ASSUME BlocksFit, StreamIsFramed
  PROVE  LET at == Len(Lead(blocks, Len(blocks)))
         IN  at \in Nat /\ Agrees(at, << 0 >>) /\ Len(Framed(blocks)) = at + 1
<1> DEFINE all  == Lead(blocks, Len(blocks))
           mark == << 0 >>
<1>1. blocks \in Seq(BlockSet) /\ stream \in Seq(Int) /\ Len(blocks) \in 0 .. Len(blocks)
  BY DEF BlocksFit, StreamIsFramed
<1>2. all \in Seq(Int) /\ Framed(blocks) = all \o mark
  BY <1>1, LeadFacts
<1>3. mark \in Seq(Int) /\ Len(mark) = 1
  OBVIOUS
<1> HIDE DEF all, mark
<1>4. Framed(blocks) \in Seq(Int) /\ Len(stream) \in Nat
  BY <1>1, <1>2, <1>3
<1>5. Agrees(0, all \o mark)
  <2>1. \A j \in 1 .. Len(Framed(blocks)) : 0 + j <= Len(stream) => stream[0 + j] = Framed(blocks)[j]
    BY <1>4 DEF StreamIsFramed
  <2> QED  BY <1>2, <2>1 DEF Agrees
<1>6. Agrees(0 + Len(all), mark) /\ Len(all) \in Nat
  BY <1>1, <1>2, <1>3, <1>5, AgreesSplit
<1>7. Len(all \o mark) = Len(all) + 1
  <2>1. Len(all \o mark) = Len(all) + Len(mark)
    BY <1>2, <1>3, ConcatProperties
  <2> QED  BY <1>3, <2>1
<1> QED  BY <1>2, <1>6, <1>7 DEF all, mark

\* What is read stays as it is.
LEMMA StreamStays ==
  ASSUME BlocksFit, StreamIsFramed, UNCHANGED << width, stream, blocks, input >>
  PROVE  BlocksFit' /\ StreamIsFramed'
BY DEF BlocksFit, StreamIsFramed

\* A stream that is not cut holds all blocks and the end mark.
LEMMA WholeLength ==
  ASSUME BlocksFit, StreamIsFramed, input = "whole"
  PROVE  Len(Framed(blocks)) <= Len(stream)
<1>1. Len(Rest) \in Nat
  BY FramingAssumption
<1>2. Len(Framed(blocks)) \in Nat
  BY MarkPlace
<1> QED  BY <1>1, <1>2 DEF StreamIsFramed

\* Failing is right when the stream was cut or the items are too many.
LEMMA ReaderFails ==
  ASSUME ReaderInv, Fail, UNCHANGED << blocks, input >>, input = "whole" => ~Fits
  PROVE  ReaderInv'
<1>1. failed' = TRUE /\ pc' = "done" /\ UNCHANGED << op, width, stream, blocks, input >>
  BY DEF Fail
<1>2. BlocksFit' /\ StreamIsFramed'
  BY <1>1, StreamStays DEF ReaderInv
<1>3. Fits' <=> Fits
  BY <1>1 DEF Fits
<1> QED  BY <1>1, <1>2, <1>3 DEF ReaderInv

\* Before a block its header is read; behind the last block, the end mark.
LEMMA HeaderHere ==
  ASSUME ReaderInv, NEW k \in 0 .. Len(blocks), BeforeBlock(k)
  PROVE  /\ pos \in Nat
         /\ k < Len(blocks) =>
              LET b == blocks[k + 1]
              IN  /\ HeaderAt(pos).ok =>
                       /\ HeaderAt(pos).l = Len(b.items)
                       /\ HeaderAt(pos).next = pos + Len(HeaderCells(b))
                       /\ HeaderAt(pos).size = IF b.sized THEN Len(ItemsCells(b.items)) ELSE 0
                  /\ Len(b.items) \in Nat \ {0}
         /\ k = Len(blocks) /\ HeaderAt(pos).ok =>
              /\ HeaderAt(pos).l = 0 /\ HeaderAt(pos).next = Len(Framed(blocks))
              /\ Len(Framed(blocks)) <= Len(stream)
         /\ input = "whole" => HeaderAt(pos).ok
<1>1. BlocksFit /\ StreamIsFramed /\ stream \in Seq(Int) /\ Len(stream) \in Nat /\ Len(blocks) \in Nat
  BY DEF ReaderInv, StreamIsFramed, BlocksFit
<1>2. pos = Len(Lead(blocks, k))
  BY DEF BeforeBlock
<1>3. CASE k < Len(blocks)
  <2> DEFINE b == blocks[k + 1]
  <2>1. k \in 0 .. Len(blocks) - 1 /\ k + 1 \in 1 .. Len(blocks)
    BY <1>1, <1>3
  <2>2. b \in BlockSet /\ pos \in Nat /\ Len(HeaderCells(b)) \in 1 .. 2 /\ Agrees(pos, HeaderCells(b))
        /\ Len(Lead(blocks, k + 1)) = pos + Len(HeaderCells(b)) + Len(ItemsCells(b.items))
        /\ Len(Lead(blocks, k + 1)) < Len(Framed(blocks))
    BY <1>1, <1>2, <2>1, BlockPlace
  <2>3. Len(b.items) \in 1 .. MaxLong
    BY <1>1, <2>1 DEF BlocksFit
  <2>4. Len(b.items) \in Nat \ {0}
    BY <2>3, ReaderAssumption
  <2>5. Len(ItemsCells(b.items)) \in Nat /\ Len(Framed(blocks)) \in Nat
    BY <1>1, <2>2, HeaderCellsFacts, MarkPlace
  <2> HIDE DEF b
  <2>6. /\ HeaderAt(pos).ok =>
             /\ HeaderAt(pos).l = Len(b.items)
             /\ HeaderAt(pos).next = pos + Len(HeaderCells(b))
             /\ HeaderAt(pos).size = IF b.sized THEN Len(ItemsCells(b.items)) ELSE 0
        /\ pos + Len(HeaderCells(b)) <= Len(stream) => HeaderAt(pos).ok
    BY <1>1, <2>2, <2>3, HeaderRead
  <2>7. input = "whole" => HeaderAt(pos).ok
    <3> SUFFICES ASSUME input = "whole" PROVE HeaderAt(pos).ok
      OBVIOUS
    <3>1. Len(Framed(blocks)) <= Len(stream)
      BY <1>1, WholeLength
    <3>2. pos + Len(HeaderCells(b)) <= Len(stream)
      BY <1>1, <2>2, <2>5, <3>1
    <3> QED  BY <2>6, <3>2
  <2> QED  BY <1>3, <2>2, <2>4, <2>6, <2>7 DEF b
<1>4. CASE k = Len(blocks)
  <2>1. pos \in Nat /\ Agrees(pos, << 0 >>) /\ Len(Framed(blocks)) = pos + 1
    BY <1>1, <1>2, <1>4, MarkPlace
  <2>2. /\ HeaderAt(pos).ok => HeaderAt(pos).l = 0 /\ HeaderAt(pos).next = pos + 1 /\ pos + 1 <= Len(stream)
        /\ pos + 1 <= Len(stream) => HeaderAt(pos).ok
    BY <1>1, <2>1, MarkRead
  <2>3. input = "whole" => Len(Framed(blocks)) <= Len(stream)
    BY <1>1, WholeLength
  <2> QED  BY <1>4, <2>1, <2>2, <2>3
<1> QED  BY <1>1, <1>3, <1>4

\* The items of one more block are more by its count, and no more than all.
LEMMA ItemsUpToGrow ==
  ASSUME BlocksFit, NEW k \in 0 .. Len(blocks) - 1
  PROVE  /\ Len(ItemsUpTo(blocks, k)) \in Nat /\ Len(ItemsUpTo(blocks, k + 1)) \in Nat
         /\ Len(ItemsUpTo(blocks, k + 1)) = Len(ItemsUpTo(blocks, k)) + Len(blocks[k + 1].items)
         /\ Len(ItemsUpTo(blocks, k + 1)) <= Len(ItemsOf(blocks)) /\ Len(ItemsOf(blocks)) \in Nat
<1> DEFINE got  == ItemsUpTo(blocks, k)
           more == ItemsUpTo(blocks, k + 1)
           its  == blocks[k + 1].items
           all  == ItemsOf(blocks)
<1>1. blocks \in Seq(BlockSet) /\ k \in 0 .. Len(blocks) /\ k + 1 \in 0 .. Len(blocks)
      /\ k + 1 \in 1 .. Len(blocks)
  BY DEF BlocksFit
<1>2. its \in Seq(Items)
  <2>1. blocks[k + 1] \in BlockSet
    BY <1>1
  <2> QED  BY <2>1, HeaderCellsFacts
<1>3. got \in Seq(Items) /\ more \in Seq(Items) /\ more = got \o its
  BY <1>1, ItemsUpToFacts
<1>4. PICK rest \in Seq(Items) : all = more \o rest
  BY <1>1, ItemsUpToFacts DEF Begins
<1> HIDE DEF got, more, its, all
<1>5. Len(got \o its) = Len(got) + Len(its) /\ Len(more \o rest) = Len(more) + Len(rest)
  BY <1>2, <1>3, <1>4, ConcatProperties
<1>6. Len(got) \in Nat /\ Len(its) \in Nat /\ Len(more) \in Nat /\ Len(rest) \in Nat
  BY <1>2, <1>3, <1>4
<1>7. /\ Len(got) \in Nat /\ Len(more) \in Nat
      /\ Len(more) = Len(got) + Len(its)
      /\ Len(more) <= Len(all) /\ Len(all) \in Nat
  BY <1>3, <1>4, <1>5, <1>6
<1> QED  BY <1>7 DEF got, more, its, all

\* A header cannot be read only where the stream was cut.
LEMMA ReadsBadHeader ==
  ASSUME ReaderInv, BadHeader, UNCHANGED << blocks, input >>
  PROVE  ReaderInv'
<1>1. PICK k \in 0 .. Len(blocks) : BeforeBlock(k)
  BY DEF BadHeader, ReaderInv
<1>2. input # "whole"
  BY <1>1, HeaderHere DEF BadHeader
<1> QED  BY <1>2, ReaderFails DEF BadHeader

\* The end mark is read behind the last block, with all items read.
LEMMA ReadsEndMark ==
  ASSUME ReaderInv, EndMark, UNCHANGED << blocks, input >>, input \in {"whole", "cut"}
  PROVE  ReaderInv'
<1>1. PICK k \in 0 .. Len(blocks) : BeforeBlock(k)
  BY DEF EndMark, ReaderInv
<1>2. BlocksFit /\ StreamIsFramed /\ Len(blocks) \in Nat
  BY DEF ReaderInv, BlocksFit
<1>3. HeaderAt(pos).ok /\ HeaderAt(pos).l = 0 /\ pos' = HeaderAt(pos).next /\ pc' = "done"
      /\ UNCHANGED << op, width, stream, total, left, out, failed, blocks, input >>
  BY DEF EndMark
<1>4. k = Len(blocks)
  <2>1. k < Len(blocks) => HeaderAt(pos).l \in Nat \ {0}
    BY <1>1, <1>3, HeaderHere
  <2> QED  BY <1>2, <1>3, <2>1
<1>5. pos' = Len(Framed(blocks)) /\ Len(Framed(blocks)) <= Len(stream)
  BY <1>1, <1>3, <1>4, HeaderHere
<1>6. input = "whole"
  <2>1. Len(Framed(blocks)) \in Nat /\ Len(stream) \in Nat
    BY <1>2, MarkPlace DEF StreamIsFramed
  <2> QED  BY <1>2, <1>5, <2>1 DEF StreamIsFramed
<1>7. out = (IF op = "skip" THEN << >> ELSE ItemsOf(blocks)) /\ Fits
  <2>1. ItemsOf(blocks) = ItemsUpTo(blocks, k)
    BY <1>2, <1>4, ItemsUpToFacts DEF BlocksFit
  <2> QED  BY <1>1, <2>1 DEF BeforeBlock, HasRead, Fits
<1>8. AtTheEnd'
  BY <1>3, <1>5, <1>6, <1>7 DEF AtTheEnd, Fits
<1>9. BlocksFit' /\ StreamIsFramed'
  BY <1>2, <1>3, StreamStays
<1>10. ~failed
  BY DEF ReaderInv, EndMark
<1> QED  BY <1>3, <1>8, <1>9, <1>10 DEF ReaderInv

\* The limit stops a reader only if all blocks hold more items than it.
LEMMA ReadsTooMany ==
  ASSUME ReaderInv, HeaderOver, UNCHANGED << blocks, input >>
  PROVE  ReaderInv'
<1>1. PICK k \in 0 .. Len(blocks) : BeforeBlock(k)
  BY DEF HeaderOver, ReaderInv
<1>2. BlocksFit /\ Len(blocks) \in Nat
  BY DEF ReaderInv, BlocksFit
<1>3. HeaderAt(pos).ok /\ HeaderAt(pos).l > 0 /\ op # "skip" /\ HeaderAt(pos).l > MaxItems - total
  BY DEF HeaderOver, OverLimit
<1>4. k \in 0 .. Len(blocks) - 1
  <2>1. k = Len(blocks) => HeaderAt(pos).l = 0
    BY <1>1, <1>3, HeaderHere
  <2> QED  BY <1>2, <1>3, <2>1
<1>5. HeaderAt(pos).l = Len(blocks[k + 1].items) /\ Len(blocks[k + 1].items) \in Nat
  BY <1>1, <1>3, <1>4, HeaderHere
<1>6. total = Len(ItemsUpTo(blocks, k))
  BY <1>1, <1>3 DEF BeforeBlock, HasRead
<1>7. Len(ItemsOf(blocks)) > MaxItems
  <2>1. MaxItems \in Int
    BY ReaderAssumption
  <2> QED  BY <1>2, <1>3, <1>4, <1>5, <1>6, <2>1, ItemsUpToGrow
<1>8. ~Fits
  <2>1. MaxItems \in Int /\ Len(ItemsOf(blocks)) \in Nat
    BY <1>2, <1>4, ItemsUpToGrow, ReaderAssumption
  <2> QED  BY <1>3, <1>7, <2>1 DEF Fits
<1> QED  BY <1>8, ReaderFails DEF HeaderOver

\* Skipping by the size of a block lands behind its last item.
LEMMA ReadsPastBlock ==
  ASSUME ReaderInv, SkipBlock, UNCHANGED << blocks, input >>
  PROVE  ReaderInv'
<1>1. PICK k \in 0 .. Len(blocks) : BeforeBlock(k)
  BY DEF SkipBlock, ReaderInv
<1>2. BlocksFit /\ StreamIsFramed /\ Len(blocks) \in Nat /\ Len(stream) \in Nat
  BY DEF ReaderInv, BlocksFit, StreamIsFramed
<1>3. HeaderAt(pos).ok /\ HeaderAt(pos).l > 0 /\ op = "skip" /\ HeaderAt(pos).size > 0
  BY DEF SkipBlock, Skippable
<1>4. k \in 0 .. Len(blocks) - 1
  <2>1. k = Len(blocks) => HeaderAt(pos).l = 0
    BY <1>1, <1>3, HeaderHere
  <2> QED  BY <1>2, <1>3, <2>1
<1> DEFINE b == blocks[k + 1]
           size == Len(ItemsCells(b.items))
           after == Len(Lead(blocks, k + 1))
<1>5. HeaderAt(pos).next = pos + Len(HeaderCells(b)) /\ pos \in Nat
      /\ HeaderAt(pos).size = IF b.sized THEN size ELSE 0
  BY <1>1, <1>3, <1>4, HeaderHere
<1>6. HeaderAt(pos).size = size
  BY <1>3, <1>5
<1>7. after = pos + Len(HeaderCells(b)) + size /\ Len(HeaderCells(b)) \in Nat /\ size \in Nat
      /\ after < Len(Framed(blocks)) /\ Len(Framed(blocks)) \in Nat
  <2>1. pos = Len(Lead(blocks, k))
    BY <1>1 DEF BeforeBlock
  <2>2. b \in BlockSet /\ Len(Lead(blocks, k)) \in Nat
        /\ after = Len(Lead(blocks, k)) + Len(HeaderCells(b)) + Len(ItemsCells(b.items))
        /\ after < Len(Framed(blocks))
    BY <1>2, <1>4, BlockPlace
  <2>3. Len(HeaderCells(b)) \in 1 .. 2 /\ Len(ItemsCells(b.items)) \in Nat
    BY <2>2, HeaderCellsFacts
  <2>4. Len(Framed(blocks)) \in Nat
    BY <1>2, MarkPlace
  <2> HIDE DEF b, after
  <2> QED  BY <2>1, <2>2, <2>3, <2>4
<1> HIDE DEF b, size, after
<1>8. HeaderAt(pos).next + HeaderAt(pos).size = after
  BY <1>5, <1>6, <1>7
<1>9. CASE HeaderAt(pos).size > Len(stream) - HeaderAt(pos).next
  <2>1. input = "whole" => Len(Framed(blocks)) <= Len(stream)
    BY <1>2, WholeLength
  <2>2. input # "whole"
    BY <1>2, <1>5, <1>6, <1>7, <1>9, <2>1
  <2>3. Fail
    BY <1>9 DEF SkipBlock
  <2> QED  BY <2>2, <2>3, ReaderFails
<1>10. CASE ~(HeaderAt(pos).size > Len(stream) - HeaderAt(pos).next)
  <2>1. pos' = after /\ UNCHANGED << op, width, stream, total, left, out, failed, pc, blocks, input >>
    BY <1>8, <1>10 DEF SkipBlock
  <2>2. k + 1 \in 0 .. Len(blocks)
    BY <1>4
  <2>3. BeforeBlock(k + 1)'
    BY <1>1, <1>3, <2>1 DEF BeforeBlock, HasRead, after
  <2>4. BlocksFit' /\ StreamIsFramed'
    BY <1>2, <2>1, StreamStays
  <2>5. pc' = "header" /\ ~failed
    BY <2>1 DEF SkipBlock, ReaderInv
  <2> QED  BY <2>1, <2>2, <2>3, <2>4, <2>5 DEF ReaderInv
<1> QED  BY <1>9, <1>10

\* Behind the header of a block the reader is at its first item.
LEMMA ReadsHeader ==
  ASSUME ReaderInv, EnterBlock, UNCHANGED << blocks, input >>
  PROVE  ReaderInv'
<1>1. PICK k \in 0 .. Len(blocks) : BeforeBlock(k)
  BY DEF EnterBlock, ReaderInv
<1>2. BlocksFit /\ StreamIsFramed /\ Len(blocks) \in Nat /\ blocks \in Seq(BlockSet)
  BY DEF ReaderInv, BlocksFit
<1>3. HeaderAt(pos).ok /\ HeaderAt(pos).l > 0
  BY DEF EnterBlock
<1>4. k \in 0 .. Len(blocks) - 1
  <2>1. k = Len(blocks) => HeaderAt(pos).l = 0
    BY <1>1, <1>3, HeaderHere
  <2> QED  BY <1>2, <1>3, <2>1
<1> DEFINE b == blocks[k + 1]
           n == Len(b.items)
           got == ItemsUpTo(blocks, k)
<1>5. HeaderAt(pos).l = n /\ n \in Nat \ {0} /\ HeaderAt(pos).next = pos + Len(HeaderCells(b)) /\ pos \in Nat
  BY <1>1, <1>3, <1>4, HeaderHere
<1>6. pos' = pos + Len(HeaderCells(b)) /\ total' = total + n /\ left' = n /\ pc' = "items"
      /\ UNCHANGED << op, width, stream, out, failed, blocks, input >>
  BY <1>5 DEF EnterBlock
<1>7. op = "skip" \/ n <= MaxItems - total
  <2>1. ~(op # "skip" /\ n > MaxItems - total)
    BY <1>5 DEF EnterBlock, OverLimit
  <2>2. op # "skip" => total \in Int
    BY <1>1, <1>2, <1>4, ItemsUpToGrow DEF BeforeBlock, HasRead
  <2> HIDE DEF n
  <2> QED  BY <1>5, <2>1, <2>2, ReaderAssumption
<1>8. pos = Len(Lead(blocks, k)) /\ HasRead(got, Len(got))
  BY <1>1 DEF BeforeBlock
<1>9. SubSeq(b.items, 1, 0) = << >> /\ ItemsCells(SubSeq(b.items, 1, 0)) = << >>
  <2>1. b \in BlockSet
    BY <1>2, <1>4
  <2>2. b.items \in Seq(Items)
    BY <2>1, HeaderCellsFacts
  <2> HIDE DEF b
  <2>3. SubSeq(b.items, 1, 0) \in Seq(Items) /\ Len(SubSeq(b.items, 1, 0)) = 0
    BY <2>2
  <2>4. SubSeq(b.items, 1, 0) = << >>
    BY <2>3, EmptySeq
  <2> QED  BY <2>4, ItemsCellsEmpty
<1>10. got \in Seq(Items) /\ got \o << >> = got
  <2>1. got \in Seq(Items)
    BY <1>2, <1>4, ItemsUpToFacts
  <2> QED  BY <2>1, ConcatEmptySeq
<1>11. Len(got) \in Nat /\ Len(ItemsUpTo(blocks, k + 1)) = Len(got) + n
  BY <1>2, <1>4, ItemsUpToGrow
<1>12. HasRead(got \o << >>, Len(ItemsUpTo(blocks, k + 1)))'
  <2>1. CASE op = "skip"
    BY <1>6, <1>8, <2>1 DEF HasRead
  <2>2. CASE op # "skip"
    <3>1. out = got /\ total = Len(got)
      BY <1>8, <2>2 DEF HasRead
    <3>2. total + n <= MaxItems
      <4> HIDE DEF n, got
      <4> QED  BY <1>5, <1>7, <1>11, <2>2, <3>1, ReaderAssumption
    <3>3. out' = got \o << >> /\ total' = Len(ItemsUpTo(blocks, k + 1)) /\ total' <= MaxItems
      <4> HIDE DEF n, got
      <4> QED  BY <1>6, <1>10, <1>11, <3>1, <3>2
    <3> QED  BY <1>6, <2>2, <3>3 DEF HasRead
  <2> QED  BY <2>1, <2>2
<1>13. left' = n - 0 /\ pos' = Len(Lead(blocks, k)) + Len(HeaderCells(b)) + Len(<< >>)
  <2>1. Len(<< >>) = 0
    OBVIOUS
  <2>2. b \in BlockSet /\ Len(Lead(blocks, k)) \in Nat
    BY <1>2, <1>4, BlockPlace
  <2>3. Len(HeaderCells(b)) \in Nat
    BY <2>2, HeaderCellsFacts
  <2> HIDE DEF n, b
  <2> QED  BY <1>5, <1>6, <1>8, <2>1, <2>2, <2>3
<1>14. BeforeItem(k, 0)'
  BY <1>6, <1>9, <1>12, <1>13 DEF BeforeItem
<1>15. BlocksFit' /\ StreamIsFramed'
  BY <1>2, <1>6, StreamStays
<1>16. 0 \in 0 .. n - 1
  <2> HIDE DEF n
  <2> QED  BY <1>5
<1>17. ~failed
  BY DEF EnterBlock, ReaderInv
<1> QED  BY <1>4, <1>6, <1>14, <1>15, <1>16, <1>17 DEF ReaderInv

\* Before an item, it is read as it is.
LEMMA ItemHere ==
  ASSUME ReaderInv, NEW k \in 0 .. Len(blocks) - 1, NEW i \in 0 .. Len(blocks[k + 1].items) - 1,
         BeforeItem(k, i)
  PROVE  LET all  == blocks[k + 1].items
             base == Len(Lead(blocks, k)) + Len(HeaderCells(blocks[k + 1]))
         IN  /\ all \in Seq(Items)
             /\ ItemAt(pos).ok =>
                  /\ ItemAt(pos).next = base + Len(ItemsCells(SubSeq(all, 1, i + 1)))
                  /\ ItemAt(pos).item = all[i + 1]
             /\ input = "whole" => ItemAt(pos).ok
<1> DEFINE b    == blocks[k + 1]
           all  == b.items
           item == all[i + 1]
           base == Len(Lead(blocks, k)) + Len(HeaderCells(b))
           more == base + Len(ItemsCells(SubSeq(all, 1, i + 1)))
           end  == Len(Lead(blocks, k + 1))
<1>1. BlocksFit /\ StreamIsFramed /\ stream \in Seq(Int) /\ Len(stream) \in Nat /\ width \in 0 .. 2
  BY DEF ReaderInv, StreamIsFramed
<1>2. pos = base + Len(ItemsCells(SubSeq(all, 1, i)))
  BY DEF BeforeItem
<1>3. pos \in Nat /\ item \in Items /\ Len(item) = width /\ Agrees(pos, ItemCells(item))
      /\ pos + Len(ItemCells(item)) = more /\ pos + Len(ItemCells(item)) <= end
  BY <1>1, <1>2, ItemPlace
<1>4. b \in BlockSet /\ end \in Nat /\ end < Len(Framed(blocks)) /\ Len(Framed(blocks)) \in Nat
  <2>1. b \in BlockSet /\ end < Len(Framed(blocks))
    BY <1>1, BlockPlace
  <2>2. k + 1 \in 0 .. Len(blocks) /\ blocks \in Seq(BlockSet)
    BY <1>1 DEF BlocksFit
  <2>3. Lead(blocks, k + 1) \in Seq(Int)
    BY <2>2, LeadFacts
  <2> QED  BY <1>1, <2>1, <2>3, MarkPlace
<1>5. all \in Seq(Items)
  BY <1>4, HeaderCellsFacts
<1> HIDE DEF item, more, end
<1>6. /\ ItemAt(pos).ok => ItemAt(pos).next = pos + Len(ItemCells(item)) /\ ItemAt(pos).item = item
      /\ pos + Len(ItemCells(item)) <= Len(stream) => ItemAt(pos).ok
  BY <1>1, <1>3, ItemRead
<1>7. input = "whole" => ItemAt(pos).ok
  <2>1. input = "whole" => Len(Framed(blocks)) <= Len(stream)
    BY <1>1, WholeLength
  <2>2. Len(ItemCells(item)) \in Nat
    <3>1. ItemCells(item) \in Seq(Int)
      BY <1>3, ItemCellsType
    <3> QED  BY <3>1
  <2> QED  BY <1>1, <1>3, <1>4, <1>6, <2>1, <2>2
<1> QED  BY <1>3, <1>5, <1>6, <1>7 DEF item, more

\* An item cannot be read only where the stream was cut.
LEMMA ReadsBadItem ==
  ASSUME ReaderInv, BadItem, UNCHANGED << blocks, input >>
  PROVE  ReaderInv'
<1>1. PICK k \in 0 .. Len(blocks) - 1 :
        \E i \in 0 .. Len(blocks[k + 1].items) - 1 : BeforeItem(k, i)
  BY DEF BadItem, ReaderInv
<1>2. PICK i \in 0 .. Len(blocks[k + 1].items) - 1 : BeforeItem(k, i)
  BY <1>1
<1>3. input # "whole"
  BY <1>2, ItemHere DEF BadItem
<1> QED  BY <1>3, ReaderFails DEF BadItem

\* Behind an item the reader is at the next one, or behind the block.
LEMMA ReadsItem ==
  ASSUME ReaderInv, ReadItem, UNCHANGED << blocks, input >>
  PROVE  ReaderInv'
<1>1. PICK k \in 0 .. Len(blocks) - 1 :
        \E i \in 0 .. Len(blocks[k + 1].items) - 1 : BeforeItem(k, i)
  BY DEF ReadItem, ReaderInv
<1>2. PICK i \in 0 .. Len(blocks[k + 1].items) - 1 : BeforeItem(k, i)
  BY <1>1
<1> DEFINE all  == blocks[k + 1].items
           n    == Len(all)
           item == all[i + 1]
           base == Len(Lead(blocks, k)) + Len(HeaderCells(blocks[k + 1]))
           got  == SubSeq(all, 1, i)
           more == SubSeq(all, 1, i + 1)
           upto == ItemsUpTo(blocks, k)
           sum  == Len(ItemsUpTo(blocks, k + 1))
<1>3. BlocksFit /\ StreamIsFramed /\ blocks \in Seq(BlockSet) /\ Len(blocks) \in Nat
  BY DEF ReaderInv, BlocksFit
<1>4. all \in Seq(Items) /\ n \in Nat /\ i + 1 \in 1 .. n /\ i \in Nat
  <2>1. all \in Seq(Items)
    BY <1>2, ItemHere
  <2> QED  BY <2>1
<1>5. ItemAt(pos).next = base + Len(ItemsCells(more)) /\ ItemAt(pos).item = item
  BY <1>2, ItemHere DEF ReadItem
<1>6. left = n - i /\ HasRead(upto \o got, sum)
  BY <1>2 DEF BeforeItem
<1>7. pos' = base + Len(ItemsCells(more)) /\ left' = left - 1
      /\ out' = (IF op = "skip" THEN out ELSE Append(out, item))
      /\ UNCHANGED << op, width, stream, total, failed, blocks, input >>
  BY <1>5 DEF ReadItem
<1>8. \/ pc' = IF left = 1 THEN "header" ELSE "items"
      \/ pc' = "stopped"
  BY DEF ReadItem
<1>9. upto \in Seq(Items) /\ got \in Seq(Items) /\ more \in Seq(Items) /\ more = Append(got, item)
      /\ item \in Items
  <2>1. upto \in Seq(Items)
    BY <1>3, ItemsUpToFacts
  <2> HIDE DEF upto
  <2> QED  BY <1>4, <2>1
<1> HIDE DEF got, item, upto, sum
<1>10. Append(upto \o got, item) = upto \o more
  <2>1. upto \o Append(got, item) = Append(upto \o got, item)
    <3> DEFINE a == upto \o Append(got, item)
               c == Append(upto \o got, item)
    <3>1. Len(got) \in Nat /\ Len(upto) \in Nat
      BY <1>9
    <3>2. a \in Seq(Items) /\ Len(a) = Len(upto) + Len(got) + 1
      BY <1>9, <3>1
    <3>3. c \in Seq(Items) /\ Len(c) = Len(upto) + Len(got) + 1
      BY <1>9, <3>1
    <3>4. ASSUME NEW j \in 1 .. Len(upto) + Len(got) + 1 PROVE a[j] = c[j]
      <4> DEFINE g == Append(got, item)
                 u == upto \o got
      <4>1. g \in Seq(Items) /\ Len(g) = Len(got) + 1
        BY <1>9, <3>1
      <4>2. u \in Seq(Items) /\ Len(u) = Len(upto) + Len(got)
        BY <1>9, <3>1
      <4>3. CASE j <= Len(upto)
        <5>1. a[j] = upto[j] /\ u[j] = upto[j]
          BY <1>9, <3>1, <4>1, <4>3
        <5>2. c[j] = u[j]
          BY <3>1, <4>2, <4>3
        <5> QED  BY <5>1, <5>2
      <4>4. CASE j > Len(upto) /\ j <= Len(upto) + Len(got)
        <5> DEFINE i2 == j - Len(upto)
        <5>1. i2 \in 1 .. Len(got)
          BY <3>1, <4>4
        <5>2. a[j] = g[i2] /\ u[j] = got[i2]
          BY <1>9, <3>1, <4>1, <4>4
        <5>3. g[i2] = got[i2]
          BY <1>9, <5>1
        <5>4. c[j] = u[j]
          BY <3>1, <4>2, <4>4
        <5> QED  BY <5>2, <5>3, <5>4
      <4>5. CASE j = Len(upto) + Len(got) + 1
        <5>1. a[j] = g[Len(got) + 1]
          BY <1>9, <3>1, <4>1, <4>5
        <5>2. g[Len(got) + 1] = item
          BY <1>9, <3>1
        <5>3. c[j] = item
          BY <1>9, <3>1, <4>2, <4>5
        <5> QED  BY <5>1, <5>2, <5>3
      <4> QED  BY <3>1, <4>3, <4>4, <4>5, SMTT(30)
    <3> HIDE DEF a, c
    <3>5. a = c
      BY <3>2, <3>3, <3>4, SeqEqual
    <3> QED  BY <3>5 DEF a, c
  <2> QED  BY <1>9, <2>1
<1>11. HasRead(upto \o more, sum)'
  <2> HIDE DEF more
  <2>1. out' = (IF op = "skip" THEN << >> ELSE upto \o more)
    BY <1>6, <1>7, <1>10 DEF HasRead
  <2>2. op # "skip" => total = sum /\ sum <= MaxItems
    BY <1>6 DEF HasRead
  <2>3. CASE op = "skip"
    BY <1>7, <2>1, <2>3 DEF HasRead
  <2>4. CASE op # "skip"
    <3>1. out' = upto \o more /\ total' = total /\ op' = op /\ total = sum /\ sum <= MaxItems
      BY <1>7, <2>1, <2>2, <2>4
    <3>2. upto' = upto /\ more' = more /\ sum' = sum
      BY <1>7 DEF upto, more, sum
    <3> HIDE DEF upto, more, sum
    <3>3. out' = (upto \o more)' /\ total' = sum'
      BY <3>1, <3>2
    <3> QED  BY <3>1, <3>2, <3>3, <2>4 DEF HasRead
  <2> QED  BY <2>3, <2>4
<1>12. BlocksFit' /\ StreamIsFramed'
  BY <1>3, <1>7, StreamStays
<1>13. ~failed
  BY DEF ReadItem, ReaderInv
<1>14. CASE left = 1
  <2>1. i + 1 = n /\ left' = 0
    BY <1>4, <1>6, <1>7, <1>14
  <2>2. more = all
    BY <1>4, <2>1
  <2>3. k + 1 \in 0 .. Len(blocks)
    BY <1>3
  <2>4. Len(Lead(blocks, k + 1)) = base + Len(ItemsCells(all))
    BY <1>3, BlockPlace
  <2>5. ItemsUpTo(blocks, k + 1) = upto \o all
    BY <1>3, ItemsUpToFacts DEF upto
  <2>6. BeforeBlock(k + 1)'
    <3>1. HasRead(ItemsUpTo(blocks, k + 1), Len(ItemsUpTo(blocks, k + 1)))'
      <4>1. (upto \o more)' = ItemsUpTo(blocks, k + 1)'
        <5>1. upto' = upto /\ more' = more
          BY <1>7 DEF upto, more
        <5>2. ItemsUpTo(blocks, k + 1)' = ItemsUpTo(blocks, k + 1)
          BY <1>7
        <5>3. (upto \o more)' = upto \o more
          BY <5>1
        <5> QED  BY <2>2, <2>5, <5>2, <5>3
      <4>2. sum' = Len(ItemsUpTo(blocks, k + 1))'
        BY DEF sum
      <4> DEFINE u == upto \o more
      <4>3. HasRead(u, sum)'
        BY <1>11
      <4> QED  BY <4>1, <4>2, <4>3
    <3>2. pos' = Len(Lead(blocks, k + 1))
      BY <1>7, <2>2, <2>4
    <3> QED  BY <1>7, <2>1, <3>1, <3>2 DEF BeforeBlock
  <2>7. pc' \in {"header", "stopped"}
    BY <1>8, <1>14
  <2> QED  BY <1>7, <1>12, <1>13, <2>3, <2>6, <2>7 DEF ReaderInv
<1>15. CASE left # 1
  <2>1. i + 1 \in 0 .. n - 1 /\ left' = n - (i + 1)
    BY <1>4, <1>6, <1>7, <1>15
  <2>2. BeforeItem(k, i + 1)'
    BY <1>7, <1>11, <2>1 DEF BeforeItem, upto, sum
  <2>3. pc' \in {"items", "stopped"}
    BY <1>8, <1>15
  <2> QED  BY <1>7, <1>12, <1>13, <2>1, <2>2, <2>3 DEF ReaderInv
<1> QED  BY <1>14, <1>15

\* No step of the encoder breaks what is known of its memory.
LEMMA WriterStep ==
  ASSUME WriterInv, W!Next
  PROVE  WriterInv'
BY WriterBegins, WriterTakes, WriterFails, WriterEndsBlock, WriterEndsArray DEF W!Next

\* No step of a reader leaves the blocks.
LEMMA ReaderStep ==
  ASSUME ReaderInv, Next, UNCHANGED << blocks, input >>, input \in {"whole", "cut"}
  PROVE  ReaderInv'
BY ReadsBadHeader, ReadsEndMark, ReadsTooMany, ReadsPastBlock, ReadsHeader, ReadsItem, ReadsBadItem
   DEF Next

\* A reader that starts on framed blocks.
LEMMA ReaderStarts ==
  (op \in Ops /\ width \in 0 .. 2 /\ Start(op, width, stream) /\ BlocksFit /\ StreamIsFramed)
    => ReaderInv
<1> SUFFICES ASSUME op \in Ops, width \in 0 .. 2, Start(op, width, stream), BlocksFit, StreamIsFramed
             PROVE  ReaderInv
  OBVIOUS
<1>1. left = 0 /\ pos = 0 /\ total = 0 /\ out = << >> /\ failed = FALSE /\ pc = "header"
  BY DEF Start
<1>2. blocks \in Seq(BlockSet) /\ Len(blocks) \in Nat /\ 0 \in 0 .. Len(blocks)
  BY DEF BlocksFit
<1>3. Lead(blocks, 0) = << >> /\ ItemsUpTo(blocks, 0) = << >>
  BY <1>2, LeadFacts, ItemsUpToFacts
<1>4. Len(<< >>) = 0 /\ 0 <= MaxItems
  BY ReaderAssumption
<1>5. BeforeBlock(0)
  BY <1>1, <1>3, <1>4 DEF BeforeBlock, HasRead
<1> QED  BY <1>1, <1>2, <1>5 DEF ReaderInv

\* Blocks that others frame are blocks of items as wide as the schema's.
LEMMA FramingFits ==
  ASSUME NEW w \in 0 .. 2, NEW bs \in Framings(w)
  PROVE  /\ bs \in Seq(BlockSet)
         /\ \A k \in 1 .. Len(bs) :
              /\ Len(bs[k].items) \in 1 .. MaxLong
              /\ \A i \in 1 .. Len(bs[k].items) : Len(bs[k].items[i]) = w
<1> DEFINE B == [items : Seq(ItemsOfWidth(w)), sized : BOOLEAN]
<1>1. bs \in Seq(B) /\ \A k \in DOMAIN bs : Len(bs[k].items) \in 1 .. MaxLong
  BY FramingAssumption
<1>2. \A item \in ItemsOfWidth(w) : item \in Items /\ Len(item) = w
  BY WidthFacts
<1>3. ASSUME NEW b \in B
      PROVE  b \in BlockSet /\ \A i \in 1 .. Len(b.items) : Len(b.items[i]) = w
  <2>1. b.items \in Seq(ItemsOfWidth(w)) /\ b.sized \in BOOLEAN /\ b = [items |-> b.items, sized |-> b.sized]
    OBVIOUS
  <2>2. b.items \in Seq(Items) /\ \A i \in 1 .. Len(b.items) : Len(b.items[i]) = w
    <3>1. \A i \in 1 .. Len(b.items) : b.items[i] \in ItemsOfWidth(w)
      BY <2>1
    <3>2. b.items \in [1 .. Len(b.items) -> ItemsOfWidth(w)] /\ Len(b.items) \in Nat
      BY <2>1
    <3>3. ItemsOfWidth(w) \subseteq Items
      BY <1>2
    <3>4. b.items \in [1 .. Len(b.items) -> Items]
      BY <3>2, <3>3
    <3> QED  BY <1>2, <3>1, <3>2, <3>4, SeqDef
  <2> QED  BY <2>1, <2>2 DEF BlockSet
<1> HIDE DEF B
<1>4. bs \in [1 .. Len(bs) -> B] /\ Len(bs) \in Nat /\ DOMAIN bs = 1 .. Len(bs)
  BY <1>1
<1>5. bs \in Seq(BlockSet)
  <2>1. bs \in [1 .. Len(bs) -> BlockSet]
    BY <1>3, <1>4
  <2> QED  BY <1>4, <2>1, SeqDef
<1>6. \A k \in 1 .. Len(bs) : bs[k] \in B
  BY <1>4
<1> QED  BY <1>1, <1>3, <1>4, <1>5, <1>6

\* Every start is one of the three.
LEMMA BlocksStart == BlocksInit => BlocksInv
<1> SUFFICES ASSUME BlocksInit PROVE BlocksInv
  OBVIOUS
<1>1. CASE WritingInit
  <2>1. WriterInv
    BY <1>1, WriterStarts DEF WritingInit
  <2>2. Fresh /\ input = "writing"
    BY <1>1 DEF WritingInit, Fresh, Start
  <2> QED  BY <2>1, <2>2 DEF BlocksInv
<1>2. CASE FramedInit
  <2>1. PICK o \in Ops : \E w \in WidthsOf(o) : \E bs \in Framings(w) :
          /\ blocks = bs
          /\ \/ input = "whole" /\ Start(o, w, Framed(bs) \o Rest)
             \/ input = "cut" /\ \E k \in 0 .. Len(Framed(bs)) - 1 : Start(o, w, SubSeq(Framed(bs), 1, k))
    BY <1>2 DEF FramedInit
  <2>2. PICK w \in WidthsOf(o) : \E bs \in Framings(w) :
          /\ blocks = bs
          /\ \/ input = "whole" /\ Start(o, w, Framed(bs) \o Rest)
             \/ input = "cut" /\ \E k \in 0 .. Len(Framed(bs)) - 1 : Start(o, w, SubSeq(Framed(bs), 1, k))
    BY <2>1
  <2>3. /\ blocks \in Framings(w)
        /\ \/ input = "whole" /\ Start(o, w, Framed(blocks) \o Rest)
           \/ input = "cut" /\ \E k \in 0 .. Len(Framed(blocks)) - 1 : Start(o, w, SubSeq(Framed(blocks), 1, k))
    BY <2>2
  <2>4. w \in 0 .. 2
    BY DEF WidthsOf, Ops
  <2>5. op = o /\ width = w /\ Start(op, width, stream) /\ input \in {"whole", "cut"}
    BY <2>3 DEF Start
  <2>6. BlocksFit
    BY <2>3, <2>4, <2>5, FramingFits DEF BlocksFit
  <2> DEFINE all == Framed(blocks)
  <2>7. all \in Seq(Int) /\ Len(all) \in Nat
    <3>1. Lead(blocks, Len(blocks)) \in Seq(Int) /\ all = Lead(blocks, Len(blocks)) \o << 0 >>
      BY <2>6, LeadFacts DEF BlocksFit
    <3> QED  BY <3>1
  <2>8. Rest \in Seq(Int)
    BY RestType
  <2>9. StreamIsFramed
    <3>1. CASE input = "whole"
      <4>1. stream = all \o Rest
        BY <2>3, <3>1 DEF Start
      <4> HIDE DEF all
      <4>2. stream \in Seq(Int) /\ Len(stream) = Len(all) + Len(Rest)
            /\ \A p \in 1 .. Len(all) : stream[p] = all[p]
        BY <2>7, <2>8, <4>1
      <4> QED  BY <2>7, <3>1, <4>2 DEF StreamIsFramed, all
    <3>2. CASE input = "cut"
      <4>1. PICK k \in 0 .. Len(all) - 1 : stream = SubSeq(all, 1, k)
        BY <2>3, <3>2 DEF Start
      <4> HIDE DEF all
      <4>2. stream \in Seq(Int) /\ Len(stream) = k /\ \A p \in 1 .. k : stream[p] = all[p]
        BY <2>7, <4>1
      <4> QED  BY <2>7, <3>2, <4>2 DEF StreamIsFramed, all
    <3> QED  BY <2>5, <3>1, <3>2
  <2>10. ReaderInv
    BY <2>4, <2>5, <2>6, <2>9, ReaderStarts
  <2> QED  BY <2>5, <2>10 DEF BlocksInv
<1>3. CASE AnyInit
  BY <1>3 DEF AnyInit, BlocksInv
<1> QED  BY <1>1, <1>2, <1>3 DEF BlocksInit

\* What an encoder that ended without error left in its memory.
LEMMA WriterDone ==
  ASSUME WriterInv, wpc = "done", ~wfailed
  PROVE  /\ W!Chunks \in Seq(BlockSet) /\ Framed(W!Chunks) \in Seq(Int)
         /\ SubSeq(memory, 1, len) = W!Before \o Framed(W!Chunks)
         /\ SubSeq(memory, Len(W!Before) + 1, len) = Framed(W!Chunks)
<1> DEFINE bs   == W!Chunks
           all  == Framed(bs)
           lead == Lead(bs, Len(bs))
<1>1. WriterTypes /\ DoneInv /\ memory \in Seq(Int)
  BY DEF WriterInv, WriterTypes
<1>2. bs \in Seq(BlockSet) /\ W!Before \in Seq(Int) /\ Len(W!Before) = 2
  BY <1>1, WriterFacts
<1>3. all \in Seq(Int)
  <2>1. Len(bs) \in 0 .. Len(bs)
    BY <1>2
  <2> HIDE DEF bs
  <2>2. lead \in Seq(Int) /\ all = lead \o << 0 >>
    BY <1>2, <2>1, LeadFacts
  <2> HIDE DEF lead, all
  <2> QED  BY <2>2
<1>4. len = Len(W!Before \o all) /\ Holds(memory, 0, W!Before \o all)
  BY <1>1 DEF DoneInv
<1> HIDE DEF bs, all
<1> DEFINE before == W!Before
<1>5. before \in Seq(Int) /\ Len(before) = 2
  BY <1>2
<1> HIDE DEF before
<1>6. before \o all \in Seq(Int) /\ len = 2 + Len(all) /\ Len(all) \in Nat /\ Len(before \o all) = 2 + Len(all)
  <2>1. Len(before \o all) = Len(before) + Len(all) /\ before \o all \in Seq(Int)
    BY <1>3, <1>5, ConcatProperties
  <2>2. Len(all) \in Nat
    BY <1>3
  <2>3. len = Len(before \o all)
    BY <1>4 DEF before
  <2> QED  BY <1>5, <2>1, <2>2, <2>3
<1>7. SubSeq(memory, 1, len) = before \o all
  <2>1. SubSeq(memory, 0 + 1, 0 + Len(before \o all)) = before \o all
    BY <1>1, <1>4, <1>6, HoldsSub DEF before
  <2>2. 0 + 1 = 1 /\ 0 + Len(before \o all) = len
    BY <1>6
  <2> QED  BY <2>1, <2>2
<1>8. SubSeq(memory, Len(before) + 1, len) = all
  <2>1. Holds(memory, 2, all)
    <3>1. Len(memory) \in Nat /\ Len(before \o all) <= Len(memory)
          /\ \A j \in 1 .. Len(before \o all) : memory[0 + j] = (before \o all)[j]
      BY <1>1, <1>4, <1>6, SMTT(30) DEF Holds, before
    <3>2. ASSUME NEW j \in 1 .. Len(all) PROVE memory[2 + j] = all[j]
      <4>1. 2 + j \in 1 .. Len(before \o all) /\ (before \o all)[2 + j] = all[j]
        BY <1>3, <1>5, <1>6
      <4>2. memory[0 + (2 + j)] = all[j]
        BY <3>1, <4>1
      <4> QED  BY <4>2
    <3> QED  BY <1>6, <3>1, <3>2 DEF Holds
  <2>2. SubSeq(memory, 2 + 1, 2 + Len(all)) = all
    BY <1>1, <1>3, <2>1, HoldsSub
  <2> QED  BY <1>5, <1>6, <2>2
<1> QED  BY <1>2, <1>3, <1>7, <1>8 DEF before, all, bs

\* The blocks of an encoder hold items of one width, and none is too long.
LEMMA ChunksFit ==
  ASSUME WriterTypes, NEW w, items # << >> => w = Len(items[1])
  PROVE  \A k \in 1 .. Len(W!Chunks) :
           /\ Len(W!Chunks[k].items) \in 1 .. MaxLong
           /\ \A i \in 1 .. Len(W!Chunks[k].items) : Len(W!Chunks[k].items[i]) = w
<1> DEFINE n == Len(items)
<1>1. items \in Seq(Items) /\ n \in Nat /\ Len(W!Chunks) = Number(n) /\ Number(n) \in Nat
      /\ sizes \in BOOLEAN /\ items \in Inputs
  BY WriterFacts DEF WriterTypes
<1>2. \A k \in 1 .. n : Len(items[k]) = w
  <2>1. PICK v \in 0 .. 2 : \A k \in 1 .. n : Len(items[k]) = v
    BY <1>1, InputTypes
  <2>2. n # 0 => items # << >> /\ 1 \in 1 .. n
    BY <1>1
  <2> QED  BY <1>1, <2>1, <2>2
<1> TAKE k \in 1 .. Len(W!Chunks)
<1> DEFINE j     == k - 1
           start == j * BlockLength
           end   == Taken(n, k)
           chunk == SubSeq(items, start + 1, end)
<1>3. j \in 0 .. Number(n) - 1 /\ j + 1 = k /\ j \in 0 .. Number(n)
  BY <1>1
<1>4. W!Chunks[k].items = chunk
  <2>1. items \in Seq(Seq(Seq(Int)))
    BY <1>1 DEF Items
  <2>2. W!Chunks[j + 1].items = SubSeq(items, j * BlockLength + 1, Taken(n, j + 1))
    <3> HIDE DEF j
    <3> QED  BY <1>1, <1>3, <2>1, ChunksAre
  <2> QED  BY <1>3, <2>2
<1>5. start \in Nat /\ (j + 1) * BlockLength = start + BlockLength /\ start < n
  <2> HIDE DEF j, n
  <2>1. /\ j * BlockLength \in Nat /\ (j + 1) * BlockLength = j * BlockLength + BlockLength
        /\ j + 1 <= Number(n) => j * BlockLength < n
    BY <1>1, <1>3, NumberFacts
  <2> QED  BY <1>1, <1>3, <2>1
<1> HIDE DEF n, start, j
<1>6. BlockLength \in 1 .. MaxLong /\ MaxLong \in Nat
  BY WriterAssumption, ReaderAssumption
<1>7. end \in start + 1 .. n /\ end <= start + BlockLength
  <2>1. k * BlockLength = start + BlockLength
    BY <1>3, <1>5
  <2>2. end = IF k * BlockLength <= n THEN k * BlockLength ELSE n
    BY DEF Taken
  <2> HIDE DEF end
  <2> QED  BY <1>1, <1>5, <1>6, <2>1, <2>2
<1> HIDE DEF end
<1>8. Len(chunk) = end - start /\ \A i \in 1 .. end - start : chunk[i] = items[start + i]
  <2>1. start + 1 \in 1 .. n + 1 /\ end \in start .. n /\ n = Len(items)
    BY <1>1, <1>5, <1>7 DEF n
  <2> QED  BY <1>1, <1>5, <2>1, SubSeqProperties
<1>9. \A i \in 1 .. end - start : start + i \in 1 .. n
  BY <1>1, <1>5, <1>7
<1> HIDE DEF chunk
<1>10. Len(chunk) \in 1 .. MaxLong
  BY <1>1, <1>5, <1>6, <1>7, <1>8
<1> QED  BY <1>2, <1>4, <1>8, <1>9, <1>10

\* The buffer of an encoder that ended without error is a stream of its blocks.
LEMMA Delivers ==
  ASSUME WriterInv, Fresh, NEW o \in Ops, Deliver(o)
  PROVE  ReaderInv' /\ input' = "whole"
<1> DEFINE bs  == W!Chunks
           all == Framed(bs)
<1>1. wpc = "done" /\ ~wfailed /\ op' = o /\ input' = "whole" /\ blocks' = bs
      /\ stream' = SubSeq(memory, Len(W!Before) + 1, len) \o Rest
      /\ width' \in WidthsOf(o) /\ (items # << >> => width' = Len(items[1]))
      /\ UNCHANGED << pos, total, left, out, failed, pc >>
  BY DEF Deliver
<1>2. bs \in Seq(BlockSet) /\ all \in Seq(Int) /\ stream' = all \o Rest
  BY <1>1, WriterDone
<1>3. \A k \in 1 .. Len(bs) :
        /\ Len(bs[k].items) \in 1 .. MaxLong
        /\ \A i \in 1 .. Len(bs[k].items) : Len(bs[k].items[i]) = width'
  BY <1>1, ChunksFit DEF WriterInv
<1> HIDE DEF bs
<1>4. BlocksFit'
  BY <1>1, <1>2, <1>3 DEF BlocksFit
<1>5. StreamIsFramed'
  <2>1. Framed(blocks)' = all
    BY <1>1
  <2> HIDE DEF all
  <2>2. stream' \in Seq(Int) /\ Len(stream') = Len(all) + Len(Rest)
        /\ \A p \in 1 .. Len(all) : stream'[p] = all[p]
    BY <1>2, RestType
  <2>3. Len(all) \in Nat /\ Len(stream') \in Nat
    BY <1>2, <2>2
  <2> QED  BY <1>1, <2>1, <2>2, <2>3 DEF StreamIsFramed
<1>6. (op \in Ops)' /\ (width \in 0 .. 2)'
  BY <1>1 DEF WidthsOf, Ops
<1>7. Start(op, width, stream)'
  BY <1>1 DEF Fresh, Start
<1>8. ReaderInv'
  BY <1>4, <1>5, <1>6, <1>7, ReaderStarts, PTL
<1> QED  BY <1>1, <1>8


\* What is known of the encoder is about its own variables only,
LEMMA WriterStutters ==
  ASSUME WriterInv, UNCHANGED wvars
  PROVE  WriterInv'
<1>1. UNCHANGED << kind, sizes, items, next, memory, len, headerStart, count, wfailed, wpc >>
  BY DEF wvars
<1>2. WriterTypes'
  BY <1>1 DEF WriterInv, WriterTypes
<1>3. W!Chunks' = W!Chunks /\ \A k : Written(k)' = Written(k)
  BY <1>1, ChunksStay
<1>4. BlockInv' <=> BlockInv
  BY <1>1, <1>3 DEF BlockInv
<1>5. ItemsInv' <=> ItemsInv
  BY <1>1, <1>3 DEF ItemsInv
<1>6. DoneInv' <=> DoneInv
  BY <1>1, <1>3 DEF DoneInv
<1> QED  BY <1>1, <1>2, <1>4, <1>5, <1>6 DEF WriterInv

\* and what is known of the reader about the stream and the blocks.
LEMMA ReaderStutters ==
  ASSUME ReaderInv, UNCHANGED vars, UNCHANGED << blocks, input >>
  PROVE  ReaderInv'
<1>1. UNCHANGED << op, width, stream, pos, total, left, out, failed, pc, blocks, input >>
  BY DEF vars
<1>2. BlocksFit' /\ StreamIsFramed'
  BY <1>1, StreamStays DEF ReaderInv
<1>3. \A k : BeforeBlock(k)' <=> BeforeBlock(k)
  BY <1>1 DEF BeforeBlock, HasRead
<1>4. \A k, i : BeforeItem(k, i)' <=> BeforeItem(k, i)
  BY <1>1 DEF BeforeItem, HasRead
<1>5. (AtTheEnd' <=> AtTheEnd) /\ (Fits' <=> Fits)
  BY <1>1 DEF AtTheEnd, Fits
<1> QED  BY <1>1, <1>2, <1>3, <1>4, <1>5 DEF ReaderInv

\* The invariant of encoder and reader joined is inductive.
LEMMA BlocksStep == BlocksInv /\ [BlocksNext]_bvars => BlocksInv'
<1> SUFFICES ASSUME BlocksInv, [BlocksNext]_bvars PROVE BlocksInv'
  OBVIOUS
<1>1. CASE Write
  <2>1. WriterInv /\ Fresh /\ W!Next /\ UNCHANGED << vars, blocks, input >> /\ input = "writing"
    BY <1>1 DEF Write, BlocksInv
  <2>2. WriterInv'
    BY <2>1, WriterStep
  <2>3. Fresh'
    BY <2>1 DEF Fresh, Start, vars
  <2> QED  BY <2>1, <2>2, <2>3 DEF BlocksInv
<1>2. ASSUME NEW o \in Ops, Deliver(o) PROVE BlocksInv'
  <2>1. WriterInv /\ Fresh
    BY <1>2 DEF Deliver, BlocksInv
  <2>2. ReaderInv' /\ input' = "whole"
    BY <1>2, <2>1, Delivers
  <2> QED  BY <2>2 DEF BlocksInv
<1>3. CASE Read
  <2>1. Next /\ UNCHANGED << wvars, blocks, input >> /\ input # "writing"
        /\ input \in {"writing", "whole", "cut", "any"}
    BY <1>3 DEF Read, BlocksInv
  <2>2. CASE input \in {"whole", "cut"}
    <3>1. ReaderInv'
      BY <2>1, <2>2, ReaderStep DEF BlocksInv
    <3> QED  BY <2>1, <2>2, <3>1 DEF BlocksInv
  <2>3. CASE input = "any"
    BY <2>1, <2>3 DEF BlocksInv
  <2> QED  BY <2>1, <2>2, <2>3
<1>4. CASE UNCHANGED bvars
  <2>1. UNCHANGED vars /\ UNCHANGED wvars /\ UNCHANGED << blocks, input >>
    BY <1>4 DEF bvars, vars
  <2>2. input \in {"writing", "whole", "cut", "any"} /\ input' = input
    BY <2>1 DEF BlocksInv
  <2>3. CASE input = "writing"
    <3>1. WriterInv'
      BY <2>1, <2>3, WriterStutters DEF BlocksInv
    <3>2. Fresh'
      BY <2>1, <2>3 DEF BlocksInv, Fresh, Start, vars
    <3> QED  BY <2>2, <2>3, <3>1, <3>2 DEF BlocksInv
  <2>4. CASE input \in {"whole", "cut"}
    <3>1. ReaderInv'
      BY <2>1, <2>4, ReaderStutters DEF BlocksInv
    <3> QED  BY <2>2, <2>4, <3>1 DEF BlocksInv
  <2>5. CASE input = "any"
    BY <2>2, <2>5 DEF BlocksInv
  <2> QED  BY <2>2, <2>3, <2>4, <2>5
<1> QED  BY <1>1, <1>2, <1>3, <1>4 DEF BlocksNext

(***************************************************************************)
(* An array or map encoded without error is in the buffer as the format    *)
(* frames its full blocks, behind what was written before: for every       *)
(* collection, every block length, either setting of the sizes and         *)
(* whatever the memory held (writer.go:189, codec_array.go, codec_map.go). *)
(***************************************************************************)
THEOREM WrittenAlwaysFramed == BlocksSpec => []WrittenIsFramed
<1>1. BlocksInv => WrittenIsFramed
  <2> SUFFICES ASSUME BlocksInv, input = "writing", wpc = "done", ~wfailed
               PROVE  SubSeq(memory, 1, len) = W!Before \o W!Framed(W!Chunks)
    BY DEF WrittenIsFramed, W!WrittenIsFramed
  <2>1. WriterInv
    BY DEF BlocksInv
  <2> QED  BY <2>1, WriterDone, SameFramed
<1> QED  BY BlocksStart, BlocksStep, <1>1, PTL DEF BlocksSpec

(***************************************************************************)
(* Whatever blocks a writer frames, with or without their sizes, reading   *)
(* into a slice or a map, reading through a callback and skipping all end  *)
(* right behind the end mark with the items in order, or fail because they *)
(* are more than the limit; a collection that is cut is never taken for a  *)
(* whole one (codec_array.go, codec_map.go, codec_skip.go,                 *)
(* reader_generic.go).                                                     *)
(***************************************************************************)
THEOREM FramedAlwaysReadsBack == BlocksSpec => []FramedReadsBack
<1>1. BlocksInv => FramedReadsBack
  <2> SUFFICES ASSUME BlocksInv PROVE FramedReadsBack
    OBVIOUS
  <2>1. ASSUME input = "whole", pc = "done"
        PROVE  /\ failed <=> ~Fits
               /\ ~failed => /\ pos = Len(stream) - Len(Rest)
                             /\ out = IF op = "skip" THEN << >> ELSE ItemsOf(blocks)
    <3>1. ReaderInv
      BY <2>1 DEF BlocksInv
    <3>2. BlocksFit /\ StreamIsFramed
      BY <3>1 DEF ReaderInv
    <3>3. Len(stream) = Len(Framed(blocks)) + Len(Rest)
      BY <2>1, <3>2 DEF StreamIsFramed
    <3>4. Len(Framed(blocks)) \in Nat /\ Len(Rest) \in Nat
      BY <3>2, MarkPlace, RestType
    <3>5. Len(Framed(blocks)) = Len(stream) - Len(Rest)
      BY <3>3, <3>4
    <3>6. failed \in BOOLEAN /\ (failed => ~Fits) /\ (~failed => AtTheEnd)
      BY <2>1, <3>1 DEF ReaderInv
    <3> QED  BY <3>5, <3>6 DEF AtTheEnd
  <2>2. ASSUME input = "cut", pc = "done" PROVE failed
    BY <2>2 DEF BlocksInv, ReaderInv, AtTheEnd
  <2> QED  BY <2>1, <2>2 DEF FramedReadsBack
<1> QED  BY BlocksStart, BlocksStep, <1>1, PTL DEF BlocksSpec
==============================================================================
